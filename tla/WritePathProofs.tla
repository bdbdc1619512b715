--------------------------- MODULE WritePathProofs ---------------------------
(***************************************************************************)
(* Theorems about the two parts every write passes on its way to the back  *)
(* end: WriteGuard, whose token has to be confirmed, and CircuitBreaker,   *)
(* which may refuse the call.  They hold for every number of requests,     *)
(* processes and faults, and every threshold, window and cool-down.        *)
(*                                                                         *)
(* The guard: types and the lock; the refinement of WriteToken when Redis  *)
(* is reliable; the price of a fault when it is not.  Then the breaker.    *)
(***************************************************************************)
EXTENDS WriteGuard, CircuitBreaker, FiniteSetTheorems, TLAPS

-----------------------------------------------------------------------------
(* The write guard: types, and what the requests of a token know           *)

\* What confirm and cancel may answer for a record that was read with status
\* s, and what they write.
LEMMA OutcomeOf ==
    ASSUME TypeOK, NEW q \in Requests, NEW s \in Statuses
    PROVE  LET o == Outcome(q, s)
           IN  /\ o.answer \in {"refused", "first", "granted", "cancelled"}
               /\ o.next \in Statuses
               /\ o.answer = "granted" => /\ o.next = "confirmed"
                                          /\ s = IF high THEN "first_confirmed" ELSE s
                                          /\ s \in {"pending", "first_confirmed"}
                                          /\ ~lapsed
               /\ o.answer = "first" => /\ high /\ ~lapsed
                                        /\ s = "pending" /\ o.next = "first_confirmed"
               /\ o.answer = "cancelled" => /\ o.next = "none" /\ ~lapsed
                                            /\ s \notin {"none", "confirmed"}
               /\ o.answer = "refused" => \/ o.next = s
                                          \/ lapsed /\ s # "none" /\ o.next = "none"
<1> DEFINE o == Outcome(q, s)
<1>1. kind[q] \in Kinds
  BY DEF TypeOK
<1>2. CASE s # "none" /\ lapsed
  BY <1>2 DEF Outcome, Statuses
<1>3. CASE ~(s # "none" /\ lapsed) /\ kind[q] = "confirmOther"
  BY <1>3 DEF Outcome
<1>4. CASE ~(s # "none" /\ lapsed) /\ kind[q] = "confirm"
  <2>1. o = ConfirmOutcome(s)
    BY <1>4 DEF Outcome
  <2>2. CASE s \in {"none", "cancelled", "confirmed"}
    BY <1>4, <2>1, <2>2 DEF ConfirmOutcome, Statuses
  <2>3. CASE s = "pending" /\ high
    BY <1>4, <2>1, <2>3 DEF ConfirmOutcome, Statuses
  <2>4. CASE s \notin {"none", "cancelled", "confirmed"} /\ ~(s = "pending" /\ high)
    <3>1. o = [answer |-> "granted", next |-> "confirmed"]
      BY <2>1, <2>4 DEF ConfirmOutcome
    <3> QED
      BY <1>4, <2>4, <3>1 DEF Statuses
  <2> QED
    BY <2>2, <2>3, <2>4
<1>5. CASE ~(s # "none" /\ lapsed) /\ kind[q] = "cancel"
  BY <1>5 DEF Outcome, CancelOutcome, Statuses
<1> QED
  BY <1>1, <1>2, <1>3, <1>4, <1>5 DEF Kinds

\* A save keeps the types, with or without a fault.
LEMMA SaveTyped ==
    ASSUME TypeOK, NEW p \in Procs, NEW alias, NEW object \in Statuses, NEW status \in Statuses,
           SaveAlias(p, alias, object, status)
    PROVE  store' \in Statuses /\ mem' \in [Procs -> Statuses] /\ faults' \in 0..MaxFaults
  BY WriteGuardAssumption DEF TypeOK, SaveAlias, Save, Fault, NoFault

\* Acting on a record keeps them too, and answers the request.
LEMMA ActTyped ==
    ASSUME TypeOK, NEW q \in Requests, NEW s \in Statuses, NEW alias, Act(q, s, alias)
    PROVE  /\ store' \in Statuses /\ mem' \in [Procs -> Statuses] /\ faults' \in 0..MaxFaults
           /\ answer' = [answer EXCEPT ![q] = Outcome(q, s).answer]
           /\ answer' \in [Requests -> Answers]
<1> DEFINE o == Outcome(q, s)
<1>1. /\ o.answer \in {"refused", "first", "granted", "cancelled"}
      /\ o.next \in Statuses
  BY OutcomeOf
<1>2. Object(o.answer, o.next) \in Statuses
  BY <1>1 DEF Object, Statuses
<1>3. proc[q] \in Procs
  BY DEF TypeOK
<1>4. answer' = [answer EXCEPT ![q] = o.answer]
  BY DEF Act
<1>5. CASE o.next = s
  BY <1>1, <1>4, <1>5 DEF Act, NoFault, TypeOK, Answers
<1>6. CASE o.next # s
  <2>1. SaveAlias(proc[q], alias, Object(o.answer, o.next), o.next)
    BY <1>6 DEF Act
  <2>2. store' \in Statuses /\ mem' \in [Procs -> Statuses] /\ faults' \in 0..MaxFaults
    BY <1>1, <1>2, <1>3, <2>1, SaveTyped
  <2> QED
    BY <1>1, <1>4, <2>2 DEF TypeOK, Answers
<1> QED
  BY <1>5, <1>6

\* Where a request is, what it was told and what it has undone agree.
Progress ==
    \A q \in Requests :
        /\ pc[q] \in {"idle", "load", "write"} => answer[q] = "none"
        /\ undone[q] => pc[q] \in {"done", "dead"}
        /\ owns[q] => pc[q] \in {"load", "write", "release"}
        /\ pc[q] \in {"execute", "resetLoad", "resetWrite"} => answer[q] = "granted"

\* Nothing is stored and nobody asks before suspend() has run.
Empty ==
    ~created => /\ store = "none"
                /\ \A p \in Procs : mem[p] = "none"
                /\ \A q \in Requests : pc[q] = "idle"

\* An owner's name is in the lock until it releases it.
OwnerLocks == LockHolds => \A q \in Requests : owns[q] => lock = q

GuardInv == TypeOK /\ Progress /\ Empty /\ OwnerLocks

\* A reset on a record keeps the types; only a written "pending" is undoing.
LEMMA ResetTyped ==
    ASSUME TypeOK, NEW q \in Requests, NEW s \in Statuses, NEW alias, ResetWith(q, s, alias)
    PROVE  /\ TypeOK'
           /\ pc' = [pc EXCEPT ![q] = "done"]
           /\ undone' = undone \/ undone' = [undone EXCEPT ![q] = TRUE]
<1>0. /\ proc[q] \in Procs
      /\ "none" \in Statuses /\ "pending" \in Statuses
      /\ "done" \in PCs
  BY DEF TypeOK, Statuses, PCs
<1>1. store' \in Statuses /\ mem' \in [Procs -> Statuses] /\ faults' \in 0..MaxFaults
  <2>1. CASE s # "none" /\ lapsed
    <3>1. SaveAlias(proc[q], alias, s, "none")
      BY <2>1 DEF ResetWith
    <3> QED
      BY <1>0, <3>1, SaveTyped
  <2>2. CASE ~(s # "none" /\ lapsed) /\ s = "confirmed"
    <3>1. SaveAlias(proc[q], alias, "pending", "pending")
      BY <2>2 DEF ResetWith
    <3> QED
      BY <1>0, <3>1, SaveTyped
  <2>3. CASE ~(s # "none" /\ lapsed) /\ s # "confirmed"
    BY <2>3 DEF ResetWith, NoFault, TypeOK
  <2> QED
    BY <2>1, <2>2, <2>3
<1>2. undone' = undone \/ undone' = [undone EXCEPT ![q] = TRUE]
  BY DEF ResetWith
<1>3. /\ pc' = [pc EXCEPT ![q] = "done"]
      /\ snap' = [snap EXCEPT ![q] = "none"]
      /\ fromMem' = [fromMem EXCEPT ![q] = FALSE]
      /\ UNCHANGED <<redisUp, lock, high, created, lapsed, kind, proc, owns, answer>>
  BY DEF ResetWith, Goto, Forget
<1> QED
  BY <1>0, <1>1, <1>2, <1>3 DEF TypeOK

LEMMA GuardStep == ASSUME GuardInv, [Next]_vars PROVE GuardInv'
<1> USE DEF GuardInv
<1>0. /\ {"idle", "load", "write", "release", "execute", "resetLoad", "resetWrite",
          "done", "dead"} = PCs
      /\ {"none", "pending", "first_confirmed", "confirmed", "cancelled"} = Statuses
      /\ Free \notin Requests
  BY WriteGuardAssumption DEF PCs, Statuses
<1>1. ASSUME NEW p \in Procs, Suspend(p) PROVE GuardInv'
  <2>1. store' \in Statuses /\ mem' \in [Procs -> Statuses] /\ faults' \in 0..MaxFaults
    BY <1>0, <1>1, WriteGuardAssumption DEF Suspend, Save, TypeOK, Fault, NoFault
  <2>2. created' /\ UNCHANGED <<redisUp, lock, high, lapsed, request>>
    BY <1>1 DEF Suspend
  <2> QED
    BY <2>1, <2>2 DEF TypeOK, Progress, Empty, OwnerLocks, request
<1>2. ASSUME NEW p \in Procs, RedisError(p) PROVE GuardInv'
  BY <1>2, WriteGuardAssumption
     DEF RedisError, Fault, TypeOK, Progress, Empty, OwnerLocks, request
<1>3. ASSUME NEW p \in Procs, Restart(p) PROVE GuardInv'
  <2>1. /\ mem' = [mem EXCEPT ![p] = "none"]
        /\ redisUp' = [redisUp EXCEPT ![p] = TRUE]
        /\ faults' \in 0..MaxFaults
        /\ UNCHANGED <<store, lock, high, created, lapsed, kind, proc, snap, fromMem, answer, undone>>
    BY <1>3, WriteGuardAssumption DEF Restart, Fault, TypeOK
  <2>2. /\ pc' \in [Requests -> PCs]
        /\ owns' \in [Requests -> BOOLEAN]
        /\ \A q \in Requests : \/ pc'[q] = pc[q] /\ owns'[q] = owns[q]
                               \/ /\ pc'[q] = "dead" /\ ~owns'[q] /\ pc[q] # "idle"
                               \/ pc'[q] = pc[q] /\ ~owns'[q]
    BY <1>0, <1>3 DEF Restart, TypeOK
  <2> QED
    BY <1>0, <2>1, <2>2 DEF TypeOK, Progress, Empty, OwnerLocks
<1>4. ASSUME NEW q \in Requests, NEW k \in Kinds, Begin(q, k) PROVE GuardInv'
  <2>1. /\ pc[q] = "idle" /\ created
        /\ kind' = [kind EXCEPT ![q] = k]
        /\ UNCHANGED <<store, mem, redisUp, high, created, lapsed, proc, snap, fromMem, undone>>
    BY <1>4 DEF Begin
  <2>2. faults' \in 0..MaxFaults
    BY <1>4, WriteGuardAssumption DEF Begin, Fault, NoFault, TypeOK
  <2>3. \/ /\ lock = Free /\ lock' = q /\ owns' = [owns EXCEPT ![q] = TRUE]
           /\ pc' = [pc EXCEPT ![q] = "load"] /\ UNCHANGED answer
        \/ /\ answer' = [answer EXCEPT ![q] = "busy"]
           /\ pc' = [pc EXCEPT ![q] = "done"] /\ UNCHANGED <<lock, owns>>
        \/ /\ lock' \in {lock, IF lock = Free THEN q ELSE lock}
           /\ pc' = [pc EXCEPT ![q] = "load"] /\ UNCHANGED <<owns, answer>>
    BY <1>4 DEF Begin, LockAvailable, Goto
  <2>4. TypeOK'
    BY <1>0, <2>1, <2>2, <2>3 DEF TypeOK, Answers
  <2>5. Progress'
    BY <2>1, <2>3 DEF Progress, TypeOK
  <2>6. Empty' /\ OwnerLocks'
    BY <1>0, <2>1, <2>3 DEF Empty, OwnerLocks, TypeOK
  <2> QED
    BY <2>4, <2>5, <2>6
<1>5. ASSUME NEW q \in Requests, Load(q) PROVE GuardInv'
  <2>1. /\ UNCHANGED <<record, kind, proc, owns, answer, undone>>
        /\ \/ pc[q] = "load" /\ pc' = [pc EXCEPT ![q] = "write"]
           \/ pc[q] = "resetLoad" /\ pc' = [pc EXCEPT ![q] = "resetWrite"]
    BY <1>5 DEF Load, Goto
  <2>2. /\ snap' \in [Requests -> Statuses] /\ fromMem' \in [Requests -> BOOLEAN]
        /\ faults' \in 0..MaxFaults
    <3>1. store \in Statuses /\ mem[proc[q]] \in Statuses
      BY DEF TypeOK
    <3>2. \E s \in Statuses, b \in BOOLEAN : /\ snap' = [snap EXCEPT ![q] = s]
                                             /\ fromMem' = [fromMem EXCEPT ![q] = b]
      BY <1>5, <3>1 DEF Load
    <3>3. faults' \in 0..MaxFaults
      BY <1>5, WriteGuardAssumption DEF Load, Fault, NoFault, TypeOK
    <3> QED
      BY <3>2, <3>3 DEF TypeOK
  <2> QED
    BY <1>0, <2>1, <2>2 DEF TypeOK, Progress, Empty, OwnerLocks, record
<1>6. ASSUME NEW q \in Requests, Write(q) \/ MemOperation(q) PROVE GuardInv'
  <2>1. PICK s \in Statuses, alias \in BOOLEAN : Act(q, s, alias)
    BY <1>6 DEF Write, MemOperation, TypeOK
  <2>2. /\ store' \in Statuses /\ mem' \in [Procs -> Statuses] /\ faults' \in 0..MaxFaults
        /\ answer' = [answer EXCEPT ![q] = Outcome(q, s).answer]
        /\ answer' \in [Requests -> Answers]
    BY <2>1, ActTyped
  <2>3. /\ pc[q] \in {"write", "load"}
        /\ pc' = [pc EXCEPT ![q] = "release"]
        /\ UNCHANGED <<redisUp, lock, high, created, lapsed, kind, proc, owns, undone>>
        /\ snap' \in [Requests -> Statuses] /\ fromMem' \in [Requests -> BOOLEAN]
    BY <1>0, <1>6 DEF Write, MemOperation, Goto, Forget, TypeOK
  <2>4. TypeOK'
    BY <1>0, <2>2, <2>3 DEF TypeOK
  <2> QED
    BY <2>2, <2>3, <2>4 DEF TypeOK, Progress, Empty, OwnerLocks
<1>7. ASSUME NEW q \in Requests, Release(q) PROVE GuardInv'
  <2>1. /\ lock' = (IF owns[q] /\ redisUp[proc[q]] /\ lock = q THEN Free ELSE lock)
           \/ lock' = lock
        /\ faults' \in 0..MaxFaults
        /\ pc[q] = "release"
        /\ owns' = [owns EXCEPT ![q] = FALSE]
        /\ pc' = [pc EXCEPT ![q] = IF answer[q] = "granted" THEN "execute" ELSE "done"]
        /\ UNCHANGED <<store, mem, redisUp, high, created, lapsed, kind, proc, snap, fromMem,
                       answer, undone>>
    BY <1>7, WriteGuardAssumption DEF Release, Goto, Fault, NoFault, TypeOK
  <2> QED
    BY <1>0, <2>1 DEF TypeOK, Progress, Empty, OwnerLocks
<1>8. ASSUME NEW q \in Requests, Execute(q) PROVE GuardInv'
  BY <1>0, <1>8 DEF Execute, Goto, TypeOK, Progress, Empty, OwnerLocks, record
<1>9. ASSUME NEW q \in Requests, ResetWrite(q) \/ MemReset(q) PROVE GuardInv'
  <2>1. PICK s \in Statuses, alias \in BOOLEAN : ResetWith(q, s, alias)
    BY <1>9 DEF ResetWrite, MemReset, TypeOK
  <2>2. /\ TypeOK' /\ pc' = [pc EXCEPT ![q] = "done"]
        /\ undone' = undone \/ undone' = [undone EXCEPT ![q] = TRUE]
    BY <2>1, ResetTyped
  <2>3. pc[q] # "idle" /\ UNCHANGED <<lock, created, owns, answer>>
    BY <1>9, <2>1 DEF ResetWrite, MemReset, ResetWith
  <2> QED
    BY <1>9, <2>2, <2>3 DEF ResetWrite, MemReset, TypeOK, Progress, Empty, OwnerLocks
<1>10. CASE LockExpire \/ Lapse
  BY <1>10 DEF LockExpire, Lapse, TypeOK, Progress, Empty, OwnerLocks, request
<1>11. CASE Vanish
  BY <1>0, <1>11 DEF Vanish, TypeOK, Progress, Empty, OwnerLocks, request
<1>12. CASE UNCHANGED vars
  BY <1>12 DEF vars, record, request, TypeOK, Progress, Empty, OwnerLocks
<1> QED
  BY <1>1, <1>2, <1>3, <1>4, <1>5, <1>6, <1>7, <1>8, <1>9, <1>10, <1>11, <1>12
     DEF Next, Advance

LEMMA GuardInit == Init => GuardInv
<1> SUFFICES ASSUME Init PROVE GuardInv
  OBVIOUS
<1>1. /\ "none" \in Statuses /\ "none" \in Answers
      /\ "idle" \in PCs /\ "confirm" \in Kinds
      /\ 0 \in 0..MaxFaults
  BY WriteGuardAssumption DEF Statuses, Answers, PCs, Kinds
<1>2. TypeOK
  BY <1>1 DEF Init, TypeOK
<1>3. Progress /\ Empty /\ OwnerLocks
  BY DEF Init, Progress, Empty, OwnerLocks
<1> QED
  BY <1>2, <1>3 DEF GuardInv

\* The type invariant of the guard: statuses, answers and positions stay in
\* their ranges, whichever statement fails.
THEOREM GuardTyping == Spec => []TypeOK
<1>1. GuardInv => TypeOK
  BY DEF GuardInv
<1> QED
  BY <1>1, GuardInit, GuardStep, PTL DEF Spec

\* While operations are faster than their lock, no two of them were told that
\* they have it, although any statement of Redis may fail or take effect
\* without an answer.
THEOREM LockIsExclusive == Spec => []LockExcludes
<1>1. GuardInv => LockExcludes
  BY DEF GuardInv, OwnerLocks, LockExcludes
<1> QED
  BY <1>1, GuardInit, GuardStep, PTL DEF Spec

-----------------------------------------------------------------------------
(* The write guard with a reliable Redis: the locked operations behave like  *)
(* the indivisible ones of WriteToken.                                       *)

\* No statement fails, and operations are faster than their lock.
Reliable == LockHolds /\ Failing = {}

\* The record is in Redis only, and whoever reads or writes it has the lock.
OneStore ==
    /\ \A p \in Procs : redisUp[p] /\ mem[p] = "none"
    /\ \A q \in Requests : /\ ~fromMem[q] /\ snap[q] # "cancelled"
                           /\ pc[q] \in {"load", "write", "release"} => owns[q]
    /\ store # "cancelled"

\* The request that was told to execute and is not done with it.
Busy(q) == answer[q] = "granted" /\ pc[q] \in {"release", "execute", "resetLoad", "resetWrite"}

\* What a request has read is still so when it writes; while somebody is busy
\* with the write, the token is confirmed or has lapsed; a cancelled one is gone.
Indivisible ==
    /\ \A q \in Requests :
          /\ pc[q] = "write" /\ snap[q] \in {"pending", "first_confirmed"} /\ ~lapsed
                => store = snap[q]
          /\ Busy(q) => store = "confirmed" \/ (lapsed /\ store = "none")
          /\ answer[q] = "cancelled" => store = "none"
    /\ \A q, r \in Requests : Busy(q) /\ Busy(r) => q = r
    /\ store = "first_confirmed" => high

TokenInv == GuardInv /\ OneStore /\ Indivisible

\* What every step must be on the level of the token.
Moves       == [Token!Next]_(Token!vars)
NoLateGrant == Answered("cancelled") # {} => Answered("granted")' = Answered("granted")

\* A step that leaves the status and the answers alone is none of the token's.
LEMMA Stutters ==
    ASSUME UNCHANGED <<store, high>>,
           \A q \in Requests : answer'[q] = "granted" <=> answer[q] = "granted"
    PROVE  Moves /\ NoLateGrant
<1>1. Answered("granted")' = Answered("granted")
  BY DEF Answered
<1> QED
  BY <1>1 DEF Moves, NoLateGrant, Token!vars

\* Without failing statements there are no faults, and a save writes to Redis.
LEMMA NoFaults == ASSUME Reliable, NEW what PROVE ~Fault(what)
  BY DEF Reliable, Fault

LEMMA SaveReliable ==
    ASSUME Reliable, OneStore, NEW p \in Procs, NEW object, NEW status,
           SaveAlias(p, FALSE, object, status)
    PROVE  store' = status /\ UNCHANGED mem
  BY NoFaults DEF OneStore, SaveAlias, Save

LEMMA TokenStep ==
    ASSUME Reliable, TokenInv, [Next]_vars
    PROVE  OneStore' /\ Indivisible' /\ Moves /\ NoLateGrant
<1> USE DEF TokenInv, GuardInv
<1>0. \A p \in Procs : redisUp[p]
  BY DEF OneStore
<1>1. ASSUME NEW p \in Procs, Suspend(p)
      PROVE  OneStore' /\ Indivisible' /\ Moves /\ NoLateGrant
  <2>1. /\ store = "none" /\ store' = "pending"
        /\ UNCHANGED <<mem, redisUp, high, lapsed, request>>
        /\ \A q \in Requests : pc[q] = "idle" /\ answer[q] = "none"
    BY <1>0, <1>1, NoFaults DEF Suspend, Save, Empty, Progress
  <2>2. OneStore' /\ Indivisible'
    BY <2>1 DEF OneStore, Indivisible, Busy, request
  <2>3. Answered("granted") = {} /\ Answered("granted")' = {}
    BY <2>1 DEF Answered, request
  <2> QED
    BY <2>1, <2>2, <2>3 DEF Moves, NoLateGrant, Token!Next, Token!Suspend
<1>2. ASSUME NEW p \in Procs, RedisError(p) \/ Restart(p)
      PROVE  FALSE
  BY <1>2, NoFaults DEF RedisError, Restart
<1>3. ASSUME NEW q \in Requests, NEW k \in Kinds, Begin(q, k)
      PROVE  OneStore' /\ Indivisible' /\ Moves /\ NoLateGrant
  <2>1. /\ pc[q] = "idle" /\ answer[q] = "none"
        /\ UNCHANGED <<store, mem, redisUp, high, lapsed, snap, fromMem>>
        /\ \/ /\ owns' = [owns EXCEPT ![q] = TRUE]
              /\ pc' = [pc EXCEPT ![q] = "load"] /\ UNCHANGED answer
           \/ /\ answer' = [answer EXCEPT ![q] = "busy"]
              /\ pc' = [pc EXCEPT ![q] = "done"] /\ UNCHANGED owns
    BY <1>0, <1>3, NoFaults DEF Begin, Goto, TypeOK, Progress
  <2>2. OneStore' /\ Indivisible'
    BY <2>1 DEF OneStore, Indivisible, Busy, TypeOK
  <2> QED
    BY <2>1, <2>2, Stutters DEF TypeOK
<1>4. ASSUME NEW q \in Requests, Load(q)
      PROVE  OneStore' /\ Indivisible' /\ Moves /\ NoLateGrant
  <2>1. /\ UNCHANGED <<record, owns, answer>>
        /\ snap' = [snap EXCEPT ![q] = store] /\ fromMem' = [fromMem EXCEPT ![q] = FALSE]
        /\ \/ pc[q] = "load" /\ pc' = [pc EXCEPT ![q] = "write"]
           \/ pc[q] = "resetLoad" /\ pc' = [pc EXCEPT ![q] = "resetWrite"]
    BY <1>4, NoFaults DEF Load, Goto
  <2>2. OneStore' /\ Indivisible'
    BY <2>1 DEF OneStore, Indivisible, Busy, TypeOK, record
  <2> QED
    BY <2>1, <2>2, Stutters DEF record
<1>5. ASSUME NEW q \in Requests, MemOperation(q) \/ MemReset(q) PROVE FALSE
  BY <1>0, <1>5 DEF MemOperation, MemReset, TypeOK
<1>6. ASSUME NEW q \in Requests, Write(q)
      PROVE  OneStore' /\ Indivisible' /\ Moves /\ NoLateGrant
  <2> DEFINE s == snap[q]
             o == Outcome(q, s)
  <2>1. /\ pc[q] = "write" /\ owns[q] /\ answer[q] = "none"
        /\ pc' = [pc EXCEPT ![q] = "release"]
        /\ answer' = [answer EXCEPT ![q] = o.answer]
        /\ snap' = [snap EXCEPT ![q] = "none"] /\ fromMem' = [fromMem EXCEPT ![q] = FALSE]
        /\ UNCHANGED <<redisUp, high, lapsed, owns>>
    BY <1>6 DEF Write, Act, Goto, Forget, OneStore, Progress
  <2>2. UNCHANGED mem /\ store' = IF o.next = s THEN store ELSE o.next
    <3>1. proc[q] \in Procs /\ fromMem[q] = FALSE
      BY DEF TypeOK, OneStore
    <3> QED
      BY <1>6, <3>1, SaveReliable DEF Write, Act
  <2>3. \A r \in Requests : r # q => pc[r] # "write"
    BY <2>1 DEF OneStore, OwnerLocks, Reliable
  <2>4. s \in Statuses /\ s # "cancelled"
    BY DEF TypeOK, OneStore
  <2>5. /\ o.answer \in {"refused", "first", "granted", "cancelled"}
        /\ o.answer = "granted" => /\ o.next = "confirmed"
                                   /\ s = IF high THEN "first_confirmed" ELSE s
                                   /\ s \in {"pending", "first_confirmed"}
                                   /\ ~lapsed
        /\ o.answer = "first" => /\ high /\ ~lapsed
                                 /\ s = "pending" /\ o.next = "first_confirmed"
        /\ o.answer = "cancelled" => /\ o.next = "none" /\ ~lapsed
                                     /\ s \notin {"none", "confirmed"}
        /\ o.answer = "refused" => \/ o.next = s
                                   \/ lapsed /\ s # "none" /\ o.next = "none"
    BY <2>4, OutcomeOf
  <2>6. o.answer # "refused" => /\ store = s /\ s \in {"pending", "first_confirmed"}
                                /\ \A r \in Requests : ~Busy(r) /\ answer[r] # "cancelled"
    BY <2>1, <2>4, <2>5 DEF Indivisible, Statuses
  <2>7. OneStore'
    <3>1. store' # "cancelled"
      BY <2>2, <2>4, <2>5 DEF OneStore
    <3> QED
      BY <2>1, <2>2, <3>1 DEF OneStore, TypeOK
  <2>8. \A r \in Requests : r # q => answer'[r] = answer[r] /\ pc'[r] = pc[r] /\ snap'[r] = snap[r]
    BY <2>1 DEF TypeOK
  <2>9. answer'[q] = o.answer /\ pc'[q] = "release"
    BY <2>1 DEF TypeOK
  <2>10. CASE o.answer = "refused"
    <3>1. store' = store \/ (lapsed /\ store' = "none")
      BY <2>2, <2>5, <2>10
    <3>2. Indivisible'
      BY <2>1, <2>3, <2>8, <2>9, <2>10, <3>1 DEF Indivisible, Busy
    <3>3. Answered("granted")' = Answered("granted")
      BY <2>1, <2>8, <2>9, <2>10 DEF Answered
    <3>4. Moves
      BY <2>1, <3>1, <3>3 DEF Moves, Token!Next, Token!Lapse, Token!vars
    <3> QED
      BY <2>7, <3>2, <3>3, <3>4 DEF NoLateGrant
  <2>11. CASE o.answer = "first"
    <3>1. store = "pending" /\ store' = "first_confirmed" /\ high
      BY <2>2, <2>5, <2>6, <2>11
    <3>2. Indivisible'
      BY <2>1, <2>3, <2>6, <2>8, <2>9, <2>11, <3>1 DEF Indivisible, Busy
    <3>3. Answered("granted")' = Answered("granted")
      BY <2>1, <2>8, <2>9, <2>11 DEF Answered
    <3> QED
      BY <2>1, <2>7, <3>1, <3>2, <3>3 DEF Moves, NoLateGrant, Token!Next, Token!First
  <2>12. CASE o.answer = "granted"
    <3>1. /\ store = (IF high THEN "first_confirmed" ELSE "pending")
          /\ store' = "confirmed"
      BY <2>2, <2>5, <2>6, <2>12 DEF Indivisible
    <3>2. Indivisible'
      BY <2>1, <2>3, <2>6, <2>8, <2>9, <2>12, <3>1 DEF Indivisible, Busy
    <3>3. q \notin Answered("granted") /\ Answered("granted")' = Answered("granted") \cup {q}
      BY <2>1, <2>8, <2>9, <2>12 DEF Answered
    <3>4. Token!Grant(q)
      BY <2>1, <3>1, <3>3 DEF Token!Grant
    <3>5. Answered("cancelled") = {}
      BY <2>6, <2>12 DEF Answered
    <3> QED
      BY <2>7, <3>2, <3>4, <3>5 DEF Moves, NoLateGrant, Token!Next
  <2>13. CASE o.answer = "cancelled"
    <3>1. store \in {"pending", "first_confirmed"} /\ store' = "none"
      BY <2>2, <2>5, <2>6, <2>13
    <3>2. Indivisible'
      BY <2>1, <2>3, <2>6, <2>8, <2>9, <2>13, <3>1 DEF Indivisible, Busy
    <3>3. Answered("granted")' = Answered("granted")
      BY <2>1, <2>8, <2>9, <2>13 DEF Answered
    <3> QED
      BY <2>1, <2>7, <3>1, <3>2, <3>3 DEF Moves, NoLateGrant, Token!Next, Token!Cancel
  <2> QED
    BY <2>5, <2>10, <2>11, <2>12, <2>13
<1>7. ASSUME NEW q \in Requests, Release(q)
      PROVE  OneStore' /\ Indivisible' /\ Moves /\ NoLateGrant
  <2>1. /\ UNCHANGED <<store, mem, redisUp, high, lapsed, snap, fromMem, answer>>
        /\ pc[q] = "release"
        /\ pc' = [pc EXCEPT ![q] = IF answer[q] = "granted" THEN "execute" ELSE "done"]
        /\ owns' = [owns EXCEPT ![q] = FALSE]
    BY <1>7 DEF Release, Goto
  <2>2. OneStore' /\ Indivisible'
    BY <2>1 DEF OneStore, Indivisible, Busy, TypeOK
  <2> QED
    BY <2>1, <2>2, Stutters
<1>8. ASSUME NEW q \in Requests, Execute(q)
      PROVE  OneStore' /\ Indivisible' /\ Moves /\ NoLateGrant
  <2>1. /\ UNCHANGED <<record, owns, snap, fromMem, answer>>
        /\ pc[q] = "execute"
        /\ pc' = [pc EXCEPT ![q] = "done"] \/ pc' = [pc EXCEPT ![q] = "resetLoad"]
    BY <1>8 DEF Execute, Goto
  <2>2. OneStore' /\ Indivisible'
    BY <2>1 DEF OneStore, Indivisible, Busy, TypeOK, record
  <2> QED
    BY <2>1, <2>2, Stutters DEF record
<1>9. ASSUME NEW q \in Requests, ResetWrite(q)
      PROVE  OneStore' /\ Indivisible' /\ Moves /\ NoLateGrant
  <2>1. /\ pc[q] = "resetWrite" /\ pc' = [pc EXCEPT ![q] = "done"]
        /\ snap' = [snap EXCEPT ![q] = "none"] /\ fromMem' = [fromMem EXCEPT ![q] = FALSE]
        /\ UNCHANGED <<redisUp, high, lapsed, owns, answer>>
        /\ ResetWith(q, snap[q], FALSE)
        /\ proc[q] \in Procs
    BY <1>9 DEF ResetWrite, ResetWith, Goto, Forget, TypeOK, OneStore
  <2>2. Busy(q)
    BY <2>1 DEF Busy, Progress
  <2>3. \/ UNCHANGED <<store, mem>>
        \/ lapsed /\ store' = "none" /\ UNCHANGED mem
        \/ /\ store = "confirmed" /\ store' = "pending" /\ ~lapsed /\ UNCHANGED mem
    <3>1. CASE snap[q] # "none" /\ lapsed
      BY <2>1, <3>1, SaveReliable DEF ResetWith
    <3>2. CASE ~(snap[q] # "none" /\ lapsed) /\ snap[q] = "confirmed"
      <4>1. store' = "pending" /\ UNCHANGED mem
        BY <2>1, <3>2, SaveReliable DEF ResetWith
      <4> QED
        BY <2>2, <3>2, <4>1 DEF Indivisible
    <3>3. CASE ~(snap[q] # "none" /\ lapsed) /\ snap[q] # "confirmed"
      BY <2>1, <3>3 DEF ResetWith
    <3> QED
      BY <3>1, <3>2, <3>3
  <2>4. OneStore'
    BY <2>1, <2>3 DEF OneStore, TypeOK
  <2>5. Indivisible'
    <3>1. \A r \in Requests : Busy(r)' => Busy(r) /\ r # q
      BY <2>1 DEF Busy, TypeOK
    <3>2. \A r \in Requests : ~Busy(r)'
      BY <2>2, <3>1 DEF Indivisible
    <3> QED
      BY <2>1, <2>3, <3>2 DEF Indivisible, TypeOK
  <2>6. Answered("granted")' = Answered("granted")
    BY <2>1 DEF Answered
  <2> QED
    BY <2>1, <2>3, <2>4, <2>5, <2>6
       DEF Moves, NoLateGrant, Token!Next, Token!Lapse, Token!Reset, Token!vars
<1>10. CASE LockExpire \/ Lapse
  <2>1. /\ UNCHANGED <<store, mem, redisUp, high, request>>
        /\ lapsed => lapsed'
    BY <1>10 DEF LockExpire, Lapse
  <2>2. OneStore' /\ Indivisible'
    BY <2>1 DEF OneStore, Indivisible, Busy, request
  <2> QED
    BY <2>1, <2>2, Stutters DEF request
<1>11. CASE Vanish
  <2>1. /\ lapsed /\ store # "none" /\ store' = "none"
        /\ UNCHANGED <<mem, redisUp, high, lapsed, request>>
    BY <1>11 DEF Vanish, OneStore
  <2>2. OneStore' /\ Indivisible'
    BY <2>1 DEF OneStore, Indivisible, Busy, request
  <2>3. Answered("granted")' = Answered("granted")
    BY <2>1 DEF Answered, request
  <2> QED
    BY <2>1, <2>2, <2>3 DEF Moves, NoLateGrant, Token!Next, Token!Lapse
<1>12. CASE UNCHANGED vars
  <2>1. UNCHANGED <<record, request>>
    BY <1>12 DEF vars
  <2>2. OneStore' /\ Indivisible'
    BY <2>1 DEF OneStore, Indivisible, Busy, record, request
  <2> QED
    BY <2>1, <2>2, Stutters DEF record, request
<1> QED
  BY <1>1, <1>2, <1>3, <1>4, <1>5, <1>6, <1>7, <1>8, <1>9, <1>10, <1>11, <1>12
     DEF Next, Advance

LEMMA TokenInit == Init => TokenInv /\ Token!Init
<1> SUFFICES ASSUME Init PROVE OneStore /\ Indivisible /\ Token!Init
  BY GuardInit DEF TokenInv
<1>1. OneStore /\ Indivisible
  BY DEF Init, OneStore, Indivisible, Busy
<1>2. Answered("granted") = {}
  BY DEF Init, Answered
<1> QED
  BY <1>1, <1>2 DEF Init, Token!Init

LEMMA TokenHolds == Reliable => (Spec => []TokenInv)
<1> SUFFICES ASSUME Reliable PROVE Spec => []TokenInv
  OBVIOUS
<1>1. TokenInv /\ [Next]_vars => TokenInv'
  BY GuardStep, TokenStep DEF TokenInv
<1> QED
  BY <1>1, TokenInit, PTL DEF Spec

\* With a reliable Redis, the requests that confirm and cancel a token, with
\* all their awaits and in any number of processes, implement the indivisible
\* token: every step is one of its steps or none.
THEOREM ImplementsToken == Reliable => (Spec => IsWriteToken)
<1> SUFFICES ASSUME Reliable PROVE Spec => IsWriteToken
  OBVIOUS
<1>1. TokenInv /\ [Next]_vars => [Token!Next]_(Token!vars)
  BY TokenStep DEF Moves
<1> QED
  BY <1>1, TokenInit, TokenHolds, PTL DEF Spec, IsWriteToken, Token!Spec

\* ... and once somebody was told that the write is cancelled, nobody is told
\* to execute it.
THEOREM CancelIsFinal == Reliable => (Spec => NoGrantAfterCancel)
<1> SUFFICES ASSUME Reliable PROVE Spec => NoGrantAfterCancel
  OBVIOUS
<1>1. TokenInv /\ [Next]_vars =>
        [Answered("cancelled") # {} => Answered("granted")' = Answered("granted")]_vars
  BY TokenStep DEF NoLateGrant
<1> QED
  BY <1>1, TokenInit, TokenHolds, PTL DEF Spec, NoGrantAfterCancel

-----------------------------------------------------------------------------
(* What faults may cost.  Every execution that was granted, and every way one *)
(* can still come about, is paid for: by suspend(), by an execution that was  *)
(* undone, by a first confirmation, or by a fault.                            *)

\* The lock's owner will write what follows from a status of S, or Redis holds one.
StoreDue(S) ==
    \/ store \in S
    \/ \E q \in Requests : owns[q] /\ pc[q] = "write" /\ ~fromMem[q] /\ snap[q] \in S

\* The Maps with a status of S, or whose record was read with one and is
\* still changed by reference.
MemDue(S) ==
    {p \in Procs :
        \/ mem[p] \in S
        \/ /\ redisUp[p]
           /\ \E q \in Requests : /\ proc[q] = p /\ fromMem[q] /\ snap[q] \in S
                                  /\ pc[q] \in {"write", "resetWrite"}}

\* Requests about to write a record read from a Map, without the lock, or with
\* the lock in a process that has lost Redis.
Aliased  == {q \in Requests : pc[q] \in {"write", "resetWrite"} /\ fromMem[q]}
Unlocked == {q \in Requests : ~owns[q] /\ (pc[q] = "write" \/ (pc[q] = "load" /\ redisUp[proc[q]]))}
CutOff   == {q \in Requests : owns[q] /\ pc[q] = "write" /\ ~redisUp[proc[q]]}

Due(b) == IF b THEN 1 ELSE 0
Debt(S) ==
    Cardinality(Answered("granted")) + Due(StoreDue(S)) + Cardinality(MemDue(S))
    + Cardinality(Aliased) + Cardinality(Unlocked) + Cardinality(CutOff)

\* Grants from any status are paid for by suspend() and by what was undone,
\* grants from "first_confirmed" by first confirmations.
Allowance(S) ==
    IF "pending" \in S THEN Cardinality(Undone) + Due(created)
                       ELSE Cardinality(Answered("first"))

\* The statuses from which a grant may follow, and how.
Grounds == {S \in {{"pending", "first_confirmed"}, {"first_confirmed"}} : "pending" \in S \/ high}

DebtBounded == LockHolds => \A S \in Grounds : Debt(S) <= Allowance(S) + faults

\* A step incurs no more debt than it pays for.
Pays(S) == Debt(S)' + Allowance(S) + faults <= Debt(S) + Allowance(S)' + faults'

\* Cardinalities: a subset, one element more, one element less.
LEMMA Within ==
    ASSUME NEW A, IsFiniteSet(A), NEW B, B \subseteq A
    PROVE  /\ Cardinality(A) \in Nat /\ Cardinality(B) \in Nat
           /\ Cardinality(B) <= Cardinality(A)
  BY FS_Subset, FS_CardinalityType

LEMMA OneMore ==
    ASSUME NEW A, IsFiniteSet(A), NEW x, NEW B, B \subseteq A \cup {x}
    PROVE  /\ Cardinality(A) \in Nat /\ Cardinality(B) \in Nat
           /\ Cardinality(B) <= Cardinality(A) + 1
<1>1. /\ IsFiniteSet(A \cup {x})
      /\ Cardinality(A \cup {x}) = IF x \in A THEN Cardinality(A) ELSE Cardinality(A) + 1
  BY FS_AddElement
<1>2. Cardinality(B) <= Cardinality(A \cup {x}) /\ Cardinality(B) \in Nat
  BY <1>1, Within
<1> QED
  BY <1>1, <1>2, FS_CardinalityType

LEMMA OneLess ==
    ASSUME NEW A, IsFiniteSet(A), NEW x, NEW B, B \subseteq A \ {x}
    PROVE  /\ Cardinality(A) \in Nat /\ Cardinality(B) \in Nat
           /\ Cardinality(B) + Due(x \in A) <= Cardinality(A)
<1>1. /\ IsFiniteSet(A \ {x})
      /\ Cardinality(A \ {x}) = IF x \in A THEN Cardinality(A) - 1 ELSE Cardinality(A)
  BY FS_RemoveElement
<1>2. Cardinality(B) <= Cardinality(A \ {x}) /\ Cardinality(B) \in Nat
  BY <1>1, Within
<1> QED
  BY <1>1, <1>2, FS_CardinalityType DEF Due

\* All the sets that are counted are finite.
LEMMA Countable ==
    ASSUME NEW S
    PROVE  /\ \A a : IsFiniteSet(Answered(a)) /\ IsFiniteSet(Answered(a)')
           /\ IsFiniteSet(MemDue(S)) /\ IsFiniteSet(MemDue(S)')
           /\ IsFiniteSet(Aliased) /\ IsFiniteSet(Aliased')
           /\ IsFiniteSet(Unlocked) /\ IsFiniteSet(Unlocked')
           /\ IsFiniteSet(CutOff) /\ IsFiniteSet(CutOff')
           /\ IsFiniteSet(Undone) /\ IsFiniteSet(Undone')
<1>1. IsFiniteSet(Requests) /\ IsFiniteSet(Procs)
  BY WriteGuardAssumption
<1>2. /\ \A a : Answered(a) \subseteq Requests /\ Answered(a)' \subseteq Requests
      /\ MemDue(S) \subseteq Procs /\ MemDue(S)' \subseteq Procs
      /\ Aliased \subseteq Requests /\ Aliased' \subseteq Requests
      /\ Unlocked \subseteq Requests /\ Unlocked' \subseteq Requests
      /\ CutOff \subseteq Requests /\ CutOff' \subseteq Requests
      /\ Undone \subseteq Requests /\ Undone' \subseteq Requests
  BY DEF Answered, MemDue, Aliased, Unlocked, CutOff, Undone
<1> QED
  BY <1>1, <1>2, FS_Subset

LEMMA Amounts ==
    ASSUME NEW S
    PROVE  /\ \A a : Cardinality(Answered(a)) \in Nat /\ Cardinality(Answered(a)') \in Nat
           /\ Cardinality(MemDue(S)) \in Nat /\ Cardinality(MemDue(S)') \in Nat
           /\ Cardinality(Aliased) \in Nat /\ Cardinality(Aliased') \in Nat
           /\ Cardinality(Unlocked) \in Nat /\ Cardinality(Unlocked') \in Nat
           /\ Cardinality(CutOff) \in Nat /\ Cardinality(CutOff') \in Nat
           /\ Cardinality(Undone) \in Nat /\ Cardinality(Undone') \in Nat
           /\ Allowance(S) \in Nat /\ Allowance(S)' \in Nat
<1>1. /\ \A a : Cardinality(Answered(a)) \in Nat /\ Cardinality(Answered(a)') \in Nat
      /\ Cardinality(MemDue(S)) \in Nat /\ Cardinality(MemDue(S)') \in Nat
      /\ Cardinality(Aliased) \in Nat /\ Cardinality(Aliased') \in Nat
      /\ Cardinality(Unlocked) \in Nat /\ Cardinality(Unlocked') \in Nat
      /\ Cardinality(CutOff) \in Nat /\ Cardinality(CutOff') \in Nat
      /\ Cardinality(Undone) \in Nat /\ Cardinality(Undone') \in Nat
  BY Countable, FS_CardinalityType
<1> QED
  BY <1>1 DEF Allowance, Due

\* The allowance only grows: what was undone and answered stays so.
LEMMA AllowanceGrows ==
    ASSUME NEW S, created => created',
           Undone \subseteq Undone', Answered("first") \subseteq Answered("first")'
    PROVE  Allowance(S) <= Allowance(S)'
<1>1. /\ Cardinality(Undone) \in Nat /\ Cardinality(Undone') \in Nat
      /\ Cardinality(Undone) <= Cardinality(Undone')
  BY Countable, Within
<1>2. /\ Cardinality(Answered("first")) \in Nat /\ Cardinality(Answered("first")') \in Nat
      /\ Cardinality(Answered("first")) <= Cardinality(Answered("first")')
  BY Countable, Within
<1> QED
  BY <1>1, <1>2 DEF Allowance, Due

\* The requests in question are n more, and n faults have happened.
LEMMA Weigh ==
    ASSUME TypeOK, TypeOK', NEW S, NEW n \in Nat,
           Answered("granted")' \subseteq Answered("granted"),
           StoreDue(S)' => StoreDue(S), MemDue(S)' \subseteq MemDue(S),
           Cardinality(Aliased') + Cardinality(Unlocked') + Cardinality(CutOff')
             <= Cardinality(Aliased) + Cardinality(Unlocked) + Cardinality(CutOff) + n,
           faults + n <= faults', Allowance(S) <= Allowance(S)'
    PROVE  Pays(S)
<1>1. /\ Cardinality(Answered("granted")') <= Cardinality(Answered("granted"))
      /\ Cardinality(MemDue(S)') <= Cardinality(MemDue(S))
  BY Countable, Within
<1>2. Due(StoreDue(S)') <= Due(StoreDue(S)) /\ Due(StoreDue(S)) \in Nat /\ Due(StoreDue(S)') \in Nat
  BY DEF Due
<1>3. faults \in Nat /\ faults' \in Nat
  BY WriteGuardAssumption DEF TypeOK
<1> QED
  BY <1>1, <1>2, <1>3, Amounts DEF Pays, Debt

\* Requests that wait neither for a lock nor behind one count no more than before.
LEMMA Calm ==
    ASSUME TypeOK, TypeOK', NEW S,
           Answered("granted")' \subseteq Answered("granted"),
           StoreDue(S)' => StoreDue(S), MemDue(S)' \subseteq MemDue(S),
           Aliased' \subseteq Aliased, Unlocked' \subseteq Unlocked, CutOff' \subseteq CutOff,
           faults <= faults', Allowance(S) <= Allowance(S)'
    PROVE  Pays(S)
<1>1. /\ Cardinality(Aliased') <= Cardinality(Aliased)
      /\ Cardinality(Unlocked') <= Cardinality(Unlocked)
      /\ Cardinality(CutOff') <= Cardinality(CutOff)
  BY Countable, Within
<1>2. Cardinality(Aliased') + Cardinality(Unlocked') + Cardinality(CutOff')
        <= Cardinality(Aliased) + Cardinality(Unlocked) + Cardinality(CutOff) + 0
  BY <1>1, Amounts
<1>3. faults + 0 <= faults'
  BY WriteGuardAssumption DEF TypeOK
<1> QED
  BY <1>2, <1>3, Weigh

\* Of the requests in question one is new, and a fault has happened.
LEMMA Stumbles ==
    ASSUME TypeOK, TypeOK', NEW S, NEW x,
           Answered("granted")' \subseteq Answered("granted"),
           StoreDue(S)' => StoreDue(S), MemDue(S)' \subseteq MemDue(S),
           \/ /\ Aliased' \subseteq Aliased \cup {x}
              /\ Unlocked' \subseteq Unlocked /\ CutOff' \subseteq CutOff
           \/ /\ Unlocked' \subseteq Unlocked \cup {x}
              /\ Aliased' \subseteq Aliased /\ CutOff' \subseteq CutOff
           \/ /\ CutOff' \subseteq CutOff \cup {x}
              /\ Aliased' \subseteq Aliased /\ Unlocked' \subseteq Unlocked,
           faults' = faults + 1, Allowance(S) <= Allowance(S)'
    PROVE  Pays(S)
<1>1. /\ Aliased' \subseteq Aliased => Cardinality(Aliased') <= Cardinality(Aliased)
      /\ Unlocked' \subseteq Unlocked => Cardinality(Unlocked') <= Cardinality(Unlocked)
      /\ CutOff' \subseteq CutOff => Cardinality(CutOff') <= Cardinality(CutOff)
  BY Countable, Within
<1>2. /\ Aliased' \subseteq Aliased \cup {x} => Cardinality(Aliased') <= Cardinality(Aliased) + 1
      /\ Unlocked' \subseteq Unlocked \cup {x}
            => Cardinality(Unlocked') <= Cardinality(Unlocked) + 1
      /\ CutOff' \subseteq CutOff \cup {x} => Cardinality(CutOff') <= Cardinality(CutOff) + 1
  BY Countable, OneMore
<1>3. Cardinality(Aliased') + Cardinality(Unlocked') + Cardinality(CutOff')
        <= Cardinality(Aliased) + Cardinality(Unlocked) + Cardinality(CutOff) + 1
  BY <1>1, <1>2, Amounts
<1>4. faults + 1 <= faults' /\ 1 \in Nat
  BY WriteGuardAssumption DEF TypeOK
<1> QED
  BY <1>3, <1>4, Weigh

\* The steps that save nothing: a fault lets at most one request go on
\* unlocked, read a Map, or lose Redis while it has the lock.
LEMMA OtherStepsPay ==
    ASSUME GuardInv, GuardInv', LockHolds, NEW S,
           \/ \E p \in Procs : RedisError(p) \/ Restart(p)
           \/ \E q \in Requests : \/ Load(q) \/ Release(q) \/ Execute(q)
                                  \/ \E k \in Kinds : Begin(q, k)
           \/ LockExpire \/ Lapse \/ UNCHANGED vars,
           "none" \notin S
    PROVE  Pays(S)
<1> USE DEF GuardInv
<1>0. faults \in Nat
  BY WriteGuardAssumption DEF TypeOK
<1>1. ASSUME NEW p \in Procs, RedisError(p) PROVE Pays(S)
  <2>1. /\ redisUp' = [redisUp EXCEPT ![p] = FALSE] /\ faults' = faults + 1
        /\ UNCHANGED <<store, mem, lock, high, created, lapsed, request>>
    BY <1>1 DEF RedisError, Fault
  <2>2. PICK x : CutOff' \subseteq {x}
    BY <2>1 DEF CutOff, OwnerLocks, request
  <2>3. /\ Answered("granted")' = Answered("granted")
        /\ Answered("first")' = Answered("first") /\ Undone' = Undone
    BY <2>1 DEF Answered, Undone, request
  <2>4. /\ StoreDue(S)' => StoreDue(S)
        /\ MemDue(S)' \subseteq MemDue(S)
        /\ Aliased' \subseteq Aliased /\ Unlocked' \subseteq Unlocked
    BY <2>1 DEF StoreDue, MemDue, Aliased, Unlocked, request, TypeOK
  <2>5. Allowance(S) <= Allowance(S)'
    BY <2>1, <2>3, AllowanceGrows
  <2> QED
    BY <2>1, <2>2, <2>3, <2>4, <2>5, Stumbles
<1>2. ASSUME NEW p \in Procs, Restart(p) PROVE Pays(S)
  <2>1. /\ mem' = [mem EXCEPT ![p] = "none"]
        /\ redisUp' = [redisUp EXCEPT ![p] = TRUE]
        /\ faults' = faults + 1
        /\ UNCHANGED <<store, lock, high, created, lapsed, kind, proc, snap, fromMem, answer, undone>>
    BY <1>2 DEF Restart, Fault
  <2>2. \A q \in Requests :
           /\ proc[q] = p => pc'[q] \in {"idle", "done", "dead"} /\ ~owns'[q]
           /\ proc[q] # p => pc'[q] = pc[q] /\ owns'[q] = owns[q]
    BY <1>2 DEF Restart, TypeOK
  <2>3. /\ Answered("granted")' = Answered("granted")
        /\ Answered("first")' = Answered("first") /\ Undone' = Undone
    BY <2>1 DEF Answered, Undone
  <2>4. StoreDue(S)' => StoreDue(S)
    BY <2>1, <2>2 DEF StoreDue
  <2>5. MemDue(S)' \subseteq MemDue(S)
    BY <2>1, <2>2 DEF MemDue, TypeOK
  <2>6. Aliased' \subseteq Aliased /\ Unlocked' \subseteq Unlocked /\ CutOff' \subseteq CutOff
    BY <2>1, <2>2 DEF Aliased, Unlocked, CutOff, TypeOK
  <2>7. Allowance(S) <= Allowance(S)'
    BY <2>1, <2>3, AllowanceGrows
  <2> QED
    BY <1>0, <2>1, <2>3, <2>4, <2>5, <2>6, <2>7, Calm
<1>3. ASSUME NEW q \in Requests, Load(q) PROVE Pays(S)
  <2>1. /\ UNCHANGED <<record, kind, proc, owns, answer, undone>>
        /\ redisUp[proc[q]]
        /\ \/ pc[q] = "load" /\ pc' = [pc EXCEPT ![q] = "write"]
           \/ pc[q] = "resetLoad" /\ pc' = [pc EXCEPT ![q] = "resetWrite"]
    BY <1>3 DEF Load, Goto
  <2>2. /\ Answered("granted")' = Answered("granted")
        /\ Answered("first")' = Answered("first") /\ Undone' = Undone
    BY <2>1 DEF Answered, Undone
  <2>3. Allowance(S) <= Allowance(S)'
    BY <2>1, <2>2, AllowanceGrows DEF record
  <2>4. Unlocked' \subseteq Unlocked /\ CutOff' \subseteq CutOff
    BY <2>1 DEF Unlocked, CutOff, TypeOK, record, Progress
  <2>5. CASE /\ UNCHANGED faults /\ snap' = [snap EXCEPT ![q] = store]
             /\ fromMem' = [fromMem EXCEPT ![q] = FALSE]
    <3>1. StoreDue(S)' => StoreDue(S)
      BY <2>1, <2>5 DEF StoreDue, TypeOK, record
    <3>2. MemDue(S)' \subseteq MemDue(S)
      BY <2>1, <2>5 DEF MemDue, TypeOK, record
    <3>3. Aliased' \subseteq Aliased
      BY <2>1, <2>5 DEF Aliased, TypeOK
    <3> QED
      BY <1>0, <2>2, <2>3, <2>4, <2>5, <3>1, <3>2, <3>3, Calm
  <2>6. CASE /\ faults' = faults + 1 /\ snap' = [snap EXCEPT ![q] = mem[proc[q]]]
             /\ fromMem' = [fromMem EXCEPT ![q] = TRUE]
    <3>1. StoreDue(S)' => StoreDue(S)
      BY <2>1, <2>6 DEF StoreDue, TypeOK, record
    <3>2. MemDue(S)' \subseteq MemDue(S)
      BY <2>1, <2>6 DEF MemDue, TypeOK, record
    <3>3. Aliased' \subseteq Aliased \cup {q}
      BY <2>1, <2>6 DEF Aliased, TypeOK
    <3> QED
      BY <2>2, <2>3, <2>4, <2>6, <3>1, <3>2, <3>3, Stumbles
  <2> QED
    BY <1>3, <2>5, <2>6 DEF Load, Fault, NoFault
<1>4. ASSUME NEW q \in Requests, Release(q) \/ Execute(q) PROVE Pays(S)
  <2>1. /\ pc[q] \in {"release", "execute"}
        /\ \E l \in {"execute", "done", "resetLoad"} : pc' = [pc EXCEPT ![q] = l]
        /\ owns' = owns \/ owns' = [owns EXCEPT ![q] = FALSE]
        /\ UNCHANGED <<store, mem, redisUp, high, created, lapsed, proc, snap, fromMem,
                       answer, undone>>
        /\ faults <= faults'
    BY <1>0, <1>4 DEF Release, Execute, Goto, Fault, NoFault, record
  <2>2. /\ Answered("granted")' = Answered("granted")
        /\ Answered("first")' = Answered("first") /\ Undone' = Undone
    BY <2>1 DEF Answered, Undone
  <2>3. /\ \A r \in Requests : r = q \/ (pc'[r] = pc[r] /\ owns'[r] = owns[r])
        /\ pc'[q] \notin {"load", "write", "resetWrite"}
    BY <2>1 DEF TypeOK
  <2>4. StoreDue(S)' => StoreDue(S)
    BY <2>1, <2>3 DEF StoreDue
  <2>5. MemDue(S)' \subseteq MemDue(S)
    BY <2>1, <2>3 DEF MemDue
  <2>6. Aliased' \subseteq Aliased /\ Unlocked' \subseteq Unlocked /\ CutOff' \subseteq CutOff
    BY <2>1, <2>3 DEF Aliased, Unlocked, CutOff
  <2>7. Allowance(S) <= Allowance(S)'
    BY <2>1, <2>2, AllowanceGrows
  <2> QED
    BY <2>1, <2>2, <2>4, <2>5, <2>6, <2>7, Calm
<1>5. ASSUME NEW q \in Requests, NEW k \in Kinds, Begin(q, k) PROVE Pays(S)
  <2>1. /\ pc[q] = "idle" /\ answer[q] = "none"
        /\ UNCHANGED <<store, mem, redisUp, high, created, lapsed, proc, snap, fromMem, undone>>
        /\ \/ /\ redisUp[proc[q]] /\ faults' = faults
              /\ owns' = [owns EXCEPT ![q] = TRUE]
              /\ pc' = [pc EXCEPT ![q] = "load"] /\ UNCHANGED answer
           \/ /\ answer' = [answer EXCEPT ![q] = "busy"] /\ faults' = faults
              /\ pc' = [pc EXCEPT ![q] = "done"] /\ UNCHANGED owns
           \/ /\ faults' = faults + 1
              /\ pc' = [pc EXCEPT ![q] = "load"] /\ UNCHANGED <<owns, answer>>
           \/ /\ ~redisUp[proc[q]] /\ faults' = faults
              /\ pc' = [pc EXCEPT ![q] = "load"] /\ UNCHANGED <<owns, answer>>
    BY <1>5 DEF Begin, Goto, Fault, NoFault, TypeOK, Progress
  <2>2. /\ Answered("granted")' = Answered("granted")
        /\ Answered("first")' = Answered("first") /\ Undone' = Undone
    BY <2>1 DEF Answered, Undone, TypeOK
  <2>3. /\ \A r \in Requests : r = q \/ (pc'[r] = pc[r] /\ owns'[r] = owns[r])
        /\ pc'[q] \notin {"write", "resetWrite"}
    BY <2>1 DEF TypeOK
  <2>4. StoreDue(S)' => StoreDue(S)
    BY <2>1, <2>3 DEF StoreDue
  <2>5. MemDue(S)' \subseteq MemDue(S)
    BY <2>1, <2>3 DEF MemDue
  <2>6. Aliased' \subseteq Aliased /\ CutOff' \subseteq CutOff
    BY <2>1, <2>3 DEF Aliased, CutOff
  <2>7. Allowance(S) <= Allowance(S)'
    BY <2>1, <2>2, AllowanceGrows
  <2>8. CASE faults' = faults
    <3>1. Unlocked' \subseteq Unlocked
      BY <1>0, <2>1, <2>3, <2>8 DEF Unlocked, TypeOK
    <3> QED
      BY <1>0, <2>2, <2>4, <2>5, <2>6, <2>7, <2>8, <3>1, Calm
  <2>9. CASE faults' = faults + 1
    <3>1. Unlocked' \subseteq Unlocked \cup {q}
      BY <2>1, <2>3 DEF Unlocked
    <3> QED
      BY <2>2, <2>4, <2>5, <2>6, <2>7, <2>9, <3>1, Stumbles
  <2> QED
    BY <2>1, <2>8, <2>9
<1>6. CASE LockExpire \/ Lapse \/ UNCHANGED vars
  <2>1. UNCHANGED <<store, mem, redisUp, high, request, faults>> /\ (created => created')
    BY <1>6 DEF LockExpire, Lapse, vars, record
  <2>2. /\ Answered("granted")' = Answered("granted")
        /\ Answered("first")' = Answered("first") /\ Undone' = Undone
    BY <2>1 DEF Answered, Undone, request
  <2>3. /\ StoreDue(S)' => StoreDue(S)
        /\ MemDue(S)' \subseteq MemDue(S)
        /\ Aliased' \subseteq Aliased /\ Unlocked' \subseteq Unlocked /\ CutOff' \subseteq CutOff
    BY <2>1 DEF StoreDue, MemDue, Aliased, Unlocked, CutOff, request
  <2>4. Allowance(S) <= Allowance(S)'
    BY <2>1, <2>2, AllowanceGrows
  <2> QED
    BY <1>0, <2>1, <2>2, <2>3, <2>4, Calm
<1> QED
  BY <1>1, <1>2, <1>3, <1>4, <1>5, <1>6

\* suspend() makes one record, wherever it is stored.
LEMMA SuspendPays ==
    ASSUME GuardInv, GuardInv', LockHolds, NEW S \in Grounds, NEW p \in Procs, Suspend(p)
    PROVE  Pays(S)
<1> USE DEF GuardInv
<1>0. faults \in Nat /\ "none" \notin S
  BY WriteGuardAssumption DEF TypeOK, Grounds
<1>1. /\ ~created /\ created' /\ faults <= faults'
      /\ UNCHANGED <<redisUp, lock, high, lapsed, request>>
      /\ \/ store' = "pending" /\ UNCHANGED mem
         \/ mem' = [mem EXCEPT ![p] = "pending"] /\ UNCHANGED store
         \/ /\ mem' = [mem EXCEPT ![p] = "pending"] /\ store' = "pending"
            /\ faults' = faults + 1
  BY <1>0 DEF Suspend, Save, Fault, NoFault
<1>2. /\ store = "none"
      /\ \A r \in Procs : mem[r] = "none"
      /\ \A q \in Requests : pc[q] = "idle" /\ answer[q] = "none"
  BY <1>1 DEF Empty, Progress
<1>3. /\ Answered("granted")' = Answered("granted")
      /\ Answered("first")' = Answered("first") /\ Undone' = Undone
  BY <1>1 DEF Answered, Undone, request
<1>4. Aliased' \subseteq Aliased /\ Unlocked' \subseteq Unlocked /\ CutOff' \subseteq CutOff
  BY <1>1, <1>2 DEF Aliased, Unlocked, CutOff, request
<1>5. /\ StoreDue(S)' => "pending" \in S /\ store' = "pending"
      /\ MemDue(S)' \subseteq {p}
      /\ MemDue(S)' # {} => "pending" \in S /\ (store' = "none" \/ faults' = faults + 1)
  BY <1>0, <1>1, <1>2 DEF StoreDue, MemDue, TypeOK, request
<1>6. CASE "pending" \notin S
  <2>1. StoreDue(S)' => StoreDue(S)
    BY <1>5, <1>6
  <2>2. MemDue(S)' \subseteq MemDue(S)
    BY <1>5, <1>6
  <2>3. Allowance(S) <= Allowance(S)'
    BY <1>1, <1>3, AllowanceGrows
  <2> QED
    BY <1>1, <1>3, <1>4, <2>1, <2>2, <2>3, Calm
<1>7. CASE "pending" \in S
  <2>1. Due(StoreDue(S)') + Cardinality(MemDue(S)') + faults <= 1 + faults'
    <3>0. faults' \in Nat
      BY WriteGuardAssumption DEF TypeOK
    <3>1. CASE store' = "pending" /\ faults' # faults + 1
      <4>1. MemDue(S)' = {}
        BY <1>5, <3>1
      <4> QED
        BY <1>0, <1>1, <3>0, <4>1, FS_EmptySet DEF Due
    <3>2. CASE store' # "pending"
      <4>1. Cardinality(MemDue(S)') <= Cardinality({p})
        BY <1>5, FS_Singleton, Within
      <4>2. Cardinality({p}) = 1 /\ Due(StoreDue(S)') = 0
        BY <1>5, <3>2, FS_Singleton DEF Due
      <4> QED
        BY <1>0, <1>1, <3>0, <4>1, <4>2, Amounts
    <3>3. CASE faults' = faults + 1
      <4>1. Cardinality(MemDue(S)') <= Cardinality({p})
        BY <1>5, FS_Singleton, Within
      <4>2. Cardinality({p}) = 1 /\ Due(StoreDue(S)') \in {0, 1}
        BY FS_Singleton DEF Due
      <4> QED
        BY <1>0, <3>0, <3>3, <4>1, <4>2, Amounts
    <3> QED
      BY <3>1, <3>2, <3>3
  <2>2. /\ Cardinality(Aliased') <= Cardinality(Aliased)
        /\ Cardinality(Unlocked') <= Cardinality(Unlocked)
        /\ Cardinality(CutOff') <= Cardinality(CutOff)
    BY <1>4, Countable, Within
  <2>3. Allowance(S)' = Allowance(S) + 1
    BY <1>1, <1>3, <1>7, Amounts DEF Allowance, Due
  <2>4. Due(StoreDue(S)) \in Nat /\ Due(StoreDue(S)') \in Nat
    BY DEF Due
  <2>5. faults' \in Nat
    BY WriteGuardAssumption DEF TypeOK
  <2> QED
    BY <1>0, <1>1, <1>3, <2>1, <2>2, <2>3, <2>4, <2>5, Amounts DEF Pays, Debt
<1> QED
  BY <1>6, <1>7

\* An expired record disappears.
LEMMA VanishPays ==
    ASSUME GuardInv, GuardInv', NEW S \in Grounds, Vanish
    PROVE  Pays(S)
<1> USE DEF GuardInv
<1>0. faults \in Nat /\ "none" \notin S
  BY WriteGuardAssumption DEF TypeOK, Grounds
<1>1. /\ UNCHANGED <<redisUp, created, request, faults>>
      /\ store' = "none" \/ store' = store
      /\ \A p \in Procs : mem'[p] = "none" \/ mem'[p] = mem[p]
  BY DEF Vanish, TypeOK
<1>2. /\ Answered("granted")' = Answered("granted")
      /\ Answered("first")' = Answered("first") /\ Undone' = Undone
  BY <1>1 DEF Answered, Undone, request
<1>3. StoreDue(S)' => StoreDue(S)
  BY <1>0, <1>1 DEF StoreDue, request
<1>4. MemDue(S)' \subseteq MemDue(S)
  BY <1>0, <1>1 DEF MemDue, request
<1>5. Aliased' \subseteq Aliased /\ Unlocked' \subseteq Unlocked /\ CutOff' \subseteq CutOff
  BY <1>1 DEF Aliased, Unlocked, CutOff, request
<1>6. Allowance(S) <= Allowance(S)'
  BY <1>1, <1>2, AllowanceGrows
<1> QED
  BY <1>0, <1>1, <1>2, <1>3, <1>4, <1>5, <1>6, Calm

\* A request that has written its record waits for nothing any more; what is
\* still due without it, others are about to write.
LEMMA Leaves ==
    ASSUME TypeOK, TypeOK', NEW S, NEW q \in Requests, NEW label \in {"release", "done"},
           pc' = [pc EXCEPT ![q] = label], UNCHANGED <<redisUp, proc, owns>>,
           \A r \in Requests : r # q => snap'[r] = snap[r] /\ fromMem'[r] = fromMem[r]
    PROVE  /\ Cardinality(Aliased') + Due(q \in Aliased) <= Cardinality(Aliased)
           /\ Cardinality(Unlocked') + Due(q \in Unlocked) <= Cardinality(Unlocked)
           /\ Cardinality(CutOff') + Due(q \in CutOff) <= Cardinality(CutOff)
           /\ StoreDue(S)' => \/ store' \in S
                              \/ \E r \in Requests : /\ r # q /\ owns[r] /\ pc[r] = "write"
                                                     /\ ~fromMem[r] /\ snap[r] \in S
           /\ \A x \in MemDue(S)' :
                 x \in Procs /\ (mem'[x] \in S \/ (redisUp[x] /\ x \in MemDue(S)))
<1>1. /\ \A r \in Requests : r # q => pc'[r] = pc[r]
      /\ pc'[q] \notin {"load", "write", "resetWrite"}
  BY DEF TypeOK
<1>2. /\ Aliased' \subseteq Aliased \ {q}
      /\ Unlocked' \subseteq Unlocked \ {q}
      /\ CutOff' \subseteq CutOff \ {q}
  BY <1>1 DEF Aliased, Unlocked, CutOff
<1>3. /\ Cardinality(Aliased') + Due(q \in Aliased) <= Cardinality(Aliased)
      /\ Cardinality(Unlocked') + Due(q \in Unlocked) <= Cardinality(Unlocked)
      /\ Cardinality(CutOff') + Due(q \in CutOff) <= Cardinality(CutOff)
  BY <1>2, Countable, OneLess
<1>4. StoreDue(S)' => \/ store' \in S
                      \/ \E r \in Requests : /\ r # q /\ owns[r] /\ pc[r] = "write"
                                             /\ ~fromMem[r] /\ snap[r] \in S
  BY <1>1 DEF StoreDue
<1>5. \A x \in MemDue(S)' : x \in Procs /\ (mem'[x] \in S \/ (redisUp[x] /\ x \in MemDue(S)))
  BY <1>1 DEF MemDue
<1> QED
  BY <1>3, <1>4, <1>5

\* The balance of a request that writes its record: what it was waiting for
\* and what the store and its Map gain and lose.
LEMMA Settles ==
    ASSUME TypeOK, TypeOK', NEW S, NEW q \in Requests, NEW label \in {"release", "done"},
           pc' = [pc EXCEPT ![q] = label], UNCHANGED <<redisUp, proc, owns>>,
           \A r \in Requests : r # q => snap'[r] = snap[r] /\ fromMem'[r] = fromMem[r],
           NEW x, MemDue(S)' \subseteq MemDue(S) \cup {x},
           NEW g \in {0, 1}, Cardinality(Answered("granted")') <= Cardinality(Answered("granted")) + g,
           g + Due(StoreDue(S)') + Due(x \in MemDue(S)') + Allowance(S) + faults
             <= Due(q \in Aliased) + Due(q \in Unlocked) + Due(q \in CutOff)
                + Due(StoreDue(S)) + Due(x \in MemDue(S)) + Allowance(S)' + faults'
    PROVE  Pays(S)
<1>1. Cardinality(MemDue(S)') + Due(x \in MemDue(S)) <= Cardinality(MemDue(S)) + Due(x \in MemDue(S)')
  <2>1. CASE x \in MemDue(S) /\ x \in MemDue(S)'
    <3>1. MemDue(S)' \subseteq MemDue(S)
      BY <2>1
    <3>2. Cardinality(MemDue(S)') <= Cardinality(MemDue(S))
      BY <3>1, Countable, Within
    <3> QED
      BY <2>1, <3>2, Amounts DEF Due
  <2>2. CASE x \notin MemDue(S)'
    <3>1. MemDue(S)' \subseteq MemDue(S) \ {x}
      BY <2>2
    <3>2. Cardinality(MemDue(S)') + Due(x \in MemDue(S)) <= Cardinality(MemDue(S))
      BY <3>1, Countable, OneLess
    <3> QED
      BY <2>2, <3>2, Amounts DEF Due
  <2>3. CASE x \notin MemDue(S) /\ x \in MemDue(S)'
    <3>1. Cardinality(MemDue(S)') <= Cardinality(MemDue(S)) + 1
      BY Countable, OneMore
    <3> QED
      BY <2>3, <3>1, Amounts DEF Due
  <2> QED
    BY <2>1, <2>2, <2>3
<1>2. /\ Cardinality(Aliased') + Due(q \in Aliased) <= Cardinality(Aliased)
      /\ Cardinality(Unlocked') + Due(q \in Unlocked) <= Cardinality(Unlocked)
      /\ Cardinality(CutOff') + Due(q \in CutOff) <= Cardinality(CutOff)
  BY Leaves
<1>3. \A b : Due(b) \in {0, 1}
  BY DEF Due
<1>4. faults \in Nat /\ faults' \in Nat
  BY WriteGuardAssumption DEF TypeOK
<1> QED
  BY <1>1, <1>2, <1>3, <1>4, Amounts DEF Pays, Debt

\* confirm or cancel acts on a record that it has read: a grant uses up what
\* it was granted from, and the record that a first confirmation leaves
\* behind takes the place of the one that it has read.
LEMMA ActPays ==
    ASSUME GuardInv, GuardInv', LockHolds, NEW S \in Grounds, NEW q \in Requests,
           Write(q) \/ MemOperation(q)
    PROVE  Pays(S)
<1> USE DEF GuardInv
<1>0. /\ faults \in Nat /\ proc[q] \in Procs
      /\ S \subseteq {"pending", "first_confirmed"} /\ "first_confirmed" \in S
      /\ "pending" \in S \/ high
  BY WriteGuardAssumption DEF TypeOK, Grounds
<1>1. PICK s \in Statuses, alias \in BOOLEAN :
         /\ Act(q, s, alias)
         /\ \/ pc[q] = "write" /\ s = snap[q] /\ alias = fromMem[q]
            \/ /\ pc[q] = "load" /\ ~redisUp[proc[q]]
               /\ s = mem[proc[q]] /\ alias
  <2>1. snap[q] \in Statuses /\ fromMem[q] \in BOOLEAN /\ mem[proc[q]] \in Statuses
    BY DEF TypeOK
  <2> QED
    BY <2>1 DEF Write, MemOperation
<1> DEFINE p == proc[q]
           o == Outcome(q, s)
           ob == Object(o.answer, o.next)
<1>2. /\ pc' = [pc EXCEPT ![q] = "release"]
      /\ answer' = [answer EXCEPT ![q] = o.answer] /\ answer[q] = "none"
      /\ \A r \in Requests : r # q => snap'[r] = snap[r] /\ fromMem'[r] = fromMem[r]
      /\ UNCHANGED <<redisUp, lock, high, created, lapsed, kind, proc, owns, undone>>
  BY <1>1 DEF Write, MemOperation, Act, Goto, Forget, TypeOK, Progress
<1>3. /\ o.answer \in {"refused", "first", "granted", "cancelled"}
      /\ o.next \in Statuses
      /\ o.answer = "granted" => o.next = "confirmed" /\ s \in S
      /\ o.answer = "first" => s = "pending" /\ o.next = "first_confirmed"
      /\ o.answer \in {"cancelled", "refused"} => o.next = "none" \/ o.next = s
      /\ o.answer \in {"cancelled", "granted"} => o.next # s
      /\ o.answer = "granted" => ob = "confirmed"
      /\ o.answer = "first" => ob = "first_confirmed"
      /\ o.next = "none" => ob \in {"none", "cancelled"}
  BY <1>0, OutcomeOf DEF Object
<1>4. /\ \/ o.next = s /\ UNCHANGED <<store, mem, faults>>
         \/ /\ o.next # s /\ redisUp[p] /\ faults' = faults /\ store' = o.next
            /\ mem' = IF alias THEN [mem EXCEPT ![p] = ob] ELSE mem
         \/ /\ o.next # s /\ redisUp[p] /\ faults' = faults + 1
            /\ mem' = [mem EXCEPT ![p] = o.next] /\ store' \in {store, o.next}
         \/ /\ o.next # s /\ ~redisUp[p] /\ faults' = faults
            /\ mem' = [mem EXCEPT ![p] = o.next] /\ UNCHANGED store
  BY <1>1 DEF Act, SaveAlias, Save, Fault, NoFault
<1>5. /\ StoreDue(S)' => \/ store' \in S
                         \/ \E r \in Requests : /\ r # q /\ owns[r] /\ pc[r] = "write"
                                                /\ ~fromMem[r] /\ snap[r] \in S
      /\ \A x \in MemDue(S)' :
            x \in Procs /\ (mem'[x] \in S \/ (redisUp[x] /\ x \in MemDue(S)))
  BY <1>2, Leaves
\* what it gives up
<1>6. /\ pc[q] = "write" /\ alias => q \in Aliased
      /\ pc[q] = "write" /\ ~owns[q] => q \in Unlocked
      /\ pc[q] = "write" /\ owns[q] /\ ~redisUp[p] => q \in CutOff
      /\ pc[q] = "write" /\ owns[q] /\ ~alias /\ s \in S => StoreDue(S)
      /\ pc[q] = "write" /\ alias /\ redisUp[p] /\ s \in S => p \in MemDue(S)
      /\ pc[q] = "load" /\ s \in S => p \in MemDue(S)
  BY <1>0, <1>1 DEF Aliased, Unlocked, CutOff, StoreDue, MemDue
<1>7. Undone' = Undone /\ created' = created
  BY <1>2 DEF Undone
<1>8. CASE o.answer \in {"cancelled", "refused"}
  <2>1. /\ store' = store \/ store' \notin S
        /\ \A x \in Procs : mem'[x] = mem[x] \/ mem'[x] \notin S
    BY <1>0, <1>3, <1>4, <1>8 DEF TypeOK
  <2>2. StoreDue(S)' => StoreDue(S)
    BY <1>5, <2>1 DEF StoreDue
  <2>3. MemDue(S)' \subseteq MemDue(S)
    BY <1>5, <2>1 DEF MemDue
  <2>4. /\ Answered("granted")' \subseteq Answered("granted")
        /\ Answered("first") \subseteq Answered("first")'
    BY <1>2, <1>8 DEF Answered, TypeOK
  <2>5. Aliased' \subseteq Aliased /\ Unlocked' \subseteq Unlocked /\ CutOff' \subseteq CutOff
    BY <1>2 DEF Aliased, Unlocked, CutOff, TypeOK
  <2>6. faults <= faults'
    BY <1>0, <1>4
  <2> QED
    BY <1>7, <2>2, <2>3, <2>4, <2>5, <2>6, AllowanceGrows, Calm
<1>9. CASE o.answer = "granted"
  <2>1. /\ store' = store \/ store' = "confirmed"
        /\ \A x \in Procs : mem'[x] = mem[x] \/ mem'[x] = "confirmed"
        /\ "confirmed" \notin S
    BY <1>0, <1>3, <1>4, <1>9 DEF TypeOK
  <2>2. StoreDue(S)' => StoreDue(S)
    BY <1>5, <2>1 DEF StoreDue
  <2>3. MemDue(S)' \subseteq MemDue(S)
    BY <1>5, <2>1 DEF MemDue
  <2>4. /\ Answered("granted")' \subseteq Answered("granted") \cup {q}
        /\ Answered("first") \subseteq Answered("first")'
    BY <1>2, <1>9 DEF Answered, TypeOK
  <2>5. Cardinality(Answered("granted")') <= Cardinality(Answered("granted")) + 1
    BY <2>4, Countable, OneMore
  <2>6. \/ q \in Aliased \/ q \in Unlocked \/ q \in CutOff
        \/ faults' = faults + 1
        \/ StoreDue(S) /\ ~StoreDue(S)'
        \/ p \in MemDue(S) /\ p \notin MemDue(S)'
    <3>1. CASE pc[q] = "load"
      BY <1>0, <1>1, <1>3, <1>4, <1>5, <1>6, <1>9, <2>1, <3>1 DEF TypeOK
    <3>2. CASE pc[q] = "write" /\ owns[q] /\ ~alias /\ redisUp[p] /\ faults' # faults + 1
      <4>1. store' = "confirmed" /\ \A r \in Requests : owns[r] => r = q
        BY <1>0, <1>3, <1>4, <1>9, <3>2 DEF OwnerLocks
      <4> QED
        BY <1>3, <1>5, <1>6, <1>9, <2>1, <3>2, <4>1
    <3> QED
      BY <1>1, <1>6, <3>1, <3>2
  <2>7. Allowance(S) <= Allowance(S)'
    BY <1>7, <2>4, AllowanceGrows
  <2>8. faults' = faults \/ faults' = faults + 1
    BY <1>4
  <2>9. 1 + Due(StoreDue(S)') + Due(p \in MemDue(S)') + Allowance(S) + faults
          <= Due(q \in Aliased) + Due(q \in Unlocked) + Due(q \in CutOff)
             + Due(StoreDue(S)) + Due(p \in MemDue(S)) + Allowance(S)' + faults'
    <3>1. Allowance(S) \in Nat /\ Allowance(S)' \in Nat
      BY Amounts
    <3>2. Due(StoreDue(S)') <= Due(StoreDue(S)) /\ Due(p \in MemDue(S)') <= Due(p \in MemDue(S))
      BY <2>2, <2>3 DEF Due
    <3>3. 1 + Due(StoreDue(S)') + Due(p \in MemDue(S)') + faults
            <= Due(q \in Aliased) + Due(q \in Unlocked) + Due(q \in CutOff)
               + Due(StoreDue(S)) + Due(p \in MemDue(S)) + faults'
      BY <1>0, <2>2, <2>3, <2>6, <2>8 DEF Due
    <3>4. \A b : Due(b) \in {0, 1}
      BY DEF Due
    <3> QED
      BY <1>0, <2>7, <2>8, <3>1, <3>3, <3>4
  <2>10. MemDue(S)' \subseteq MemDue(S) \cup {p}
    BY <2>3
  <2> QED
    BY <1>2, <2>5, <2>9, <2>10, Settles
<1>10. CASE o.answer = "first"
  <2>1. s = "pending" /\ o.next = "first_confirmed" /\ ob = "first_confirmed"
    BY <1>3, <1>10
  <2>2. \A x \in Procs : x # p => mem'[x] = mem[x]
    BY <1>4 DEF TypeOK
  <2>3. MemDue(S)' \subseteq MemDue(S) \cup {p}
    BY <1>5, <2>2 DEF MemDue
  <2>4. /\ Answered("granted")' \subseteq Answered("granted")
        /\ Answered("first") \subseteq Answered("first")' \ {q}
        /\ q \in Answered("first")'
    BY <1>2, <1>10 DEF Answered, TypeOK
  <2>5. Cardinality(Answered("granted")') <= Cardinality(Answered("granted")) + 0
    <3>1. Cardinality(Answered("granted")') <= Cardinality(Answered("granted"))
      BY <2>4, Countable, Within
    <3> QED
      BY <3>1, Amounts
  <2>6. /\ Allowance(S) <= Allowance(S)'
        /\ "pending" \notin S => Allowance(S)' >= Allowance(S) + 1
    <3>1. Cardinality(Answered("first")) + Due(q \in Answered("first")')
            <= Cardinality(Answered("first")')
      BY <2>4, Countable, OneLess
    <3> QED
      BY <1>7, <2>4, <3>1, Amounts DEF Allowance, Due
  <2>7. /\ store' = store => (StoreDue(S)' => StoreDue(S))
        /\ mem' = mem => (p \in MemDue(S)' => p \in MemDue(S))
    BY <1>5 DEF StoreDue, MemDue
  <2>8. Due(StoreDue(S)') + Due(p \in MemDue(S)') + faults + Due("pending" \in S)
          <= Due(q \in Aliased) + Due(q \in Unlocked) + Due(q \in CutOff)
             + Due(StoreDue(S)) + Due(p \in MemDue(S)) + faults' + 1
    <3>1. CASE pc[q] = "load"
      BY <1>0, <1>1, <1>4, <1>6, <2>1, <2>7, <3>1 DEF Due
    <3>2. CASE pc[q] = "write" /\ ~redisUp[p]
      BY <1>0, <1>4, <1>6, <2>1, <2>7, <3>2 DEF Due
    <3>3. CASE pc[q] = "write" /\ redisUp[p] /\ faults' = faults + 1
      BY <1>0, <1>6, <2>1, <3>3 DEF Due
    <3>4. CASE pc[q] = "write" /\ redisUp[p] /\ faults' = faults /\ alias
      BY <1>0, <1>4, <1>6, <2>1, <2>7, <3>4 DEF Due
    <3>5. CASE pc[q] = "write" /\ redisUp[p] /\ faults' = faults /\ ~alias
      <4>1. mem' = mem
        BY <1>0, <1>4, <2>1, <3>5
      <4> QED
        BY <1>0, <1>6, <2>1, <2>7, <3>5, <4>1 DEF Due
    <3> QED
      BY <1>1, <1>4, <3>1, <3>2, <3>3, <3>4, <3>5
  <2>9. 0 + Due(StoreDue(S)') + Due(p \in MemDue(S)') + Allowance(S) + faults
          <= Due(q \in Aliased) + Due(q \in Unlocked) + Due(q \in CutOff)
             + Due(StoreDue(S)) + Due(p \in MemDue(S)) + Allowance(S)' + faults'
    <3>1. Allowance(S) \in Nat /\ Allowance(S)' \in Nat
      BY Amounts
    <3>2. \A b : Due(b) \in {0, 1}
      BY DEF Due
    <3>3. faults' \in Nat
      BY WriteGuardAssumption DEF TypeOK
    <3>4. "pending" \in S => Due("pending" \in S) = 1
      BY DEF Due
    <3> QED
      BY <1>0, <2>6, <2>8, <3>1, <3>2, <3>3, <3>4
  <2> QED
    BY <1>2, <2>3, <2>5, <2>9, Settles
<1> QED
  BY <1>3, <1>8, <1>9, <1>10

\* resetToPending() after a failed execution: the record that is pending again
\* is what was undone.
LEMMA ResetPays ==
    ASSUME GuardInv, GuardInv', NEW S \in Grounds, NEW q \in Requests,
           ResetWrite(q) \/ MemReset(q)
    PROVE  Pays(S)
<1> USE DEF GuardInv
<1>0. /\ faults \in Nat /\ proc[q] \in Procs
      /\ S \subseteq {"pending", "first_confirmed"}
  <2>1. faults \in Nat /\ proc[q] \in Procs
    BY WriteGuardAssumption DEF TypeOK
  <2> QED
    BY <2>1 DEF Grounds
<1>1. PICK s \in Statuses, alias \in BOOLEAN :
         /\ ResetWith(q, s, alias)
         /\ \/ pc[q] = "resetWrite" /\ s = snap[q] /\ alias = fromMem[q]
            \/ /\ pc[q] = "resetLoad" /\ ~redisUp[proc[q]]
               /\ s = mem[proc[q]] /\ alias
  <2>1. snap[q] \in Statuses /\ fromMem[q] \in BOOLEAN /\ mem[proc[q]] \in Statuses
    BY DEF TypeOK
  <2> QED
    BY <2>1 DEF ResetWrite, MemReset
<1> DEFINE p == proc[q]
<1>2. /\ pc' = [pc EXCEPT ![q] = "done"] /\ ~undone[q]
      /\ \A r \in Requests : r # q => snap'[r] = snap[r] /\ fromMem'[r] = fromMem[r]
      /\ UNCHANGED <<redisUp, lock, high, created, lapsed, kind, proc, owns, answer>>
  BY <1>1 DEF ResetWith, Goto, Forget, TypeOK, Progress
<1>3. /\ StoreDue(S)' => \/ store' \in S
                         \/ \E r \in Requests : /\ r # q /\ owns[r] /\ pc[r] = "write"
                                                /\ ~fromMem[r] /\ snap[r] \in S
      /\ \A x \in MemDue(S)' :
            x \in Procs /\ (mem'[x] \in S \/ (redisUp[x] /\ x \in MemDue(S)))
  BY <1>2, Leaves
<1>4. /\ Answered("granted")' = Answered("granted")
      /\ Answered("first")' = Answered("first")
  BY <1>2 DEF Answered
<1>5. faults <= faults' /\ faults' \in Nat
  BY <1>0, <1>1, WriteGuardAssumption DEF ResetWith, SaveAlias, Save, Fault, NoFault, TypeOK
<1>6. Undone \subseteq Undone'
  BY <1>1 DEF ResetWith, Undone, TypeOK
<1>7. Allowance(S) <= Allowance(S)'
  BY <1>2, <1>4, <1>6, AllowanceGrows
<1>8. CASE ~(s = "confirmed" /\ "pending" \in S /\ ~lapsed)
  <2>1. store' = store \/ store' \notin S
    BY <1>0, <1>1, <1>8 DEF ResetWith, SaveAlias, Save, NoFault
  <2>2. \A x \in Procs :
           \/ mem'[x] = mem[x] \/ mem'[x] \notin S
           \/ x = p /\ redisUp[p] /\ alias /\ mem'[x] = s
    BY <1>0, <1>1, <1>8 DEF ResetWith, SaveAlias, Save, NoFault, TypeOK
  <2>3. redisUp[p] /\ alias /\ s \in S => p \in MemDue(S)
    BY <1>0, <1>1 DEF MemDue
  <2>4. StoreDue(S)' => StoreDue(S)
    BY <1>3, <2>1 DEF StoreDue
  <2>5. MemDue(S)' \subseteq MemDue(S)
    BY <1>3, <2>2, <2>3 DEF MemDue
  <2>6. Aliased' \subseteq Aliased /\ Unlocked' \subseteq Unlocked /\ CutOff' \subseteq CutOff
    BY <1>2 DEF Aliased, Unlocked, CutOff, TypeOK
  <2> QED
    BY <1>4, <1>5, <1>7, <2>4, <2>5, <2>6, Calm
<1>9. CASE s = "confirmed" /\ "pending" \in S /\ ~lapsed
  <2>1. /\ SaveAlias(p, alias, "pending", "pending")
        /\ undone' = [undone EXCEPT ![q] = TRUE]
    BY <1>1, <1>9 DEF ResetWith
  <2>2. Allowance(S)' >= Allowance(S) + 1
    <3>1. Undone \subseteq Undone' \ {q} /\ q \in Undone'
      BY <1>2, <2>1 DEF Undone, TypeOK
    <3>2. Cardinality(Undone) + Due(q \in Undone') <= Cardinality(Undone')
      BY <3>1, Countable, OneLess
    <3> QED
      BY <1>2, <1>9, <3>1, <3>2, Amounts DEF Allowance, Due
  <2>3. MemDue(S)' \subseteq MemDue(S) \cup {p}
    BY <1>3, <2>1 DEF SaveAlias, Save, MemDue, TypeOK
  <2>4. /\ store' = store => (StoreDue(S)' => StoreDue(S))
        /\ mem' = mem => (p \in MemDue(S)' => p \in MemDue(S))
    BY <1>3 DEF StoreDue, MemDue
  <2>5. store' = store \/ mem' = mem \/ q \in Aliased \/ faults' = faults + 1
    <3>1. alias /\ redisUp[p] => q \in Aliased
      BY <1>1 DEF Aliased
    <3> QED
      BY <2>1, <3>1 DEF SaveAlias, Save, Fault
  <2>6. 0 + Due(StoreDue(S)') + Due(p \in MemDue(S)') + Allowance(S) + faults
          <= Due(q \in Aliased) + Due(q \in Unlocked) + Due(q \in CutOff)
             + Due(StoreDue(S)) + Due(p \in MemDue(S)) + Allowance(S)' + faults'
    <3>1. Allowance(S) \in Nat /\ Allowance(S)' \in Nat
      BY Amounts
    <3>2. Due(StoreDue(S)') + Due(p \in MemDue(S)')
              + faults
            <= Due(q \in Aliased) + Due(StoreDue(S)) + Due(p \in MemDue(S)) + 1 + faults'
      <4>1. /\ store' = store => Due(StoreDue(S)') <= Due(StoreDue(S))
            /\ mem' = mem => Due(p \in MemDue(S)') <= Due(p \in MemDue(S))
            /\ q \in Aliased => Due(q \in Aliased) = 1
        BY <2>4 DEF Due
      <4>2. \A b : Due(b) \in {0, 1}
        BY DEF Due
      <4> QED
        BY <1>0, <1>5, <2>5, <4>1, <4>2
    <3>3. \A b : Due(b) \in {0, 1}
      BY DEF Due
    <3> QED
      BY <1>0, <1>5, <2>2, <3>1, <3>2, <3>3
  <2>7. Cardinality(Answered("granted")') <= Cardinality(Answered("granted")) + 0
    BY <1>4, Amounts
  <2> QED
    BY <1>2, <2>3, <2>6, <2>7, Settles
<1> QED
  BY <1>8, <1>9

LEMMA StepsPay ==
    ASSUME GuardInv, LockHolds, [Next]_vars, NEW S \in Grounds PROVE Pays(S)
<1>1. GuardInv'
  BY GuardStep
<1>2. "none" \notin S
  BY DEF Grounds
<1> QED
  BY <1>1, <1>2, SuspendPays, VanishPays, ActPays, ResetPays, OtherStepsPay DEF Next, Advance

LEMMA DebtInit == Init => DebtBounded
<1> SUFFICES ASSUME Init, NEW S \in Grounds PROVE Debt(S) <= Allowance(S) + faults
  BY DEF DebtBounded
<1>1. "none" \notin S
  BY DEF Grounds
<1>2. ~StoreDue(S) /\ MemDue(S) = {} /\ Answered("granted") = {}
      /\ Aliased = {} /\ Unlocked = {} /\ CutOff = {}
  BY <1>1 DEF Init, StoreDue, MemDue, Answered, Aliased, Unlocked, CutOff
<1>3. Cardinality({}) = 0 /\ faults = 0
  BY FS_EmptySet DEF Init
<1>4. Debt(S) = 0
  BY <1>2, <1>3 DEF Debt, Due
<1> QED
  BY <1>3, <1>4, Amounts

LEMMA DebtStep == ASSUME GuardInv, DebtBounded, [Next]_vars PROVE DebtBounded'
<1> SUFFICES ASSUME LockHolds, NEW S \in Grounds' PROVE Debt(S)' <= Allowance(S)' + faults'
  BY DEF DebtBounded
<1>1. GuardInv' /\ high' = high
  <2>1. high' = high
    BY DEF Next, Advance, Suspend, RedisError, Restart, Load, Write, MemOperation, Release,
           Execute, ResetWrite, MemReset, ResetWith, Begin, LockExpire, Lapse, Vanish,
           record, request, vars
  <2> QED
    BY <2>1, GuardStep
<1>2. S \in Grounds /\ Debt(S) <= Allowance(S) + faults
  BY <1>1 DEF Grounds, DebtBounded
<1>3. Pays(S)
  BY <1>2, StepsPay
<1>4. Debt(S) \in Nat /\ Debt(S)' \in Nat
  BY Amounts DEF Debt, Due
<1>5. faults \in Nat /\ faults' \in Nat
  BY <1>1, WriteGuardAssumption DEF GuardInv, TypeOK
<1> QED
  BY <1>2, <1>3, <1>4, <1>5, Amounts DEF Pays

\* One statement that fails, one connection error or one restart costs at most
\* one execution too many, or one first confirmation too few, whatever else
\* goes on, as long as operations are faster than their lock.
THEOREM FaultsCostOneEach == Spec => []FaultsAreBounded
<1>1. GuardInv /\ DebtBounded => FaultsAreBounded
  <2> SUFFICES ASSUME GuardInv, DebtBounded, LockHolds
               PROVE  /\ Cardinality(Answered("granted")) <= Cardinality(Undone) + 1 + faults
                      /\ high => Cardinality(Answered("granted"))
                                   <= Cardinality(Answered("first")) + faults
    BY DEF FaultsAreBounded
  <2>1. \A S : /\ Cardinality(Answered("granted")) <= Debt(S)
               /\ Debt(S) \in Nat
    BY Amounts DEF Debt, Due
  <2>2. faults \in Nat
    BY WriteGuardAssumption DEF GuardInv, TypeOK
  <2>3. Cardinality(Answered("granted")) <= Cardinality(Undone) + 1 + faults
    <3> DEFINE S == {"pending", "first_confirmed"}
    <3>1. S \in Grounds /\ Allowance(S) = Cardinality(Undone) + Due(created)
      BY DEF Grounds, Allowance
    <3>2. Debt(S) <= Allowance(S) + faults
      BY <3>1 DEF DebtBounded
    <3> HIDE DEF S
    <3> QED
      BY <2>1, <2>2, <3>1, <3>2, Amounts DEF Due
  <2>4. ASSUME high
        PROVE  Cardinality(Answered("granted")) <= Cardinality(Answered("first")) + faults
    <3> DEFINE S == {"first_confirmed"}
    <3>1. S \in Grounds /\ Allowance(S) = Cardinality(Answered("first"))
      BY <2>4 DEF Grounds, Allowance
    <3>2. Debt(S) <= Allowance(S) + faults
      BY <3>1 DEF DebtBounded
    <3> HIDE DEF S
    <3> QED
      BY <2>1, <2>2, <3>1, <3>2, Amounts
  <2> QED
    BY <2>3, <2>4
<1> QED
  BY <1>1, GuardInit, GuardStep, DebtInit, DebtStep, PTL DEF Spec

-----------------------------------------------------------------------------
(* The circuit breaker: types                                              *)

\* Every step keeps the types.
LEMMA BreakerTypedStep == ASSUME BreakerTypeOK, [BreakerNext]_breakerVars PROVE BreakerTypeOK'
<1> USE BreakerAssumption
<1>1. 0 \in 0..Cooldown /\ Threshold \in 0..Threshold /\ 0 \in 0..Threshold
  OBVIOUS
<1>2. Filtered \in [Stamps -> 0..Window \cup {Never}]
  BY DEF Filtered, BreakerTypeOK
<1>3. NoFailures \in [Stamps -> 0..Window \cup {Never}]
  BY DEF NoFailures
<1>4. ASSUME NEW cap \in Nat, NEW age \in 0..cap \cup {Never}
      PROVE  Older(age, cap) \in 0..cap \cup {Never}
  BY DEF Older
<1>5. CASE \E c \in Calls : CanProceed(c)
  BY <1>1, <1>2, <1>3, <1>5
  DEF BreakerTypeOK, CanProceed, Refuse, TryAgain, Trip, Admit, OnRefusal, OpenedNow, breaker, history
<1>6. ASSUME NEW c \in Calls, Fail(c) PROVE BreakerTypeOK'
  <2>1. failedAt' \in [Stamps -> 0..Window \cup {Never}]
    BY <1>6 DEF Fail, BreakerTypeOK
  <2>2. streak' \in 0..Threshold
    BY <1>6 DEF Fail, BreakerTypeOK
  <2>3. openedAt' \in 0..Cooldown \cup {Never} /\ tripped' \in 0..Cooldown \cup {Never}
    BY <1>1, <1>6 DEF Fail, BreakerTypeOK, Reopens, OpenedNow
  <2> QED
    BY <1>6, <2>1, <2>2, <2>3 DEF Fail, BreakerTypeOK
<1>7. CASE \E c \in Calls : Succeed(c) \/ Intercept(c)
  BY <1>1, <1>3, <1>7 DEF BreakerTypeOK, Succeed, Intercept, AfterSuccess, breaker, history
<1>8. CASE Reset
  BY <1>1, <1>3, <1>8 DEF BreakerTypeOK, Reset
<1>9. CASE Tick
  BY <1>4, <1>9 DEF BreakerTypeOK, Tick
<1>10. CASE UNCHANGED breakerVars
  BY <1>10 DEF BreakerTypeOK, breakerVars, breaker, history
<1> QED
  BY <1>5, <1>6, <1>7, <1>8, <1>9, <1>10 DEF BreakerNext, Return

\* The type invariant holds for every value of the constants.
THEOREM BreakerTyping == BreakerSpec => []BreakerTypeOK
<1>1. BreakerInit => BreakerTypeOK
  <2>1. 0 \in 0..Threshold
    BY BreakerAssumption
  <2> QED
    BY <2>1 DEF BreakerInit, BreakerTypeOK, NoFailures
<1> QED
  BY <1>1, BreakerTypedStep, PTL DEF BreakerSpec

-----------------------------------------------------------------------------
(* The sets that the counting arguments are about                          *)

\* Everything that is counted is finite.
LEMMA Finite ==
    /\ IsFiniteSet(Listed) /\ Cardinality(Listed) \in Nat
    /\ IsFiniteSet(Recent) /\ Cardinality(Recent) \in Nat
    /\ IsFiniteSet(InFlight) /\ Cardinality(InFlight) \in Nat
    /\ Cardinality(Calls) \in Nat
    /\ Cardinality(Recent) <= Cardinality(Listed)
    /\ Cardinality(InFlight) <= Cardinality(Calls)
<1>1. Listed \subseteq Stamps /\ Recent \subseteq Listed /\ InFlight \subseteq Calls
  BY DEF Listed, Recent, InFlight
<1>2. IsFiniteSet(Listed)
  BY <1>1, BreakerAssumption, FS_Subset
<1> QED
  BY <1>1, <1>2, BreakerAssumption, FS_Subset, FS_CardinalityType

\* Filtering keeps the recent stamps, a success and a reset keep none, and
\* time alone drops none.
LEMMA ListedNext ==
    /\ failedAt' = Filtered => Listed' = Recent
    /\ failedAt' = NoFailures => Cardinality(Listed') = 0
    /\ BreakerTypeOK /\ Tick => Listed' = Listed
    /\ UNCHANGED failedAt => Listed' = Listed
<1>1. failedAt' = Filtered => Listed' = Recent
  BY DEF Filtered, Listed, Recent
<1>2. failedAt' = NoFailures => Listed' = {}
  BY DEF NoFailures, Listed
<1>3. ASSUME BreakerTypeOK, NEW s \in Stamps
      PROVE  Older(failedAt[s], Window) # Never <=> failedAt[s] # Never
  BY <1>3, BreakerAssumption DEF Older, BreakerTypeOK
<1>4. BreakerTypeOK /\ Tick => Listed' = Listed
  BY <1>3, BreakerAssumption DEF BreakerTypeOK, Tick, Listed
<1> QED
  BY <1>1, <1>2, <1>4, FS_EmptySet DEF Listed

\* A failure adds one stamp.
LEMMA ListedFail ==
    ASSUME BreakerTypeOK, NEW c \in Calls, Fail(c)
    PROVE  Cardinality(Listed') = Cardinality(Listed) + 1
<1>1. PICK s \in Stamps \ Listed : failedAt' = [failedAt EXCEPT ![s] = 0]
  BY DEF Fail
<1>2. Listed' = Listed \cup {s} /\ s \notin Listed
  BY <1>1, BreakerAssumption DEF BreakerTypeOK, Listed
<1> QED
  BY <1>2, Finite, FS_AddElement

\* A call that returns leaves the set of running calls.
LEMMA InFlightReturn ==
    ASSUME BreakerTypeOK, NEW c \in Calls, call[c] # "idle", call' = [call EXCEPT ![c] = "idle"]
    PROVE  Cardinality(InFlight') = Cardinality(InFlight) - 1
<1>1. InFlight' = InFlight \ {c} /\ c \in InFlight
  BY DEF BreakerTypeOK, InFlight
<1> QED
  BY <1>1, Finite, FS_RemoveElement

-----------------------------------------------------------------------------
(* Cutting off                                                             *)

\* The evidence: the stamps never outnumber the failures since the last
\* success, and the history of openings agrees with openedAt.
Evidence ==
    /\ streak = Threshold \/ Cardinality(Listed) <= streak
    /\ openedAt # Never \/ halfOpen => streak = Threshold
    /\ openedAt # Never => tripped = openedAt
    /\ openedAt = Never => tripped \in {Never, Cooldown}

LEMMA EvidenceStep == ASSUME BreakerTypeOK, Evidence, [BreakerNext]_breakerVars PROVE Evidence'
<1> USE BreakerAssumption
<1>1. ASSUME NEW c \in Calls, Refuse(c) PROVE Evidence'
  BY <1>1, Finite, ListedNext
  DEF Refuse, OnRefusal, Evidence, history, BreakerTypeOK
<1>2. ASSUME NEW c \in Calls, TryAgain(c) PROVE Evidence'
  BY <1>2, ListedNext DEF TryAgain, Cooling, Evidence, history, BreakerTypeOK
<1>3. ASSUME NEW c \in Calls, Trip(c) PROVE Evidence'
  <2>1. streak = Threshold
    BY <1>3, Finite DEF Trip, Evidence, BreakerTypeOK
  <2> QED
    BY <1>3, <2>1 DEF Trip, Evidence, OpenedNow, BreakerTypeOK
<1>4. ASSUME NEW c \in Calls, Admit(c) PROVE Evidence'
  BY <1>4, Finite, ListedNext DEF Admit, Evidence, history, BreakerTypeOK
<1>5. ASSUME NEW c \in Calls, Succeed(c) PROVE Evidence'
  BY <1>5, ListedNext DEF Succeed, AfterSuccess, Evidence
<1>6. ASSUME NEW c \in Calls, Fail(c) PROVE Evidence'
  <2>1. streak' = Threshold \/ Cardinality(Listed') <= streak'
    <3>1. streak' = IF streak < Threshold THEN streak + 1 ELSE streak
      BY <1>6 DEF Fail
    <3>2. Cardinality(Listed') = Cardinality(Listed) + 1
      BY <1>6, ListedFail
    <3> QED
      BY <3>1, <3>2, Finite DEF Evidence, BreakerTypeOK
  <2>2. openedAt' # Never \/ halfOpen' => streak' = Threshold
    BY <1>6 DEF Fail, Evidence, Reopens
  <2>3. /\ openedAt' # Never => tripped' = openedAt'
        /\ openedAt' = Never => tripped' \in {Never, Cooldown}
    BY <1>6 DEF Fail, Evidence, Reopens, OpenedNow
  <2> QED
    BY <2>1, <2>2, <2>3 DEF Evidence
<1>7. ASSUME NEW c \in Calls, Intercept(c) PROVE Evidence'
  BY <1>7, ListedNext DEF Intercept, Evidence, breaker, history
<1>8. CASE Reset
  BY <1>8, ListedNext DEF Reset, Evidence
<1>9. CASE Tick
  <2>1. /\ openedAt' # Never => openedAt # Never
        /\ openedAt # Never => openedAt' # Never
        /\ openedAt # Never => tripped' = openedAt'
        /\ tripped \in {Never, Cooldown} => tripped' \in {Never, Cooldown}
    BY <1>9 DEF Tick, Older, BreakerTypeOK, Evidence
  <2>2. streak' = streak /\ halfOpen' = halfOpen /\ Listed' = Listed
    BY <1>9, ListedNext DEF Tick
  <2> QED
    BY <2>1, <2>2 DEF Evidence
<1>10. CASE UNCHANGED breakerVars
  BY <1>10, ListedNext DEF Evidence, breakerVars, breaker, history
<1> QED
  BY <1>1, <1>2, <1>3, <1>4, <1>5, <1>6, <1>7, <1>8, <1>9, <1>10
  DEF BreakerNext, CanProceed, Return

LEMMA EvidenceHolds == BreakerSpec => [](BreakerTypeOK /\ Evidence)
<1>1. BreakerInit => Evidence
  <2>1. BreakerInit => Listed = {}
    BY DEF BreakerInit, Listed, NoFailures
  <2> QED
    BY <2>1, FS_EmptySet, BreakerAssumption DEF BreakerInit, Evidence
<1> QED
  BY <1>1, BreakerTyping, EvidenceStep, PTL DEF BreakerSpec

\* A tool is cut off only after Threshold failures with no success and no
\* reset among them.
THEOREM OpensOnEvidence == BreakerSpec => []CutOffIsJustified
<1>1. Evidence => CutOffIsJustified
  BY DEF Evidence, CutOffIsJustified
<1> QED
  BY <1>1, EvidenceHolds, PTL

\* No call gets through during the cool-down, unless a success or a reset
\* came after the opening.
THEOREM CooldownsHold == BreakerSpec => CooldownIsKept
<1> DEFINE Kept == \A c \in Calls :
                     call[c] = "idle" /\ call'[c] # "idle" => tripped \in {Never, Cooldown}
<1>1. ASSUME BreakerTypeOK, Evidence, [BreakerNext]_breakerVars PROVE [Kept]_breakerVars
  <2>0. SUFFICES ASSUME NEW d \in Calls, call[d] = "idle", call'[d] # "idle"
                 PROVE  tripped \in {Never, Cooldown}
    OBVIOUS
  <2>1. ASSUME NEW c \in Calls, TryAgain(c) PROVE tripped = Cooldown
    BY <1>1, <2>1, BreakerAssumption DEF TryAgain, Cooling, Evidence, BreakerTypeOK
  <2>2. ASSUME NEW c \in Calls, Admit(c) PROVE tripped \in {Never, Cooldown}
    BY <1>1, <2>2 DEF Admit, Evidence
  <2>3. ASSUME NEW c \in Calls, Return(c) PROVE FALSE
    BY <1>1, <2>0, <2>3 DEF Return, Succeed, Fail, Intercept, BreakerTypeOK
  <2>4. ASSUME NEW c \in Calls, Refuse(c) \/ Trip(c) PROVE FALSE
    BY <2>0, <2>4 DEF Refuse, Trip
  <2>5. ~Reset /\ ~Tick /\ ~UNCHANGED breakerVars
    BY <2>0 DEF Reset, Tick, breakerVars
  <2> QED
    BY <1>1, <2>1, <2>2, <2>3, <2>4, <2>5 DEF BreakerNext, CanProceed
<1> QED
  BY <1>1, EvidenceHolds, PTL DEF BreakerSpec, CooldownIsKept

-----------------------------------------------------------------------------
(* The list of time stamps                                                 *)

\* The list of time stamps is bounded by the threshold and the number of
\* calls that run at the same time.
THEOREM StampBound == BreakerSpec => []StampsAreBounded
<1> USE BreakerAssumption
<1>1. BreakerInit => StampsAreBounded
  <2>1. BreakerInit => Listed = {} /\ InFlight = {}
    BY DEF BreakerInit, Listed, InFlight, NoFailures
  <2> QED
    BY <2>1, FS_EmptySet, Finite DEF StampsAreBounded
<1>2. ASSUME BreakerTypeOK, StampsAreBounded, [BreakerNext]_breakerVars PROVE StampsAreBounded'
  <2>0. Cardinality(InFlight') \in Nat /\ Cardinality(InFlight') <= Cardinality(Calls)
    <3>1. InFlight' \subseteq Calls
      BY DEF InFlight
    <3> QED
      BY <3>1, FS_Subset, FS_CardinalityType
  <2>1. UNCHANGED call => InFlight' = InFlight
    BY DEF InFlight
  <2>2. ASSUME NEW c \in Calls, Refuse(c) \/ Trip(c) PROVE StampsAreBounded'
    BY <1>2, <2>1, <2>2, Finite, ListedNext DEF Refuse, Trip, StampsAreBounded
  <2>3. ASSUME NEW c \in Calls, TryAgain(c) \/ Admit(c) PROVE StampsAreBounded'
    BY <1>2, <2>0, <2>3, Finite, ListedNext DEF TryAgain, Admit, StampsAreBounded
  <2>4. ASSUME NEW c \in Calls, Succeed(c) PROVE StampsAreBounded'
    BY <1>2, <2>0, <2>4, Finite, ListedNext DEF Succeed, AfterSuccess, StampsAreBounded
  <2>5. ASSUME NEW c \in Calls, Fail(c) PROVE StampsAreBounded'
    <3>1. Cardinality(InFlight') = Cardinality(InFlight) - 1
      BY <1>2, <2>5, InFlightReturn DEF Fail
    <3> QED
      BY <1>2, <2>5, <3>1, ListedFail, Finite DEF StampsAreBounded
  <2>6. ASSUME NEW c \in Calls, Intercept(c) PROVE StampsAreBounded'
    <3>1. Cardinality(InFlight') = Cardinality(InFlight) - 1
      BY <1>2, <2>6, InFlightReturn DEF Intercept
    <3> QED
      BY <1>2, <2>6, <3>1, ListedNext, Finite DEF Intercept, breaker, StampsAreBounded
  <2>7. CASE Reset
    BY <1>2, <2>0, <2>7, Finite, ListedNext DEF Reset, StampsAreBounded
  <2>8. CASE Tick
    BY <1>2, <2>1, <2>8, ListedNext DEF Tick, StampsAreBounded
  <2>9. CASE UNCHANGED breakerVars
    BY <1>2, <2>1, <2>9, ListedNext DEF breakerVars, breaker, StampsAreBounded
  <2> QED
    BY <1>2, <2>2, <2>3, <2>4, <2>5, <2>6, <2>7, <2>8, <2>9 DEF BreakerNext, CanProceed, Return
<1> QED
  BY <1>1, <1>2, BreakerTyping, PTL DEF BreakerSpec
=============================================================================
