------------------------------ MODULE WriteGuard ------------------------------
(***************************************************************************)
(* The life of one write token in WriteGuardService                        *)
(* (src/src/brain/write-guard.service.ts), as confirmAndExecute of the     *)
(* ConfirmationService drives it: confirm, execute, and back to pending    *)
(* when the write failed.                                                  *)
(*                                                                         *)
(* Requests run concurrently in several processes.  Each await is a step:  *)
(* taking the lock, reading the record, writing it back, releasing the     *)
(* lock.  The record lives in Redis; a process whose Redis statement fails *)
(* uses its own Map instead, and a process that has seen a connection      *)
(* error uses nothing but its Map.                                         *)
(***************************************************************************)
EXTENDS Naturals, FiniteSets

CONSTANTS
    Requests,    \* confirm and cancel requests
    Procs,       \* processes of the service
    Free,        \* the lock is not taken
    Failing,     \* the Redis statements that may fail
    MaxFaults,   \* bound on the failing statements, errors and restarts
    LockHolds    \* TRUE: an operation ends before its lock expires (5 s)

ASSUME WriteGuardAssumption ==
    /\ Free \notin Requests
    /\ IsFiniteSet(Requests) /\ IsFiniteSet(Procs)
    /\ Failing \subseteq {"lock", "read", "write", "release", "connection", "process"}
    /\ MaxFaults \in Nat
    /\ LockHolds \in BOOLEAN

VARIABLES
    store,      \* status of the record in Redis
    mem,        \* status of the record in the Map of each process
    redisUp,    \* redisAvailable of each process
    lock,       \* owner of ai:wg:lock:<token> in Redis
    high,       \* risk = high or needsReview
    created,    \* suspend() has run
    lapsed,     \* expiresAt has passed
    pc,         \* where each request is
    kind,       \* what it asks for
    proc,       \* the process that serves it
    owns,       \* it was told that it has the lock
    snap,       \* the status it has read
    fromMem,    \* ... from the Map, by reference
    answer,     \* what it was told
    undone,     \* its write failed and it set the token back to pending
    faults

record  == <<store, mem, redisUp, lock, high, created, lapsed>>
request == <<pc, kind, proc, owns, snap, fromMem, answer, undone>>
vars    == <<record, request, faults>>

Statuses == {"none", "pending", "first_confirmed", "confirmed", "cancelled"}
Kinds    == {"confirm", "confirmOther", "cancel"}
Answers  == {"none", "refused", "busy", "first", "granted", "cancelled"}
PCs      == {"idle", "load", "write", "release", "execute", "resetLoad",
             "resetWrite", "done", "dead"}

TypeOK ==
    /\ store \in Statuses
    /\ mem \in [Procs -> Statuses]
    /\ redisUp \in [Procs -> BOOLEAN]
    /\ lock \in Requests \cup {Free}
    /\ high \in BOOLEAN /\ created \in BOOLEAN /\ lapsed \in BOOLEAN
    /\ pc \in [Requests -> PCs]
    /\ kind \in [Requests -> Kinds]
    /\ proc \in [Requests -> Procs]
    /\ owns \in [Requests -> BOOLEAN]
    /\ snap \in [Requests -> Statuses]
    /\ fromMem \in [Requests -> BOOLEAN]
    /\ answer \in [Requests -> Answers]
    /\ undone \in [Requests -> BOOLEAN]
    /\ faults \in 0..MaxFaults

Init ==
    /\ store = "none"
    /\ mem = [p \in Procs |-> "none"]
    /\ redisUp = [p \in Procs |-> TRUE]
    /\ lock = Free
    /\ high \in BOOLEAN /\ created = FALSE /\ lapsed = FALSE
    /\ pc = [q \in Requests |-> "idle"]
    /\ kind = [q \in Requests |-> "confirm"]
    /\ proc \in [Requests -> Procs]
    /\ owns = [q \in Requests |-> FALSE]
    /\ snap = [q \in Requests |-> "none"]
    /\ fromMem = [q \in Requests |-> FALSE]
    /\ answer = [q \in Requests |-> "none"]
    /\ undone = [q \in Requests |-> FALSE]
    /\ faults = 0

-----------------------------------------------------------------------------
(* Storage                                                                 *)

Fault(what) == what \in Failing /\ faults < MaxFaults /\ faults' = faults + 1
NoFault     == UNCHANGED faults

Goto(q, label) == pc' = [pc EXCEPT ![q] = label]

\* The record that was read is a local variable of the operation.
Forget(q) == snap' = [snap EXCEPT ![q] = "none"] /\ fromMem' = [fromMem EXCEPT ![q] = FALSE]

\* save(): Redis first, the process's Map when the statement fails, whether
\* Redis has carried it out and only its answer was lost, or not.
Save(p, status) ==
    \/ redisUp[p] /\ NoFault /\ store' = status /\ UNCHANGED mem
    \/ redisUp[p] /\ Fault("write") /\ mem' = [mem EXCEPT ![p] = status] /\ store' \in {store, status}
    \/ ~redisUp[p] /\ NoFault /\ mem' = [mem EXCEPT ![p] = status] /\ UNCHANGED store

\* save() and remove() of a record that was read from the Map: the object in
\* the Map has been changed already, whichever store the statement reaches.
SaveAlias(p, alias, object, status) ==
    IF alias
    THEN \/ redisUp[p] /\ NoFault /\ store' = status /\ mem' = [mem EXCEPT ![p] = object]
         \/ redisUp[p] /\ Fault("write") /\ mem' = [mem EXCEPT ![p] = status] /\ store' \in {store, status}
         \/ ~redisUp[p] /\ NoFault /\ mem' = [mem EXCEPT ![p] = status] /\ UNCHANGED store
    ELSE Save(p, status)

-----------------------------------------------------------------------------
(* The decisions of confirm, cancel and resetToPending                     *)

\* doConfirm and doCancel on a record with status s: the answer and the
\* status to write ("none" removes the record, s leaves it alone).
ConfirmAgain(s) ==
    CASE s \in {"none", "cancelled"} -> [answer |-> "refused", next |-> s]
      [] s = "pending" /\ high -> [answer |-> "first", next |-> "first_confirmed"]
      [] OTHER -> [answer |-> "granted", next |-> "confirmed"]

ConfirmUnknown(s) ==
    IF s \in {"none", "cancelled", "confirmed"} THEN [answer |-> "refused", next |-> s]
                                                ELSE [answer |-> "granted", next |-> "executed"]

ConfirmOutcome(s) ==
    CASE s \in {"none", "cancelled", "confirmed"} -> [answer |-> "refused", next |-> s]
      [] s = "pending" /\ high -> [answer |-> "first", next |-> "first_confirmed"]
      [] OTHER -> [answer |-> "granted", next |-> "confirmed"]

CancelKeeps(s) ==
    IF s \in {"none", "confirmed"} THEN [answer |-> "refused", next |-> s]
                                   ELSE [answer |-> "cancelled", next |-> s]

CancelConfirmed(s) ==
    IF s = "none" THEN [answer |-> "refused", next |-> s]
                  ELSE [answer |-> "cancelled", next |-> "none"]

CancelOutcome(s) ==
    IF s \in {"none", "confirmed"} THEN [answer |-> "refused", next |-> s]
                                   ELSE [answer |-> "cancelled", next |-> "none"]

\* get() drops an expired record before anyone looks at its status.
Outcome(q, s) ==
    IF s # "none" /\ lapsed
    THEN [answer |-> "refused", next |-> "none"]
    ELSE CASE kind[q] = "confirmOther" -> [answer |-> "refused", next |-> s]
           [] kind[q] = "confirm" -> ConfirmOutcome(s)
           [] kind[q] = "cancel" -> CancelOutcome(s)

\* What a removed record looks like to those who still refer to the object.
Object(a, next) == IF a = "cancelled" THEN "cancelled" ELSE next

\* Carry out the outcome for a record that was read with status s.
Act(q, s, alias) ==
    LET o == Outcome(q, s)
    IN  /\ answer' = [answer EXCEPT ![q] = o.answer]
        /\ IF o.next = s
           THEN NoFault /\ UNCHANGED <<store, mem>>
           ELSE SaveAlias(proc[q], alias, Object(o.answer, o.next), o.next)

-----------------------------------------------------------------------------
(* Actions                                                                 *)

\* suspend(): the token is created and handed to the user.
Suspend(p) ==
    /\ ~created
    /\ created' = TRUE
    /\ Save(p, "pending")
    /\ UNCHANGED <<redisUp, lock, high, lapsed, request>>

\* NX: the lock is taken only when nobody has it.
LockUnconditional == TRUE
LockAvailable     == lock = Free

\* acquireTokenLock(): SET NX PX 5000.  A process without Redis, or whose
\* statement fails, goes on without the lock.
Begin(q, k) ==
    LET p == proc[q]
    IN  /\ pc[q] = "idle" /\ created
        /\ kind' = [kind EXCEPT ![q] = k]
        /\ \/ /\ redisUp[p] /\ LockAvailable /\ NoFault
              /\ lock' = q
              /\ owns' = [owns EXCEPT ![q] = TRUE]
              /\ Goto(q, "load") /\ UNCHANGED answer
           \/ /\ redisUp[p] /\ ~LockAvailable /\ NoFault
              /\ answer' = [answer EXCEPT ![q] = "busy"]
              /\ Goto(q, "done") /\ UNCHANGED <<lock, owns>>
           \/ /\ redisUp[p] /\ Fault("lock")
              /\ lock' \in {lock, IF lock = Free THEN q ELSE lock}
              /\ Goto(q, "load") /\ UNCHANGED <<owns, answer>>
           \/ /\ ~redisUp[p] /\ NoFault
              /\ Goto(q, "load") /\ UNCHANGED <<lock, owns, answer>>
        /\ UNCHANGED <<store, mem, redisUp, high, created, lapsed, proc, snap, fromMem, undone>>

\* load(): GET from Redis; a failing statement reads the Map instead.
Load(q) ==
    LET p == proc[q]
    IN  /\ pc[q] \in {"load", "resetLoad"} /\ redisUp[p]
        /\ \/ NoFault /\ snap' = [snap EXCEPT ![q] = store]
                      /\ fromMem' = [fromMem EXCEPT ![q] = FALSE]
           \/ Fault("read") /\ snap' = [snap EXCEPT ![q] = mem[p]]
                            /\ fromMem' = [fromMem EXCEPT ![q] = TRUE]
        /\ Goto(q, IF pc[q] = "load" THEN "write" ELSE "resetWrite")
        /\ UNCHANGED <<record, kind, proc, owns, answer, undone>>

\* The rest of doConfirm or doCancel on the status that was read.
Write(q) ==
    /\ pc[q] = "write"
    /\ Act(q, snap[q], fromMem[q])
    /\ Forget(q)
    /\ Goto(q, "release")
    /\ UNCHANGED <<redisUp, lock, high, created, lapsed, kind, proc, owns, undone>>

\* Without Redis, reading and writing the Map happen without an await on I/O.
MemOperation(q) ==
    /\ pc[q] = "load" /\ ~redisUp[proc[q]]
    /\ Act(q, mem[proc[q]], TRUE)
    /\ Goto(q, "release")
    /\ UNCHANGED <<redisUp, lock, high, created, lapsed, kind, proc, owns, snap, fromMem, undone>>

\* releaseTokenLock(): compare-and-delete; errors are ignored.
Release(q) ==
    /\ pc[q] = "release"
    /\ \/ NoFault /\ lock' = IF owns[q] /\ redisUp[proc[q]] /\ lock = q THEN Free ELSE lock
       \/ owns[q] /\ redisUp[proc[q]] /\ Fault("release") /\ UNCHANGED lock
    /\ owns' = [owns EXCEPT ![q] = FALSE]
    /\ Goto(q, IF answer[q] = "granted" THEN "execute" ELSE "done")
    /\ UNCHANGED <<store, mem, redisUp, high, created, lapsed, kind, proc, snap, fromMem,
                   answer, undone>>

\* executeConfirmed(): the tool succeeds, or fails and the token is reset.
Execute(q) ==
    /\ pc[q] = "execute"
    /\ \E label \in {"done", "resetLoad"} : Goto(q, label)
    /\ UNCHANGED <<record, kind, proc, owns, snap, fromMem, answer, undone, faults>>

\* resetToPending(), the part after the read: no lock is taken.
ResetWith(q, s, alias) ==
    /\ IF s # "none" /\ lapsed
       THEN SaveAlias(proc[q], alias, s, "none") /\ UNCHANGED undone
       ELSE IF s = "confirmed"
       THEN /\ SaveAlias(proc[q], alias, "pending", "pending")
            /\ undone' = [undone EXCEPT ![q] = TRUE]
       ELSE NoFault /\ UNCHANGED <<store, mem, undone>>
    /\ Forget(q)
    /\ Goto(q, "done")
    /\ UNCHANGED <<redisUp, lock, high, created, lapsed, kind, proc, owns, answer>>

ResetWrite(q) == pc[q] = "resetWrite" /\ ResetWith(q, snap[q], fromMem[q])

MemReset(q) ==
    /\ pc[q] = "resetLoad" /\ ~redisUp[proc[q]]
    /\ ResetWith(q, mem[proc[q]], TRUE)

\* The TTL of the lock runs out.
LockExpire ==
    /\ lock # Free
    /\ LockHolds => ~owns[lock]
    /\ lock' = Free
    /\ UNCHANGED <<store, mem, redisUp, high, created, lapsed, request, faults>>

\* expiresAt passes.
Lapse ==
    /\ created /\ ~lapsed
    /\ lapsed' = TRUE
    /\ UNCHANGED <<store, mem, redisUp, lock, high, created, request, faults>>

\* An expired record disappears: Redis deletes the key, the cron job the Map
\* entry.
Vanish ==
    /\ lapsed
    /\ \/ store # "none" /\ store' = "none" /\ UNCHANGED mem
       \/ \E p \in Procs : /\ mem[p] # "none"
                           /\ mem' = [mem EXCEPT ![p] = "none"]
                           /\ UNCHANGED store
    /\ UNCHANGED <<redisUp, lock, high, created, lapsed, request, faults>>

\* The connection of a process reports an error: Redis is never used again.
RedisError(p) ==
    /\ redisUp[p] /\ Fault("connection")
    /\ redisUp' = [redisUp EXCEPT ![p] = FALSE]
    /\ UNCHANGED <<store, mem, lock, high, created, lapsed, request>>

\* A process dies with its Map and its requests, and starts again.
Restart(p) ==
    /\ Fault("process")
    /\ mem' = [mem EXCEPT ![p] = "none"]
    /\ redisUp' = [redisUp EXCEPT ![p] = TRUE]
    /\ pc' = [q \in Requests |-> IF proc[q] = p /\ pc[q] \notin {"idle", "done"}
                                 THEN "dead" ELSE pc[q]]
    /\ owns' = [q \in Requests |-> IF proc[q] = p THEN FALSE ELSE owns[q]]
    /\ UNCHANGED <<store, lock, high, created, lapsed, kind, proc, snap, fromMem, answer, undone>>

Advance(q) ==
    \/ Load(q) \/ Write(q) \/ MemOperation(q) \/ Release(q)
    \/ Execute(q) \/ ResetWrite(q) \/ MemReset(q)

Next ==
    \/ \E p \in Procs : Suspend(p) \/ RedisError(p) \/ Restart(p)
    \/ \E q \in Requests : Advance(q) \/ (\E k \in Kinds : Begin(q, k))
    \/ LockExpire \/ Lapse \/ Vanish

Spec == Init /\ [][Next]_vars

-----------------------------------------------------------------------------
(* Properties                                                              *)

Answered(a) == {q \in Requests : answer[q] = a}
Undone      == {q \in Requests : undone[q]}

\* The token lets one request execute, another one only after an execution
\* failed and gave the token back, and every execution of a risky write has
\* been confirmed by a first request of its own.  A fault does bounded damage:
\* one extra execution, or one missing first confirmation, as long as
\* operations are faster than their lock.
FaultsAreBounded ==
    LockHolds =>
        /\ Cardinality(Answered("granted")) <= Cardinality(Undone) + 1 + faults
        /\ high => Cardinality(Answered("granted")) <= Cardinality(Answered("first")) + faults

\* Once a cancel request was told that the write is cancelled, nobody is told
\* to execute it.
NoGrantAfterCancel ==
    [][Answered("cancelled") # {} => Answered("granted")' = Answered("granted")]_vars

\* Confirming and cancelling exclude each other while operations are faster
\* than their lock.
LockExcludes ==
    LockHolds => \A q, r \in Requests : owns[q] /\ owns[r] => q = r

\* The requests of one token, seen together, behave like the indivisible
\* state machine of WriteToken.
Token == INSTANCE WriteToken WITH status <- store, granted <- Answered("granted")
IsWriteToken == Token!Spec
=============================================================================
