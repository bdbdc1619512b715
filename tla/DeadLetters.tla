----------------------------- MODULE DeadLetters -----------------------------
(***************************************************************************)
(* Dead letters: the table t_ai_dead_letter, the sink that writes to it    *)
(* (src/src/ops/dead-letter-sink.service.ts) and the Redis stream that     *)
(* holds the letters the sink could not write, until a periodic round      *)
(* writes them (src/src/ops/dead-letter-replay.service.ts).                *)
(*                                                                         *)
(* MySQL may fail at every insert, before or after it wrote the row, and   *)
(* Redis at MaxFaults commands.  Rounds of one process share its counters  *)
(* of attempts; all rounds of all processes read as one consumer.  Each    *)
(* letter enters the stream at most once, so entries are named by their    *)
(* letters.                                                                *)
(***************************************************************************)
EXTENDS Naturals, FiniteSets

CONSTANTS
    Letters,        \* the dead letters
    Processes,      \* the instances of the service
    Rounds,         \* rounds of consume() that may be under way at once
    Home,           \* the process of each round
    MaxAttempts,    \* DEAD_LETTER_REPLAY_MAX_ATTEMPTS
    Batch,          \* DEAD_LETTER_REPLAY_BATCH
    MaxLen,         \* DEAD_LETTER_REPLAY_STREAM_MAXLEN
    MaxFaults,      \* bound on Redis errors and restarts
    None            \* no letter

ASSUME LettersAssumption ==
    /\ IsFiniteSet(Letters) /\ None \notin Letters
    /\ IsFiniteSet(Rounds)
    /\ Home \in [Rounds -> Processes]
    /\ {MaxAttempts, Batch, MaxLen} \subseteq Nat \ {0}
    /\ MaxFaults \in Nat

VARIABLES
    sink,       \* what the sink has to do with a letter: "insert", "enqueue" or "done"
    late,       \* letters whose insert the sink gave up on, but may succeed
    bySink,     \* letters that have a row from the sink
    pos,        \* the position of a letter in the stream, 0 if it is not
    first,      \* the stream keeps the positions from here on
    group,      \* the consumer group exists
    read,       \* and has delivered the positions up to this one
    skipped,    \* the positions before the group: a history variable
    pel,        \* delivered and not acknowledged
    attempts,   \* of each process, for each letter
    waiting,    \* of each process: letters whose back-off has not elapsed
    pc,         \* where each round is
    batch,      \* the letters it still has to process
    cur,        \* the letter it is processing
    tried,      \* the number of the attempt it is making
    rows,       \* how many rows the rounds have written for a letter
    lost,       \* how many of them by an insert whose answer was lost
    failures,   \* failed inserts of a letter by the rounds, up to MaxAttempts
    faults      \* Redis errors and restarts so far

sinkVars == <<sink, late, bySink>>
stream   == <<pos, first, group, read, skipped, pel>>
memory   == <<attempts, waiting>>
round    == <<pc, batch, cur, tried>>
history  == <<rows, lost, failures>>
vars     == <<sinkVars, stream, memory, round, history, faults>>

Positions == 0..Cardinality(Letters)

TypeOK ==
    /\ sink \in [Letters -> {"insert", "enqueue", "done"}]
    /\ late \subseteq Letters /\ bySink \subseteq Letters
    /\ pos \in [Letters -> Positions]
    /\ first \in 1..Cardinality(Letters) + 1
    /\ group \in BOOLEAN /\ read \in Positions /\ skipped \in Positions
    /\ pel \subseteq Letters
    /\ attempts \in [Processes -> [Letters -> 0..MaxAttempts]]
    /\ waiting \in [Processes -> SUBSET Letters]
    /\ pc \in [Rounds -> {"idle", "group", "pending", "fresh", "next", "insert", "terminal", "ack"}]
    /\ batch \in [Rounds -> SUBSET Letters]
    /\ cur \in [Rounds -> Letters \cup {None}]
    /\ tried \in [Rounds -> 0..MaxAttempts]
    /\ rows \in [Letters -> Nat] /\ lost \in [Letters -> Nat]
    /\ failures \in [Letters -> 0..MaxAttempts]
    /\ faults \in 0..MaxFaults

Init ==
    /\ sink = [l \in Letters |-> "insert"] /\ late = {} /\ bySink = {}
    /\ pos = [l \in Letters |-> 0] /\ first = 1
    /\ group \in BOOLEAN /\ read = 0 /\ skipped = 0 /\ pel = {}
    /\ attempts = [i \in Processes |-> [l \in Letters |-> 0]]
    /\ waiting = [i \in Processes |-> {}]
    /\ pc = [r \in Rounds |-> "idle"]
    /\ batch = [r \in Rounds |-> {}]
    /\ cur = [r \in Rounds |-> None]
    /\ tried = [r \in Rounds |-> 0]
    /\ rows = [l \in Letters |-> 0] /\ lost = [l \in Letters |-> 0]
    /\ failures = [l \in Letters |-> 0]
    /\ faults = 0

Fault           == faults < MaxFaults /\ faults' = faults + 1
Goto(r, label)  == pc' = [pc EXCEPT ![r] = label]

-----------------------------------------------------------------------------
(* The sink                                                                *)

\* insertWithDeadline(): written, refused, or given up on.
SinkInsert(l) ==
    /\ sink[l] = "insert"
    /\ \/ /\ sink' = [sink EXCEPT ![l] = "done"]
          /\ bySink' = bySink \cup {l}
          /\ UNCHANGED late
       \/ /\ sink' = [sink EXCEPT ![l] = "enqueue"]
          /\ late' \in {late, late \cup {l}}
          /\ UNCHANGED bySink
    /\ UNCHANGED <<stream, memory, round, history, faults>>

\* The insert that was given up on succeeds after all.
LateInsert(l) ==
    /\ l \in late
    /\ late' = late \ {l}
    /\ bySink' = bySink \cup {l}
    /\ UNCHANGED <<sink, stream, memory, round, history, faults>>

Last == Cardinality({l \in Letters : pos[l] > 0})

\* enqueue(): XADD trims the stream to about MaxLen entries, whoever waits
\* for them.  If Redis fails the letter is only logged.
Enqueue(l) ==
    /\ sink[l] = "enqueue"
    /\ sink' = [sink EXCEPT ![l] = "done"]
    /\ \/ /\ pos' = [pos EXCEPT ![l] = Last + 1]
          /\ first' \in {first} \cup {n \in Positions : first < n /\ n + MaxLen <= Last + 2}
          /\ UNCHANGED faults
       \/ Fault /\ UNCHANGED <<pos, first>>
    /\ UNCHANGED <<late, bySink, group, read, skipped, pel, memory, round, history>>

-----------------------------------------------------------------------------
(* A round                                                                 *)

\* consume() is called every five minutes, even if the last call is not done.
Begin(r) ==
    /\ pc[r] = "idle"
    /\ Goto(r, "group")
    /\ UNCHANGED <<sinkVars, stream, memory, batch, cur, tried, history, faults>>

\* A Redis command of the round fails: the rest of the round is given up.
End(r) ==
    /\ Goto(r, "idle")
    /\ batch' = [batch EXCEPT ![r] = {}]
    /\ cur' = [cur EXCEPT ![r] = None]
    /\ tried' = [tried EXCEPT ![r] = 0]

RedisError(r) ==
    /\ pc[r] \in {"group", "pending", "fresh"}
    /\ Fault /\ End(r)
    /\ UNCHANGED <<sinkVars, stream, memory, history>>

\* Where a new group starts: '$' is the end of the stream.
StartOfGroup == Last

\* ensureGroup(): an existing group is left alone.
EnsureGroup(r) ==
    /\ pc[r] = "group"
    /\ group' = TRUE
    /\ IF group THEN UNCHANGED <<read, skipped>>
                ELSE read' = StartOfGroup /\ skipped' = StartOfGroup
    /\ Goto(r, "pending")
    /\ UNCHANGED <<sinkVars, pos, first, pel, memory, batch, cur, tried, history, faults>>

\* The Batch oldest letters of a set.
Oldest(S) == {l \in S : Cardinality({k \in S : pos[k] < pos[l]}) < Batch}

\* XREADGROUP ... 0.  A pending entry that was trimmed comes without fields,
\* and normalize() throws.
Trimmed(l) == pos[l] < first

ReadPending(r) ==
    LET S == Oldest(pel)
    IN  /\ pc[r] = "pending"
        /\ IF \E l \in S : Trimmed(l)
           THEN End(r)
           ELSE /\ batch' = [batch EXCEPT ![r] = S]
                /\ Goto(r, "fresh")
                /\ UNCHANGED <<cur, tried>>
        /\ UNCHANGED <<sinkVars, stream, memory, history, faults>>

\* XREADGROUP ... >
UndeliveredButNext == {l \in Letters : pos[l] > read + 1 /\ ~Trimmed(l)}
Undelivered == {l \in Letters : pos[l] > read /\ ~Trimmed(l)}

ReadFresh(r) ==
    LET S == Oldest(Undelivered)
    IN  /\ pc[r] = "fresh"
        /\ batch' = [batch EXCEPT ![r] = @ \cup S]
        /\ pel' = pel \cup S
        /\ read' \in {n \in Positions : n >= read /\ \A l \in S : n >= pos[l]}
        /\ \A n \in Positions : (n >= read /\ \A l \in S : n >= pos[l]) => read' <= n
        /\ Goto(r, "next")
        /\ UNCHANGED <<sinkVars, pos, first, group, skipped, memory, cur, tried, history, faults>>

-----------------------------------------------------------------------------
(* processEntry()                                                          *)

IsNext(r, l) == l \in batch[r] /\ \A k \in batch[r] : pos[l] <= pos[k]

GivesUpLate(i, l)  == attempts[i][l] > MaxAttempts
GivesUpEarly(i, l) == attempts[i][l] + 1 >= MaxAttempts
GivesUp(i, l)      == attempts[i][l] + 1 > MaxAttempts

\* The next letter of the batch: past its attempts, in its back-off, or due.
Take(r) ==
    LET i == Home[r]
    IN  /\ pc[r] = "next"
        /\ \/ batch[r] = {} /\ End(r)
           \/ \E l \in Letters :
                /\ IsNext(r, l)
                /\ batch' = [batch EXCEPT ![r] = @ \ {l}]
                /\ \/ /\ GivesUp(i, l)
                      /\ cur' = [cur EXCEPT ![r] = l]
                      /\ Goto(r, "terminal")
                      /\ UNCHANGED tried
                   \/ /\ ~GivesUp(i, l) /\ l \in waiting[i]
                      /\ UNCHANGED <<pc, cur, tried>>
                   \/ /\ ~GivesUp(i, l) /\ l \notin waiting[i]
                      /\ cur' = [cur EXCEPT ![r] = l]
                      /\ tried' = [tried EXCEPT ![r] = attempts[i][l] + 1]
                      /\ Goto(r, "insert")
        /\ UNCHANGED <<sinkVars, stream, memory, history, faults>>

\* The insert.  A failure is counted, and the letter stays pending: even if
\* only the answer of the insert was lost.
Insert(r) ==
    LET i == Home[r] l == cur[r]
    IN  /\ pc[r] = "insert"
        /\ \/ /\ rows' = [rows EXCEPT ![l] = @ + 1]
              /\ Goto(r, "ack")
              /\ UNCHANGED <<lost, memory, cur, tried, failures>>
           \/ /\ \/ UNCHANGED <<rows, lost>>
                 \/ /\ rows' = [rows EXCEPT ![l] = @ + 1]
                    /\ lost' = [lost EXCEPT ![l] = @ + 1]
              /\ attempts' = [attempts EXCEPT ![i][l] = tried[r]]
              /\ waiting' = [waiting EXCEPT ![i] = @ \cup {l}]
              /\ failures' = [failures EXCEPT ![l] = IF @ < MaxAttempts THEN @ + 1 ELSE @]
              /\ Goto(r, "next")
              /\ cur' = [cur EXCEPT ![r] = None]
              /\ tried' = [tried EXCEPT ![r] = 0]
        /\ UNCHANGED <<sinkVars, stream, batch, faults>>

\* The copy for the terminal stream, which may fail as well: the letter is
\* in the error log in any case.
Terminal(r) ==
    /\ pc[r] = "terminal"
    /\ Goto(r, "ack")
    /\ UNCHANGED <<sinkVars, stream, memory, batch, cur, tried, history, faults>>

NotAcknowledged(l) == pel
Acknowledged(l)    == pel \ {l}

\* safeAck(), and the counters are forgotten whether or not it succeeded.
Ack(r) ==
    LET i == Home[r] l == cur[r]
    IN  /\ pc[r] = "ack"
        /\ \/ pel' = Acknowledged(l) /\ UNCHANGED faults
           \/ Fault /\ UNCHANGED pel
        /\ attempts' = [attempts EXCEPT ![i][l] = 0]
        /\ waiting' = [waiting EXCEPT ![i] = @ \ {l}]
        /\ Goto(r, "next")
        /\ cur' = [cur EXCEPT ![r] = None]
        /\ tried' = [tried EXCEPT ![r] = 0]
        /\ UNCHANGED <<sinkVars, pos, first, group, read, skipped, batch, history>>

-----------------------------------------------------------------------------

\* The back-off of a letter elapses.
Elapse(i, l) ==
    /\ l \in waiting[i]
    /\ waiting' = [waiting EXCEPT ![i] = @ \ {l}]
    /\ UNCHANGED <<sinkVars, stream, attempts, round, history, faults>>

\* A process dies: its counters and its rounds are gone, and a letter whose
\* row was just written is still pending.
Restart(i) ==
    LET here == {r \in Rounds : Home[r] = i}
    IN  /\ Fault
        /\ attempts' = [attempts EXCEPT ![i] = [l \in Letters |-> 0]]
        /\ waiting' = [waiting EXCEPT ![i] = {}]
        /\ pc' = [r \in Rounds |-> IF r \in here THEN "idle" ELSE pc[r]]
        /\ batch' = [r \in Rounds |-> IF r \in here THEN {} ELSE batch[r]]
        /\ cur' = [r \in Rounds |-> IF r \in here THEN None ELSE cur[r]]
        /\ tried' = [r \in Rounds |-> IF r \in here THEN 0 ELSE tried[r]]
        /\ UNCHANGED <<sinkVars, stream, history>>

Step(r) ==
    \/ EnsureGroup(r) \/ ReadPending(r) \/ ReadFresh(r)
    \/ Take(r) \/ Insert(r) \/ Terminal(r) \/ Ack(r)

Next ==
    \/ \E l \in Letters : SinkInsert(l) \/ LateInsert(l) \/ Enqueue(l)
    \/ \E r \in Rounds : Begin(r) \/ Step(r) \/ RedisError(r)
    \/ \E i \in Processes : Restart(i) \/ \E l \in Letters : Elapse(i, l)

Spec == Init /\ [][Next]_vars

\* The scheduler starts rounds, rounds go on, and time passes.
Fairness ==
    /\ \A r \in Rounds : WF_vars(Begin(r)) /\ WF_vars(Step(r))
    /\ \A i \in Processes, l \in Letters : WF_vars(Elapse(i, l))

FairSpec == Spec /\ Fairness

-----------------------------------------------------------------------------
(* Properties                                                              *)

\* A letter that was delivered leaves the pending list only when it has a row
\* or its insert has failed MaxAttempts times: no restart, lost answer or other
\* round drops one.
LeavesSettled ==
    \A l \in Letters :
        skipped < pos[l] /\ pos[l] <= read /\ l \notin pel /\ ~Trimmed(l) =>
            rows[l] > 0 \/ failures[l] >= MaxAttempts

\* The rounds write a letter again only if something explains it: an insert
\* whose answer was lost adds its own row, and of the others each round writes
\* at most one, and each restart or failed acknowledgement lets every round
\* write one more.
RowsExplained ==
    \A l \in Letters : rows[l] <= lost[l] + Cardinality(Rounds) * (1 + faults)

\* The rounds have written the letter, or are done with it.
Settled(l) == rows[l] > 0 \/ (pos[l] > 0 /\ pos[l] <= read /\ l \notin pel)

\* A letter that was added to the stream, behind the start of the group, gets
\* its row or is given up on, as long as nothing is trimmed.
QueuedSettles ==
    \A l \in Letters :
        (group /\ pos[l] > skipped) ~> (Settled(l) \/ first > 1)
=============================================================================
