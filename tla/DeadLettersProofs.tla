-------------------------- MODULE DeadLettersProofs --------------------------
(***************************************************************************)
(* Theorems about DeadLetters, for any number of letters, processes and    *)
(* rounds, any batch size, stream length and number of faults.             *)
(***************************************************************************)
EXTENDS DeadLetters, FiniteSetTheorems, TLAPS

\* The stream holds the letters the sink has put there, at positions up to
\* its end, and the group has delivered none beyond it.
Queue ==
    /\ \A l \in Letters : sink[l] # "done" => pos[l] = 0
    /\ \A l \in Letters : pos[l] <= Last
    /\ read <= Last

\* A round that processes a letter has one.
Busy == \A r \in Rounds : pc[r] \in {"insert", "terminal", "ack"} => cur[r] \in Letters

\* The letters in the stream can be counted, and one that is not there leaves
\* room for one more.
LEMMA LastType ==
    /\ Last \in Positions /\ Last \in Nat
    /\ Cardinality(Letters) \in Nat
    /\ \A l \in Letters : pos[l] = 0 => Last + 1 \in Positions
<1> DEFINE S == {l \in Letters : pos[l] > 0}
<1>1. S \subseteq Letters /\ IsFiniteSet(Letters)
  BY LettersAssumption
<1>2. Cardinality(S) \in Nat /\ Cardinality(Letters) \in Nat /\ Cardinality(S) <= Cardinality(Letters)
  BY <1>1, FS_Subset, FS_CardinalityType
<1>3. ASSUME NEW l \in Letters, pos[l] = 0 PROVE Cardinality(S) < Cardinality(Letters)
  <2>1. l \notin S
    BY <1>3
  <2>2. Cardinality(S) # Cardinality(Letters)
    BY <1>1, <2>1, FS_Subset
  <2> QED
    BY <1>2, <2>2
<1>4. Last = Cardinality(S)
  BY DEF Last
<1>5. ASSUME NEW l \in Letters, pos[l] = 0 PROVE Last + 1 \in Positions
  BY <1>2, <1>3, <1>4, <1>5 DEF Positions
<1>6. Last \in Positions /\ Last \in Nat
  BY <1>2, <1>4 DEF Positions
<1> QED
  BY <1>2, <1>5, <1>6

\* A letter that enters the stream enters behind the last one.
LEMMA LastNext ==
    ASSUME TypeOK, NEW l \in Letters, pos[l] = 0, pos' = [pos EXCEPT ![l] = Last + 1]
    PROVE  Last' = Last + 1
<1> DEFINE S == {k \in Letters : pos[k] > 0}
<1>1. IsFiniteSet(S) /\ l \notin S
  BY LettersAssumption, FS_Subset
<1>2. {k \in Letters : pos'[k] > 0} = S \cup {l}
  BY LastType DEF TypeOK, Positions
<1> QED
  BY <1>1, <1>2, FS_AddElement DEF Last

\* A command that fails, and the end of a round, keep the types.
LEMMA EndTypes ==
    ASSUME TypeOK, NEW r \in Rounds, End(r)
    PROVE  /\ pc' \in [Rounds -> {"idle", "group", "pending", "fresh", "next", "insert", "terminal", "ack"}]
           /\ batch' \in [Rounds -> SUBSET Letters]
           /\ cur' \in [Rounds -> Letters \cup {None}]
           /\ tried' \in [Rounds -> 0..MaxAttempts]
BY LettersAssumption DEF TypeOK, End, Goto

\* A round that goes on keeps the types of what it holds.
LEMMA RoundTypes ==
    ASSUME TypeOK, NEW r \in Rounds,
           NEW label \in {"idle", "group", "pending", "fresh", "next", "insert", "terminal", "ack"},
           Goto(r, label)
    PROVE  pc' \in [Rounds -> {"idle", "group", "pending", "fresh", "next", "insert", "terminal", "ack"}]
BY DEF TypeOK, Goto

\* One more fault is within the bound.
LEMMA FaultType == ASSUME TypeOK, Fault PROVE faults' \in 0..MaxFaults
BY LettersAssumption DEF TypeOK, Fault

\* The sink keeps the types.
LEMMA EnqueueTypes == ASSUME TypeOK, Queue, NEW l \in Letters, Enqueue(l) PROVE TypeOK'
<1>1. pos[l] = 0 /\ Last + 1 \in Positions
  BY LastType DEF Enqueue, Queue
<1>2. pos' \in [Letters -> Positions]
  BY <1>1 DEF TypeOK, Enqueue
<1>3. first' \in 1..Cardinality(Letters) + 1
  <2>1. CASE first' = first
    BY <2>1 DEF TypeOK
  <2>2. ASSUME NEW n \in Positions, first < n, first' = n PROVE first' \in 1..Cardinality(Letters) + 1
    BY <2>2, LastType DEF TypeOK, Positions
  <2> QED
    BY <2>1, <2>2 DEF Enqueue
<1>4. faults' \in 0..MaxFaults
  BY FaultType DEF Enqueue, TypeOK
<1>5. sink' \in [Letters -> {"insert", "enqueue", "done"}]
  BY DEF Enqueue, TypeOK
<1>6. UNCHANGED <<late, bySink, group, read, skipped, pel, attempts, waiting, pc, batch, cur, tried, rows, lost, failures>>
  BY DEF Enqueue, memory, round, history
<1> QED
  BY <1>2, <1>3, <1>4, <1>5, <1>6 DEF TypeOK

\* Every step keeps the types.
LEMMA TypedStep == ASSUME TypeOK, Queue, Busy, [Next]_vars PROVE TypeOK'
<1> USE LettersAssumption DEF TypeOK
<1>0. MaxAttempts \in Nat \ {0} /\ 0 \in 0..MaxAttempts /\ MaxFaults \in Nat /\ MaxLen \in Nat \ {0}
  OBVIOUS
<1>f. Fault => faults' \in 0..MaxFaults
  BY DEF Fault
<1>1. ASSUME NEW l \in Letters, SinkInsert(l) PROVE TypeOK'
  BY <1>1 DEF SinkInsert, stream, memory, round, history
<1>2. ASSUME NEW l \in Letters, LateInsert(l) PROVE TypeOK'
  BY <1>2 DEF LateInsert, stream, memory, round, history
<1>3. ASSUME NEW l \in Letters, Enqueue(l) PROVE TypeOK'
  BY <1>3, EnqueueTypes
<1>4. ASSUME NEW r \in Rounds, Begin(r) PROVE TypeOK'
  BY <1>4 DEF Begin, Goto, sinkVars, stream, memory, history
<1>5. ASSUME NEW r \in Rounds, RedisError(r) PROVE TypeOK'
  BY <1>5, <1>f, EndTypes DEF RedisError, sinkVars, stream, memory, history
<1>6. ASSUME NEW r \in Rounds, EnsureGroup(r) PROVE TypeOK'
  BY <1>6, LastType DEF EnsureGroup, StartOfGroup, Goto, sinkVars, memory, history
<1>7. ASSUME NEW r \in Rounds, ReadPending(r) PROVE TypeOK'
  <2>1. Oldest(pel) \subseteq Letters
    BY DEF Oldest
  <2>2. CASE End(r)
    BY <1>7, <2>2, EndTypes DEF ReadPending, sinkVars, stream, memory, history
  <2>3. CASE ~End(r)
    <3>1. batch' \in [Rounds -> SUBSET Letters]
      BY <1>7, <2>1, <2>3 DEF ReadPending
    <3>2. Goto(r, "fresh") /\ UNCHANGED <<cur, tried>> /\ UNCHANGED <<sinkVars, stream, memory, history, faults>>
      BY <1>7, <2>3 DEF ReadPending
    <3> QED
      BY <3>1, <3>2, RoundTypes DEF sinkVars, stream, memory, history
  <2> QED
    BY <2>2, <2>3
<1>8. ASSUME NEW r \in Rounds, ReadFresh(r) PROVE TypeOK'
  <2>1. Oldest(Undelivered) \subseteq Letters
    BY DEF Oldest, Undelivered
  <2> QED
    BY <1>8, <2>1 DEF ReadFresh, Goto, sinkVars, memory, history
<1>9. ASSUME NEW r \in Rounds, Take(r) PROVE TypeOK'
  <2>1. Home[r] \in Processes
    OBVIOUS
  <2>2. CASE End(r)
    BY <1>9, <2>2, EndTypes DEF Take, sinkVars, stream, memory, history
  <2>3. CASE ~End(r)
    <3>1. PICK l \in Letters :
            /\ batch' = [batch EXCEPT ![r] = @ \ {l}]
            /\ \/ cur' = [cur EXCEPT ![r] = l] /\ Goto(r, "terminal") /\ UNCHANGED tried
               \/ UNCHANGED <<pc, cur, tried>>
               \/ /\ ~GivesUp(Home[r], l)
                  /\ cur' = [cur EXCEPT ![r] = l]
                  /\ tried' = [tried EXCEPT ![r] = attempts[Home[r]][l] + 1]
                  /\ Goto(r, "insert")
      BY <1>9, <2>3 DEF Take
    <3>2. ~GivesUp(Home[r], l) => attempts[Home[r]][l] + 1 \in 0..MaxAttempts
      BY <1>0, <2>1 DEF GivesUp
    <3>3. pc' \in [Rounds -> {"idle", "group", "pending", "fresh", "next", "insert", "terminal", "ack"}]
      BY <3>1, RoundTypes
    <3>4. batch' \in [Rounds -> SUBSET Letters] /\ cur' \in [Rounds -> Letters \cup {None}]
      BY <3>1
    <3>6. tried' \in [Rounds -> 0..MaxAttempts]
      BY <3>1, <3>2
    <3>5. UNCHANGED <<sink, late, bySink, pos, first, group, read, skipped, pel, attempts, waiting, rows, lost, failures, faults>>
      BY <1>9 DEF Take, sinkVars, stream, memory, history
    <3> QED
      BY <3>3, <3>4, <3>5, <3>6
  <2> QED
    BY <2>2, <2>3
<1>10. ASSUME NEW r \in Rounds, Insert(r) PROVE TypeOK'
  <2>1. Home[r] \in Processes /\ cur[r] \in Letters /\ failures[cur[r]] \in 0..MaxAttempts /\ tried[r] \in 0..MaxAttempts
    BY <1>10 DEF Insert, Busy
  <2>2. UNCHANGED <<sink, late, bySink, pos, first, group, read, skipped, pel, batch, faults>>
    BY <1>10 DEF Insert, sinkVars, stream
  <2>3. CASE /\ rows' = [rows EXCEPT ![cur[r]] = @ + 1]
             /\ Goto(r, "ack")
             /\ UNCHANGED <<lost, memory, cur, tried, failures>>
    <3>1. rows' \in [Letters -> Nat]
      BY <2>1, <2>3
    <3>2. UNCHANGED <<lost, attempts, waiting, cur, tried, failures>>
      BY <2>3 DEF memory
    <3>3. pc' \in [Rounds -> {"idle", "group", "pending", "fresh", "next", "insert", "terminal", "ack"}]
      BY <2>3, RoundTypes
    <3> QED
      BY <2>2, <3>1, <3>2, <3>3
  <2>4. CASE /\ attempts' = [attempts EXCEPT ![Home[r]][cur[r]] = tried[r]]
             /\ waiting' = [waiting EXCEPT ![Home[r]] = @ \cup {cur[r]}]
             /\ failures' = [failures EXCEPT ![cur[r]] = IF @ < MaxAttempts THEN @ + 1 ELSE @]
             /\ Goto(r, "next")
             /\ cur' = [cur EXCEPT ![r] = None]
             /\ tried' = [tried EXCEPT ![r] = 0]
             /\ \/ UNCHANGED <<rows, lost>>
                \/ /\ rows' = [rows EXCEPT ![cur[r]] = @ + 1]
                   /\ lost' = [lost EXCEPT ![cur[r]] = @ + 1]
    <3>1. attempts' \in [Processes -> [Letters -> 0..MaxAttempts]]
      BY <2>1, <2>4
    <3>2. waiting' \in [Processes -> SUBSET Letters]
      BY <2>1, <2>4
    <3>3. (IF failures[cur[r]] < MaxAttempts THEN failures[cur[r]] + 1 ELSE failures[cur[r]]) \in 0..MaxAttempts
      BY <1>0, <2>1
    <3>4. failures' \in [Letters -> 0..MaxAttempts]
      BY <2>4, <3>3
    <3>5. pc' \in [Rounds -> {"idle", "group", "pending", "fresh", "next", "insert", "terminal", "ack"}]
      BY <2>4, RoundTypes
    <3>6. cur' \in [Rounds -> Letters \cup {None}] /\ tried' \in [Rounds -> 0..MaxAttempts]
      BY <1>0, <2>4
    <3>7. rows' \in [Letters -> Nat]
      <4>1. rows' = rows \/ rows' = [rows EXCEPT ![cur[r]] = @ + 1]
        BY <2>4
      <4> QED
        BY <2>1, <4>1
    <3>8. lost' \in [Letters -> Nat]
      <4>1. lost' = lost \/ lost' = [lost EXCEPT ![cur[r]] = @ + 1]
        BY <2>4
      <4>2. lost \in [Letters -> Nat] /\ cur[r] \in Letters
        BY <2>1 DEF TypeOK
      <4> QED
        BY <4>1, <4>2
    <3> QED
      BY <2>2, <3>1, <3>2, <3>4, <3>5, <3>6, <3>7, <3>8
  <2> QED
    BY <1>10, <2>3, <2>4 DEF Insert
<1>11. ASSUME NEW r \in Rounds, Terminal(r) PROVE TypeOK'
  BY <1>11 DEF Terminal, Goto, sinkVars, stream, memory, history
<1>12. ASSUME NEW r \in Rounds, Ack(r) PROVE TypeOK'
  BY <1>0, <1>f, <1>12 DEF Ack, Acknowledged, Goto, sinkVars, history
<1>13. ASSUME NEW i \in Processes, NEW l \in Letters, Elapse(i, l) PROVE TypeOK'
  BY <1>13 DEF Elapse, sinkVars, stream, round, history
<1>14. ASSUME NEW i \in Processes, Restart(i) PROVE TypeOK'
  BY <1>0, <1>f, <1>14 DEF Restart, sinkVars, stream, history
<1>15. CASE UNCHANGED vars
  BY <1>15 DEF vars, sinkVars, stream, memory, round, history
<1> QED
  BY <1>1, <1>2, <1>3, <1>4, <1>5, <1>6, <1>7, <1>8, <1>9, <1>10, <1>11, <1>12, <1>13, <1>14, <1>15
  DEF Next, Step

\* The letters of the stream stay within it.
LEMMA QueueStep == ASSUME TypeOK, Queue, [Next]_vars PROVE Queue'
<1>1. ASSUME UNCHANGED pos PROVE Last' = Last
  BY <1>1 DEF Last
<1>2. CASE UNCHANGED <<sink, pos, read>>
  BY <1>1, <1>2 DEF Queue
<1>3. ASSUME NEW l \in Letters, SinkInsert(l) PROVE Queue'
  <2>1. UNCHANGED <<pos, read>> /\ \A k \in Letters : sink'[k] # "done" => sink[k] # "done"
    BY <1>3 DEF SinkInsert, stream, TypeOK
  <2> QED
    BY <1>1, <2>1 DEF Queue
<1>4. ASSUME NEW l \in Letters, Enqueue(l) PROVE Queue'
  <2>1. pos[l] = 0 /\ read' = read
    BY <1>4 DEF Enqueue, Queue
  <2>2. \A k \in Letters : sink'[k] # "done" => sink[k] # "done" /\ k # l
    BY <1>4 DEF Enqueue, TypeOK
  <2>3. CASE pos' = pos
    BY <1>1, <2>1, <2>2, <2>3 DEF Queue
  <2>4. CASE pos' = [pos EXCEPT ![l] = Last + 1]
    <3>1. Last' = Last + 1
      BY <2>1, <2>4, LastNext
    <3>2. \A k \in Letters : k # l => pos'[k] = pos[k]
      BY <2>4 DEF TypeOK
    <3>3. pos'[l] = Last + 1
      BY <2>4 DEF TypeOK
    <3>4. Last \in Nat /\ read \in Nat /\ \A k \in Letters : pos[k] \in Nat
      BY LastType DEF TypeOK, Positions
    <3>5. \A k \in Letters : sink'[k] # "done" => pos'[k] = 0
      BY <2>2, <3>2 DEF Queue
    <3>6. \A k \in Letters : pos'[k] <= Last'
      BY <3>1, <3>2, <3>3, <3>4 DEF Queue
    <3>7. read' <= Last'
      BY <2>1, <3>1, <3>4 DEF Queue
    <3> QED
      BY <3>5, <3>6, <3>7 DEF Queue
  <2> QED
    BY <1>4, <2>3, <2>4 DEF Enqueue
<1>5. ASSUME NEW r \in Rounds, EnsureGroup(r) PROVE Queue'
  <2>1. UNCHANGED <<sink, pos>> /\ (read' = read \/ read' = Last)
    BY <1>5 DEF EnsureGroup, StartOfGroup, sinkVars
  <2> QED
    BY <1>1, <2>1, LastType DEF Queue
<1>6. ASSUME NEW r \in Rounds, ReadFresh(r) PROVE Queue'
  <2>1. UNCHANGED <<sink, pos>>
    BY <1>6 DEF ReadFresh, sinkVars
  <2>2. Last \in Positions /\ Last >= read /\ \A l \in Oldest(Undelivered) : Last >= pos[l]
    BY LastType DEF Queue, Oldest, Undelivered, TypeOK, Positions
  <2>3. read' <= Last
    BY <1>6, <2>2 DEF ReadFresh
  <2> QED
    BY <1>1, <2>1, <2>3 DEF Queue
<1>7. ASSUME NEW l \in Letters, LateInsert(l) PROVE Queue'
  BY <1>2, <1>7 DEF LateInsert, stream
<1>8. ASSUME NEW r \in Rounds,
             Begin(r) \/ RedisError(r) \/ ReadPending(r) \/ Take(r) \/ Insert(r) \/ Terminal(r) \/ Ack(r)
      PROVE  Queue'
  BY <1>2, <1>8 DEF Begin, RedisError, ReadPending, Take, Insert, Terminal, Ack, sinkVars, stream
<1>9. ASSUME NEW i \in Processes, Restart(i) \/ \E l \in Letters : Elapse(i, l) PROVE Queue'
  BY <1>2, <1>9 DEF Restart, Elapse, sinkVars, stream
<1>10. CASE UNCHANGED vars
  BY <1>2, <1>10 DEF vars, sinkVars, stream
<1> QED
  BY <1>3, <1>4, <1>5, <1>6, <1>7, <1>8, <1>9, <1>10 DEF Next, Step

\* A round that goes on to a place that needs no letter, or keeps its letter.
LEMMA BusyGoto ==
    ASSUME TypeOK, Busy, NEW r \in Rounds, NEW label, Goto(r, label),
           label \in {"insert", "terminal", "ack"} => cur'[r] \in Letters,
           \A s \in Rounds : s # r => cur'[s] = cur[s]
    PROVE  Busy'
BY DEF TypeOK, Busy, Goto

\* A round that works on a letter has it.
LEMMA BusyStep == ASSUME TypeOK, Busy, [Next]_vars PROVE Busy'
<1>1. CASE UNCHANGED <<pc, cur>>
  BY <1>1 DEF Busy
<1>2. ASSUME NEW r \in Rounds, End(r) PROVE Busy'
  BY <1>2, BusyGoto DEF End, TypeOK
<1>3. ASSUME NEW r \in Rounds, NEW label \in {"group", "pending", "fresh", "next"},
             Goto(r, label), cur' = cur \/ cur' = [cur EXCEPT ![r] = None]
      PROVE  Busy'
  BY <1>3, BusyGoto DEF TypeOK
<1>4. ASSUME NEW r \in Rounds, NEW l \in Letters, NEW label, Goto(r, label), cur' = [cur EXCEPT ![r] = l] PROVE Busy'
  BY <1>4, BusyGoto DEF TypeOK
<1>5. ASSUME NEW l \in Letters, SinkInsert(l) \/ LateInsert(l) \/ Enqueue(l) PROVE Busy'
  BY <1>1, <1>5 DEF SinkInsert, LateInsert, Enqueue, round
<1>6. ASSUME NEW r \in Rounds, Begin(r) \/ EnsureGroup(r) \/ ReadFresh(r) \/ Ack(r) PROVE Busy'
  BY <1>3, <1>6 DEF Begin, EnsureGroup, ReadFresh, Ack
<1>7. ASSUME NEW r \in Rounds, RedisError(r) \/ ReadPending(r) PROVE Busy'
  BY <1>2, <1>3, <1>7 DEF RedisError, ReadPending
<1>8. ASSUME NEW r \in Rounds, Take(r) PROVE Busy'
  BY <1>1, <1>2, <1>4, <1>8 DEF Take
<1>9. ASSUME NEW r \in Rounds, Insert(r) PROVE Busy'
  <2>1. cur[r] \in Letters
    BY <1>9 DEF Insert, Busy
  <2>2. CASE Goto(r, "ack") /\ UNCHANGED cur
    BY <2>1, <2>2, BusyGoto
  <2>3. CASE Goto(r, "next") /\ cur' = [cur EXCEPT ![r] = None]
    BY <1>3, <2>3
  <2> QED
    BY <1>9, <2>2, <2>3 DEF Insert
<1>10. ASSUME NEW r \in Rounds, Terminal(r) PROVE Busy'
  <2>1. cur[r] \in Letters
    BY <1>10 DEF Terminal, Busy
  <2> QED
    BY <1>10, <2>1, BusyGoto DEF Terminal
<1>11. ASSUME NEW i \in Processes, Restart(i) PROVE Busy'
  BY <1>11 DEF Restart, Busy
<1>12. ASSUME NEW i \in Processes, NEW l \in Letters, Elapse(i, l) PROVE Busy'
  BY <1>1, <1>12 DEF Elapse, round
<1>13. CASE UNCHANGED vars
  BY <1>1, <1>13 DEF vars, round
<1> QED
  BY <1>5, <1>6, <1>7, <1>8, <1>9, <1>10, <1>11, <1>12, <1>13 DEF Next, Step

\* The initial states are typed.
LEMMA TypedInit == Init => TypeOK /\ Queue /\ Busy
<1> SUFFICES ASSUME Init PROVE TypeOK /\ Queue /\ Busy
  OBVIOUS
<1>1. 0 \in Positions /\ 1 \in 1..Cardinality(Letters) + 1 /\ 0 \in 0..MaxFaults /\ 0 \in 0..MaxAttempts
  BY LastType, LettersAssumption DEF Positions
<1>2. TypeOK
  BY <1>1 DEF Init, TypeOK
<1>3. Queue
  BY LastType DEF Init, Queue
<1> QED
  BY <1>2, <1>3 DEF Init, Busy

\* Every variable keeps its type: positions stay within the stream, a round
\* takes only letters of the stream, and no count of attempts passes the limit.
THEOREM Typing == Spec => []TypeOK
<1>1. TypeOK /\ Queue /\ Busy /\ [Next]_vars => (TypeOK /\ Queue /\ Busy)'
  BY TypedStep, QueueStep, BusyStep
<1> QED
  BY TypedInit, <1>1, PTL DEF Spec

-----------------------------------------------------------------------------
(* A delivered letter is not dropped                                       *)

\* Every counted attempt is a failed insert, and a round acknowledges a letter
\* only with its row written or its attempts used up.
Counted ==
    /\ \A i \in Processes, l \in Letters : attempts[i][l] <= failures[l]
    /\ \A r \in Rounds : pc[r] = "insert" => tried[r] <= failures[cur[r]] + 1
    /\ \A r \in Rounds : pc[r] = "terminal" => failures[cur[r]] >= MaxAttempts
    /\ \A r \in Rounds : pc[r] = "ack" => rows[cur[r]] > 0 \/ failures[cur[r]] >= MaxAttempts

DeliveredInv == TypeOK /\ Queue /\ Busy /\ Counted /\ LeavesSettled

\* Counts of rows and of failures never go down.
LEMMA HistoryGrows ==
    ASSUME TypeOK, Busy, [Next]_vars
    PROVE  \A l \in Letters : rows[l] <= rows'[l] /\ failures[l] <= failures'[l]
<1>1. CASE UNCHANGED history
  BY <1>1, LettersAssumption DEF TypeOK, history
<1>2. ASSUME NEW r \in Rounds, Insert(r) PROVE \A l \in Letters : rows[l] <= rows'[l] /\ failures[l] <= failures'[l]
  <2>1. cur[r] \in Letters /\ MaxAttempts \in Nat
    BY <1>2, LettersAssumption DEF Insert, Busy
  <2>2. rows' = rows \/ rows' = [rows EXCEPT ![cur[r]] = @ + 1]
    BY <1>2 DEF Insert
  <2>3. failures' = failures \/ failures' = [failures EXCEPT ![cur[r]] = IF @ < MaxAttempts THEN @ + 1 ELSE @]
    BY <1>2 DEF Insert
  <2>4. \A l \in Letters : rows[l] \in Nat /\ failures[l] \in Nat
    BY <2>1 DEF TypeOK
  <2>5. \A l \in Letters : rows[l] <= rows'[l]
    BY <2>2, <2>4 DEF TypeOK
  <2>6. \A l \in Letters : failures[l] <= failures'[l]
    BY <2>3, <2>4 DEF TypeOK
  <2> QED
    BY <2>5, <2>6
<1>3. ASSUME ~\E r \in Rounds : Insert(r) PROVE UNCHANGED history
  BY <1>3 DEF Next, Step, vars, SinkInsert, LateInsert, Enqueue, Begin, RedisError, EnsureGroup, ReadPending,
              ReadFresh, Take, Terminal, Ack, Elapse, Restart
<1> QED
  BY <1>1, <1>2, <1>3

\* The counters of the processes follow the failures.
LEMMA AttemptsStep ==
    ASSUME TypeOK, Busy, Counted, [Next]_vars
    PROVE  \A i \in Processes, l \in Letters : attempts'[i][l] <= failures'[l]
<1> DEFINE Goal == \A i \in Processes, l \in Letters : attempts'[i][l] <= failures'[l]
<1>0. /\ MaxAttempts \in Nat
      /\ \A l \in Letters : failures[l] \in Nat /\ failures'[l] \in Nat
      /\ \A i \in Processes, l \in Letters : attempts[i][l] \in Nat
  <2>1. MaxAttempts \in Nat
    BY LettersAssumption
  <2>2. failures' = failures \/ \E l \in Letters : failures' = [failures EXCEPT ![l] = IF @ < MaxAttempts THEN @ + 1 ELSE @]
    BY DEF Next, Step, vars, history, SinkInsert, LateInsert, Enqueue, Begin, RedisError, EnsureGroup, ReadPending,
           ReadFresh, Take, Insert, Terminal, Ack, Elapse, Restart, Busy
  <2> QED
    BY <2>1, <2>2 DEF TypeOK
<1>1. ASSUME \A i \in Processes, l \in Letters : attempts'[i][l] = attempts[i][l] \/ attempts'[i][l] = 0 PROVE Goal
  <2> SUFFICES ASSUME NEW i \in Processes, NEW l \in Letters PROVE attempts'[i][l] <= failures'[l]
    OBVIOUS
  <2>1. failures[l] <= failures'[l] /\ attempts[i][l] <= failures[l]
    BY HistoryGrows DEF Counted
  <2> QED
    BY <1>0, <1>1, <2>1
<1>2. ASSUME UNCHANGED attempts PROVE Goal
  BY <1>1, <1>2
<1>3. ASSUME NEW r \in Rounds, Insert(r) PROVE Goal
  <2>1. cur[r] \in Letters /\ Home[r] \in Processes /\ tried[r] \in 0..MaxAttempts /\ tried[r] <= failures[cur[r]] + 1
    BY <1>3, LettersAssumption DEF Insert, Busy, TypeOK, Counted
  <2>2. CASE UNCHANGED memory
    BY <1>2, <2>2 DEF memory
  <2>3. CASE /\ attempts' = [attempts EXCEPT ![Home[r]][cur[r]] = tried[r]]
             /\ failures' = [failures EXCEPT ![cur[r]] = IF @ < MaxAttempts THEN @ + 1 ELSE @]
    <3> SUFFICES ASSUME NEW i \in Processes, NEW l \in Letters PROVE attempts'[i][l] <= failures'[l]
      OBVIOUS
    <3>1. CASE i = Home[r] /\ l = cur[r]
      <4>1. attempts'[i][l] = tried[r]
        BY <2>1, <2>3, <3>1 DEF TypeOK
      <4>2. failures'[l] = IF failures[l] < MaxAttempts THEN failures[l] + 1 ELSE failures[l]
        BY <2>1, <2>3, <3>1 DEF TypeOK
      <4> QED
        BY <1>0, <2>1, <3>1, <4>1, <4>2
    <3>2. CASE ~(i = Home[r] /\ l = cur[r])
      <4>1. attempts'[i][l] = attempts[i][l]
        BY <2>1, <2>3, <3>2 DEF TypeOK
      <4>2. failures[l] <= failures'[l] /\ attempts[i][l] <= failures[l]
        BY HistoryGrows DEF Counted
      <4> QED
        BY <1>0, <4>1, <4>2
    <3> QED
      BY <3>1, <3>2
  <2> QED
    BY <1>3, <2>2, <2>3 DEF Insert
<1>4. ASSUME NEW r \in Rounds, Ack(r) PROVE Goal
  <2>1. attempts' = [attempts EXCEPT ![Home[r]][cur[r]] = 0]
    BY <1>4 DEF Ack
  <2> QED
    BY <1>1, <2>1 DEF TypeOK
<1>5. ASSUME NEW i \in Processes, Restart(i) PROVE Goal
  <2>1. attempts' = [attempts EXCEPT ![i] = [l \in Letters |-> 0]]
    BY <1>5 DEF Restart
  <2> QED
    BY <1>1, <2>1 DEF TypeOK
<1>6. ASSUME ~\E r \in Rounds : Insert(r) \/ Ack(r), ~\E i \in Processes : Restart(i) PROVE UNCHANGED attempts
  BY <1>6 DEF Next, Step, vars, memory, SinkInsert, LateInsert, Enqueue, Begin, RedisError, EnsureGroup, ReadPending,
              ReadFresh, Take, Terminal, Elapse
<1> QED
  BY <1>2, <1>3, <1>4, <1>5, <1>6

\* What a round at work on a letter knows of its history.
Known(r) ==
    /\ pc[r] = "insert" => tried[r] <= failures[cur[r]] + 1
    /\ pc[r] = "terminal" => failures[cur[r]] >= MaxAttempts
    /\ pc[r] = "ack" => rows[cur[r]] > 0 \/ failures[cur[r]] >= MaxAttempts

\* A round that stands still keeps what it knows, whatever the others do.
LEMMA KnownStays ==
    ASSUME TypeOK, Queue, Busy, [Next]_vars, NEW r \in Rounds, Known(r),
           pc'[r] = pc[r], cur'[r] = cur[r], tried'[r] = tried[r]
    PROVE  Known(r)'
<1>1. CASE pc[r] \notin {"insert", "terminal", "ack"}
  BY <1>1 DEF Known
<1>2. CASE pc[r] \in {"insert", "terminal", "ack"}
  <2>1. cur[r] \in Letters
    BY <1>2 DEF Busy
  <2>2. rows[cur[r]] <= rows'[cur[r]] /\ failures[cur[r]] <= failures'[cur[r]]
    BY <2>1, HistoryGrows
  <2>3. /\ rows[cur[r]] \in Nat /\ rows'[cur[r]] \in Nat
        /\ failures[cur[r]] \in Nat /\ failures'[cur[r]] \in Nat
        /\ tried[r] \in Nat /\ MaxAttempts \in Nat
    BY <2>1, LettersAssumption, TypedStep DEF TypeOK
  <2>4. pc[r] = "insert" => tried'[r] <= failures'[cur'[r]] + 1
    BY <2>2, <2>3 DEF Known
  <2>5. pc[r] = "terminal" => failures'[cur'[r]] >= MaxAttempts
    BY <2>2, <2>3 DEF Known
  <2>6. pc[r] = "ack" => rows'[cur'[r]] > 0 \/ failures'[cur'[r]] >= MaxAttempts
    BY <2>2, <2>3 DEF Known
  <2> QED
    BY <2>4, <2>5, <2>6 DEF Known
<1> QED
  BY <1>1, <1>2

\* A round that moves keeps only what it knows of its letter.
LEMMA KnownMoves ==
    ASSUME TypeOK, Queue, Busy, Counted, [Next]_vars, NEW r \in Rounds, Step(r) \/ Begin(r) \/ RedisError(r)
    PROVE  Known(r)'
<1>0. MaxAttempts \in Nat /\ Home[r] \in Processes
  BY LettersAssumption
<1>1. ASSUME pc'[r] \in {"idle", "group", "pending", "fresh", "next"} PROVE Known(r)'
  BY <1>1 DEF Known
<1>2. ASSUME End(r) PROVE Known(r)'
  BY <1>1, <1>2 DEF End, Goto, TypeOK
<1>3. ASSUME NEW label \in {"group", "pending", "fresh", "next"}, Goto(r, label) PROVE Known(r)'
  BY <1>1, <1>3 DEF Goto, TypeOK
<1>4. ASSUME Begin(r) \/ RedisError(r) \/ EnsureGroup(r) \/ ReadPending(r) \/ ReadFresh(r) \/ Ack(r) PROVE Known(r)'
  BY <1>2, <1>3, <1>4 DEF Begin, RedisError, EnsureGroup, ReadPending, ReadFresh, Ack
<1>5. ASSUME Take(r), ~End(r) PROVE Known(r)'
  <2>1. PICK l \in Letters :
          \/ UNCHANGED <<pc, cur, tried>>
          \/ GivesUp(Home[r], l) /\ cur' = [cur EXCEPT ![r] = l] /\ Goto(r, "terminal")
          \/ /\ cur' = [cur EXCEPT ![r] = l]
             /\ tried' = [tried EXCEPT ![r] = attempts[Home[r]][l] + 1]
             /\ Goto(r, "insert")
    BY <1>5 DEF Take
  <2>2. CASE UNCHANGED <<pc, cur, tried>>
    <3>1. pc[r] = "next"
      BY <1>5 DEF Take
    <3> QED
      BY <1>1, <2>2, <3>1
  <2>3. failures' = failures /\ attempts[Home[r]][l] <= failures[l] /\ failures[l] \in Nat /\ attempts[Home[r]][l] \in Nat
    BY <1>0, <1>5 DEF Take, history, Counted, TypeOK
  <2>4. CASE GivesUp(Home[r], l) /\ cur' = [cur EXCEPT ![r] = l] /\ Goto(r, "terminal")
    <3>1. pc'[r] = "terminal" /\ cur'[r] = l
      BY <2>4 DEF Goto, TypeOK
    <3>2. failures'[l] >= MaxAttempts
      BY <1>0, <2>3, <2>4 DEF GivesUp
    <3> QED
      BY <3>1, <3>2 DEF Known
  <2>5. CASE /\ cur' = [cur EXCEPT ![r] = l]
             /\ tried' = [tried EXCEPT ![r] = attempts[Home[r]][l] + 1]
             /\ Goto(r, "insert")
    <3>1. pc'[r] = "insert" /\ cur'[r] = l /\ tried'[r] = attempts[Home[r]][l] + 1
      BY <2>5 DEF Goto, TypeOK
    <3>2. tried'[r] <= failures'[l] + 1
      BY <2>3, <3>1
    <3> QED
      BY <3>1, <3>2 DEF Known
  <2> QED
    BY <2>1, <2>2, <2>4, <2>5
<1>6. ASSUME Insert(r) PROVE Known(r)'
  <2>1. cur[r] \in Letters
    BY <1>6 DEF Insert, Busy
  <2>2. CASE Goto(r, "next")
    BY <1>3, <2>2
  <2>3. CASE rows' = [rows EXCEPT ![cur[r]] = @ + 1] /\ Goto(r, "ack") /\ UNCHANGED cur
    <3>1. pc'[r] = "ack" /\ cur'[r] = cur[r]
      BY <2>3 DEF Goto, TypeOK
    <3>2. rows'[cur[r]] > 0
      BY <2>1, <2>3 DEF TypeOK
    <3> QED
      BY <3>1, <3>2 DEF Known
  <2> QED
    BY <1>6, <2>2, <2>3 DEF Insert
<1>7. ASSUME Terminal(r) PROVE Known(r)'
  <2>1. pc[r] = "terminal" /\ pc'[r] = "ack" /\ UNCHANGED <<cur, failures>>
    BY <1>7 DEF Terminal, Goto, TypeOK, history
  <2> QED
    BY <2>1 DEF Known, Counted
<1> QED
  BY <1>2, <1>4, <1>5, <1>6, <1>7 DEF Step

\* Every step keeps the counts.
LEMMA CountedStep == ASSUME TypeOK, Queue, Busy, Counted, [Next]_vars PROVE Counted'
<1>1. \A r \in Rounds : Known(r)
  BY DEF Counted, Known
<1>2. ASSUME NEW r \in Rounds PROVE Known(r)'
  <2>1. CASE Step(r) \/ Begin(r) \/ RedisError(r)
    BY <2>1, KnownMoves
  <2>2. ASSUME NEW s \in Rounds, s # r, Step(s) \/ Begin(s) \/ RedisError(s)
        PROVE  pc'[r] = pc[r] /\ cur'[r] = cur[r] /\ tried'[r] = tried[r]
    BY <2>2 DEF TypeOK, Step, Begin, RedisError, EnsureGroup, ReadPending, ReadFresh, Take, Insert, Terminal, Ack, End, Goto
  <2>3. ASSUME NEW i \in Processes, Restart(i)
        PROVE  Known(r)'
    <3>1. CASE Home[r] = i
      BY <2>3, <3>1 DEF Restart, Known
    <3>2. CASE Home[r] # i
      BY <1>1, <2>3, <3>2, KnownStays DEF Restart
    <3> QED
      BY <3>1, <3>2
  <2>4. ASSUME UNCHANGED round PROVE Known(r)'
    BY <1>1, <2>4, KnownStays DEF round
  <2>5. ASSUME NEW l \in Letters, SinkInsert(l) \/ LateInsert(l) \/ Enqueue(l) \/ \E i \in Processes : Elapse(i, l)
        PROVE  UNCHANGED round
    BY <2>5 DEF SinkInsert, LateInsert, Enqueue, Elapse
  <2>6. CASE UNCHANGED vars
    BY <2>4, <2>6 DEF vars
  <2> QED
    BY <1>1, <2>1, <2>2, <2>3, <2>4, <2>5, <2>6, KnownStays DEF Next
<1> QED
  BY <1>2, AttemptsStep DEF Counted, Known

\* A fresh read takes every letter it passes: the oldest of a set leave no
\* letter behind one of them.
LEMMA FreshTakesAll ==
    ASSUME TypeOK, NEW r \in Rounds, ReadFresh(r),
           NEW l \in Letters, pos[l] > read, pos[l] <= read', ~Trimmed(l)
    PROVE  l \in Oldest(Undelivered)
<1> DEFINE S == Oldest(Undelivered)
           Before(k) == {j \in Undelivered : pos[j] < pos[k]}
<1>1. /\ read \in Nat /\ read' \in Positions /\ \A k \in Letters : pos[k] \in Positions
      /\ \A n \in Positions : n \in Nat /\ (n > 0 => n - 1 \in Positions)
      /\ Batch \in Nat
  BY LastType, LettersAssumption DEF TypeOK, ReadFresh, Positions
<1>2. l \in Undelivered /\ S \subseteq Undelivered /\ Undelivered \subseteq Letters
  BY DEF Undelivered, Oldest
<1>n. pos[l] \in Nat /\ \A k \in Undelivered : pos[k] \in Nat
  BY <1>1, <1>2
<1>3. PICK k \in S : pos[k] >= pos[l]
  <2> SUFFICES ASSUME \A k \in S : pos[k] < pos[l] PROVE FALSE
    BY <1>n, <1>2
  <2> DEFINE n == pos[l] - 1
  <2>1. n \in Positions /\ n >= read /\ n < read'
    BY <1>1, <1>n
  <2>2. \A k \in S : n >= pos[k]
    BY <1>n, <1>2
  <2>3. \A m \in Positions : (m >= read /\ \A k \in S : m >= pos[k]) => read' <= m
    BY DEF ReadFresh
  <2>4. n \in Nat /\ read' \in Nat
    BY <1>1, <2>1
  <2> HIDE DEF n, S
  <2>5. read' <= n
    BY <2>1, <2>2, <2>3
  <2> QED
    BY <2>1, <2>4, <2>5
<1>4. Before(l) \subseteq Before(k)
  BY <1>n, <1>2, <1>3
<1>5. IsFiniteSet(Before(k))
  BY LettersAssumption, FS_Subset DEF Undelivered
<1>6. Cardinality(Before(l)) <= Cardinality(Before(k)) /\ Cardinality(Before(l)) \in Nat /\ Cardinality(Before(k)) \in Nat
  BY <1>4, <1>5, FS_Subset, FS_CardinalityType
<1>7. Cardinality(Before(k)) < Batch
  BY <1>3 DEF Oldest
<1>8. Cardinality(Before(l)) < Batch
  BY <1>1, <1>6, <1>7
<1> QED
  BY <1>2, <1>8 DEF Oldest

\* What LeavesSettled says of one letter.
Dropped(l)  == skipped < pos[l] /\ pos[l] <= read /\ l \notin pel /\ ~Trimmed(l)
Decided(l) == rows[l] > 0 \/ failures[l] >= MaxAttempts

\* A decided letter stays decided.
LEMMA DecidedStays ==
    ASSUME TypeOK, Queue, Busy, [Next]_vars, NEW l \in Letters, Decided(l)
    PROVE  Decided(l)'
<1>1. rows[l] <= rows'[l] /\ failures[l] <= failures'[l]
  BY HistoryGrows
<1>2. /\ rows[l] \in Nat /\ rows'[l] \in Nat
      /\ failures[l] \in Nat /\ failures'[l] \in Nat /\ MaxAttempts \in Nat
  BY LettersAssumption, TypedStep DEF TypeOK
<1> QED
  BY <1>1, <1>2 DEF Decided

\* A letter that leaves the pending list, or is passed, is decided.
LEMMA DroppedStep ==
    ASSUME TypeOK, Queue, Busy, Counted, [Next]_vars, NEW l \in Letters, Dropped(l)', ~Dropped(l)
    PROVE  Decided(l)
<1>0. /\ pos[l] \in Nat /\ read \in Nat /\ skipped \in Nat /\ first \in Nat
      /\ pos'[l] \in Nat /\ read' \in Nat /\ skipped' \in Nat /\ first' \in Nat /\ Last \in Nat
  BY TypedStep, LastType DEF TypeOK, Positions
<1>1. ASSUME UNCHANGED <<pos, read, skipped, pel, first>> PROVE Decided(l)
  BY <1>1 DEF Dropped, Trimmed
<1>2. ASSUME NEW k \in Letters, Enqueue(k) PROVE Decided(l)
  <2>1. UNCHANGED <<read, skipped, pel>> /\ pos[k] = 0
    BY <1>2 DEF Enqueue, Queue
  <2>2. first <= first'
    BY <1>0, <1>2 DEF Enqueue
  <2>3. pos'[l] = pos[l] \/ pos'[l] = Last + 1
    BY <1>2 DEF Enqueue, TypeOK
  <2>4. pos'[l] = pos[l]
    BY <1>0, <2>1, <2>3 DEF Dropped, Queue
  <2> QED
    BY <1>0, <2>1, <2>2, <2>4 DEF Dropped, Trimmed
<1>3. ASSUME NEW r \in Rounds, EnsureGroup(r) PROVE Decided(l)
  <2>1. UNCHANGED <<pos, pel, first>> /\ (UNCHANGED <<read, skipped>> \/ read' = skipped')
    BY <1>3 DEF EnsureGroup
  <2> QED
    BY <1>0, <1>1, <2>1 DEF Dropped
<1>4. ASSUME NEW r \in Rounds, ReadFresh(r) PROVE Decided(l)
  <2>1. UNCHANGED <<pos, skipped, first>> /\ pel' = pel \cup Oldest(Undelivered)
    BY <1>4 DEF ReadFresh
  <2>2. pos[l] > read /\ pos[l] <= read' /\ ~Trimmed(l)
    BY <1>0, <2>1 DEF Dropped, Trimmed
  <2>3. l \in pel'
    BY <1>4, <2>1, <2>2, FreshTakesAll
  <2> QED
    BY <2>3 DEF Dropped
<1>5. ASSUME NEW r \in Rounds, Ack(r) PROVE Decided(l)
  <2>1. UNCHANGED <<pos, read, skipped, first>> /\ (pel' = pel \ {cur[r]} \/ pel' = pel) /\ pc[r] = "ack"
    BY <1>5 DEF Ack, Acknowledged
  <2>2. l = cur[r]
    BY <2>1 DEF Dropped, Trimmed
  <2> QED
    BY <2>1, <2>2 DEF Counted, Decided
<1>6. ASSUME NEW r \in Rounds,
             Begin(r) \/ RedisError(r) \/ ReadPending(r) \/ Take(r) \/ Insert(r) \/ Terminal(r)
      PROVE  Decided(l)
  BY <1>1, <1>6 DEF Begin, RedisError, ReadPending, Take, Insert, Terminal, stream
<1>7. ASSUME NEW k \in Letters, SinkInsert(k) \/ LateInsert(k) \/ \E i \in Processes : Elapse(i, k) PROVE Decided(l)
  BY <1>1, <1>7 DEF SinkInsert, LateInsert, Elapse, stream
<1>8. ASSUME NEW i \in Processes, Restart(i) PROVE Decided(l)
  BY <1>1, <1>8 DEF Restart, stream
<1>9. CASE UNCHANGED vars
  BY <1>1, <1>9 DEF vars, stream
<1> QED
  BY <1>2, <1>3, <1>4, <1>5, <1>6, <1>7, <1>8, <1>9 DEF Next, Step

\* A letter the group has delivered leaves the pending list only with its row
\* written or its attempts used up, whatever fails, restarts or overlaps.
THEOREM DeliveredIsSettled == Spec => []LeavesSettled
<1>1. Init => DeliveredInv
  <2> SUFFICES ASSUME Init PROVE DeliveredInv
    OBVIOUS
  <2>1. TypeOK /\ Queue /\ Busy
    BY TypedInit
  <2>2. Counted
    BY LettersAssumption DEF Init, Counted
  <2>3. LeavesSettled
    BY DEF Init, LeavesSettled
  <2> QED
    BY <2>1, <2>2, <2>3 DEF DeliveredInv
<1>2. DeliveredInv /\ [Next]_vars => DeliveredInv'
  <2> SUFFICES ASSUME DeliveredInv, [Next]_vars PROVE DeliveredInv'
    OBVIOUS
  <2>1. (TypeOK /\ Queue /\ Busy /\ Counted)'
    BY TypedStep, QueueStep, BusyStep, CountedStep DEF DeliveredInv
  <2>2. \A l \in Letters : Dropped(l)' => Decided(l)'
    BY DroppedStep, DecidedStays DEF DeliveredInv, LeavesSettled, Dropped, Decided
  <2> QED
    BY <2>1, <2>2 DEF DeliveredInv, LeavesSettled, Dropped, Decided
<1>3. DeliveredInv => LeavesSettled
  BY DEF DeliveredInv
<1> QED
  BY <1>1, <1>2, <1>3, PTL DEF Spec

-----------------------------------------------------------------------------
(* A second row has a cause                                                *)

Working(r) == pc[r] \in {"insert", "terminal", "ack"}

\* The group has delivered what is pending and what the rounds hold, and a
\* round does not meet the letter it works on a second time.
Delivered == {l \in Letters : pos[l] > 0 /\ pos[l] <= read}

Holding ==
    /\ pel \subseteq Delivered
    /\ \A r \in Rounds : batch[r] \subseteq Delivered
    /\ \A r \in Rounds : Working(r) => cur[r] \in Delivered \ batch[r]

\* A round may still write a letter that it holds, or that it can be given.
Given(l)       == l \in pel \/ pos[l] = 0 \/ pos[l] > read
MayWrite(r, l) ==
    \/ l \in batch[r]
    \/ pc[r] = "insert" /\ cur[r] = l
    \/ Given(l) /\ ~(pc[r] = "ack" /\ cur[r] = l)

Writers(l) == {r \in Rounds : MayWrite(r, l)}

\* An insert that was written and answered.
Written(r) ==
    /\ rows' = [rows EXCEPT ![cur[r]] = @ + 1]
    /\ Goto(r, "ack")
    /\ UNCHANGED <<lost, memory, cur, tried, failures>>

\* Each round has one row in it, and each fault gives every round another one.
RowsBudget == \A l \in Letters : rows[l] + Cardinality(Writers(l)) <= lost[l] + Cardinality(Rounds) * (1 + faults)

RowsInv == TypeOK /\ Queue /\ Busy /\ Holding /\ RowsBudget

\* What was delivered stays delivered, and the end of what was moves on.
LEMMA DeliveredGrows ==
    ASSUME TypeOK, Queue, [Next]_vars
    PROVE  read <= read' /\ Delivered \subseteq Delivered'
<1>0. Last \in Nat /\ read \in Nat /\ \A k \in Letters : pos[k] \in Nat
  BY LastType DEF TypeOK, Positions
<1>t. read' \in Nat
  <2>1. UNCHANGED read \/ read' = Last \/ read' \in Positions
    BY DEF Next, Step, vars, stream, SinkInsert, LateInsert, Enqueue, Begin, RedisError, EnsureGroup, StartOfGroup,
           ReadPending, ReadFresh, Take, Insert, Terminal, Ack, Elapse, Restart
  <2> QED
    BY <1>0, <2>1, LastType DEF Positions
<1>1. read <= read'
  <2>1. ASSUME NEW r \in Rounds, EnsureGroup(r) PROVE read <= read'
    BY <1>0, <2>1 DEF EnsureGroup, StartOfGroup, Queue
  <2>2. ASSUME NEW r \in Rounds, ReadFresh(r) PROVE read <= read'
    BY <1>0, <1>t, <2>2 DEF ReadFresh
  <2>3. ASSUME ~\E r \in Rounds : EnsureGroup(r) \/ ReadFresh(r) PROVE UNCHANGED read
    BY <2>3 DEF Next, Step, vars, stream, SinkInsert, LateInsert, Enqueue, Begin, RedisError,
           ReadPending, Take, Insert, Terminal, Ack, Elapse, Restart
  <2> QED
    BY <1>0, <2>1, <2>2, <2>3
<1>2. \A k \in Letters : pos[k] > 0 => pos'[k] = pos[k]
  <2>1. ASSUME NEW l \in Letters, Enqueue(l) PROVE \A k \in Letters : pos[k] > 0 => pos'[k] = pos[k]
    BY <1>0, <2>1 DEF Enqueue, Queue, TypeOK
  <2>2. ASSUME ~\E l \in Letters : Enqueue(l) PROVE UNCHANGED pos
    BY <2>2 DEF Next, Step, vars, stream, SinkInsert, LateInsert, Begin, RedisError, EnsureGroup,
           ReadPending, ReadFresh, Take, Insert, Terminal, Ack, Elapse, Restart
  <2> QED
    BY <2>1, <2>2
<1> QED
  BY <1>0, <1>t, <1>1, <1>2 DEF Delivered

\* Every step keeps what the rounds hold.
LEMMA HoldingStep == ASSUME TypeOK, Queue, Busy, Holding, [Next]_vars PROVE Holding'
<1>0. Delivered \subseteq Delivered'
  BY DeliveredGrows
<1>1. pel' \subseteq Delivered'
  <2>1. ASSUME NEW r \in Rounds, ReadFresh(r) PROVE pel' \subseteq Delivered'
    <3>1. pel' = pel \cup Oldest(Undelivered) /\ pos' = pos
      BY <2>1 DEF ReadFresh
    <3>2. \A l \in Oldest(Undelivered) : l \in Letters /\ pos[l] > 0 /\ pos[l] <= read'
      <4>1. read \in Nat /\ read' \in Nat /\ \A k \in Letters : pos[k] \in Nat
        BY <2>1, LastType DEF TypeOK, ReadFresh, Positions
      <4>2. \A l \in Oldest(Undelivered) : l \in Letters /\ pos[l] > read
        BY DEF Oldest, Undelivered
      <4>3. \A l \in Oldest(Undelivered) : pos[l] <= read'
        BY <2>1, <4>1, <4>2 DEF ReadFresh
      <4> QED
        BY <4>1, <4>2, <4>3
    <3> QED
      BY <1>0, <3>1, <3>2 DEF Delivered, Holding
  <2>2. ASSUME ~\E r \in Rounds : ReadFresh(r) PROVE pel' \subseteq pel
    BY <2>2 DEF Next, Step, vars, stream, SinkInsert, LateInsert, Enqueue, Begin, RedisError, EnsureGroup,
           ReadPending, Take, Insert, Terminal, Ack, Acknowledged, Elapse, Restart
  <2> QED
    BY <1>0, <2>1, <2>2 DEF Holding
<1>2. ASSUME NEW r \in Rounds PROVE batch'[r] \subseteq Delivered'
  <2>1. batch'[r] \subseteq batch[r] \cup pel'
    <3>1. ASSUME NEW s \in Rounds, ReadPending(s) PROVE batch'[r] \subseteq batch[r] \cup pel'
      <4>1. pel' = pel /\ (End(s) \/ batch' = [batch EXCEPT ![s] = Oldest(pel)])
        BY <3>1 DEF ReadPending, stream
      <4>2. batch'[r] \subseteq batch[r] \cup Oldest(pel)
        BY <4>1 DEF End, TypeOK
      <4> QED
        BY <4>1, <4>2 DEF Oldest
    <3>2. ASSUME NEW s \in Rounds, ReadFresh(s) PROVE batch'[r] \subseteq batch[r] \cup pel'
      BY <3>2 DEF ReadFresh, TypeOK
    <3>3. ASSUME NEW s \in Rounds, Take(s) \/ RedisError(s) PROVE batch'[r] \subseteq batch[r]
      <4>1. batch' = [batch EXCEPT ![s] = {}] \/ \E l \in Letters : batch' = [batch EXCEPT ![s] = @ \ {l}]
        BY <3>3 DEF Take, RedisError, End
      <4> QED
        BY <4>1 DEF TypeOK
    <3>4. ASSUME NEW i \in Processes, Restart(i) PROVE batch'[r] \subseteq batch[r]
      BY <3>4 DEF Restart
    <3>5. ASSUME ~\E s \in Rounds : ReadPending(s) \/ ReadFresh(s) \/ Take(s) \/ RedisError(s),
                 ~\E i \in Processes : Restart(i)
          PROVE  UNCHANGED batch
      BY <3>5 DEF Next, Step, vars, round, SinkInsert, LateInsert, Enqueue, Begin, EnsureGroup, Insert, Terminal, Ack, Elapse
    <3> QED
      BY <3>1, <3>2, <3>3, <3>4, <3>5
  <2> QED
    BY <1>0, <1>1, <2>1 DEF Holding
<1>3. ASSUME NEW r \in Rounds, Working(r)' PROVE cur'[r] \in Delivered' \ batch'[r]
  <2>1. CASE Working(r) /\ cur'[r] = cur[r] /\ batch'[r] = batch[r]
    BY <1>0, <1>3, <2>1 DEF Holding
  <2>2. CASE Take(r) /\ pc'[r] # pc[r]
    <3>1. ~End(r)
      BY <1>3, <2>2 DEF End, Goto, Working, TypeOK
    <3>2. PICK l \in batch[r] : batch' = [batch EXCEPT ![r] = @ \ {l}] /\ (cur' = [cur EXCEPT ![r] = l] \/ UNCHANGED pc)
      BY <2>2, <3>1 DEF Take, IsNext
    <3>3. cur'[r] = l
      BY <2>2, <3>2 DEF TypeOK
    <3>4. batch'[r] = batch[r] \ {l}
      BY <3>2 DEF TypeOK
    <3> QED
      BY <1>0, <3>3, <3>4 DEF Holding
  <2>3. ASSUME Take(r), pc'[r] = pc[r] PROVE FALSE
    BY <1>3, <2>3 DEF Take, Working
  <2>4. ASSUME Insert(r) \/ Terminal(r) PROVE Working(r) /\ cur'[r] = cur[r] /\ batch'[r] = batch[r]
    BY <1>3, <2>4 DEF Insert, Terminal, Goto, Working, TypeOK
  <2>5. ASSUME Begin(r) \/ RedisError(r) \/ EnsureGroup(r) \/ ReadPending(r) \/ ReadFresh(r) \/ Ack(r) PROVE FALSE
    BY <1>3, <2>5 DEF Begin, RedisError, EnsureGroup, ReadPending, ReadFresh, Ack, End, Goto, Working, TypeOK
  <2>6. ASSUME NEW s \in Rounds, s # r, Step(s) \/ Begin(s) \/ RedisError(s)
        PROVE  pc'[r] = pc[r] /\ cur'[r] = cur[r] /\ batch'[r] = batch[r]
    BY <2>6 DEF TypeOK, Step, Begin, RedisError, EnsureGroup, ReadPending, ReadFresh, Take, Insert, Terminal, Ack, End, Goto
  <2>7. ASSUME NEW i \in Processes, Restart(i) PROVE pc'[r] = pc[r] /\ cur'[r] = cur[r] /\ batch'[r] = batch[r]
    BY <1>3, <2>7 DEF Restart, Working
  <2>8. ASSUME NEW l \in Letters, SinkInsert(l) \/ LateInsert(l) \/ Enqueue(l) \/ \E i \in Processes : Elapse(i, l)
        PROVE  pc'[r] = pc[r] /\ cur'[r] = cur[r] /\ batch'[r] = batch[r]
    BY <2>8 DEF SinkInsert, LateInsert, Enqueue, Elapse, round
  <2>9. ASSUME UNCHANGED vars PROVE pc'[r] = pc[r] /\ cur'[r] = cur[r] /\ batch'[r] = batch[r]
    BY <2>9 DEF vars, round
  <2>10. ASSUME pc'[r] = pc[r] PROVE Working(r)
    BY <1>3, <2>10 DEF Working
  <2> QED
    BY <2>1, <2>2, <2>3, <2>4, <2>5, <2>6, <2>7, <2>8, <2>9, <2>10 DEF Next, Step
<1> QED
  BY <1>1, <1>2, <1>3 DEF Holding

\* No step gives the rounds a letter they could not be given before.
LEMMA GivenStays ==
    ASSUME TypeOK, Queue, Busy, [Next]_vars, NEW l \in Letters, Given(l)'
    PROVE  Given(l)
<1>0. pos[l] \in Nat /\ pos'[l] \in Nat /\ read \in Nat /\ read' \in Nat /\ read <= read'
  BY TypedStep, DeliveredGrows DEF TypeOK, Positions
<1>1. pel' \subseteq pel \cup Undelivered
  BY DEF Next, Step, vars, stream, SinkInsert, LateInsert, Enqueue, Begin, RedisError, EnsureGroup,
         ReadPending, ReadFresh, Oldest, Take, Insert, Terminal, Ack, Acknowledged, Elapse, Restart
<1>2. pos'[l] = pos[l] \/ pos[l] = 0
  <2>1. ASSUME NEW k \in Letters, Enqueue(k) PROVE pos'[l] = pos[l] \/ pos[l] = 0
    BY <2>1 DEF Enqueue, Queue, TypeOK
  <2>2. ASSUME ~\E k \in Letters : Enqueue(k) PROVE UNCHANGED pos
    BY <2>2 DEF Next, Step, vars, stream, SinkInsert, LateInsert, Begin, RedisError, EnsureGroup,
           ReadPending, ReadFresh, Take, Insert, Terminal, Ack, Elapse, Restart
  <2> QED
    BY <2>1, <2>2
<1>3. l \in Undelivered => pos[l] > read
  BY DEF Undelivered
<1> QED
  BY <1>0, <1>1, <1>2, <1>3 DEF Given

\* Without a fault no round gains a letter that it may write.
LEMMA MayWriteStays ==
    ASSUME TypeOK, Queue, Busy, Holding, [Next]_vars, faults' = faults,
           NEW r \in Rounds, NEW l \in Letters, MayWrite(r, l)'
    PROVE  MayWrite(r, l)
<1>0. faults \in Nat
  BY LettersAssumption DEF TypeOK
<1>1. ASSUME pc'[r] = pc[r], cur'[r] = cur[r], batch'[r] = batch[r] PROVE MayWrite(r, l)
  BY <1>1, GivenStays DEF MayWrite
<1>2. ASSUME pc[r] \notin {"insert", "ack"}, pc'[r] \notin {"insert", "ack"}, l \in batch'[r] => l \in batch[r] \/ Given(l)
      PROVE  MayWrite(r, l)
  BY <1>2, GivenStays DEF MayWrite
<1>3. CASE Begin(r) \/ EnsureGroup(r)
  BY <1>2, <1>3 DEF Begin, EnsureGroup, Goto, TypeOK
<1>4. CASE RedisError(r)
  BY <1>0, <1>4 DEF RedisError, Fault
<1>5. CASE ReadPending(r)
  <2>1. pc[r] = "pending" /\ pc'[r] \in {"idle", "fresh"}
    BY <1>5 DEF ReadPending, End, Goto, TypeOK
  <2>2. l \in batch'[r] => l \in pel
    BY <1>5 DEF ReadPending, End, Oldest, TypeOK
  <2> QED
    BY <1>2, <2>1, <2>2 DEF Given
<1>6. CASE ReadFresh(r)
  <2>1. pc[r] = "fresh" /\ pc'[r] = "next"
    BY <1>6 DEF ReadFresh, Goto, TypeOK
  <2>2. l \in batch'[r] => l \in batch[r] \/ pos[l] > read
    BY <1>6 DEF ReadFresh, Oldest, Undelivered, TypeOK
  <2> QED
    BY <1>2, <2>1, <2>2 DEF Given
<1>7. CASE Take(r)
  <2>1. pc[r] = "next"
    BY <1>7 DEF Take
  <2>2. CASE End(r)
    BY <1>2, <2>1, <2>2 DEF End, Goto, TypeOK
  <2>3. CASE ~End(r)
    <3>1. PICK k \in Letters :
            /\ k \in batch[r]
            /\ batch' = [batch EXCEPT ![r] = @ \ {k}]
            /\ \/ UNCHANGED <<pc, cur>>
               \/ Goto(r, "terminal")
               \/ cur' = [cur EXCEPT ![r] = k] /\ Goto(r, "insert")
      BY <1>7, <2>3 DEF Take, IsNext
    <3>2. l \in batch'[r] => l \in batch[r]
      BY <3>1 DEF TypeOK
    <3>3. CASE UNCHANGED <<pc, cur>> \/ Goto(r, "terminal")
      BY <1>2, <2>1, <3>2, <3>3 DEF Goto, TypeOK
    <3>4. CASE cur' = [cur EXCEPT ![r] = k] /\ Goto(r, "insert")
      <4>1. cur'[r] = k /\ pc'[r] = "insert"
        BY <3>4 DEF Goto, TypeOK
      <4> QED
        BY <2>1, <3>1, <3>2, <4>1, GivenStays DEF MayWrite
    <3> QED
      BY <3>1, <3>3, <3>4
  <2> QED
    BY <2>2, <2>3
<1>8. CASE Insert(r)
  <2>1. pc[r] = "insert" /\ batch'[r] = batch[r] /\ pc'[r] \in {"ack", "next"}
    BY <1>8 DEF Insert, Goto, TypeOK
  <2> QED
    BY <2>1, GivenStays DEF MayWrite
<1>9. CASE Terminal(r)
  <2>1. pc[r] = "terminal" /\ batch'[r] = batch[r] /\ pc'[r] = "ack"
    BY <1>9 DEF Terminal, Goto, TypeOK
  <2> QED
    BY <2>1, GivenStays DEF MayWrite
<1>10. CASE Ack(r)
  <2>1. /\ pc[r] = "ack" /\ pc'[r] = "next" /\ batch'[r] = batch[r]
        /\ pel' = pel \ {cur[r]} /\ UNCHANGED <<pos, read>>
    BY <1>0, <1>10 DEF Ack, Acknowledged, Fault, Goto, TypeOK
  <2>2. CASE cur[r] = l
    <3>1. l \in Delivered /\ l \notin batch[r]
      BY <2>1, <2>2 DEF Holding, Working
    <3>2. ~Given(l)'
      BY <2>1, <2>2, <3>1 DEF Given, Delivered, TypeOK, Positions
    <3> QED
      BY <2>1, <3>1, <3>2 DEF MayWrite
  <2>3. CASE cur[r] # l
    BY <2>1, <2>3, GivenStays DEF MayWrite
  <2> QED
    BY <2>2, <2>3
<1>11. ASSUME NEW s \in Rounds, s # r, Step(s) \/ Begin(s) \/ RedisError(s)
       PROVE  pc'[r] = pc[r] /\ cur'[r] = cur[r] /\ batch'[r] = batch[r]
  BY <1>11 DEF TypeOK, Step, Begin, RedisError, EnsureGroup, ReadPending, ReadFresh, Take, Insert, Terminal, Ack, End, Goto
<1>12. ASSUME NEW i \in Processes, Restart(i) PROVE FALSE
  BY <1>0, <1>12 DEF Restart, Fault
<1>13. ASSUME NEW k \in Letters, SinkInsert(k) \/ LateInsert(k) \/ Enqueue(k) \/ \E i \in Processes : Elapse(i, k)
       PROVE  pc'[r] = pc[r] /\ cur'[r] = cur[r] /\ batch'[r] = batch[r]
  BY <1>13 DEF SinkInsert, LateInsert, Enqueue, Elapse, round
<1>14. ASSUME UNCHANGED vars PROVE pc'[r] = pc[r] /\ cur'[r] = cur[r] /\ batch'[r] = batch[r]
  BY <1>14 DEF vars, round
<1> QED
  BY <1>1, <1>3, <1>4, <1>5, <1>6, <1>7, <1>8, <1>9, <1>10, <1>11, <1>12, <1>13, <1>14 DEF Next, Step

\* The rounds can be counted.
LEMMA RoundsCount ==
    /\ Cardinality(Rounds) \in Nat
    /\ \A S \in SUBSET Rounds, T \in SUBSET Rounds :
          /\ Cardinality(S) \in Nat /\ Cardinality(S) <= Cardinality(Rounds)
          /\ S \subseteq T => Cardinality(S) <= Cardinality(T)
          /\ \A r \in T : S \subseteq T \ {r} => Cardinality(S) + 1 <= Cardinality(T)
<1>1. IsFiniteSet(Rounds) /\ Cardinality(Rounds) \in Nat
  BY LettersAssumption, FS_CardinalityType
<1>2. ASSUME NEW S \in SUBSET Rounds
      PROVE  IsFiniteSet(S) /\ Cardinality(S) \in Nat /\ Cardinality(S) <= Cardinality(Rounds)
  BY <1>1, FS_Subset, FS_CardinalityType
<1>3. ASSUME NEW S \in SUBSET Rounds, NEW T \in SUBSET Rounds, S \subseteq T PROVE Cardinality(S) <= Cardinality(T)
  BY <1>2, <1>3, FS_Subset
<1>4. ASSUME NEW S \in SUBSET Rounds, NEW T \in SUBSET Rounds, NEW r \in T, S \subseteq T \ {r}
      PROVE  Cardinality(S) + 1 <= Cardinality(T)
  <2>1. Cardinality(S) <= Cardinality(T \ {r})
    BY <1>3, <1>4
  <2>2. Cardinality(T \ {r}) = Cardinality(T) - 1
    BY <1>2, FS_RemoveElement
  <2>3. Cardinality(S) \in Nat /\ Cardinality(T) \in Nat
    BY <1>2
  <2> QED
    BY <2>1, <2>2, <2>3
<1> QED
  BY <1>1, <1>2, <1>3, <1>4

\* A fault gives every round another row.
LEMMA OneMoreFault ==
    ASSUME NEW c \in Nat, NEW f \in Nat
    PROVE  c * (1 + f) \in Nat /\ c * (1 + (f + 1)) = c * (1 + f) + c
OBVIOUS

\* Every step keeps the budget of rows.
LEMMA BudgetStep == ASSUME TypeOK, Queue, Busy, Holding, RowsBudget, [Next]_vars PROVE RowsBudget'
<1> SUFFICES ASSUME NEW l \in Letters
             PROVE  rows'[l] + Cardinality(Writers(l)') <= lost'[l] + Cardinality(Rounds) * (1 + faults')
  BY DEF RowsBudget
<1> DEFINE W == Writers(l)
           V == Writers(l)'
           c == Cardinality(Rounds)
<1>1. rows[l] + Cardinality(W) <= lost[l] + c * (1 + faults)
  BY DEF RowsBudget
<1>2. W \in SUBSET Rounds /\ V \in SUBSET Rounds
  BY DEF Writers
<1>a. rows[l] \in Nat /\ lost[l] \in Nat /\ faults \in Nat
  BY LettersAssumption DEF TypeOK
<1>b. c \in Nat /\ Cardinality(W) \in Nat /\ Cardinality(V) \in Nat /\ Cardinality(V) <= c
  <2> HIDE DEF W, V
  <2> QED
    BY <1>2, RoundsCount
<1>3. /\ c \in Nat /\ Cardinality(W) \in Nat /\ Cardinality(V) \in Nat /\ Cardinality(V) <= c
      /\ rows[l] \in Nat /\ lost[l] \in Nat /\ faults \in Nat
  BY <1>a, <1>b
<1>4. c * (1 + faults) \in Nat /\ c * (1 + (faults + 1)) = c * (1 + faults) + c
  BY <1>3, OneMoreFault
<1>5. CASE faults' = faults + 1 /\ UNCHANGED <<rows, lost>>
  <2>1. rows'[l] + Cardinality(V) <= lost'[l] + (c * (1 + faults) + c)
    BY <1>1, <1>3, <1>4, <1>5
  <2> QED
    BY <1>4, <1>5, <2>1
<1>6. ASSUME faults' = faults PROVE V \subseteq W
  BY <1>6, MayWriteStays DEF Writers
<1>7. CASE /\ faults' = faults
           /\ \/ rows'[l] = rows[l] /\ lost'[l] = lost[l]
              \/ rows'[l] = rows[l] + 1 /\ lost'[l] = lost[l] + 1
  <2>1. Cardinality(V) <= Cardinality(W)
    BY <1>2, <1>6, <1>7, RoundsCount
  <2> QED
    BY <1>1, <1>3, <1>4, <1>7, <2>1
<1>8. CASE faults' = faults /\ \E r \in Rounds : Insert(r) /\ Written(r)
  <2>1. PICK r \in Rounds : Insert(r) /\ Written(r)
    BY <1>8
  <2>t. rows' = [rows EXCEPT ![cur[r]] = @ + 1] /\ UNCHANGED <<lost, cur, batch>> /\ Goto(r, "ack")
    BY <2>1 DEF Written, Insert
  <2>2. cur[r] \in Letters /\ pc[r] = "insert"
    BY <2>1 DEF Insert, Busy
  <2>3. CASE cur[r] # l
    <3>1. rows'[l] = rows[l] /\ lost'[l] = lost[l]
      BY <2>t, <2>2, <2>3 DEF TypeOK
    <3> QED
      BY <1>7, <1>8, <3>1
  <2>4. CASE cur[r] = l
    <3>1. rows'[l] = rows[l] + 1 /\ lost'[l] = lost[l]
      BY <2>t, <2>2, <2>4 DEF TypeOK
    <3>2. r \in W
      BY <2>2, <2>4 DEF Writers, MayWrite
    <3>4. pc'[r] = "ack" /\ cur'[r] = l /\ batch'[r] = batch[r]
      BY <2>t, <2>4 DEF Goto, TypeOK
    <3>5. l \notin batch[r]
      BY <2>2, <2>4 DEF Holding, Working
    <3>6. r \notin V
      BY <3>4, <3>5 DEF Writers, MayWrite
    <3>7. V \subseteq W \ {r}
      BY <1>6, <1>8, <3>6
    <3>8. Cardinality(V) + 1 <= Cardinality(W)
      BY <1>2, <3>2, <3>7, RoundsCount
    <3> QED
      BY <1>1, <1>3, <1>4, <1>8, <3>1, <3>8
  <2> QED
    BY <2>3, <2>4
<1>9. ASSUME NEW r \in Rounds, Insert(r), ~Written(r) PROVE rows'[l] + Cardinality(V) <= lost'[l] + c * (1 + faults')
  <2>1. /\ faults' = faults
        /\ \/ UNCHANGED <<rows, lost>>
           \/ /\ rows' = [rows EXCEPT ![cur[r]] = @ + 1]
              /\ lost' = [lost EXCEPT ![cur[r]] = @ + 1]
    BY <1>9 DEF Insert, Written
  <2>2. cur[r] \in Letters
    BY <1>9 DEF Insert, Busy
  <2>3. \/ rows'[l] = rows[l] /\ lost'[l] = lost[l]
        \/ rows'[l] = rows[l] + 1 /\ lost'[l] = lost[l] + 1
    BY <2>1, <2>2 DEF TypeOK
  <2> QED
    BY <1>7, <2>1, <2>3
<1>10. ASSUME ~\E r \in Rounds : Insert(r) PROVE UNCHANGED <<rows, lost>> /\ (faults' = faults \/ faults' = faults + 1)
  BY <1>10 DEF Next, Step, vars, history, Fault, SinkInsert, LateInsert, Enqueue, Begin, RedisError, EnsureGroup,
         ReadPending, ReadFresh, Take, Terminal, Ack, Elapse, Restart
<1>11. ASSUME NEW r \in Rounds, Insert(r) PROVE faults' = faults
  BY <1>11 DEF Insert
<1> QED
  BY <1>5, <1>7, <1>8, <1>9, <1>10, <1>11

\* Besides the inserts whose answer was lost, the rounds write a letter at most
\* once each, and each Redis error or restart lets each of them write it once
\* more: no interleaving adds rows by itself.
THEOREM SecondRowsExplained == Spec => []RowsExplained
<1>1. Init => RowsInv
  <2> SUFFICES ASSUME Init PROVE RowsInv
    OBVIOUS
  <2>1. TypeOK /\ Queue /\ Busy
    BY TypedInit
  <2>2. Holding
    BY DEF Init, Holding, Working
  <2>3. RowsBudget
    <3> SUFFICES ASSUME NEW l \in Letters PROVE rows[l] + Cardinality(Writers(l)) <= lost[l] + Cardinality(Rounds) * (1 + faults)
      BY DEF RowsBudget
    <3>1. Writers(l) \in SUBSET Rounds /\ rows[l] = 0 /\ lost[l] = 0 /\ faults = 0
      BY DEF Init, Writers
    <3>2. Cardinality(Rounds) \in Nat /\ Cardinality(Writers(l)) \in Nat /\ Cardinality(Writers(l)) <= Cardinality(Rounds)
      BY <3>1, RoundsCount
    <3> QED
      BY <3>1, <3>2
  <2> QED
    BY <2>1, <2>2, <2>3 DEF RowsInv
<1>2. RowsInv /\ [Next]_vars => RowsInv'
  BY TypedStep, QueueStep, BusyStep, HoldingStep, BudgetStep DEF RowsInv
<1>3. RowsInv => RowsExplained
  <2> SUFFICES ASSUME RowsInv, NEW l \in Letters PROVE rows[l] <= lost[l] + Cardinality(Rounds) * (1 + faults)
    BY DEF RowsExplained
  <2>1. rows[l] + Cardinality(Writers(l)) <= lost[l] + Cardinality(Rounds) * (1 + faults)
    BY DEF RowsInv, RowsBudget
  <2>2. Writers(l) \in SUBSET Rounds /\ rows[l] \in Nat /\ lost[l] \in Nat /\ faults \in Nat
    BY LettersAssumption DEF RowsInv, TypeOK, Writers
  <2>3. Cardinality(Writers(l)) \in Nat /\ Cardinality(Rounds) * (1 + faults) \in Nat
    BY <2>2, RoundsCount, OneMoreFault
  <2> QED
    BY <2>1, <2>2, <2>3
<1> QED
  BY <1>1, <1>2, <1>3, PTL DEF Spec
=============================================================================
