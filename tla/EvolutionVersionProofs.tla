----------------------- MODULE EvolutionVersionProofs -----------------------
(***************************************************************************)
(* Theorems about EvolutionVersion, for any number of versions, clients,   *)
(* accuracies and any limits of a round and of a day.                      *)
(***************************************************************************)
EXTENDS EvolutionVersion, FiniteSetTheorems, TLAPS

-----------------------------------------------------------------------------
(* Types                                                                   *)

Labels == {"idle", "load", "baseline", "evaluate", "save", "reread",
           "discard", "saveDiscard", "activate", "count", "rollback"}

\* What the clients keep, without the rows.
ClientsOK ==
    /\ pc \in [Clients -> Labels]
    /\ cron \subseteq Clients
    /\ at \in [Clients -> 0..MaxVersions]
    /\ todo \in [Clients -> SUBSET Versions]
    /\ \A c \in Clients : pc[c] \notin {"idle", "load"} => at[c] # 0
    /\ copy \in [Clients -> [status : Statuses, accuracy : Measured]]
    /\ baseline \in [Clients -> Measured]
    /\ verdict \in [Clients -> Verdicts]
    /\ diff \in [Clients -> SUBSET Columns]

RowsOK ==
    /\ status \in [Versions -> Statuses]
    /\ accuracy \in [Versions -> Measured]
    /\ count \in Nat /\ dayOver \in BOOLEAN
    /\ automatic \in Nat /\ lost \in 0..MaxLost
    /\ revived \subseteq Versions /\ excused \in BOOLEAN

LEMMA TypeSplit == TypeOK <=> ClientsOK /\ RowsOK
  BY DEF TypeOK, ClientsOK, RowsOK, Labels

LEMMA TypeSplitNext == TypeOK' <=> ClientsOK' /\ RowsOK'
  BY DEF TypeOK, ClientsOK, RowsOK, Labels

LEMMA BlankType == Blank \in [status : Statuses, accuracy : Measured]
  BY DEF Blank, Statuses, Measured

LEMMA RowType ==
    ASSUME TypeOK, NEW v \in Versions
    PROVE  Row(v) \in [status : Statuses, accuracy : Measured]
  BY DEF TypeOK, Row

\* A client that works on something works on a version.
LEMMA AtVersion ==
    ASSUME TypeOK, NEW c \in Clients, pc[c] \notin {"idle", "load"}
    PROVE  at[c] \in Versions
<1>1. at[c] \in 0..MaxVersions /\ at[c] # 0
  BY DEF TypeOK
<1> QED
  BY <1>1, EvolutionAssumption DEF Versions

\* Where the end of a closure or request leaves its client.
LEMMA FinishFacts ==
    ASSUME ClientsOK, NEW c \in Clients, Finish(c)
    PROVE  /\ ClientsOK'
           /\ pc'[c] \in {"idle", "load"}
           /\ pc'[c] = "idle" => c \notin cron'
           /\ \A d \in Clients \ {c} : pc'[d] = pc[d] /\ (d \in cron' <=> d \in cron)
           /\ cron' \subseteq cron
<1>1. /\ at' = [at EXCEPT ![c] = 0] /\ copy' = [copy EXCEPT ![c] = Blank]
      /\ baseline' = [baseline EXCEPT ![c] = None] /\ verdict' = [verdict EXCEPT ![c] = "none"]
      /\ diff' = [diff EXCEPT ![c] = {}] /\ todo' = todo
  BY DEF Finish
<1>2. \/ pc' = [pc EXCEPT ![c] = "idle"] /\ cron' = cron \ {c}
      \/ pc' = [pc EXCEPT ![c] = "load"] /\ cron' = cron
  BY DEF Finish, Goto
<1>3. /\ pc' \in [Clients -> Labels] /\ cron' \subseteq cron /\ pc'[c] \in {"idle", "load"}
      /\ pc'[c] = "idle" => c \notin cron'
      /\ \A d \in Clients \ {c} : pc'[d] = pc[d] /\ (d \in cron' <=> d \in cron)
  BY <1>2 DEF ClientsOK, Labels
<1>4. at' \in [Clients -> 0..MaxVersions]
  BY <1>1, EvolutionAssumption DEF ClientsOK
<1>5. \A d \in Clients : pc'[d] \notin {"idle", "load"} => at'[d] # 0
  BY <1>1, <1>3 DEF ClientsOK
<1>6. /\ copy' \in [Clients -> [status : Statuses, accuracy : Measured]]
      /\ baseline' \in [Clients -> Measured] /\ verdict' \in [Clients -> Verdicts]
      /\ diff' \in [Clients -> SUBSET Columns]
  BY <1>1, BlankType DEF ClientsOK, Measured, Verdicts
<1> QED
  BY <1>1, <1>3, <1>4, <1>5, <1>6 DEF ClientsOK

\* What a save leaves in the rows, whatever it found different.
LEMMA WriteFacts ==
    ASSUME TypeOK, NEW c \in Clients, at[c] \in Versions, Write(c)
    PROVE  /\ status' \in [Versions -> Statuses] /\ accuracy' \in [Versions -> Measured]
           /\ revived' \subseteq Versions /\ excused' \in BOOLEAN
           /\ OneActive => OneActive'
<1> DEFINE v == at[c]
<1>1. copy[c].status \in Statuses /\ copy[c].accuracy \in Measured
  BY DEF TypeOK
<1>2. accuracy' \in [Versions -> Measured]
  BY <1>1 DEF Write, TypeOK
<1>3. CASE "status" \in diff[c] /\ copy[c].status # status[v]
  <2>1. /\ status' = [status EXCEPT ![v] = copy[c].status]
        /\ revived' = IF copy[c].status = "active" THEN revived \cup {v} ELSE revived \ {v}
        /\ excused' = (excused \/ status[v] = "active")
    BY <1>3 DEF Write
  <2>2. /\ status' \in [Versions -> Statuses] /\ revived' \subseteq Versions
        /\ status'[v] = copy[c].status
        /\ \A w \in Versions \ {v} : status'[w] = status[w] /\ (w \in revived' <=> w \in revived)
        /\ status'[v] = "active" => v \in revived'
    BY <1>1, <2>1 DEF TypeOK
  <2>3. excused' \in BOOLEAN /\ (~excused' => ~excused /\ status[v] # "active")
    BY <2>1 DEF TypeOK
  <2> QED
    BY <1>2, <2>2, <2>3 DEF OneActive
<1>4. CASE ~("status" \in diff[c] /\ copy[c].status # status[v])
  <2>1. status' = status /\ revived' = revived /\ excused' = excused
    BY <1>4 DEF Write, ghosts
  <2> QED
    BY <1>2, <2>1 DEF TypeOK, OneActive
<1> QED
  BY <1>3, <1>4

-----------------------------------------------------------------------------
(* The counter of the day                                                  *)

\* The rounds that have looked at the counter and are in a closure.
InFlight == {c \in cron : pc[c] # "load"}

\* The rounds that have still to count what they activated.
Counting == {c \in cron : pc[c] = "count"}

\* Each closure under way may still count one activation, and what is counted,
\* lost or about to be counted is all that was activated.
CapInv ==
    /\ automatic <= count + lost + Cardinality(Counting)
    /\ \A c \in cron : pc[c] # "idle"
    /\ \A c \in Clients : pc[c] = "count" => c \in cron
    /\ count + Cardinality(InFlight) < Cap + Cardinality(Clients)

\* Nobody but c moves, enters a round or leaves one.
Alone(c) == \A d \in Clients \ {c} : pc'[d] = pc[d] /\ (d \in cron' <=> d \in cron)

LEMMA InFlightFinite ==
    ASSUME ClientsOK
    PROVE  /\ IsFiniteSet(InFlight) /\ Cardinality(InFlight) \in Nat
           /\ Cardinality(InFlight) <= Cardinality(Clients)
           /\ Cardinality(Clients) \in Nat
<1>1. InFlight \subseteq Clients
  BY DEF ClientsOK, InFlight
<1> QED
  BY <1>1, FS_Subset, FS_CardinalityType, EvolutionAssumption

LEMMA InFlightFiniteNext ==
    ASSUME ClientsOK'
    PROVE  /\ IsFiniteSet(InFlight') /\ Cardinality(InFlight') \in Nat
           /\ Cardinality(InFlight') <= Cardinality(Clients)
<1>1. InFlight' \subseteq Clients
  BY DEF ClientsOK, InFlight
<1> QED
  BY <1>1, FS_Subset, FS_CardinalityType, EvolutionAssumption

\* A closure ends: one less is under way.
LEMMA LessInFlight ==
    ASSUME ClientsOK, ClientsOK', NEW c \in Clients, InFlight' \subseteq InFlight \ {c}
    PROVE  /\ Cardinality(InFlight') <= Cardinality(InFlight)
           /\ c \in InFlight => Cardinality(InFlight') + 1 <= Cardinality(InFlight)
<1>1. IsFiniteSet(InFlight) /\ Cardinality(InFlight) \in Nat
  BY InFlightFinite
<1>2. Cardinality(InFlight') <= Cardinality(InFlight)
  BY <1>1, FS_Subset
<1>3. ASSUME c \in InFlight PROVE Cardinality(InFlight') + 1 <= Cardinality(InFlight)
  <2>1. IsFiniteSet(InFlight \ {c}) /\ Cardinality(InFlight \ {c}) = Cardinality(InFlight) - 1
    BY <1>1, <1>3, FS_RemoveElement
  <2>2. Cardinality(InFlight') <= Cardinality(InFlight \ {c}) /\ Cardinality(InFlight') \in Nat
    BY <2>1, FS_Subset, FS_CardinalityType
  <2> QED
    BY <1>1, <2>1, <2>2
<1> QED
  BY <1>2, <1>3

LEMMA CountingFinite ==
    ASSUME ClientsOK
    PROVE  /\ IsFiniteSet(Counting) /\ Cardinality(Counting) \in Nat
           /\ Cardinality(Counting) <= Cardinality(InFlight)
<1>1. Counting \subseteq InFlight
  BY DEF Counting, InFlight
<1> QED
  BY <1>1, InFlightFinite, FS_Subset, FS_CardinalityType

\* A client that has nothing to count, before or after its step.
LEMMA CountingSame ==
    ASSUME ClientsOK, ClientsOK', CapInv, NEW c \in Clients, Alone(c),
           pc[c] # "count", pc'[c] # "count"
    PROVE  /\ Counting' = Counting
           /\ \A d \in Clients : pc'[d] = "count" => d \in cron'
<1>1. cron \subseteq Clients /\ cron' \subseteq Clients
  BY DEF ClientsOK
<1> QED
  BY <1>1 DEF Alone, Counting, CapInv

\* A step that starts no closure, activates nothing and counts nothing.
LEMMA CapKeptWhen ==
    ASSUME TypeOK, ClientsOK', CapInv, automatic' = automatic, count' = count, lost' = lost,
           NEW c \in Clients, Alone(c), pc[c] # "count", pc'[c] # "count",
           c \in cron' => c \in cron /\ pc'[c] # "idle" /\ (pc[c] = "load" => pc'[c] = "load")
    PROVE  CapInv'
<1>0. ClientsOK
  BY TypeSplit
<1>1. InFlight' \subseteq InFlight /\ \A d \in cron' : pc'[d] # "idle"
  BY <1>0 DEF InFlight, Alone, ClientsOK, CapInv
<1>2. IsFiniteSet(InFlight) /\ Cardinality(InFlight) \in Nat /\ Cardinality(Clients) \in Nat
  BY <1>0, InFlightFinite
<1>3. Cardinality(InFlight') <= Cardinality(InFlight) /\ Cardinality(InFlight') \in Nat
  BY <1>1, <1>2, FS_Subset, FS_CardinalityType
<1>4. count + Cardinality(InFlight') < Cap + Cardinality(Clients)
  BY <1>2, <1>3, EvolutionAssumption DEF CapInv, TypeOK
<1>5. Counting' = Counting /\ \A d \in Clients : pc'[d] = "count" => d \in cron'
  BY <1>0, CountingSame
<1> QED
  BY <1>1, <1>4, <1>5 DEF CapInv

-----------------------------------------------------------------------------
(* Every step                                                              *)

EvoInv == TypeOK /\ OneActive /\ CapInv

LEMMA Starts == Init => EvoInv
<1> SUFFICES ASSUME Init PROVE EvoInv
  OBVIOUS
<1>a. 0 \in 0..MaxVersions /\ 0 \in 0..MaxLost /\ 0 \in Nat
  BY EvolutionAssumption
<1>b. ClientsOK
  BY <1>a, BlankType DEF Init, ClientsOK, Labels, Measured, Verdicts
<1>c. RowsOK
  BY <1>a DEF Init, RowsOK, Statuses, Measured
<1>1. TypeOK
  BY <1>b, <1>c, TypeSplit
<1>2. OneActive
  BY DEF Init, OneActive
<1>3. CapInv
  <2>1. InFlight = {} /\ Cardinality(InFlight) = 0 /\ Counting = {} /\ Cardinality(Counting) = 0
    BY FS_EmptySet DEF Init, InFlight, Counting
  <2>2. Cardinality(Clients) \in Nat /\ Cardinality(Clients) # 0
    BY EvolutionAssumption, FS_CardinalityType, FS_EmptySet
  <2>3. 0 + 0 < Cap + Cardinality(Clients)
    BY <2>2, EvolutionAssumption
  <2>4. \A c \in cron : pc[c] # "idle"
    BY DEF Init
  <2>5. \A c \in Clients : pc[c] # "count"
    BY DEF Init
  <2> QED
    BY <2>1, <2>3, <2>4, <2>5 DEF Init, CapInv
<1> QED
  BY <1>1, <1>2, <1>3 DEF EvoInv

\* A client moves on without touching the rows or the counter.
LEMMA QuietStep ==
    ASSUME EvoInv, ClientsOK', UNCHANGED <<rows, counter, ghosts>>, CapInv'
    PROVE  EvoInv'
<1>1. RowsOK' /\ OneActive'
  BY DEF EvoInv, TypeOK, RowsOK, OneActive, rows, counter, ghosts
<1> QED
  BY <1>1, TypeSplitNext DEF EvoInv

LEMMA StageStep ==
    ASSUME EvoInv, NEW v \in Versions, Stage(v) PROVE EvoInv'
<1>1. /\ status[v] = "none" /\ status' = [status EXCEPT ![v] = "staged"]
      /\ UNCHANGED <<accuracy, count, dayOver, automatic, lost, pc, cron, at, todo, copy,
                     baseline, verdict, diff, revived, excused>>
  BY DEF Stage, counter, clients, ghosts
<1>2. TypeOK'
  BY <1>1 DEF EvoInv, TypeOK, Statuses
<1>3. OneActive'
  BY <1>1 DEF EvoInv, TypeOK, OneActive
<1>4. CapInv'
  BY <1>1 DEF EvoInv, CapInv, InFlight, Counting
<1> QED
  BY <1>2, <1>3, <1>4 DEF EvoInv

LEMMA AskStep ==
    ASSUME EvoInv, NEW c \in Clients, NEW v \in Versions,
           Ask(c, "activate", v) \/ Ask(c, "rollback", v) \/ AskClosure(c, v)
    PROVE  EvoInv'
<1>1. PICK label \in {"activate", "rollback", "load"} :
        /\ pc[c] = "idle" /\ pc' = [pc EXCEPT ![c] = label]
        /\ \/ at' = [at EXCEPT ![c] = v] /\ todo' = todo
           \/ label = "load" /\ todo' = [todo EXCEPT ![c] = {v}] /\ at' = at
        /\ UNCHANGED <<rows, counter, cron, copy, baseline, verdict, diff, ghosts>>
  BY DEF Ask, AskClosure, Goto
<1>2. v \in 0..MaxVersions /\ v # 0
  BY EvolutionAssumption DEF Versions
<1>a. at' \in [Clients -> 0..MaxVersions] /\ todo' \in [Clients -> SUBSET Versions]
  <2>1. at \in [Clients -> 0..MaxVersions] /\ todo \in [Clients -> SUBSET Versions]
    BY DEF EvoInv, TypeOK
  <2>2. [at EXCEPT ![c] = v] \in [Clients -> 0..MaxVersions]
    BY <1>2, <2>1
  <2>3. [todo EXCEPT ![c] = {v}] \in [Clients -> SUBSET Versions]
    BY <2>1
  <2> QED
    BY <1>1, <2>1, <2>2, <2>3
<1>b. \A d \in Clients : pc'[d] \notin {"idle", "load"} => at'[d] # 0
  BY <1>1, <1>2 DEF EvoInv, TypeOK
<1>c. pc' \in [Clients -> Labels]
  BY <1>1 DEF EvoInv, TypeOK, Labels
<1>3. ClientsOK'
  BY <1>1, <1>a, <1>b, <1>c DEF EvoInv, TypeOK, ClientsOK
<1>4. /\ Alone(c) /\ c \notin cron' /\ pc[c] # "count" /\ pc'[c] # "count"
  BY <1>1 DEF EvoInv, TypeOK, CapInv, Alone
<1>5. CapInv'
  BY <1>1, <1>3, <1>4, CapKeptWhen DEF EvoInv, counter
<1> QED
  BY <1>1, <1>3, <1>5, QuietStep

LEMMA RoundStep ==
    ASSUME EvoInv, NEW c \in Clients, StartRound(c) \/ EndRound(c) PROVE EvoInv'
<1>1. CASE StartRound(c)
  <2>1. /\ pc[c] = "idle" /\ dayOver' = FALSE
        /\ \/ count' = 0 /\ automatic' = 0 /\ lost' = 0
           \/ count' = count /\ automatic' = automatic /\ lost' = lost
        /\ todo' = [todo EXCEPT ![c] = Taken]
        /\ \/ pc' = pc /\ cron' = cron
           \/ pc' = [pc EXCEPT ![c] = "load"] /\ cron' = cron \cup {c}
        /\ UNCHANGED <<rows, at, copy, baseline, verdict, diff, ghosts>>
    BY <1>1 DEF StartRound, Goto
  <2>2. Taken \subseteq Versions
    BY DEF Taken, Staged
  <2>c. pc' \in [Clients -> Labels] /\ cron' \subseteq Clients /\ todo' \in [Clients -> SUBSET Versions]
    BY <2>1, <2>2 DEF EvoInv, TypeOK, Labels
  <2>d. \A d \in Clients : pc'[d] \notin {"idle", "load"} => at'[d] # 0
    BY <2>1 DEF EvoInv, TypeOK
  <2>3. ClientsOK'
    BY <2>1, <2>c, <2>d DEF EvoInv, TypeOK, ClientsOK
  <2>a. status' = status /\ accuracy' = accuracy /\ revived' = revived /\ excused' = excused
    BY <2>1 DEF rows, ghosts
  <2>b. /\ count' \in Nat /\ automatic' \in Nat /\ lost' \in 0..MaxLost
        /\ dayOver' \in BOOLEAN
    <3>1. /\ count \in Nat /\ automatic \in Nat /\ lost \in 0..MaxLost
          /\ 0 \in Nat /\ 0 \in 0..MaxLost
      BY EvolutionAssumption DEF EvoInv, TypeOK
    <3> QED
      BY <2>1, <3>1
  <2>4. RowsOK' /\ OneActive'
    BY <2>a, <2>b DEF EvoInv, TypeOK, RowsOK, OneActive
  <2>5. InFlight' \subseteq InFlight /\ \A d \in cron' : pc'[d] # "idle"
    BY <2>1 DEF EvoInv, TypeOK, CapInv, InFlight
  <2>6. IsFiniteSet(InFlight) /\ Cardinality(InFlight) \in Nat /\ Cardinality(Clients) \in Nat
    BY InFlightFinite, TypeSplit DEF EvoInv
  <2>7. Cardinality(InFlight') <= Cardinality(InFlight) /\ Cardinality(InFlight') \in Nat
    BY <2>5, <2>6, FS_Subset, FS_CardinalityType
  <2>8. count' <= count /\ count' \in Nat /\ count \in Nat
    BY <2>1 DEF EvoInv, TypeOK
  <2>9. count + Cardinality(InFlight) < Cap + Cardinality(Clients)
    BY DEF EvoInv, CapInv
  <2>10. count' + Cardinality(InFlight') < Cap + Cardinality(Clients)
    BY <2>6, <2>7, <2>8, <2>9, EvolutionAssumption
  <2>11. Alone(c) /\ pc'[c] # "count"
    BY <2>1 DEF EvoInv, TypeOK, Alone
  <2>12. Counting' = Counting /\ \A d \in Clients : pc'[d] = "count" => d \in cron'
    BY <2>1, <2>3, <2>11, CountingSame, TypeSplit DEF EvoInv
  <2>13. automatic' <= count' + lost' + Cardinality(Counting')
    <3>1. Cardinality(Counting) \in Nat /\ automatic <= count + lost + Cardinality(Counting)
      BY CountingFinite, TypeSplit DEF EvoInv, CapInv
    <3> QED
      BY <2>1, <2>12, <3>1
  <2> QED
    BY <2>3, <2>4, <2>5, <2>10, <2>12, <2>13, TypeSplitNext DEF EvoInv, CapInv
<1>2. CASE EndRound(c)
  <2>1. /\ pc' = [pc EXCEPT ![c] = "idle"] /\ cron' = cron \ {c}
        /\ todo' = [todo EXCEPT ![c] = {}]
        /\ UNCHANGED <<rows, counter, at, copy, baseline, verdict, diff, ghosts>>
    BY <1>2 DEF EndRound, Goto
  <2>2. ClientsOK'
    BY <2>1 DEF EvoInv, TypeOK, ClientsOK, Labels
  <2>3. Alone(c) /\ c \notin cron' /\ pc[c] # "count" /\ pc'[c] # "count"
    BY <1>2, <2>1 DEF EvoInv, TypeOK, Alone, EndRound
  <2>4. CapInv'
    BY <2>1, <2>2, <2>3, CapKeptWhen DEF EvoInv, counter
  <2> QED
    BY <2>1, <2>2, <2>4, QuietStep
<1> QED
  BY <1>1, <1>2

\* A round that passes the counter starts a closure.
LEMMA LoadStep == ASSUME EvoInv, NEW c \in Clients, Load(c) PROVE EvoInv'
<1>1. PICK v \in todo[c] :
        /\ pc[c] = "load" /\ ~CapReached(c)
        /\ at' = [at EXCEPT ![c] = v] /\ todo' = [todo EXCEPT ![c] = @ \ {v}]
        /\ \/ /\ copy' = [copy EXCEPT ![c].status = status[v]]
              /\ pc' = [pc EXCEPT ![c] = "baseline"] /\ verdict' = verdict
           \/ /\ verdict' = [verdict EXCEPT ![c] = "staged_further"]
              /\ pc' = [pc EXCEPT ![c] = "reread"] /\ copy' = copy
        /\ UNCHANGED <<rows, counter, cron, baseline, diff, ghosts>>
  BY DEF Load, Goto
<1>2. v \in Versions /\ v \in 0..MaxVersions /\ v # 0 /\ status[v] \in Statuses
  BY EvolutionAssumption DEF EvoInv, TypeOK, Versions
<1>3. copy' \in [Clients -> [status : Statuses, accuracy : Measured]]
  BY <1>1, <1>2 DEF EvoInv, TypeOK
<1>4. ClientsOK'
  BY <1>1, <1>2, <1>3 DEF EvoInv, TypeOK, ClientsOK, Labels, Verdicts
<1>a. Alone(c) /\ pc[c] # "count" /\ pc'[c] # "count"
  BY <1>1 DEF EvoInv, TypeOK, Alone
<1>5. CASE c \in cron
  <2>1. count < Cap /\ count \in Nat
    BY <1>1, <1>5, EvolutionAssumption DEF CapReached, EvoInv, TypeOK
  <2>2. /\ Cardinality(InFlight') <= Cardinality(Clients) /\ Cardinality(Clients) \in Nat
        /\ Cardinality(InFlight') \in Nat
    BY <1>4, InFlightFiniteNext, FS_CardinalityType, EvolutionAssumption
  <2>3. count + Cardinality(InFlight') < Cap + Cardinality(Clients)
    BY <2>1, <2>2, EvolutionAssumption
  <2>4. Counting' = Counting /\ \A d \in Clients : pc'[d] = "count" => d \in cron'
    BY <1>4, <1>a, CountingSame, TypeSplit DEF EvoInv
  <2>5. \A d \in cron' : pc'[d] # "idle"
    BY <1>1 DEF EvoInv, TypeOK, CapInv
  <2>6. CapInv'
    BY <1>1, <2>3, <2>4, <2>5 DEF EvoInv, CapInv, counter
  <2> QED
    BY <1>1, <1>4, <2>6, QuietStep
<1>6. CASE c \notin cron
  <2>1. c \notin cron'
    BY <1>1, <1>6
  <2>2. CapInv'
    BY <1>1, <1>4, <1>a, <2>1, CapKeptWhen DEF EvoInv, counter
  <2> QED
    BY <1>1, <1>4, <2>2, QuietStep
<1> QED
  BY <1>5, <1>6

\* The evaluation and the decisions: nothing but the client changes.
LEMMA ClosureStep ==
    ASSUME EvoInv, NEW c \in Clients,
           ReadBaseline(c) \/ Evaluate(c) \/ Decide(c) \/ Discard(c) \/ Throw(c)
    PROVE  EvoInv'
<1>1. pc[c] \notin {"idle", "load", "count"} /\ UNCHANGED <<rows, counter, ghosts>> /\ ClientsOK
  BY TypeSplit DEF ReadBaseline, Evaluate, Decide, Discard, Throw, EvoInv
<1>2. at[c] \in Versions /\ at[c] # 0
  BY <1>1, AtVersion DEF EvoInv, TypeOK
<1> DEFINE Moves == /\ ClientsOK'
                    /\ cron' \subseteq cron
                    /\ Alone(c) /\ pc'[c] # "count"
                    /\ c \in cron' => pc'[c] # "idle"
<1>3. ASSUME Finish(c) PROVE Moves
  BY <1>1, <1>3, FinishFacts DEF Alone
<1>4. ASSUME ReadBaseline(c) PROVE Moves
  <2>1. /\ pc' = [pc EXCEPT ![c] = "evaluate"]
        /\ UNCHANGED <<cron, at, todo, copy, verdict, diff>>
    BY <1>4 DEF ReadBaseline, Goto
  <2>2. baseline' \in [Clients -> Measured]
    BY <1>4 DEF ReadBaseline, Active, EvoInv, TypeOK, Measured
  <2> QED
    BY <1>1, <1>2, <2>1, <2>2 DEF ClientsOK, Labels, Alone
<1>5. ASSUME Evaluate(c) PROVE Moves
  <2>1. PICK a \in Accuracies :
          /\ copy' = [copy EXCEPT ![c] = [copy[c] EXCEPT !.accuracy = a]]
          /\ verdict' = [verdict EXCEPT ![c] = Verdict(a, baseline[c])]
          /\ diff' = [diff EXCEPT ![c] = Differing(at[c], [copy[c] EXCEPT !.accuracy = a])]
    BY <1>5 DEF Evaluate
  <2>2. /\ pc' = [pc EXCEPT ![c] = "save"] /\ baseline' = [baseline EXCEPT ![c] = None]
        /\ UNCHANGED <<cron, at, todo>>
    BY <1>5 DEF Evaluate, Goto
  <2>3. copy' \in [Clients -> [status : Statuses, accuracy : Measured]]
    BY <2>1, <1>1 DEF ClientsOK, Measured
  <2>4. Verdict(a, baseline[c]) \in Verdicts /\ None \in Measured
    BY DEF Verdict, Verdicts, Measured
  <2>5. Differing(at[c], [copy[c] EXCEPT !.accuracy = a]) \subseteq Columns
    BY DEF Differing
  <2> QED
    BY <1>1, <1>2, <2>1, <2>2, <2>3, <2>4, <2>5 DEF ClientsOK, Labels, Alone
<1>6. ASSUME Decide(c) PROVE Moves
  <2>1. CASE Finish(c)
    BY <2>1, <1>3
  <2>2. CASE ~Finish(c)
    <3>1. PICK label \in {"activate", "discard", "rollback"} :
            /\ pc' = [pc EXCEPT ![c] = label]
            /\ verdict' = [verdict EXCEPT ![c] = "none"]
            /\ copy' = copy \/ copy' = [copy EXCEPT ![c] = Row(at[c])]
            /\ UNCHANGED <<cron, at, todo, baseline, diff>>
      BY <1>6, <2>2 DEF Decide, Goto
    <3>2. copy' \in [Clients -> [status : Statuses, accuracy : Measured]]
      BY <1>1, <1>2, <3>1, RowType DEF ClientsOK, EvoInv
    <3> QED
      BY <1>1, <1>2, <3>1, <3>2 DEF ClientsOK, Labels, Verdicts, Alone
  <2> QED
    BY <2>1, <2>2
<1>7. ASSUME Discard(c) PROVE Moves
  <2>1. /\ copy' = [copy EXCEPT ![c] = [copy[c] EXCEPT !.status = "rolled_back"]]
        /\ diff' = [diff EXCEPT ![c] =
                      Differing(at[c], [copy[c] EXCEPT !.status = "rolled_back"])]
        /\ pc' = [pc EXCEPT ![c] = "saveDiscard"]
        /\ UNCHANGED <<cron, at, todo, baseline, verdict>>
    BY <1>7 DEF Discard, Goto
  <2>2. copy' \in [Clients -> [status : Statuses, accuracy : Measured]]
    BY <2>1, <1>1 DEF ClientsOK, Statuses
  <2>3. Differing(at[c], [copy[c] EXCEPT !.status = "rolled_back"]) \subseteq Columns
    BY DEF Differing
  <2> QED
    BY <1>1, <1>2, <2>1, <2>2, <2>3 DEF ClientsOK, Labels, Alone
<1>8. Moves
  BY <1>3, <1>4, <1>5, <1>6, <1>7 DEF Throw
<1>9. CapInv'
  BY <1>1, <1>8, CapKeptWhen DEF EvoInv, counter
<1> QED
  BY <1>1, <1>8, <1>9, QuietStep

\* The two saves of an entity.
LEMMA SaveStep ==
    ASSUME EvoInv, NEW c \in Clients, Save(c) \/ SaveDiscard(c) PROVE EvoInv'
<1>1. /\ pc[c] \notin {"idle", "load", "count"} /\ Write(c) /\ ClientsOK
      /\ count' = count /\ dayOver' = dayOver /\ automatic' = automatic /\ lost' = lost
  BY TypeSplit DEF Save, SaveDiscard, EvoInv, counter
<1>2. at[c] \in Versions /\ at[c] # 0
  BY <1>1, AtVersion DEF EvoInv, TypeOK
<1>3. RowsOK' /\ OneActive'
  BY <1>1, <1>2, WriteFacts DEF EvoInv, TypeOK, RowsOK
<1>4. /\ ClientsOK' /\ cron' \subseteq cron
      /\ Alone(c) /\ pc'[c] # "count"
      /\ c \in cron' => pc'[c] # "idle"
  <2>1. CASE Save(c)
    <3>1. /\ copy' = [copy EXCEPT ![c] = Blank] /\ diff' = [diff EXCEPT ![c] = {}]
          /\ pc' = [pc EXCEPT ![c] = "reread"]
          /\ UNCHANGED <<cron, at, todo, baseline, verdict>>
      BY <2>1 DEF Save, Goto
    <3> QED
      BY <1>1, <1>2, <3>1, BlankType DEF ClientsOK, Labels, Alone
  <2>2. CASE SaveDiscard(c)
    <3>1. Finish(c)
      BY <2>2 DEF SaveDiscard
    <3> QED
      BY <1>1, <3>1, FinishFacts DEF Alone
  <2> QED
    BY <2>1, <2>2
<1>5. CapInv'
  BY <1>1, <1>4, CapKeptWhen DEF EvoInv
<1> QED
  BY <1>3, <1>4, <1>5, TypeSplitNext DEF EvoInv

\* The transaction retires the other versions, or changes nothing.
LEMMA TransactionFacts ==
    ASSUME EvoInv, NEW c \in Clients, Transaction(c)
    PROVE  /\ status' \in [Versions -> Statuses] /\ accuracy' \in [Versions -> Measured]
           /\ revived' \subseteq Versions /\ excused' \in BOOLEAN
           /\ OneActive'
<1> DEFINE v == at[c]
<1>1. pc[c] = "activate" /\ accuracy' = accuracy
  BY DEF Transaction
<1>2. v \in Versions
  BY <1>1, AtVersion DEF EvoInv
<1>3. CASE status[v] = "staged"
  <2>1. /\ status' = [w \in Versions |-> IF w = v THEN "active"
                        ELSE IF status[w] = "active" THEN "rolled_back" ELSE status[w]]
        /\ revived' = {} /\ excused' = FALSE
    BY <1>3 DEF Transaction, Done, RowsAfter, Promoted
  <2>2. /\ status' \in [Versions -> Statuses] /\ status'[v] = "active"
        /\ \A w \in Versions \ {v} : status'[w] # "active"
    BY <1>2, <2>1 DEF EvoInv, TypeOK, Statuses
  <2> QED
    BY <1>1, <1>2, <2>1, <2>2 DEF EvoInv, TypeOK, OneActive
<1>4. CASE status[v] # "staged"
  <2>1. status' = status /\ revived' = revived /\ (excused' <=> excused) /\ excused' \in BOOLEAN
    BY <1>4 DEF Transaction, Done, RowsAfter, EvoInv, TypeOK
  <2> QED
    BY <1>1, <2>1 DEF EvoInv, TypeOK, OneActive
<1> QED
  BY <1>3, <1>4

\* A round that has activated a version has still to count it; a conflict and
\* a request end there.
LEMMA ActivateStep == ASSUME EvoInv, NEW c \in Clients, Activate(c) PROVE EvoInv'
<1>1. /\ pc[c] = "activate" /\ Transaction(c) /\ ClientsOK
      /\ count' = count /\ dayOver' = dayOver /\ lost' = lost
  BY TypeSplit DEF Activate, Transaction, EvoInv
<1>2. /\ status' \in [Versions -> Statuses] /\ accuracy' \in [Versions -> Measured]
      /\ revived' \subseteq Versions /\ excused' \in BOOLEAN /\ OneActive'
  BY <1>1, TransactionFacts
<1>3. CASE Done(c) /\ c \in cron
  <2>1. /\ automatic' = automatic + 1 /\ pc' = [pc EXCEPT ![c] = "count"]
        /\ UNCHANGED <<cron, at, todo, copy, baseline, verdict, diff>>
    BY <1>3 DEF Activate, Goto
  <2>2. at[c] # 0
    BY <1>1 DEF ClientsOK
  <2>3. ClientsOK' /\ pc'[c] = "count" /\ \A d \in Clients \ {c} : pc'[d] = pc[d]
    BY <1>1, <2>1, <2>2 DEF ClientsOK, Labels
  <2>4. RowsOK'
    BY <1>1, <1>2, <2>1 DEF RowsOK, EvoInv, TypeOK
  <2>5. InFlight' = InFlight
    BY <1>1, <2>1, <2>3 DEF InFlight, ClientsOK
  <2>6. Counting' = Counting \cup {c} /\ c \notin Counting
    BY <1>1, <1>3, <2>1, <2>3 DEF Counting, ClientsOK
  <2>7. Cardinality(Counting') = Cardinality(Counting) + 1 /\ Cardinality(Counting) \in Nat
    BY <1>1, <2>6, CountingFinite, FS_AddElement
  <2>8. automatic' <= count' + lost' + Cardinality(Counting')
    <3>1. /\ automatic <= count + lost + Cardinality(Counting)
          /\ automatic \in Nat /\ count \in Nat /\ lost \in 0..MaxLost
      BY DEF EvoInv, CapInv, TypeOK
    <3> QED
      BY <1>1, <2>1, <2>7, <3>1, EvolutionAssumption
  <2>9. /\ \A d \in cron' : pc'[d] # "idle"
        /\ \A d \in Clients : pc'[d] = "count" => d \in cron'
    BY <1>3, <2>1, <2>3 DEF EvoInv, CapInv, TypeOK
  <2>10. CapInv'
    BY <1>1, <2>5, <2>8, <2>9 DEF EvoInv, CapInv
  <2> QED
    BY <1>2, <2>3, <2>4, <2>10, TypeSplitNext DEF EvoInv
<1>4. CASE ~(Done(c) /\ c \in cron)
  <2>1. Finish(c) /\ automatic' = automatic
    BY <1>4 DEF Activate
  <2>2. /\ ClientsOK' /\ Alone(c) /\ cron' \subseteq cron /\ pc'[c] # "count"
        /\ c \in cron' => pc'[c] # "idle"
    BY <1>1, <2>1, FinishFacts DEF Alone
  <2>3. CapInv'
    BY <1>1, <2>1, <2>2, CapKeptWhen DEF EvoInv
  <2>4. RowsOK'
    BY <1>1, <1>2, <2>1 DEF RowsOK, EvoInv, TypeOK
  <2> QED
    BY <1>2, <2>2, <2>3, <2>4, TypeSplitNext DEF EvoInv
<1> QED
  BY <1>3, <1>4

\* An activation whose answer is lost is one of those that nobody counts.
LEMMA UnansweredStep ==
    ASSUME EvoInv, NEW c \in Clients, ActivateUnanswered(c) PROVE EvoInv'
<1>1. /\ pc[c] = "activate" /\ Transaction(c) /\ Finish(c) /\ ClientsOK
      /\ count' = count /\ dayOver' = dayOver /\ lost' = lost + 1 /\ lost < MaxLost
      /\ automatic' = automatic + 1
  BY TypeSplit DEF ActivateUnanswered, Transaction, EvoInv
<1>2. /\ status' \in [Versions -> Statuses] /\ accuracy' \in [Versions -> Measured]
      /\ revived' \subseteq Versions /\ excused' \in BOOLEAN /\ OneActive'
  BY <1>1, TransactionFacts
<1>3. /\ ClientsOK' /\ Alone(c) /\ cron' \subseteq cron /\ pc'[c] # "count"
      /\ c \in cron' => pc'[c] # "idle"
  BY <1>1, FinishFacts DEF Alone
<1>4. Counting' = Counting /\ \A d \in Clients : pc'[d] = "count" => d \in cron'
  BY <1>1, <1>3, CountingSame DEF EvoInv
<1>5. /\ automatic <= count + lost + Cardinality(Counting) /\ Cardinality(Counting) \in Nat
      /\ automatic \in Nat /\ count \in Nat /\ lost \in 0..MaxLost
  BY <1>1, CountingFinite DEF EvoInv, CapInv, TypeOK
<1>6. /\ automatic' <= count' + lost' + Cardinality(Counting')
      /\ automatic' \in Nat /\ lost' \in 0..MaxLost
  BY <1>1, <1>4, <1>5, EvolutionAssumption
<1>7. InFlight' \subseteq InFlight /\ \A d \in cron' : pc'[d] # "idle"
  BY <1>1, <1>3 DEF InFlight, Alone, ClientsOK, EvoInv, CapInv
<1>8. count' + Cardinality(InFlight') < Cap + Cardinality(Clients)
  <2>1. IsFiniteSet(InFlight) /\ Cardinality(InFlight) \in Nat /\ Cardinality(Clients) \in Nat
    BY <1>1, InFlightFinite
  <2>2. Cardinality(InFlight') <= Cardinality(InFlight) /\ Cardinality(InFlight') \in Nat
    BY <1>7, <2>1, FS_Subset, FS_CardinalityType
  <2> QED
    BY <1>1, <1>5, <2>1, <2>2, EvolutionAssumption DEF EvoInv, CapInv
<1>9. RowsOK'
  BY <1>1, <1>2, <1>6 DEF RowsOK, EvoInv, TypeOK
<1> QED
  BY <1>2, <1>3, <1>4, <1>6, <1>7, <1>8, <1>9, TypeSplitNext DEF EvoInv, CapInv

\* One activation more is counted, and one closure less is under way.
LEMMA CountStep ==
    ASSUME EvoInv, NEW c \in Clients, CountActivation(c) PROVE EvoInv'
<1>1. /\ pc[c] = "count" /\ Finish(c) /\ ClientsOK /\ count' = count + 1
      /\ UNCHANGED <<rows, dayOver, automatic, lost, ghosts>>
  BY TypeSplit DEF CountActivation, EvoInv
<1>2. /\ ClientsOK' /\ Alone(c) /\ cron' \subseteq cron /\ pc'[c] \in {"idle", "load"}
      /\ pc'[c] = "idle" => c \notin cron'
  BY <1>1, FinishFacts DEF Alone
<1>3. c \in cron
  BY <1>1 DEF EvoInv, CapInv
<1>4. Counting' = Counting \ {c} /\ c \in Counting
  BY <1>1, <1>2, <1>3 DEF Counting, Alone, ClientsOK
<1>5. Cardinality(Counting') = Cardinality(Counting) - 1 /\ Cardinality(Counting) \in Nat
  BY <1>1, <1>4, CountingFinite, FS_RemoveElement
<1>6. c \in InFlight /\ InFlight' \subseteq InFlight \ {c}
  BY <1>1, <1>2, <1>3 DEF InFlight, Alone, ClientsOK
<1>7. /\ Cardinality(InFlight') + 1 <= Cardinality(InFlight)
      /\ Cardinality(InFlight) \in Nat /\ Cardinality(InFlight') \in Nat
      /\ Cardinality(Clients) \in Nat
  BY <1>1, <1>2, <1>6, LessInFlight, InFlightFinite, InFlightFiniteNext
<1>8. /\ automatic <= count + lost + Cardinality(Counting)
      /\ count + Cardinality(InFlight) < Cap + Cardinality(Clients)
      /\ automatic \in Nat /\ count \in Nat /\ lost \in 0..MaxLost
  BY DEF EvoInv, CapInv, TypeOK
<1>9. automatic' <= count' + lost' + Cardinality(Counting')
  BY <1>1, <1>5, <1>8, EvolutionAssumption
<1>10. count' + Cardinality(InFlight') < Cap + Cardinality(Clients)
  BY <1>1, <1>7, <1>8, EvolutionAssumption
<1>11. /\ \A d \in cron' : pc'[d] # "idle"
       /\ \A d \in Clients : pc'[d] = "count" => d \in cron'
  BY <1>2 DEF Alone, ClientsOK, EvoInv, CapInv
<1>12. RowsOK' /\ OneActive'
  BY <1>1, <1>8 DEF RowsOK, EvoInv, TypeOK, OneActive, rows, ghosts
<1> QED
  BY <1>2, <1>9, <1>10, <1>11, <1>12, TypeSplitNext DEF EvoInv, CapInv

LEMMA RollbackStep == ASSUME EvoInv, NEW c \in Clients, Rollback(c) PROVE EvoInv'
<1> DEFINE v == at[c]
<1>1. /\ pc[c] = "rollback" /\ Finish(c) /\ ClientsOK
      /\ UNCHANGED <<accuracy, count, dayOver, automatic, lost>>
      /\ status' = [status EXCEPT ![v] = RolledBack(v)]
      /\ excused' = (excused \/ status[v] = "active") /\ revived' = revived \ {v}
  BY TypeSplit DEF Rollback, EvoInv, counter
<1>2. v \in Versions
  BY <1>1, AtVersion DEF EvoInv
<1>3. /\ status' \in [Versions -> Statuses] /\ status'[v] # "active"
      /\ \A w \in Versions \ {v} : status'[w] = status[w] /\ (w \in revived' <=> w \in revived)
      /\ revived' \subseteq Versions
  BY <1>1, <1>2 DEF EvoInv, TypeOK, RolledBack, Statuses
<1>4. excused' \in BOOLEAN /\ (~excused' => ~excused /\ status[v] # "active")
  BY <1>1 DEF EvoInv, TypeOK
<1>5. RowsOK'
  BY <1>1, <1>3, <1>4 DEF RowsOK, EvoInv, TypeOK
<1>6. OneActive'
  <2>1. \A u, w \in Versions \ revived' : status'[u] = "active" /\ status'[w] = "active" => u = w
    BY <1>3 DEF EvoInv, OneActive
  <2>2. ~excused' => \E w \in Versions : status'[w] = "active"
    BY <1>3, <1>4 DEF EvoInv, OneActive
  <2> QED
    BY <2>1, <2>2 DEF OneActive
<1>7. /\ ClientsOK' /\ Alone(c) /\ cron' \subseteq cron /\ pc'[c] # "count"
      /\ c \in cron' => pc'[c] # "idle"
  BY <1>1, FinishFacts DEF Alone
<1>8. CapInv'
  BY <1>1, <1>7, CapKeptWhen DEF EvoInv
<1> QED
  BY <1>5, <1>6, <1>7, <1>8, TypeSplitNext DEF EvoInv

LEMMA IdleStep == ASSUME EvoInv, Midnight \/ UNCHANGED vars PROVE EvoInv'
<1>1. /\ UNCHANGED <<status, accuracy, count, automatic, lost, pc, cron, at, todo, copy, baseline,
                     verdict, diff, revived, excused>>
      /\ dayOver' \in BOOLEAN
  BY DEF Midnight, vars, rows, counter, clients, ghosts, EvoInv, TypeOK
<1>2. TypeOK'
  BY <1>1 DEF EvoInv, TypeOK
<1>3. OneActive' /\ CapInv'
  BY <1>1 DEF EvoInv, OneActive, CapInv, InFlight, Counting
<1> QED
  BY <1>2, <1>3 DEF EvoInv

LEMMA Steps == EvoInv /\ [Next]_vars => EvoInv'
  BY StageStep, AskStep, RoundStep, LoadStep, ClosureStep, SaveStep, ActivateStep,
     UnansweredStep, CountStep, RollbackStep, IdleStep DEF Next, Advance

-----------------------------------------------------------------------------
(* Theorems                                                                *)

\* Every reachable state has its type.
THEOREM Typing == Spec => []TypeOK
<1>1. EvoInv => TypeOK
  BY DEF EvoInv
<1> QED
  BY Starts, Steps, <1>1, PTL DEF Spec

\* The artifact has one active version, but for what stale saves and rollbacks
\* did to it.
THEOREM SingleActive == Spec => []OneActive
<1>1. EvoInv => OneActive
  BY DEF EvoInv
<1> QED
  BY Starts, Steps, <1>1, PTL DEF Spec

\* The daily limit is passed by less than the number of rounds that overlap and
\* the activations whose answer was lost.
THEOREM DailyLimit == Spec => []CapKept
<1>1. ASSUME EvoInv PROVE CapKept
  <2>1. /\ count + Cardinality(InFlight) < Cap + Cardinality(Clients)
        /\ automatic <= count + lost + Cardinality(Counting)
        /\ automatic \in Nat /\ count \in Nat /\ lost \in 0..MaxLost
    BY <1>1 DEF EvoInv, CapInv, TypeOK
  <2>2. Cardinality(InFlight) \in Nat /\ Cardinality(Clients) \in Nat
    BY <1>1, InFlightFinite, TypeSplit DEF EvoInv
  <2>3. Cardinality(Counting) \in Nat /\ Cardinality(Counting) <= Cardinality(InFlight)
    BY <1>1, CountingFinite, TypeSplit DEF EvoInv
  <2> QED
    BY <2>1, <2>2, <2>3, EvolutionAssumption DEF CapKept
<1>2. EvoInv => CapKept
  BY <1>1
<1> QED
  BY Starts, Steps, <1>2, PTL DEF Spec
=============================================================================
