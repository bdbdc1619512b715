------------------------- MODULE SessionMemoryProofs -------------------------
(***************************************************************************)
(* Theorems about SessionMemory, for any number of saves and processes,    *)
(* any length of the history and any number of retries and faults.         *)
(***************************************************************************)
EXTENDS SessionMemory, TLAPS

-----------------------------------------------------------------------------
(* Sequences of rounds                                                     *)

Injective(h) == \A i, j \in DOMAIN h : h[i] = h[j] => i = j

\* Cutting a sequence of saves off keeps the order, and keeps its last element.
LEMMA TruncatedFacts ==
    ASSUME NEW h \in Seq(Saves), NEW s \in Saves, Len(h) <= MaxRounds
    PROVE  LET g == Append(h, s)
               t == Truncated(g)
           IN  /\ t \in Seq(Saves) /\ Len(t) <= MaxRounds
               /\ s \in Rounds(t)
               /\ Rounds(t) \subseteq Rounds(h) \cup {s}
               /\ Injective(h) /\ s \notin Rounds(h) => Injective(t)
<1> DEFINE g == Append(h, s)
           t == Truncated(g)
<1>1. /\ g \in Seq(Saves) /\ Len(g) = Len(h) + 1 /\ Len(h) \in Nat
      /\ \A i \in 1..Len(h) : g[i] = h[i]
      /\ g[Len(h) + 1] = s
      /\ DOMAIN g = 1..(Len(h) + 1) /\ DOMAIN h = 1..Len(h)
  OBVIOUS
<1>2. CASE Len(g) > MaxRounds
  <2>1. t = SubSeq(g, 2, Len(g))
    BY <1>2 DEF Truncated
  <2>2. /\ t \in Seq(Saves) /\ Len(t) = Len(h) /\ DOMAIN t = 1..Len(h)
        /\ \A i \in 1..Len(h) : t[i] = g[i + 1]
    BY <1>1, <2>1
  <2> HIDE DEF g, t
  <2>a. Len(g) = Len(h) + 1 /\ Len(h) \in Nat
    BY <1>1
  <2>b. MaxRounds \in Nat /\ MaxRounds >= 1
    BY SessionMemoryAssumption
  <2>3. Len(h) = MaxRounds /\ MaxRounds >= 1
    BY <1>2, <2>a, <2>b
  <2>4. t[Len(h)] = s /\ Len(h) \in DOMAIN t
    BY <1>1, <2>2, <2>3
  <2>5. \A i \in DOMAIN t : t[i] = s \/ (i + 1 \in DOMAIN h /\ t[i] = h[i + 1])
    BY <1>1, <2>2
  <2>6. ASSUME Injective(h), s \notin Rounds(h) PROVE Injective(t)
    <3>1. \A i \in DOMAIN h : h[i] # s
      BY <2>6 DEF Rounds
    <3>2. \A i \in DOMAIN t : i = Len(h) \/ (i + 1 \in DOMAIN h /\ t[i] = h[i + 1])
      BY <1>1, <2>2
    <3>3. \A i, j \in 1..Len(h) : i + 1 = j + 1 => i = j
      BY <1>1
    <3> QED
      BY <2>2, <2>4, <2>6, <3>1, <3>2, <3>3 DEF Injective
  <2> QED
    BY <2>2, <2>3, <2>4, <2>5, <2>6 DEF Rounds, g, t
<1>3. CASE ~(Len(g) > MaxRounds)
  <2>1. t = g
    BY <1>3 DEF Truncated
  <2>2. Len(g) <= MaxRounds
    BY <1>1, <1>3, SessionMemoryAssumption
  <2> HIDE DEF g, t
  <2>3. \A i \in DOMAIN g : (i = Len(h) + 1 /\ g[i] = s) \/ (i \in DOMAIN h /\ g[i] = h[i])
    BY <1>1
  <2>4. Len(h) + 1 \in DOMAIN g
    BY <1>1
  <2>5. ASSUME Injective(h), s \notin Rounds(h) PROVE Injective(g)
    <3>1. \A i \in DOMAIN h : h[i] # s
      BY <2>5 DEF Rounds
    <3> QED
      BY <2>3, <2>5, <3>1 DEF Injective
  <2> QED
    BY <1>1, <2>1, <2>2, <2>3, <2>4, <2>5 DEF Rounds, g, t
<1> QED
  BY <1>2, <1>3

-----------------------------------------------------------------------------
(* Types                                                                   *)

\* The rounds of a history are saves.
LEMMA RoundsType == ASSUME NEW h \in Seq(Saves) PROVE Rounds(h) \subseteq Saves
<1>1. \A i \in DOMAIN h : h[i] \in Saves
  OBVIOUS
<1> QED
  BY <1>1 DEF Rounds

\* What EXEC of a save leaves behind when it is carried out.
LEMMA WriteFacts ==
    ASSUME TypeOK, NEW s \in Saves, Write(s), Len(read[s]) <= MaxRounds
    PROVE  /\ history' \in Seq(Saves) /\ Len(history') <= MaxRounds
           /\ s \in Rounds(history')
           /\ Rounds(history') \subseteq Rounds(read[s]) \cup {s}
           /\ Injective(read[s]) /\ s \notin Rounds(read[s]) => Injective(history')
<1>1. read[s] \in Seq(Saves) /\ history' = Truncated(Append(read[s], s))
  BY DEF TypeOK, Write
<1> QED
  BY <1>1, TruncatedFacts

\* What is read is as short as the history, and a save that may try again has
\* not used up its attempts.
Attempts ==
    \A s \in Saves :
        /\ Len(read[s]) <= MaxRounds
        /\ pc[s] \in {"idle", "watch", "get", "exec"} => tries[s] <= MaxRetries

\* Every step keeps the types.
LEMMA TypedStep == ASSUME TypeOK, Attempts, [Next]_vars PROVE TypeOK' /\ Attempts'
<1> USE SessionMemoryAssumption
<1>0. <<>> \in Seq(Saves) /\ Len(<<>>) = 0 /\ 0 <= MaxRounds
  OBVIOUS
<1>1. ASSUME NEW s \in Saves, Begin(s) \/ Watch(s) PROVE TypeOK' /\ Attempts'
  <2>1. CASE Begin(s)
    BY <2>1 DEF Begin, TypeOK, Attempts, Goto, ComesTo, redis, ghosts
  <2>2. CASE Watch(s)
    <3>1. /\ pc[s] = "watch" /\ pc' = [pc EXCEPT ![s] = "get"]
          /\ watching' = watching \cup {proc[s]} /\ disturbed' = disturbed \ {s}
          /\ UNCHANGED <<history, dirty, up, proc, outcome, tries, read, faults, lost, left>>
      BY <2>2 DEF Watch, Goto
    <3>2. Attempts'
      BY <3>1 DEF Attempts, TypeOK
    <3> QED
      BY <3>1, <3>2 DEF TypeOK
  <2> QED
    BY <1>1, <2>1, <2>2
<1>2. ASSUME NEW s \in Saves, Get(s) PROVE TypeOK' /\ Attempts'
  <2>1. /\ pc[s] = "get" /\ pc' = [pc EXCEPT ![s] = "exec"]
        /\ read' = [read EXCEPT ![s] = history]
        /\ UNCHANGED <<redis, up, proc, outcome, tries, faults, ghosts>>
    BY <1>2 DEF Get, Goto
  <2>2. Attempts'
    BY <2>1 DEF Attempts, TypeOK
  <2> QED
    BY <2>1, <2>2 DEF TypeOK, redis, ghosts
<1>3. ASSUME NEW s \in Saves, Exec(s) PROVE TypeOK' /\ Attempts'
  <2>1. history' \in Seq(Saves) /\ Len(history') <= MaxRounds
    BY <1>3, WriteFacts DEF Exec, TypeOK, Attempts
  <2>2. watching' \subseteq Procs /\ dirty' \subseteq watching' /\ disturbed' \subseteq Saves
    BY <1>3 DEF Exec, Drop, Write, TypeOK
  <2>3. read' = [read EXCEPT ![s] = <<>>] /\ pc' = [pc EXCEPT ![s] = "unwatch"]
        /\ UNCHANGED <<up, proc>> /\ pc[s] = "exec"
    BY <1>3 DEF Exec, Goto
  <2>4. /\ tries' = tries \/ tries' = [tries EXCEPT ![s] = @ + 1]
        /\ tries[s] \in 0..MaxRetries
    BY <1>3 DEF Exec, Attempts, TypeOK
  <2>5. tries' \in [Saves -> 0..(MaxRetries + 1)]
    <3>1. tries[s] + 1 \in 0..(MaxRetries + 1)
      BY <2>4
    <3> QED
      BY <2>4, <3>1 DEF TypeOK
  <2>6. outcome' \in [Saves -> {"none", "skipped", "saved", "conflict", "failed"}]
    BY <1>3 DEF Exec, ComesTo, TypeOK
  <2>7. faults' \in 0..MaxFaults
    BY <1>3 DEF Exec, Fault, NoFault, TypeOK
  <2>8. /\ lost' = lost \/ lost' = [lost EXCEPT ![s] = Rounds(history) \ Rounds(read[s])]
        /\ left' = left \/ left' \subseteq left \cup Rounds(read[s])
    BY <1>3 DEF Exec, Write
  <2>9. Rounds(history) \subseteq Saves /\ Rounds(read[s]) \subseteq Saves
    BY RoundsType DEF TypeOK
  <2>10. lost' \in [Saves -> SUBSET Saves] /\ left' \subseteq Saves
    <3>1. lost[s] \in SUBSET Saves /\ Rounds(history) \ Rounds(read[s]) \in SUBSET Saves
      BY <2>9 DEF TypeOK
    <3>2. lost' \in [Saves -> SUBSET Saves]
      BY <2>8, <3>1 DEF TypeOK
    <3> QED
      BY <2>8, <2>9, <3>2 DEF TypeOK
  <2>11. Attempts'
    BY <1>0, <2>3, <2>4 DEF Attempts, TypeOK
  <2>12. read' \in [Saves -> Seq(Saves)]
    BY <1>0, <2>3 DEF TypeOK
  <2> QED
    BY <2>1, <2>2, <2>3, <2>5, <2>6, <2>7, <2>10, <2>11, <2>12 DEF TypeOK
<1>4. ASSUME NEW s \in Saves, CommandFails(s) PROVE TypeOK' /\ Attempts'
  BY <1>0, <1>4 DEF CommandFails, TypeOK, Attempts, Goto, ComesTo, redis, ghosts, Fault, NoFault
<1>5. ASSUME NEW s \in Saves, Unwatch(s) PROVE TypeOK' /\ Attempts'
  BY <1>5 DEF Unwatch, Drop, TypeOK, Attempts, Goto, Fault, NoFault
<1>6. CASE Erase
  <2>1. Rounds(history) \subseteq Saves
    BY RoundsType DEF TypeOK
  <2> QED
    BY <1>0, <1>6, <2>1 DEF Erase, TypeOK, Attempts, saves, Fault
<1>7. ASSUME NEW p \in Procs, Disconnect(p) \/ Ready(p) PROVE TypeOK' /\ Attempts'
  <2>1. faults' \in 0..MaxFaults
    BY <1>7 DEF Disconnect, Ready, Fault, TypeOK
  <2>2. /\ up' \in [Procs -> BOOLEAN] /\ UNCHANGED <<history, saves, lost, left>>
        /\ watching' \subseteq Procs /\ dirty' \subseteq watching'
        /\ disturbed' \subseteq Saves
    BY <1>7 DEF Disconnect, Ready, Drop, TypeOK, redis, ghosts
  <2> QED
    BY <2>1, <2>2 DEF TypeOK, Attempts, saves
<1>8. ASSUME NEW p \in Procs, OtherConversation(p) PROVE TypeOK' /\ Attempts'
  BY <1>8 DEF OtherConversation, Drop, saves, TypeOK, Attempts
<1>9. CASE UNCHANGED vars
  BY <1>9 DEF vars, redis, saves, ghosts, TypeOK, Attempts
<1> QED
  BY <1>1, <1>2, <1>3, <1>4, <1>5, <1>6, <1>7, <1>8, <1>9 DEF Next

LEMMA TypedInit == Init => TypeOK /\ Attempts
  BY SessionMemoryAssumption DEF Init, TypeOK, Attempts

\* The type invariant holds for every value of the constants.
THEOREM Typing == Spec => []TypeOK
<1>1. TypeOK /\ Attempts /\ [Next]_vars => (TypeOK /\ Attempts)'
  BY TypedStep
<1> QED
  BY <1>1, TypedInit, PTL DEF Spec

-----------------------------------------------------------------------------
(* No round is lost behind a WATCH that is kept                            *)

\* A save that nobody disturbed still watches, and what it has read is what is
\* there unless its connection has been marked.
WatchHolds ==
    \A s \in Saves : s \notin disturbed =>
        /\ pc[s] \in {"get", "exec"} => proc[s] \in watching
        /\ pc[s] = "exec" => read[s] = history \/ proc[s] \in dirty

\* A save that has not written yet is in no history and has overwritten nothing.
Unwritten(s) == pc[s] \in {"idle", "watch", "get", "exec"} \/ outcome[s] = "conflict"
FreshRounds ==
    \A s \in Saves : Unwritten(s) =>
        /\ s \notin Rounds(history)
        /\ \A t \in Saves : s \notin Rounds(read[t])
        /\ lost[s] = {}
        /\ outcome[s] # "saved"

\* No history, stored or read, has a round twice.
NoneTwice == Injective(history) /\ \A s \in Saves : Injective(read[s])

Accounted ==
    /\ \A s \in Saves : outcome[s] = "saved" =>
         s \in Rounds(history) \cup left \cup UNION {lost[t] : t \in Saves}
    /\ \A s \in Saves : lost[s] # {} => s \in disturbed

MemoryInv == TypeOK /\ Attempts /\ WatchHolds /\ FreshRounds /\ NoneTwice /\ Accounted

\* EXEC that is carried out.
LEMMA WriteKeeps ==
    ASSUME MemoryInv, NEW s \in Saves, Exec(s), Unmarked(proc[s]), Write(s), outcome'[s] # "conflict"
    PROVE  WatchHolds' /\ FreshRounds' /\ NoneTwice' /\ Accounted'
<1> USE DEF MemoryInv
<1>1. /\ pc[s] = "exec" /\ pc' = [pc EXCEPT ![s] = "unwatch"]
      /\ read' = [read EXCEPT ![s] = <<>>] /\ proc' = proc
      /\ \E end \in {"saved", "failed", "conflict"} : outcome' = [outcome EXCEPT ![s] = end]
      /\ watching' = watching \ {proc[s]} /\ dirty' = watching \ {proc[s]}
      /\ disturbed' = disturbed \cup
             {t \in Saves \ {s} : proc[t] = proc[s] /\ pc[t] \in {"get", "exec"}}
      /\ lost' = [lost EXCEPT ![s] = Rounds(history) \ Rounds(read[s])]
      /\ left' = left \cup (Rounds(read[s]) \ Rounds(history'))
  BY DEF Exec, Drop, Write, Goto, ComesTo
<1>2. Len(read[s]) <= MaxRounds /\ Unwritten(s)
  BY <1>1 DEF Attempts, Unwritten
<1>3. /\ s \in Rounds(history') /\ Rounds(history') \subseteq Rounds(read[s]) \cup {s}
      /\ Injective(history')
  BY <1>2, WriteFacts DEF FreshRounds, NoneTwice
<1>4. Rounds(<<>>) = {} /\ Injective(<<>>)
  BY DEF Rounds, Injective
<1>5. lost[s] = {} /\ s \notin Rounds(read[s])
  BY <1>2 DEF FreshRounds
<1>6. WatchHolds'
  <2> SUFFICES ASSUME NEW t \in Saves, t \notin disturbed', pc'[t] \in {"get", "exec"}
               PROVE  proc'[t] \in watching' /\ proc'[t] \in dirty'
    BY DEF WatchHolds
  <2>1. t # s /\ pc[t] = pc'[t] /\ t \notin disturbed /\ proc[t] # proc[s]
    BY <1>1 DEF TypeOK
  <2> QED
    BY <1>1, <2>1 DEF WatchHolds
<1>7. FreshRounds'
  <2> SUFFICES ASSUME NEW t \in Saves, Unwritten(t)'
               PROVE  /\ t \notin Rounds(history') /\ lost'[t] = {} /\ outcome'[t] # "saved"
                      /\ \A u \in Saves : t \notin Rounds(read'[u])
    BY DEF FreshRounds
  <2>1. t # s
    BY <1>1 DEF Unwritten, TypeOK
  <2>2. Unwritten(t) /\ lost'[t] = lost[t] /\ outcome'[t] = outcome[t]
    BY <1>1, <2>1 DEF Unwritten, TypeOK
  <2>3. \A u \in Saves : read'[u] = read[u] \/ read'[u] = <<>>
    BY <1>1 DEF TypeOK
  <2> QED
    BY <1>3, <1>4, <2>1, <2>2, <2>3 DEF FreshRounds
<1>8. NoneTwice'
  BY <1>1, <1>3, <1>4 DEF NoneTwice, TypeOK
<1>9. ASSUME NEW t \in Saves, outcome'[t] = "saved"
      PROVE  t \in Rounds(history') \cup left' \cup UNION {lost'[u] : u \in Saves}
  <2>1. CASE t = s
    BY <1>3, <2>1
  <2>2. CASE t # s
    <3>1. t \in Rounds(history) \cup left \cup UNION {lost[u] : u \in Saves}
      BY <1>1, <1>9, <2>2 DEF Accounted, TypeOK
    <3>2. CASE t \in left
      BY <1>1, <3>2
    <3>3. CASE \E u \in Saves : t \in lost[u]
      <4>1. PICK u \in Saves : t \in lost[u]
        BY <3>3
      <4>2. u # s /\ lost'[u] = lost[u]
        BY <1>1, <1>5, <4>1 DEF TypeOK
      <4> QED
        BY <4>1, <4>2
    <3>4. CASE t \in Rounds(history)
      <4>1. lost'[s] = Rounds(history) \ Rounds(read[s])
        BY <1>1 DEF TypeOK
      <4> QED
        BY <1>1, <3>4, <4>1
    <3> QED
      BY <3>1, <3>2, <3>3, <3>4
  <2> QED
    BY <2>1, <2>2
<1>10. ASSUME NEW t \in Saves, lost'[t] # {} PROVE t \in disturbed'
  <2>1. CASE t = s
    <3>1. lost'[s] = Rounds(history) \ Rounds(read[s])
      BY <1>1 DEF TypeOK
    <3>2. read[s] # history
      BY <1>10, <2>1, <3>1
    <3> QED
      BY <1>1, <2>1, <3>2 DEF WatchHolds, Unmarked
  <2>2. CASE t # s
    BY <1>1, <1>10, <2>2 DEF Accounted, TypeOK
  <2> QED
    BY <2>1, <2>2
<1> QED
  BY <1>6, <1>7, <1>8, <1>9, <1>10 DEF Accounted

\* EXEC that is refused, an attempt that fails, and UNWATCH: nothing is written.
LEMMA RefusalKeeps ==
    ASSUME MemoryInv, TypeOK', NEW s \in Saves,
           pc[s] \in {"watch", "get", "exec", "unwatch"},
           pc'[s] \in {"unwatch", "watch", "done"}, pc' = [pc EXCEPT ![s] = pc'[s]],
           outcome' = [outcome EXCEPT ![s] = outcome'[s]], outcome'[s] # "saved" \/ outcome' = outcome,
           pc'[s] = "watch" => outcome'[s] = "conflict",
           outcome'[s] = "conflict" => Unwritten(s),
           read' = [read EXCEPT ![s] = <<>>] \/ read' = read,
           \/ Drop(proc[s], {s}) /\ dirty' = dirty \ {proc[s]}
           \/ UNCHANGED <<watching, dirty, disturbed>>,
           UNCHANGED <<history, proc, lost, left>>
    PROVE  WatchHolds' /\ FreshRounds' /\ NoneTwice' /\ Accounted'
<1> USE DEF MemoryInv
<1>1. Rounds(<<>>) = {} /\ Injective(<<>>)
  BY DEF Rounds, Injective
<1>2. disturbed \subseteq disturbed'
  BY DEF Drop
<1>3. \A t \in Saves : read'[t] = read[t] \/ read'[t] = <<>>
  BY DEF TypeOK
<1>4. WatchHolds'
  <2> SUFFICES ASSUME NEW t \in Saves, t \notin disturbed', pc'[t] \in {"get", "exec"}
               PROVE  /\ proc'[t] \in watching'
                      /\ pc'[t] = "exec" => read'[t] = history' \/ proc'[t] \in dirty'
    BY DEF WatchHolds
  <2>1. t # s /\ pc[t] = pc'[t] /\ t \notin disturbed /\ read'[t] = read[t]
    BY <1>2 DEF TypeOK
  <2>2. proc[t] # proc[s] \/ UNCHANGED <<watching, dirty>>
    BY <2>1 DEF Drop
  <2> QED
    BY <2>1, <2>2 DEF WatchHolds, Drop
<1>5. FreshRounds'
  <2> SUFFICES ASSUME NEW t \in Saves, Unwritten(t)'
               PROVE  Unwritten(t) /\ outcome'[t] # "saved"
    BY <1>1, <1>3 DEF FreshRounds
  <2>1. CASE t # s
    <3>1. Unwritten(t) /\ outcome'[t] = outcome[t]
      BY <2>1 DEF Unwritten, TypeOK
    <3> QED
      BY <3>1 DEF FreshRounds
  <2>2. CASE t = s
    BY <2>2 DEF Unwritten, TypeOK
  <2> QED
    BY <2>1, <2>2
<1>6. NoneTwice'
  BY <1>1, <1>3 DEF NoneTwice
<1>7. Accounted'
  <2>1. \A t \in Saves : outcome'[t] = "saved" => outcome[t] = "saved"
    BY DEF TypeOK
  <2> QED
    BY <1>2, <2>1 DEF Accounted
<1> QED
  BY <1>4, <1>5, <1>6, <1>7

\* The invariant is inductive.
LEMMA MemoryStep == ASSUME MemoryInv, [Next]_vars PROVE MemoryInv'
<1> USE DEF MemoryInv
<1>0. TypeOK' /\ Attempts'
  BY TypedStep
<1> SUFFICES WatchHolds' /\ FreshRounds' /\ NoneTwice' /\ Accounted'
  BY <1>0
<1>1. ASSUME NEW s \in Saves, Begin(s)
      PROVE  WatchHolds' /\ FreshRounds' /\ NoneTwice' /\ Accounted'
  <2>1. /\ pc[s] = "idle"
        /\ \/ pc' = [pc EXCEPT ![s] = "watch"] /\ outcome' = outcome
           \/ pc' = [pc EXCEPT ![s] = "done"] /\ outcome' = [outcome EXCEPT ![s] = "skipped"]
        /\ UNCHANGED <<history, watching, dirty, proc, read, disturbed, lost, left>>
    BY <1>1 DEF Begin, Goto, ComesTo, redis, ghosts
  <2>2. \A t \in Saves : /\ pc'[t] \in {"get", "exec"} => pc'[t] = pc[t]
                         /\ Unwritten(t)' => Unwritten(t)
                         /\ outcome'[t] = "saved" => outcome[t] = "saved"
    BY <2>1 DEF Unwritten, TypeOK
  <2> QED
    BY <2>1, <2>2 DEF WatchHolds, FreshRounds, NoneTwice, Accounted
<1>2. ASSUME NEW s \in Saves, Watch(s)
      PROVE  WatchHolds' /\ FreshRounds' /\ NoneTwice' /\ Accounted'
  <2>1. /\ pc[s] = "watch" /\ pc' = [pc EXCEPT ![s] = "get"]
        /\ watching' = watching \cup {proc[s]} /\ disturbed' = disturbed \ {s}
        /\ UNCHANGED <<history, dirty, proc, outcome, read, lost, left>>
    BY <1>2 DEF Watch, Goto
  <2>2. Unwritten(s) /\ lost[s] = {}
    BY <2>1 DEF Unwritten, FreshRounds
  <2>3. \A t \in Saves : t # s => pc'[t] = pc[t] /\ (t \in disturbed' <=> t \in disturbed)
    BY <2>1 DEF TypeOK
  <2>4. pc'[s] = "get" /\ \A t \in Saves : Unwritten(t)' => Unwritten(t)
    BY <2>1, <2>2 DEF Unwritten, TypeOK
  <2> QED
    BY <2>1, <2>2, <2>3, <2>4 DEF WatchHolds, FreshRounds, NoneTwice, Accounted
<1>3. ASSUME NEW s \in Saves, Get(s)
      PROVE  WatchHolds' /\ FreshRounds' /\ NoneTwice' /\ Accounted'
  <2>1. /\ pc[s] = "get" /\ pc' = [pc EXCEPT ![s] = "exec"]
        /\ read' = [read EXCEPT ![s] = history]
        /\ UNCHANGED <<history, watching, dirty, proc, outcome, disturbed, lost, left>>
    BY <1>3 DEF Get, Goto, redis, ghosts
  <2>2. \A t \in Saves : /\ t # s => pc'[t] = pc[t] /\ read'[t] = read[t]
                         /\ Unwritten(t)' => Unwritten(t)
    BY <2>1 DEF Unwritten, TypeOK
  <2>3. pc'[s] = "exec" /\ read'[s] = history
    BY <2>1 DEF TypeOK
  <2>4. WatchHolds'
    BY <2>1, <2>2, <2>3 DEF WatchHolds
  <2>5. FreshRounds' /\ NoneTwice'
    BY <2>1, <2>2, <2>3 DEF FreshRounds, NoneTwice
  <2> QED
    BY <2>1, <2>4, <2>5 DEF Accounted
<1>4. ASSUME NEW s \in Saves, Exec(s)
      PROVE  WatchHolds' /\ FreshRounds' /\ NoneTwice' /\ Accounted'
  <2>1. CASE Unmarked(proc[s]) /\ Write(s) /\ outcome'[s] # "conflict"
    BY <1>4, <2>1, WriteKeeps
  <2>2. CASE ~(Unmarked(proc[s]) /\ Write(s) /\ outcome'[s] # "conflict")
    <3>1. /\ pc[s] = "exec" /\ pc' = [pc EXCEPT ![s] = "unwatch"]
          /\ read' = [read EXCEPT ![s] = <<>>]
          /\ Drop(proc[s], {s}) /\ dirty' = dirty \ {proc[s]}
          /\ outcome' = [outcome EXCEPT ![s] = "conflict"]
          /\ UNCHANGED <<history, proc, lost, left>>
      BY <1>4, <2>2 DEF Exec, Goto, ComesTo, TypeOK
    <3>2. Unwritten(s) /\ pc'[s] = "unwatch" /\ outcome'[s] = "conflict"
      BY <3>1 DEF Unwritten, TypeOK
    <3> QED
      BY <1>0, <3>1, <3>2, RefusalKeeps
  <2> QED
    BY <2>1, <2>2
<1>5. ASSUME NEW s \in Saves, CommandFails(s)
      PROVE  WatchHolds' /\ FreshRounds' /\ NoneTwice' /\ Accounted'
  <2>1. /\ pc[s] \in {"watch", "get", "exec"} /\ pc' = [pc EXCEPT ![s] = "unwatch"]
        /\ outcome' = [outcome EXCEPT ![s] = "failed"] /\ read' = [read EXCEPT ![s] = <<>>]
        /\ UNCHANGED <<history, watching, dirty, proc, disturbed, lost, left>>
    BY <1>5 DEF CommandFails, Goto, ComesTo, redis, ghosts
  <2>2. pc'[s] = "unwatch" /\ outcome'[s] = "failed"
    BY <2>1 DEF TypeOK
  <2> QED
    BY <1>0, <2>1, <2>2, RefusalKeeps
<1>6. ASSUME NEW s \in Saves, Unwatch(s)
      PROVE  WatchHolds' /\ FreshRounds' /\ NoneTwice' /\ Accounted'
  <2>1. /\ pc[s] = "unwatch"
        /\ \/ pc' = [pc EXCEPT ![s] = "watch"] /\ outcome[s] = "conflict"
           \/ pc' = [pc EXCEPT ![s] = "done"]
        /\ \/ Drop(proc[s], {s}) /\ dirty' = dirty \ {proc[s]}
           \/ UNCHANGED <<watching, dirty, disturbed>>
        /\ UNCHANGED <<history, proc, outcome, read, lost, left>>
    BY <1>6 DEF Unwatch, Goto
  <2>2. /\ pc' = [pc EXCEPT ![s] = pc'[s]] /\ pc'[s] \in {"watch", "done"}
        /\ outcome' = [outcome EXCEPT ![s] = outcome'[s]]
        /\ pc'[s] = "watch" => outcome'[s] = "conflict"
        /\ outcome'[s] = "conflict" => Unwritten(s)
    BY <2>1 DEF Unwritten, TypeOK
  <2> QED
    BY <1>0, <2>1, <2>2, RefusalKeeps
<1>7. CASE Erase
  <2>1. /\ history' = <<>> /\ dirty' = watching /\ left' = left \cup Rounds(history)
        /\ UNCHANGED <<watching, proc, pc, outcome, read, disturbed, lost>>
    BY <1>7 DEF Erase, saves
  <2>2. Rounds(<<>>) = {} /\ Injective(<<>>)
    BY DEF Rounds, Injective
  <2>3. WatchHolds' /\ FreshRounds' /\ NoneTwice'
    BY <2>1, <2>2 DEF WatchHolds, FreshRounds, NoneTwice, Unwritten
  <2>4. Accounted'
    BY <2>1 DEF Accounted
  <2> QED
    BY <2>3, <2>4
<1>8. ASSUME NEW p \in Procs, Disconnect(p)
      PROVE  WatchHolds' /\ FreshRounds' /\ NoneTwice' /\ Accounted'
  <2>1. /\ watching' = watching \ {p} /\ dirty' = dirty \ {p}
        /\ disturbed' = disturbed \cup {t \in Saves : proc[t] = p /\ pc[t] \in {"get", "exec"}}
        /\ UNCHANGED <<history, proc, pc, outcome, read, lost, left>>
    BY <1>8 DEF Disconnect, Drop, saves
  <2> QED
    BY <2>1 DEF WatchHolds, FreshRounds, NoneTwice, Accounted, Unwritten
<1>9. ASSUME NEW p \in Procs, Ready(p)
      PROVE  WatchHolds' /\ FreshRounds' /\ NoneTwice' /\ Accounted'
  BY <1>9 DEF Ready, redis, saves, ghosts, WatchHolds, FreshRounds, NoneTwice, Accounted, Unwritten
<1>10. ASSUME NEW p \in Procs, OtherConversation(p)
       PROVE  WatchHolds' /\ FreshRounds' /\ NoneTwice' /\ Accounted'
  <2>1. /\ \/ /\ watching' = watching \ {p} /\ dirty' = dirty \ {p}
              /\ disturbed' = disturbed \cup {t \in Saves : proc[t] = p /\ pc[t] \in {"get", "exec"}}
           \/ dirty' = dirty \cup {p} /\ UNCHANGED <<watching, disturbed>>
        /\ UNCHANGED <<history, proc, pc, outcome, read, lost, left>>
    BY <1>10 DEF OtherConversation, Drop, saves
  <2> QED
    BY <2>1 DEF WatchHolds, FreshRounds, NoneTwice, Accounted, Unwritten
<1>11. CASE UNCHANGED vars
  BY <1>11 DEF vars, redis, saves, ghosts, WatchHolds, FreshRounds, NoneTwice, Accounted, Unwritten
<1> QED
  BY <1>1, <1>2, <1>3, <1>4, <1>5, <1>6, <1>7, <1>8, <1>9, <1>10, <1>11 DEF Next

\* No round appears twice, and a round whose save succeeded is only missing
\* when it left the history or a disturbed save wrote over it: for any number
\* of saves and processes.
THEOREM Kept == Spec => []RoundsKept
<1>1. Init => MemoryInv
  <2>1. Init => WatchHolds /\ FreshRounds /\ NoneTwice /\ Accounted
    BY DEF Init, WatchHolds, FreshRounds, NoneTwice, Accounted, Rounds, Injective
  <2> QED
    BY <2>1, TypedInit DEF MemoryInv
<1>2. MemoryInv => RoundsKept
  BY DEF MemoryInv, NoneTwice, Injective, Accounted, RoundsKept
<1>3. MemoryInv /\ [Next]_vars => MemoryInv'
  BY MemoryStep
<1> QED
  BY <1>1, <1>2, <1>3, PTL DEF Spec
=============================================================================
