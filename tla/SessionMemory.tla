---------------------------- MODULE SessionMemory ----------------------------
(***************************************************************************)
(* The history of one conversation in Redis, as saveHistory() and          *)
(* clearHistory() of the MemoryManager                                     *)
(* (src/src/brain/memory-manager.service.ts) write it.                     *)
(*                                                                         *)
(* A save appends one round with WATCH, GET and MULTI/SETEX/EXEC.  All     *)
(* saves of a process, of this and of every other conversation, send their *)
(* commands over the one connection that RedisProvider shares              *)
(* (src/src/common/redis.provider.ts), and what Redis remembers of a WATCH *)
(* belongs to the connection.                                              *)
(***************************************************************************)
EXTENDS Naturals, Sequences

CONSTANTS
    Saves,       \* calls of saveHistory(); a round is named after its save
    Procs,       \* processes, each with one connection
    MaxRounds,   \* MEMORY_ROUNDS
    MaxRetries,  \* WATCH_CONFLICT_MAX_RETRIES
    MaxFaults    \* bound on lost commands and answers, errors and erasures

ASSUME SessionMemoryAssumption ==
    MaxRounds \in Nat \ {0} /\ MaxRetries \in Nat /\ MaxFaults \in Nat

VARIABLES
    history,    \* the rounds under the key
    watching,   \* the connections that watch the key
    dirty,      \* ... and will have their next EXEC refused
    up,         \* redisAvailable of each process
    proc,       \* the process of each save
    pc,         \* where a save is
    outcome,    \* what its last attempt, and in the end the save, came to
    tries,      \* its conflicts so far
    read,       \* what it has read
    faults,
    \* only to state properties:
    disturbed,  \* saves between WATCH and EXEC whose connection lost the WATCH
    lost,       \* the rounds each save has overwritten without having read them
    left        \* the rounds that were pushed out, cleared or have expired

redis  == <<history, watching, dirty>>
saves  == <<proc, pc, outcome, tries, read>>
ghosts == <<disturbed, lost, left>>
vars   == <<redis, up, saves, faults, ghosts>>

Rounds(h) == {h[i] : i \in DOMAIN h}

TypeOK ==
    /\ history \in Seq(Saves) /\ Len(history) <= MaxRounds
    /\ watching \subseteq Procs /\ dirty \subseteq watching
    /\ up \in [Procs -> BOOLEAN]
    /\ proc \in [Saves -> Procs]
    /\ pc \in [Saves -> {"idle", "watch", "get", "exec", "unwatch", "done"}]
    /\ outcome \in [Saves -> {"none", "skipped", "saved", "conflict", "failed"}]
    /\ tries \in [Saves -> 0..(MaxRetries + 1)]
    /\ read \in [Saves -> Seq(Saves)]
    /\ faults \in 0..MaxFaults
    /\ disturbed \subseteq Saves
    /\ lost \in [Saves -> SUBSET Saves]
    /\ left \subseteq Saves

Init ==
    /\ history = <<>>
    /\ watching = {} /\ dirty = {}
    /\ up = [p \in Procs |-> TRUE]
    /\ proc \in [Saves -> Procs]
    /\ pc = [s \in Saves |-> "idle"]
    /\ outcome = [s \in Saves |-> "none"]
    /\ tries = [s \in Saves |-> 0]
    /\ read = [s \in Saves |-> <<>>]
    /\ faults = 0
    /\ disturbed = {} /\ lost = [s \in Saves |-> {}] /\ left = {}

Fault   == faults < MaxFaults /\ faults' = faults + 1
NoFault == UNCHANGED faults

Goto(s, label)  == pc' = [pc EXCEPT ![s] = label]
ComesTo(s, end) == outcome' = [outcome EXCEPT ![s] = end]

-----------------------------------------------------------------------------
(* Redis                                                                   *)

\* UNWATCH, the end of EXEC, or a new connection: p watches nothing any more.
\* The saves of p that are between WATCH and EXEC do not notice; s is the one
\* that causes it.
Drop(p, s) ==
    /\ watching' = watching \ {p}
    /\ disturbed' = disturbed \cup {t \in Saves \ s : proc[t] = p /\ pc[t] \in {"get", "exec"}}

-----------------------------------------------------------------------------
(* saveHistory()                                                           *)

\* A process without Redis does not save.
Begin(s) ==
    /\ pc[s] = "idle"
    /\ \/ up[proc[s]] /\ Goto(s, "watch") /\ UNCHANGED outcome
       \/ ~up[proc[s]] /\ Goto(s, "done") /\ ComesTo(s, "skipped")
    /\ UNCHANGED <<redis, up, proc, tries, read, faults, ghosts>>

Watch(s) ==
    /\ pc[s] = "watch" /\ up[proc[s]]
    /\ Goto(s, "get")
    /\ watching' = watching \cup {proc[s]}
    /\ disturbed' = disturbed \ {s}
    /\ UNCHANGED <<history, dirty, up, proc, outcome, tries, read, faults, lost, left>>

Get(s) ==
    /\ pc[s] = "get" /\ up[proc[s]]
    /\ Goto(s, "exec")
    /\ read' = [read EXCEPT ![s] = history]
    /\ UNCHANGED <<redis, up, proc, outcome, tries, faults, ghosts>>

\* The last MaxRounds rounds.
Untruncated(h) == h
Truncated(h)   == IF Len(h) > MaxRounds THEN SubSeq(h, 2, Len(h)) ELSE h

\* EXEC carries the SETEX out unless the connection has been marked.
Unconditional(p) == TRUE
Unmarked(p)      == p \notin dirty

\* Every other connection that watches the key is marked.
Write(s) ==
    LET h == Truncated(Append(read[s], s)) IN
    /\ history' = h
    /\ dirty' = watching \ {proc[s]}
    /\ lost' = [lost EXCEPT ![s] = Rounds(history) \ Rounds(read[s])]
    /\ left' = left \cup (Rounds(read[s]) \ Rounds(h))

Exec(s) ==
    /\ pc[s] = "exec" /\ up[proc[s]]
    /\ Drop(proc[s], {s})
    /\ \/ /\ Unmarked(proc[s]) /\ Write(s)
          /\ \/ ComesTo(s, "saved") /\ NoFault
             \/ ComesTo(s, "failed") /\ Fault  \* the answer is lost
          /\ UNCHANGED tries
       \/ /\ ~Unmarked(proc[s])
          /\ ComesTo(s, "conflict") /\ NoFault
          /\ tries' = [tries EXCEPT ![s] = @ + 1]
          /\ dirty' = dirty \ {proc[s]}
          /\ UNCHANGED <<history, lost, left>>
    /\ Goto(s, "unwatch")
    /\ read' = [read EXCEPT ![s] = <<>>]
    /\ UNCHANGED <<up, proc>>

\* A command fails: degrade() makes a result of the exception.
CommandFails(s) ==
    /\ pc[s] \in {"watch", "get", "exec"}
    /\ IF up[proc[s]] THEN Fault ELSE NoFault
    /\ Goto(s, "unwatch") /\ ComesTo(s, "failed")
    /\ read' = [read EXCEPT ![s] = <<>>]
    /\ UNCHANGED <<redis, up, proc, tries, ghosts>>

\* unwatchQuietly(), which may fail, and then the next attempt, if any.
Unwatch(s) ==
    /\ pc[s] = "unwatch"
    /\ \/ /\ up[proc[s]] /\ NoFault
          /\ Drop(proc[s], {s}) /\ dirty' = dirty \ {proc[s]}
       \/ /\ IF up[proc[s]] THEN Fault ELSE NoFault
          /\ UNCHANGED <<watching, dirty, disturbed>>
    /\ Goto(s, IF outcome[s] = "conflict" /\ tries[s] <= MaxRetries THEN "watch" ELSE "done")
    /\ UNCHANGED <<history, up, proc, outcome, tries, read, lost, left>>

-----------------------------------------------------------------------------
(* The surroundings                                                        *)

\* clearHistory(), or an hour without a save: the watchers are marked.
Erase ==
    /\ history # <<>> /\ Fault
    /\ history' = <<>>
    /\ dirty' = watching
    /\ left' = left \cup Rounds(history)
    /\ UNCHANGED <<watching, up, saves, disturbed, lost>>

\* A save of another conversation over the connection of p: its EXEC or UNWATCH
\* ends the watch, and a write of the key that it watches marks the connection.
OtherConversation(p) ==
    /\ p \in watching
    /\ \/ Drop(p, {}) /\ dirty' = dirty \ {p}
       \/ dirty' = dirty \cup {p} /\ UNCHANGED <<watching, disturbed>>
    /\ UNCHANGED <<history, up, saves, faults, lost, left>>

\* The connection of a process breaks; Redis forgets what it watched.
Disconnect(p) ==
    /\ up[p] /\ Fault
    /\ up' = [up EXCEPT ![p] = FALSE]
    /\ Drop(p, {}) /\ dirty' = dirty \ {p}
    /\ UNCHANGED <<history, saves, lost, left>>

\* The 'ready' event.
Ready(p) ==
    /\ ~up[p]
    /\ up' = [up EXCEPT ![p] = TRUE]
    /\ UNCHANGED <<redis, saves, faults, ghosts>>

Next ==
    \/ \E s \in Saves : Begin(s) \/ Watch(s) \/ Get(s) \/ Exec(s) \/ CommandFails(s) \/ Unwatch(s)
    \/ Erase
    \/ \E p \in Procs : OtherConversation(p) \/ Disconnect(p) \/ Ready(p)

Spec == Init /\ [][Next]_vars

-----------------------------------------------------------------------------
(* Properties                                                              *)

\* No round appears twice, and the round of a save that was told it succeeded
\* (exec() not null) is in the history unless it was pushed out or erased, or
\* another save wrote over it.  A save writes over what it has not read only
\* if its connection lost the WATCH in between: through the EXEC or UNWATCH of
\* another save of the same process, of this or another conversation, or
\* through a new connection.  What such a save writes over may be the round of
\* any process.
RoundsKept ==
    /\ \A i, j \in DOMAIN history : history[i] = history[j] => i = j
    /\ \A s \in Saves : outcome[s] = "saved" =>
         s \in Rounds(history) \cup left \cup UNION {lost[t] : t \in Saves}
    /\ \A s \in Saves : lost[s] # {} => s \in disturbed
=============================================================================
