-------------------------- MODULE EvolutionVersion --------------------------
(***************************************************************************)
(* The versions of one artifact in ai_evolution_version, as                *)
(* EvolutionVersionService (src/src/evolution/evolution-version.service.ts)*)
(* and the EvolutionAutonomyScheduler                                      *)
(* (src/src/brain/evolution-autonomy.scheduler.ts) write them.             *)
(*                                                                         *)
(* Users activate, roll back and close versions; rounds of the cron job,   *)
(* which may overlap, close the staged ones.  A closure evaluates a version*)
(* with a series of model calls and saves the whole entity it loaded       *)
(* before them.  Each await is a step: save() compares the entity with the *)
(* row in one statement and writes the columns that differ in the next.    *)
(***************************************************************************)
EXTENDS Naturals, FiniteSets

CONSTANTS
    Clients,     \* what may run at once: administration requests and rounds
    MaxVersions, \* bound on the proposals
    MaxLost,     \* bound on the activations of a day whose answer is lost
    Accuracies,  \* outcomes of an evaluation, in per cent
    Batch,       \* MAX_PROCESSES_PER_RUN
    Cap,         \* MAX_AUTO_ACTIVATIONS_PER_DAY
    None

ASSUME EvolutionAssumption ==
    /\ IsFiniteSet(Clients) /\ Clients # {}
    /\ MaxVersions \in Nat /\ MaxLost \in Nat /\ Batch \in Nat \ {0} /\ Cap \in Nat
    /\ Accuracies \subseteq Nat /\ None \notin Accuracies

VARIABLES
    status,      \* of each row; "none" before it is staged
    accuracy,    \* regression_accuracy of each row
    count,       \* activationCount.count
    dayOver,     \* activationCount.date is not today
    pc,          \* where each client is
    cron,        \* the clients that are rounds of the cron job
    at,          \* the version it works on, 0 between two
    todo,        \* the versions it has still to close
    copy,        \* the columns of the entity it has loaded
    baseline,    \* the accuracy of the active version it has read
    verdict,     \* its recommendation
    diff,        \* the columns its save found different
    \* only to state properties:
    automatic,   \* activations by rounds since the counter was reset
    lost,        \* those of them whose answer was lost, so that nobody counts them
    revived,     \* versions that a stale save made active
    excused      \* nobody promises an active version: none was activated yet,
                 \* or the last one was rolled back or overwritten

rows    == <<status, accuracy>>
clients == <<pc, cron, at, todo, copy, baseline, verdict, diff>>
counter == <<count, dayOver, automatic, lost>>
ghosts  == <<revived, excused>>
vars    == <<rows, counter, clients, ghosts>>

Versions == 1..MaxVersions
Statuses == {"none", "staged", "active", "rolled_back"}
Measured == Accuracies \cup {None}
Verdicts == {"none", "keep", "staged_further", "rollback"}
Blank    == [status |-> "none", accuracy |-> None]
Columns  == DOMAIN Blank

TypeOK ==
    /\ status \in [Versions -> Statuses]
    /\ accuracy \in [Versions -> Measured]
    /\ count \in Nat /\ dayOver \in BOOLEAN
    /\ pc \in [Clients -> {"idle", "load", "baseline", "evaluate", "save", "reread",
                           "discard", "saveDiscard", "activate", "count", "rollback"}]
    /\ cron \subseteq Clients
    /\ at \in [Clients -> 0..MaxVersions]
    /\ todo \in [Clients -> SUBSET Versions]
    /\ \A c \in Clients : pc[c] \notin {"idle", "load"} => at[c] # 0
    /\ copy \in [Clients -> [status : Statuses, accuracy : Measured]]
    /\ baseline \in [Clients -> Measured]
    /\ verdict \in [Clients -> Verdicts]
    /\ diff \in [Clients -> SUBSET Columns]
    /\ automatic \in Nat /\ lost \in 0..MaxLost
    /\ revived \subseteq Versions /\ excused \in BOOLEAN

Init ==
    /\ status = [v \in Versions |-> "none"]
    /\ accuracy = [v \in Versions |-> None]
    /\ count = 0 /\ dayOver = FALSE
    /\ pc = [c \in Clients |-> "idle"]
    /\ cron = {}
    /\ at = [c \in Clients |-> 0]
    /\ todo = [c \in Clients |-> {}]
    /\ copy = [c \in Clients |-> Blank]
    /\ baseline = [c \in Clients |-> None]
    /\ verdict = [c \in Clients |-> "none"]
    /\ diff = [c \in Clients |-> {}]
    /\ automatic = 0 /\ lost = 0 /\ revived = {} /\ excused = TRUE

-----------------------------------------------------------------------------
(* Helpers                                                                 *)

Row(v) == [status |-> status[v], accuracy |-> accuracy[v]]
Goto(c, label) == pc' = [pc EXCEPT ![c] = label]

\* On to the next version of a round; a request is over.
Finish(c) ==
    /\ IF todo[c] = {} THEN Goto(c, "idle") /\ cron' = cron \ {c}
                       ELSE Goto(c, "load") /\ UNCHANGED cron
    /\ at' = [at EXCEPT ![c] = 0]
    /\ copy' = [copy EXCEPT ![c] = Blank]
    /\ baseline' = [baseline EXCEPT ![c] = None]
    /\ verdict' = [verdict EXCEPT ![c] = "none"]
    /\ diff' = [diff EXCEPT ![c] = {}]
    /\ UNCHANGED todo

\* list(undefined, 'staged'), newest first, and the part of it a round takes.
Staged == {v \in Versions : status[v] = "staged"}
Taken  == {v \in Staged : Cardinality({w \in Staged : v < w}) < Batch}

Active == {v \in Versions : status[v] = "active"}

Usable(base)  == base # None /\ base # 0
Verdict(a, base) ==
    IF ~Usable(base) THEN "staged_further"
    ELSE IF 100 * a >= 95 * base THEN "keep"
    ELSE IF 100 * a >= 90 * base THEN "staged_further"
    ELSE "rollback"

\* The first statement of save(): which columns differ from the row.
Differing(v, entity) == {k \in Columns : entity[k] # Row(v)[k]}

-----------------------------------------------------------------------------
(* Requests and rounds                                                     *)

\* stage(): a new proposal.
Stage(v) ==
    /\ status[v] = "none" /\ \A w \in Versions : w < v => status[w] # "none"
    /\ status' = [status EXCEPT ![v] = "staged"]
    /\ UNCHANGED <<accuracy, counter, clients, ghosts>>

\* A request to activate or to roll back a version.
Ask(c, label, v) ==
    /\ pc[c] = "idle" /\ status[v] # "none"
    /\ at' = [at EXCEPT ![c] = v]
    /\ Goto(c, label)
    /\ UNCHANGED <<rows, counter, cron, todo, copy, baseline, verdict, diff, ghosts>>

\* A request to close a version.
AskClosure(c, v) ==
    /\ pc[c] = "idle" /\ status[v] # "none"
    /\ todo' = [todo EXCEPT ![c] = {v}]
    /\ Goto(c, "load")
    /\ UNCHANGED <<rows, counter, cron, at, copy, baseline, verdict, diff, ghosts>>

\* runOnce() with the policy switched on: the counter of a new day, and the
\* staged versions.
StartRound(c) ==
    /\ pc[c] = "idle"
    /\ dayOver' = FALSE
    /\ IF dayOver THEN count' = 0 /\ automatic' = 0 /\ lost' = 0
                  ELSE UNCHANGED <<count, automatic, lost>>
    /\ todo' = [todo EXCEPT ![c] = Taken]
    /\ IF Taken = {} THEN UNCHANGED <<pc, cron>>
                        ELSE Goto(c, "load") /\ cron' = cron \cup {c}
    /\ UNCHANGED <<rows, at, copy, baseline, verdict, diff, ghosts>>

\* The counter has reached its limit: the round ends early.
NoLimit(c)    == FALSE
CapReached(c) == c \in cron /\ count >= Cap

EndRound(c) ==
    /\ pc[c] = "load" /\ CapReached(c)
    /\ todo' = [todo EXCEPT ![c] = {}]
    /\ Goto(c, "idle")
    /\ cron' = cron \ {c}
    /\ UNCHANGED <<rows, counter, at, copy, baseline, verdict, diff, ghosts>>

-----------------------------------------------------------------------------
(* evaluateRegressionById()                                                *)

\* The entity is loaded; without cases nothing is evaluated or saved.  The
\* accuracy it had is never looked at: Evaluate() replaces it.
Load(c) ==
    /\ pc[c] = "load" /\ ~CapReached(c)
    /\ \E v \in todo[c] :
          /\ \A w \in todo[c] : w <= v
          /\ at' = [at EXCEPT ![c] = v]
          /\ todo' = [todo EXCEPT ![c] = @ \ {v}]
          /\ \/ /\ copy' = [copy EXCEPT ![c].status = status[v]]
                /\ Goto(c, "baseline") /\ UNCHANGED verdict
             \/ /\ verdict' = [verdict EXCEPT ![c] = "staged_further"]
                /\ Goto(c, "reread") /\ UNCHANGED copy
    /\ UNCHANGED <<rows, counter, cron, baseline, diff, ghosts>>

\* The accuracy of the newest active version, or none.
ReadBaseline(c) ==
    /\ pc[c] = "baseline"
    /\ \/ Active = {} /\ baseline' = [baseline EXCEPT ![c] = None]
       \/ \E v \in Active :
             /\ \A w \in Active : w <= v
             /\ baseline' = [baseline EXCEPT ![c] = accuracy[v]]
    /\ Goto(c, "evaluate")
    /\ UNCHANGED <<rows, counter, cron, at, todo, copy, verdict, diff, ghosts>>

\* The model calls, the recommendation and the first statement of save().
Evaluate(c) ==
    /\ pc[c] = "evaluate"
    /\ \E a \in Accuracies :
           LET entity == [copy[c] EXCEPT !.accuracy = a]
           IN  /\ copy' = [copy EXCEPT ![c] = entity]
               /\ verdict' = [verdict EXCEPT ![c] = Verdict(a, baseline[c])]
               /\ diff' = [diff EXCEPT ![c] = Differing(at[c], entity)]
    /\ baseline' = [baseline EXCEPT ![c] = None]
    /\ Goto(c, "save")
    /\ UNCHANGED <<rows, counter, cron, at, todo, ghosts>>

\* The second statement of save(): the columns that were found different.
Write(c) ==
    LET v == at[c]
    IN  /\ IF "accuracy" \in diff[c]
           THEN accuracy' = [accuracy EXCEPT ![v] = copy[c].accuracy] ELSE UNCHANGED accuracy
        /\ IF "status" \in diff[c] /\ copy[c].status # status[v]
           THEN /\ status' = [status EXCEPT ![v] = copy[c].status]
                /\ revived' = IF copy[c].status = "active" THEN revived \cup {v} ELSE revived \ {v}
                /\ excused' = (excused \/ status[v] = "active")
           ELSE UNCHANGED <<status, ghosts>>

Save(c) ==
    /\ pc[c] = "save"
    /\ Write(c)
    /\ copy' = [copy EXCEPT ![c] = Blank]
    /\ diff' = [diff EXCEPT ![c] = {}]
    /\ Goto(c, "reread")
    /\ UNCHANGED <<counter, cron, at, todo, baseline, verdict>>

-----------------------------------------------------------------------------
(* runAutoClosure() after the evaluation                                   *)

\* The entity is read once more, then the policy, which an administrator may
\* switch at any time: switched on, the recommendation is carried out.
Decide(c) ==
    /\ pc[c] = "reread"
    /\ \/ Finish(c)
       \/ /\ \/ verdict[c] = "keep" /\ Goto(c, "activate") /\ UNCHANGED copy
             \/ /\ verdict[c] = "rollback" /\ status[at[c]] = "staged"
                /\ Goto(c, "discard") /\ copy' = [copy EXCEPT ![c] = Row(at[c])]
             \/ /\ verdict[c] = "rollback" /\ status[at[c]] # "staged"
                /\ Goto(c, "rollback") /\ UNCHANGED copy
          /\ verdict' = [verdict EXCEPT ![c] = "none"]
          /\ UNCHANGED <<cron, at, todo, baseline, diff>>
    /\ UNCHANGED <<rows, counter, ghosts>>

\* A staged version below the line is given up with a save of the entity.
Discard(c) ==
    /\ pc[c] = "discard"
    /\ LET entity == [copy[c] EXCEPT !.status = "rolled_back"]
       IN  /\ copy' = [copy EXCEPT ![c] = entity]
           /\ diff' = [diff EXCEPT ![c] = Differing(at[c], entity)]
    /\ Goto(c, "saveDiscard")
    /\ UNCHANGED <<rows, counter, cron, at, todo, baseline, verdict, ghosts>>

SaveDiscard(c) ==
    /\ pc[c] = "saveDiscard"
    /\ Write(c)
    /\ Finish(c)
    /\ UNCHANGED counter

-----------------------------------------------------------------------------
(* activate() and rollback(); assertStatus() refuses beforehand what the    *)
(* condition of the statement refuses                                      *)

\* The rows after the transaction: the active versions are retired and the
\* staged one takes their place, or the conflict undoes all of it.
Promoted(v) ==
    [w \in Versions |-> IF w = v THEN "active"
                        ELSE IF status[w] = "active" THEN "rolled_back" ELSE status[w]]

RowsAfterRetiring(v) ==
    [w \in Versions |-> IF w # v /\ status[w] = "active" THEN "rolled_back"
                        ELSE IF w = v /\ status[w] = "staged" THEN "active" ELSE status[w]]

RowsAfter(v) == IF status[v] = "staged" THEN Promoted(v) ELSE status

\* The transaction commits, or changes nothing.
Done(c) == status[at[c]] = "staged"
Transaction(c) ==
    /\ pc[c] = "activate"
    /\ status' = RowsAfter(at[c])
    /\ revived' = IF Done(c) THEN {} ELSE revived
    /\ excused' = (excused /\ ~Done(c))
    /\ UNCHANGED accuracy

\* A round has still to count what it activated.
Activate(c) ==
    /\ Transaction(c)
    /\ IF Done(c) /\ c \in cron
       THEN /\ automatic' = automatic + 1
            /\ Goto(c, "count")
            /\ UNCHANGED <<cron, at, todo, copy, baseline, verdict, diff>>
       ELSE Finish(c) /\ UNCHANGED automatic
    /\ UNCHANGED <<count, dayOver, lost>>

\* The answer to the commit is lost: a round takes the activation for failed.
ActivateUnanswered(c) ==
    /\ Transaction(c)
    /\ Done(c) /\ c \in cron
    /\ lost < MaxLost /\ lost' = lost + 1
    /\ automatic' = automatic + 1
    /\ Finish(c)
    /\ UNCHANGED <<count, dayOver>>

\* The scheduler counts the activation, on whatever day.
CountActivation(c) ==
    /\ pc[c] = "count"
    /\ count' = count + 1
    /\ Finish(c)
    /\ UNCHANGED <<rows, dayOver, automatic, lost, ghosts>>

RolledBackByWord(v) == IF status[v] = "active" THEN "rollback" ELSE status[v]
RolledBack(v) == IF status[v] = "active" THEN "rolled_back" ELSE status[v]

\* The conditional UPDATE.
Rollback(c) ==
    LET v == at[c]
    IN  /\ pc[c] = "rollback"
        /\ status' = [status EXCEPT ![v] = RolledBack(v)]
        /\ excused' = (excused \/ status[v] = "active")
        /\ revived' = revived \ {v}
        /\ Finish(c)
        /\ UNCHANGED <<accuracy, counter>>

\* A statement or a model call throws; the scheduler goes on with the next
\* version.  A save whose answer is lost is Save and then Throw; nothing
\* depends on the answers to Rollback, to SaveDiscard and to the activation of
\* an administrator; those to a round have ActivateUnanswered.
Throw(c) ==
    /\ pc[c] \notin {"idle", "load", "count"}
    /\ Finish(c)
    /\ UNCHANGED <<rows, counter, ghosts>>

Midnight ==
    /\ ~dayOver /\ dayOver' = TRUE
    /\ UNCHANGED <<rows, count, automatic, lost, clients, ghosts>>

-----------------------------------------------------------------------------
Advance(c) ==
    \/ Load(c) \/ ReadBaseline(c) \/ Evaluate(c) \/ Save(c) \/ Decide(c)
    \/ Discard(c) \/ SaveDiscard(c) \/ Throw(c)
    \/ Activate(c) \/ ActivateUnanswered(c) \/ CountActivation(c) \/ Rollback(c)

Next ==
    \/ \E v \in Versions : Stage(v)
    \/ \E c \in Clients :
          \/ \E v \in Versions : Ask(c, "activate", v) \/ Ask(c, "rollback", v) \/ AskClosure(c, v)
          \/ StartRound(c) \/ EndRound(c) \/ Advance(c)
    \/ Midnight

Spec == Init /\ [][Next]_vars

-----------------------------------------------------------------------------
(* Properties                                                              *)

\* An artifact has at most one active version, those aside that a stale save
\* of an evaluation has made active again; and once it has one, it goes
\* without only after a rollback or such a save: two activations at once, or
\* one that conflicts, never leave two or none (activate()).
OneActive ==
    /\ \A v, w \in Versions \ revived : status[v] = "active" /\ status[w] = "active" => v = w
    /\ ~excused => \E v \in Versions : status[v] = "active"

\* The limit of automatic activations a day is passed by as many as rounds
\* overlap, less one (each has looked at the counter before its closure), and
\* by the activations that were committed while their answer was lost, which
\* the scheduler takes for failed and does not count.
CapKept == automatic < Cap + Cardinality(Clients) + lost
=============================================================================
