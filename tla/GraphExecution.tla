---------------------------- MODULE GraphExecution ----------------------------
(***************************************************************************)
(* One session of a stateful graph                                         *)
(* (src/src/brain/graph/graph-executor.service.ts), its checkpoint         *)
(* (checkpointer.service.ts), the review tasks that stop it                *)
(* (src/src/brain/review/review-task.service.ts) and the write tokens that *)
(* stop it, seen from outside.                                             *)
(*                                                                         *)
(* Requests of the session run execute() concurrently.  Each works on an   *)
(* object: a fresh one when the checkpoint comes from Redis, the object of *)
(* another request when it comes from the Map, which keeps references.     *)
(* What a request has read before an await (ticket, at) may be out of date *)
(* after it; the object is read again.                                     *)
(***************************************************************************)
EXTENDS Naturals, FiniteSets

CONSTANTS
    Runners,      \* slots for requests that run execute()
    Objects,      \* GraphState objects in the memory of the process
    Last,         \* the nodes are 1..Last, node Last + 1 is the end
    Shapes,       \* the graphs
    MaxSteps,     \* MAX_NODE_STEPS
    MaxReviews, MaxTokens, MaxRequests, MaxFaults,   \* bounds
    None

Nodes == 1..Last
End   == Last + 1
\* direct: a writing node that an approval lets through, because its own
\* arguments say confirm or because its tool has no preview (cancelOrder and
\* cancelPurchaseOrder, both risky).  review: the node or its tool asks for a
\* review; high: the tool is risky, which asks for a review and for two
\* confirmations.
NodeKinds == [type : {"read", "write", "direct", "agent", "condition"}, review : BOOLEAN, high : BOOLEAN]

ASSUME GraphAssumption ==
    /\ Last \in Nat \ {0}
    /\ Shapes \subseteq [Nodes -> NodeKinds]
    /\ \A g \in Shapes, n \in Nodes : g[n].high => g[n].review
    /\ MaxSteps \in Nat /\ MaxReviews \in Nat /\ MaxTokens \in Nat
    /\ MaxRequests \in Nat /\ MaxFaults \in Nat
    /\ None \notin Runners \cup Objects

VARIABLES
    graph,      \* the graph of the session
    connected,  \* redisAvailable, decided when the process starts
    redis,      \* the checkpoint in Redis
    map,        \* the object that memoryStore refers to
    heap,       \* the objects
    obj,        \* the object each request works on
    pc, steps,  \* where a request is, and the nodes it has visited
    after,      \* where it goes on after a save
    ticket,     \* the review or the token whose status it asks for
    at,         \* the node of its turn
    reviews,    \* the review tasks: status and node
    seen,       \* the tasks that an approval or a rejection has read as pending
    tokens,     \* the write tokens: node and status
    requests, faults,
    starts,     \* how often a graph was started and not resumed; states, reviews
                \* and tokens say in "start" to which of the starts they belong
    overlapped, \* two requests ran at the same time
    shared,     \* two requests worked on one object
    stale       \* a written token disappeared

storage  == <<connected, redis, map>>
local    == <<steps, ticket, at>>
running  == <<heap, obj, pc, after, local>>
outside  == <<reviews, seen, tokens>>
history  == <<starts, overlapped, shared, stale>>
vars == <<graph, storage, running, outside, requests, faults, history>>

\* confirmed: a review approved at least once; a token confirmed at least once.
Reviews == [status : {"none", "pending", "approved", "rejected"}, node : Nodes, start : Nat,
            approved : BOOLEAN]
Tokens  == [status : {"none", "pending", "first_confirmed", "running", "written", "gone"},
            node : Nodes, start : Nat, high : BOOLEAN, confirmed : BOOLEAN]
States  == [node : 1..End, status : {"none", "running", "paused", "done", "error"},
            review : 0..MaxReviews, token : 0..MaxTokens,
            approved : SUBSET Nodes, done : SUBSET Nodes, start : Nat]

Absent == [node |-> 1, status |-> "none", review |-> 0, token |-> 0, approved |-> {}, done |-> {},
           start |-> 0]
Fresh(k) == [Absent EXCEPT !.status = "running", !.start = k]

TypeOK ==
    /\ graph \in Shapes
    /\ connected \in BOOLEAN
    /\ redis \in States
    /\ map \in Objects \cup {None}
    /\ heap \in [Objects -> States]
    /\ obj \in [Runners -> Objects \cup {None}]
    /\ pc \in [Runners -> {"idle", "load", "review", "token", "run", "leave", "fail", "ask",
                           "create", "save", "clear"}]
    /\ steps \in [Runners -> 0..MaxSteps]
    /\ after \in [Runners -> {"idle", "run"}]
    /\ ticket \in [Runners -> Nat] /\ at \in [Runners -> 1..End]
    /\ reviews \in [1..MaxReviews -> Reviews]
    /\ seen \in SUBSET (1..MaxReviews)
    /\ tokens \in [1..MaxTokens -> Tokens]
    /\ requests \in 0..MaxRequests
    /\ faults \in 0..MaxFaults
    /\ starts \in Nat
    /\ overlapped \in BOOLEAN /\ shared \in BOOLEAN /\ stale \in BOOLEAN

Init ==
    /\ graph \in Shapes
    /\ connected \in BOOLEAN
    /\ redis = Absent
    /\ map = None
    /\ heap = [o \in Objects |-> Absent]
    /\ obj = [r \in Runners |-> None]
    /\ pc = [r \in Runners |-> "idle"]
    /\ steps = [r \in Runners |-> 0]
    /\ after = [r \in Runners |-> "idle"]
    /\ ticket = [r \in Runners |-> 0] /\ at = [r \in Runners |-> 1]
    /\ reviews = [i \in 1..MaxReviews |-> [status |-> "none", node |-> 1, start |-> 0, approved |-> FALSE]]
    /\ seen = {}
    /\ tokens = [i \in 1..MaxTokens |->
                   [status |-> "none", node |-> 1, start |-> 0, high |-> FALSE,
                    confirmed |-> FALSE]]
    /\ requests = 0 /\ faults = 0
    /\ starts = 0 /\ overlapped = FALSE /\ shared = FALSE /\ stale = FALSE

Fault   == faults < MaxFaults /\ faults' = faults + 1
NoFault == faults' = faults

State(r) == heap[obj[r]]
Kind(n)  == graph[n]

\* The request changes its object to s and goes on at a label.
Goto(r, label) == pc' = [pc EXCEPT ![r] = label]
Change(r, s)   == heap' = [heap EXCEPT ![obj[r]] = s]
Forget(r) ==
    /\ ticket' = [ticket EXCEPT ![r] = 0]
    /\ at' = [at EXCEPT ![r] = 1]
SaveThen(r, s, label) ==
    /\ Change(r, s) /\ Goto(r, "save") /\ Forget(r)
    /\ after' = [after EXCEPT ![r] = label]
\* The request ends; an object that nobody refers to any more is garbage.
Leave(r, kept) ==
    /\ heap' = IF obj[r] \in kept \/ \E q \in Runners \ {r} : obj[q] = obj[r]
               THEN heap ELSE [heap EXCEPT ![obj[r]] = Absent]
    /\ obj' = [obj EXCEPT ![r] = None]
    /\ pc' = [pc EXCEPT ![r] = "idle"]
    /\ steps' = [steps EXCEPT ![r] = 0]
    /\ after' = [after EXCEPT ![r] = "idle"]
    /\ Forget(r)

-----------------------------------------------------------------------------
(* CheckpointerService                                                     *)

\* Redis is not used, or a command fails.
WithoutRedis == IF connected THEN Fault ELSE NoFault

\* save(): SET, or a reference in the Map.
Save(r) ==
    /\ pc[r] = "save"
    /\ \/ connected /\ redis' = State(r) /\ NoFault /\ UNCHANGED map
       \/ WithoutRedis /\ map' = obj[r] /\ UNCHANGED redis
    /\ IF after[r] = "run" THEN Goto(r, "run") /\ UNCHANGED <<heap, obj, after, local>>
       ELSE Leave(r, {map'})
    /\ UNCHANGED <<graph, connected, outside, requests, history>>

\* clear(): both copies; a failed DEL is ignored.
Clear(r) ==
    /\ pc[r] = "clear"
    /\ map' = None
    /\ \/ connected /\ redis' = Absent /\ NoFault
       \/ WithoutRedis /\ UNCHANGED redis
    /\ Leave(r, {})
    /\ UNCHANGED <<graph, connected, outside, requests, history>>

\* The checkpoint expires 24 hours after the last save; no request lasts a day.
ExpireCheckpoint ==
    /\ redis # Absent /\ \A r \in Runners : pc[r] = "idle"
    /\ redis' = Absent
    /\ UNCHANGED <<graph, connected, map, running, outside, requests, faults, history>>

-----------------------------------------------------------------------------
(* execute(): load or begin, and the branches of a resumed graph           *)

Request(r) ==
    /\ pc[r] = "idle" /\ requests < MaxRequests
    /\ requests' = requests + 1
    /\ overlapped' = (overlapped \/ \E q \in Runners : pc[q] # "idle")
    /\ Goto(r, "load")
    /\ UNCHANGED <<graph, storage, heap, obj, after, local, outside, faults, starts, shared, stale>>

\* Where a request goes on with a checkpoint, and what it asks for there.
AwaitsReview(s) == s.status = "paused" /\ s.review # 0
AwaitsToken(s)  == s.status = "paused" /\ s.review = 0 /\ s.token # 0
Entry(r, s) ==
    /\ ticket' = [ticket EXCEPT ![r] = IF AwaitsReview(s) THEN s.review
                                       ELSE IF AwaitsToken(s) THEN s.token ELSE 0]
    /\ Goto(r, IF AwaitsReview(s) THEN "review" ELSE IF AwaitsToken(s) THEN "token" ELSE "run")

Unused == {o \in Objects : o # map /\ \A q \in Runners : obj[q] # o}

\* A new object with state s.  A graph that is done or absent starts anew.
Begin(r, s) ==
    LET new == s.status \in {"none", "done"}
        t   == IF new THEN Fresh(starts + 1) ELSE s
    IN  /\ \E o \in Unused :
              /\ o = CHOOSE x \in Unused : TRUE
              /\ obj' = [obj EXCEPT ![r] = o]
              /\ heap' = [heap EXCEPT ![o] = t]
        /\ Entry(r, t)
        /\ starts' = IF new THEN starts + 1 ELSE starts
        /\ UNCHANGED shared

\* The object of the Map.
Resume(r) ==
    /\ obj' = [obj EXCEPT ![r] = map]
    /\ Entry(r, heap[map])
    /\ shared' = (shared \/ \E q \in Runners : obj[q] = map)
    /\ UNCHANGED <<heap, starts>>

\* load(): GET, or the Map; a key that GET does not find is not looked up in
\* the Map.
Load(r) ==
    LET usable == map # None /\ heap[map].status \notin {"none", "done"} IN
    /\ pc[r] = "load"
    /\ \/ connected /\ Begin(r, redis) /\ NoFault
       \/ ~usable /\ Begin(r, Absent) /\ WithoutRedis
       \/ usable /\ Resume(r) /\ WithoutRedis
    /\ UNCHANGED <<graph, storage, after, steps, at, outside, requests, overlapped, stale>>

\* The review is pending or get() throws; rejected; or approved: then the node
\* where the object is now counts as approved.
ReadReview(r) ==
    /\ pc[r] = "review"
    /\ LET s == State(r)
           status == reviews[ticket[r]].status
       IN  \/ Leave(r, {map})
           \/ /\ status = "rejected"
              /\ SaveThen(r, [s EXCEPT !.status = "error"], "idle")
              /\ UNCHANGED <<obj, steps>>
           \/ /\ status = "approved"
              /\ Change(r, [s EXCEPT !.status = "running", !.review = 0,
                                     !.approved = @ \cup ({s.node} \cap Nodes)])
              /\ Goto(r, "run") /\ Forget(r) /\ UNCHANGED <<obj, steps, after>>
    /\ UNCHANGED <<graph, storage, outside, requests, faults, history>>

\* Every token that still exists counts as executed.
TakenIfPresent(status) == status # "gone"

\* The token is gone, waits, or is taken for executed.
TakenForExecuted(status) == status \in {"first_confirmed", "running", "written"}

\* The token is gone or cannot be read; or it waits.
NotConfirmed(r) ==
    LET s == State(r) IN
    \/ /\ \/ tokens[ticket[r]].status = "gone" /\ NoFault
          \/ Fault
       /\ SaveThen(r, [s EXCEPT !.status = "error", !.token = 0], "idle")
    \/ /\ tokens[ticket[r]].status = "pending" /\ NoFault
       /\ SaveThen(r, s, "idle")

\* The graph is resumed at the suspended node and not after it.
ReadTokenAgain(r) ==
    /\ pc[r] = "token"
    /\ \/ NotConfirmed(r)
       \/ /\ TakenForExecuted(tokens[ticket[r]].status) /\ NoFault
          /\ SaveThen(r, [State(r) EXCEPT !.status = "running", !.token = 0], "run")
    /\ UNCHANGED <<graph, storage, obj, steps, outside, requests, history>>

\* The node where the object is now counts as done.
ReadToken(r) ==
    /\ pc[r] = "token"
    /\ \/ NotConfirmed(r)
       \/ /\ TakenForExecuted(tokens[ticket[r]].status) /\ NoFault
          /\ LET s == State(r) IN
             SaveThen(r, [s EXCEPT !.status = "running", !.token = 0,
                                   !.node = IF @ = End THEN End ELSE @ + 1,
                                   !.done = @ \cup ({s.node} \cap Nodes)], "run")
    /\ UNCHANGED <<graph, storage, obj, steps, outside, requests, history>>

-----------------------------------------------------------------------------
(* execute(): the turns of the loop                                        *)

ToolTypes == {"read", "write", "direct"}

\* One node more than the limit.
TurnOnceMore(r, types) ==
    /\ pc[r] = "run" /\ steps[r] <= MaxSteps
    /\ State(r).node \in Nodes /\ Kind(State(r).node).type \in types
    /\ steps' = [steps EXCEPT ![r] = @ + 1]

\* Nobody counts.
TurnUncounted(r, types) ==
    /\ pc[r] = "run" /\ steps[r] < MaxSteps
    /\ State(r).node \in Nodes /\ Kind(State(r).node).type \in types
    /\ UNCHANGED steps

\* The loop goes round: the request is at a node of a certain type.
Turn(r, types) ==
    /\ pc[r] = "run" /\ steps[r] < MaxSteps
    /\ State(r).node \in Nodes /\ Kind(State(r).node).type \in types
    /\ steps' = [steps EXCEPT ![r] = @ + 1]
Frame == UNCHANGED <<graph, storage, obj, seen, requests, faults, history>>

\* The work at this node will come to an end somewhere else.
Await(r, labels) ==
    /\ \E label \in labels : Goto(r, label)
    /\ at' = [at EXCEPT ![r] = State(r).node]
    /\ UNCHANGED <<heap, after, ticket, reviews, tokens>>

TooManySteps(r) ==
    /\ pc[r] = "run" /\ steps[r] = MaxSteps
    /\ SaveThen(r, [State(r) EXCEPT !.status = "error"], "idle")
    /\ UNCHANGED <<steps, reviews, tokens>> /\ Frame

RunEnd(r) ==
    /\ pc[r] = "run" /\ steps[r] < MaxSteps /\ State(r).node = End
    /\ Change(r, [State(r) EXCEPT !.status = "done"])
    /\ Goto(r, "clear")
    /\ UNCHANGED <<after, local, reviews, tokens>> /\ Frame

\* A condition leads to any node, or it throws.
RunCondition(r) ==
    /\ Turn(r, {"condition"})
    /\ \/ \E n \in 1..End :
             SaveThen(r, [State(r) EXCEPT !.node = n, !.done = @ \cup {State(r).node}], "run")
       \/ SaveThen(r, [State(r) EXCEPT !.status = "error"], "idle")
    /\ UNCHANGED <<reviews, tokens>> /\ Frame

\* An agent is never stopped for a review.
RunAgent(r) == Turn(r, {"agent"}) /\ Await(r, {"leave", "fail"}) /\ Frame

\* A node whose review was asked for before is not stopped again.
NeedsReviewUnasked(s) == Kind(s.node).review /\ s.review = 0 /\ s.node \notin s.approved

NeedsReview(s) == Kind(s.node).review /\ s.node \notin s.approved

\* confirm in the arguments is taken back unless a review has approved the node.
Writes(s) == Kind(s.node).type = "direct" /\ s.node \in s.approved

\* A tool that needs a review waits for it.  A reading tool ends the node, and
\* so does a writing one that is let through; any other writing one returns a
\* preview.  Each may fail.
RunTool(r) ==
    LET s == State(r) IN
    /\ Turn(r, ToolTypes)
    /\ Await(r, {IF NeedsReview(s) THEN "ask"
                 ELSE IF Kind(s.node).type = "read" \/ Writes(s) THEN "leave"
                 ELSE "create",
                 "fail"})
    /\ Frame

-----------------------------------------------------------------------------
(* execute(): after the await                                              *)

Fails(r) ==
    /\ pc[r] = "fail"
    /\ SaveThen(r, [State(r) EXCEPT !.status = "error"], "idle")
    /\ UNCHANGED <<steps, reviews, tokens>> /\ Frame

Succeeds(r) ==
    /\ pc[r] = "leave" /\ at[r] \in Nodes
    /\ SaveThen(r, [State(r) EXCEPT !.node = at[r] + 1, !.done = @ \cup {at[r]}], "run")
    /\ UNCHANGED <<steps, reviews, tokens>> /\ Frame

\* reviewTaskService.create(), then the pause.
AskReview(r) ==
    /\ pc[r] = "ask" /\ at[r] \in Nodes
    /\ \E i \in 1..MaxReviews :
          /\ reviews[i].status = "none" /\ \A j \in 1..(i - 1) : reviews[j].status # "none"
          /\ reviews' = [reviews EXCEPT ![i].status = "pending", ![i].node = at[r],
                                          ![i].start = State(r).start]
          /\ SaveThen(r, [State(r) EXCEPT !.status = "paused", !.review = i], "idle")
    /\ UNCHANGED <<steps, tokens>> /\ Frame

\* confirmationService.create(), then the pause.
CreateToken(r) ==
    /\ pc[r] = "create" /\ at[r] \in Nodes
    /\ \E i \in 1..MaxTokens :
          /\ tokens[i].status = "none" /\ \A j \in 1..(i - 1) : tokens[j].status # "none"
          /\ tokens' = [tokens EXCEPT ![i] =
               [status |-> "pending", node |-> at[r], start |-> State(r).start,
                high |-> Kind(at[r]).high, confirmed |-> FALSE]]
          /\ SaveThen(r, [State(r) EXCEPT !.status = "paused", !.token = i], "idle")
    /\ UNCHANGED <<steps, reviews>> /\ Frame

\* Either of them throws.
CreateFails(r) ==
    /\ pc[r] \in {"ask", "create"}
    /\ SaveThen(r, [State(r) EXCEPT !.status = "error"], "idle")
    /\ UNCHANGED <<steps, reviews, tokens>> /\ Frame

-----------------------------------------------------------------------------
(* ReviewTaskService: read, check, save, by any number of requests         *)

ReadTask(i) ==
    /\ reviews[i].status = "pending" /\ i \notin seen
    /\ seen' = seen \cup {i}
    /\ UNCHANGED <<graph, storage, running, reviews, tokens, requests, faults, history>>

\* One that has read the task decides; others that have read it may still do so.
Decide(i, status) ==
    /\ i \in seen
    /\ reviews' = [reviews EXCEPT ![i].status = status, ![i].approved = @ \/ status = "approved"]
    /\ UNCHANGED <<graph, storage, running, seen, tokens, requests, faults, history>>

-----------------------------------------------------------------------------
(* The confirmation of a write, and the surroundings                       *)

Move(i, from, to) ==
    /\ tokens[i].status \in from
    /\ tokens' = [tokens EXCEPT ![i].status = to,
                                ![i].confirmed = @ \/ to \in {"first_confirmed", "running"}]
    /\ stale' = (stale \/ tokens[i].status = "written")
    /\ UNCHANGED <<graph, storage, running, reviews, seen, requests, faults, starts, overlapped,
                   shared>>

ConfirmToken(i) ==
    \/ tokens[i].high /\ Move(i, {"pending"}, "first_confirmed")
    \/ Move(i, {IF tokens[i].high THEN "first_confirmed" ELSE "pending"}, "running")
Written(i)     == Move(i, {"running"}, "written")
WriteFails(i)  == Move(i, {"running"}, "pending")
\* Cancelled or expired.
TokenGone(i)   == Move(i, {"pending", "first_confirmed", "written"}, "gone")

Restart ==
    /\ Fault
    /\ connected' \in BOOLEAN
    /\ map' = None
    /\ heap' = [o \in Objects |-> Absent]
    /\ obj' = [r \in Runners |-> None]
    /\ pc' = [r \in Runners |-> "idle"]
    /\ steps' = [r \in Runners |-> 0]
    /\ after' = [r \in Runners |-> "idle"]
    /\ ticket' = [r \in Runners |-> 0] /\ at' = [r \in Runners |-> 1]
    /\ seen' = {}
    /\ UNCHANGED <<graph, redis, reviews, tokens, requests, history>>

Run(r) ==
    \/ Load(r) \/ ReadReview(r) \/ ReadToken(r) \/ Save(r) \/ Clear(r)
    \/ TooManySteps(r) \/ RunEnd(r) \/ RunCondition(r) \/ RunAgent(r) \/ RunTool(r)
    \/ Fails(r) \/ Succeeds(r) \/ AskReview(r) \/ CreateToken(r) \/ CreateFails(r)

Next ==
    \/ \E r \in Runners : Request(r) \/ Run(r)
    \/ \E i \in 1..MaxReviews : ReadTask(i) \/ \E d \in {"approved", "rejected"} : Decide(i, d)
    \/ \E i \in 1..MaxTokens : ConfirmToken(i) \/ Written(i) \/ WriteFails(i) \/ TokenGone(i)
    \/ ExpireCheckpoint \/ Restart

Spec == Init /\ [][Next]_vars

\* The event loop runs a request on.
FairSpec == Spec /\ \A r \in Runners : WF_vars(Run(r))

-----------------------------------------------------------------------------
(* Properties                                                              *)

\* The graph states that can still be used.
Live == {redis} \cup {heap[o] : o \in {x \in Objects : x = map \/ \E r \in Runners : obj[r] = x}}

\* A review, or a token, of node n that the start k of the graph asked for.
Approved(n, k)  == \E i \in 1..MaxReviews :
                       reviews[i].node = n /\ reviews[i].start = k /\ reviews[i].approved
Confirmed(n, k) == \E i \in 1..MaxTokens :
                       tokens[i].node = n /\ tokens[i].start = k /\ tokens[i].confirmed

\* A write node is recorded as done only if a user has confirmed a token that
\* this start of the graph created for this node (resuming from
\* pendingWriteToken), or, for a node that an approval lets through, if a
\* reviewer approved it for this start: a cancelled, expired or waiting write is
\* never passed over, and what was granted to an earlier start does not count.
\* Two requests that work on one object of the Map move each other's node, and
\* break this.
DoneWasConfirmed ==
    shared \/ \A s \in Live : \A n \in s.done :
        /\ graph[n].type = "write" => Confirmed(n, s.start)
        /\ graph[n].type = "direct" => Approved(n, s.start) \/ Confirmed(n, s.start)

\* A node that needs a review is executed, or suspended for a confirmation,
\* only if a reviewer approved a task that this start of the graph asked for
\* this node (the gate before executeToolCall): a graph that is started again,
\* resumed from an old checkpoint or by two requests at once asks again, unless
\* two requests worked on one object.  The task was approved at some time; a
\* later decision may have written rejected over it, as approve() and reject()
\* write over each other.
ReviewedFirst ==
    \/ shared
    \/ /\ \A i \in 1..MaxTokens :
             tokens[i].status # "none" /\ graph[tokens[i].node].review =>
                 Approved(tokens[i].node, tokens[i].start)
       /\ \A s \in Live : \A n \in s.done :
             graph[n].type \in ToolTypes /\ graph[n].review => Approved(n, s.start)

\* On a graph that does not go round, requests that do not overlap write a node
\* through a confirmed token at most once for each time the graph was started,
\* unless a fault or the end of a written token's life took away what the
\* resumed graph needs to know.  Writes of nodes that an approval let through
\* have no token and are not counted.
WrittenOncePerStart ==
    /\ \A n \in Nodes : graph[n].type # "condition"
    /\ ~overlapped /\ ~stale /\ faults = 0
    => \A n \in Nodes :
        Cardinality({i \in 1..MaxTokens : tokens[i].node = n /\ tokens[i].status = "written"}) <= starts

\* Every request ends, even on a graph that goes round (MAX_NODE_STEPS).
RequestsEnd == \A r \in Runners : pc[r] # "idle" ~> pc[r] = "idle"
=============================================================================
