------------------------- MODULE GraphExecutionProofs -------------------------
(***************************************************************************)
(* Theorems about GraphExecution, for every graph and every number of      *)
(* requests, reviews and tokens.                                           *)
(***************************************************************************)
EXTENDS GraphExecution, FiniteSetTheorems, TLAPS

-----------------------------------------------------------------------------
(* Typing                                                                  *)

\* A request that has loaded has an object.
Held == \A r \in Runners : pc[r] \notin {"idle", "load"} => obj[r] \in Objects

TypeInv == TypeOK /\ Held

Labels == {"idle", "load", "review", "token", "run", "leave", "fail", "ask", "create", "save",
           "clear"}

\* The variables of a request, the object it works on, and the rest.
LocalOK ==
    /\ heap \in [Objects -> States]
    /\ obj \in [Runners -> Objects \cup {None}]
    /\ pc \in [Runners -> Labels]
    /\ steps \in [Runners -> 0..MaxSteps]
    /\ after \in [Runners -> {"idle", "run"}]
    /\ ticket \in [Runners -> Nat] /\ at \in [Runners -> 1..End]
StoreOK ==
    /\ graph \in Shapes
    /\ connected \in BOOLEAN
    /\ redis \in States
    /\ map \in Objects \cup {None}
OutsideOK ==
    /\ reviews \in [1..MaxReviews -> Reviews]
    /\ seen \in SUBSET (1..MaxReviews)
    /\ tokens \in [1..MaxTokens -> Tokens]
CountsOK ==
    /\ requests \in 0..MaxRequests
    /\ faults \in 0..MaxFaults
    /\ starts \in Nat
    /\ overlapped \in BOOLEAN /\ shared \in BOOLEAN /\ stale \in BOOLEAN

LEMMA Parts == TypeOK <=> LocalOK /\ StoreOK /\ OutsideOK /\ CountsOK
  BY DEF TypeOK, LocalOK, StoreOK, OutsideOK, CountsOK, Labels

\* The graph assigns a kind to every node, and a node is followed by another or the end.
LEMMA NodesOK ==
    ASSUME GraphAssumption, StoreOK
    PROVE  /\ graph \in [Nodes -> NodeKinds]
           /\ End \in Nat /\ Nodes \subseteq 1..End /\ 1 \in 1..End
           /\ \A n \in Nodes : n + 1 \in 1..End
  BY DEF GraphAssumption, StoreOK, Nodes, End

LEMMA AbsentOK ==
    ASSUME GraphAssumption PROVE Absent \in States /\ \A k \in Nat : Fresh(k) \in States
<1>1. Absent \in States
  BY DEF GraphAssumption, Absent, States, End
<1>2. ASSUME NEW k \in Nat PROVE [Absent EXCEPT !.status = "running", !.start = k] \in States
  BY <1>1, <1>2 DEF States
<1> QED
  BY <1>1, <1>2 DEF Fresh

LEMMA FaultOK == ASSUME GraphAssumption, CountsOK, Fault \/ NoFault PROVE faults' \in 0..MaxFaults
  BY DEF GraphAssumption, CountsOK, Fault, NoFault

LEMMA ForgetOK ==
    ASSUME GraphAssumption, LocalOK, NEW r \in Runners, Forget(r)
    PROVE  ticket' \in [Runners -> Nat] /\ at' \in [Runners -> 1..End]
<1>1. 1 \in 1..End
  BY DEF GraphAssumption, End
<1> QED
  BY <1>1 DEF Forget, LocalOK

\* A request changes its object and goes on.
LEMMA SaveThenOK ==
    ASSUME GraphAssumption, LocalOK, Held, NEW r \in Runners, NEW s \in States,
           NEW label \in {"idle", "run"}, SaveThen(r, s, label), obj' = obj,
           steps' \in [Runners -> 0..MaxSteps], pc[r] \notin {"idle", "load"}
    PROVE  LocalOK' /\ Held'
<1>1. heap' \in [Objects -> States] /\ pc' \in [Runners -> Labels]
  BY DEF LocalOK, SaveThen, Change, Goto, Labels
<1>2. /\ after' \in [Runners -> {"idle", "run"}]
      /\ ticket' \in [Runners -> Nat] /\ at' \in [Runners -> 1..End]
  BY ForgetOK DEF LocalOK, SaveThen
<1>3. Held'
  BY DEF LocalOK, Held, SaveThen, Goto
<1> QED
  BY <1>1, <1>2, <1>3 DEF LocalOK

LEMMA LeaveOK ==
    ASSUME GraphAssumption, LocalOK, Held, NEW r \in Runners, NEW kept, Leave(r, kept)
    PROVE  LocalOK' /\ Held'
<1>1. heap' \in [Objects -> States]
  BY AbsentOK DEF Leave, LocalOK
<1>2. /\ obj' \in [Runners -> Objects \cup {None}] /\ pc' \in [Runners -> Labels]
      /\ steps' \in [Runners -> 0..MaxSteps] /\ after' \in [Runners -> {"idle", "run"}]
      /\ ticket' \in [Runners -> Nat] /\ at' \in [Runners -> 1..End]
  BY ForgetOK DEF GraphAssumption, Leave, LocalOK, Labels
<1>3. Held'
  BY DEF Leave, LocalOK, Held
<1> QED
  BY <1>1, <1>2, <1>3 DEF LocalOK

LEMMA InitTypeInv == GraphAssumption /\ Init => TypeInv
<1> SUFFICES ASSUME GraphAssumption, Init PROVE TypeInv
  OBVIOUS
<1>1. LocalOK /\ StoreOK
  <2>1. 1 \in 1..End /\ MaxSteps \in Nat
    BY DEF GraphAssumption, End
  <2> QED
    BY <2>1, AbsentOK DEF Init, LocalOK, StoreOK, Labels
<1>2. OutsideOK /\ CountsOK
  <2>1. 1 \in Nodes /\ 0 \in 0..MaxReviews /\ 0 \in 0..MaxRequests /\ 0 \in 0..MaxFaults
    BY DEF GraphAssumption, Nodes
  <2>2. OutsideOK
    BY <2>1 DEF Init, OutsideOK, Reviews, Tokens
  <2>3. CountsOK
    BY <2>1 DEF Init, CountsOK
  <2> QED
    BY <2>2, <2>3
<1> QED
  BY <1>1, <1>2, Parts DEF TypeInv, Held, Init

\* A request's object is a state.
LEMMA StateOK ==
    ASSUME LocalOK, Held, NEW r \in Runners, pc[r] \notin {"idle", "load"}
    PROVE  obj[r] \in Objects /\ State(r) \in States
  BY DEF LocalOK, Held, State
\* The ranges in which the ids and the nodes of a state lie.
LEMMA Zeros ==
    ASSUME GraphAssumption PROVE 0 \in 0..MaxReviews /\ 0 \in 0..MaxTokens
  BY DEF GraphAssumption

LEMMA Gathers == ASSUME NEW S, NEW A \in SUBSET S, NEW x PROVE A \cup ({x} \cap S) \in SUBSET S
  OBVIOUS

AllOK == LocalOK /\ Held /\ StoreOK /\ OutsideOK /\ CountsOK

LEMMA EntryOK ==
    ASSUME GraphAssumption, LocalOK, NEW r \in Runners, NEW s \in States, Entry(r, s)
    PROVE  /\ ticket' \in [Runners -> Nat] /\ pc' \in [Runners -> Labels]
           /\ \A q \in Runners \ {r} : pc'[q] = pc[q]
<1>1. s.review \in Nat /\ s.token \in Nat
  BY DEF GraphAssumption, States
<1> QED
  BY <1>1 DEF Entry, Goto, LocalOK, Labels

LEMMA LoadOK == ASSUME GraphAssumption, AllOK, NEW r \in Runners, Load(r) PROVE AllOK'
<1> USE DEF AllOK
<1>0. /\ WithoutRedis \/ NoFault
      /\ Begin(r, redis) \/ Begin(r, Absent) \/ (map # None /\ Resume(r))
  BY DEF Load
<1>1. /\ pc[r] = "load"
      /\ Begin(r, redis) \/ Begin(r, Absent) \/ (map # None /\ Resume(r))
      /\ UNCHANGED <<graph, storage, after, steps, at, outside, requests, overlapped, stale>>
  BY <1>0 DEF Load
<1>2. faults' \in 0..MaxFaults
  BY <1>0, FaultOK DEF WithoutRedis
<1>3. ASSUME NEW s \in States, Begin(r, s)
      PROVE  LocalOK' /\ Held' /\ starts' \in Nat /\ shared' = shared
  <2> DEFINE t == IF s.status \in {"none", "done"} THEN Fresh(starts + 1) ELSE s
  <2>1. t \in States
    BY AbsentOK DEF CountsOK
  <2>2. PICK o \in Unused : obj' = [obj EXCEPT ![r] = o] /\ heap' = [heap EXCEPT ![o] = t]
    BY <1>3 DEF Begin
  <2>3. Entry(r, t) /\ starts' \in {starts, starts + 1} /\ shared' = shared
    BY <1>3 DEF Begin
  <2> HIDE DEF t
  <2>4. o \in Objects
    BY <2>2 DEF Unused
  <2>5. LocalOK'
    BY <1>1, <2>1, <2>2, <2>3, <2>4, EntryOK DEF LocalOK
  <2>6. Held'
    BY <2>1, <2>2, <2>3, <2>4, EntryOK DEF Held, LocalOK
  <2> QED
    BY <2>3, <2>5, <2>6 DEF CountsOK
<1>4. ASSUME map # None, Resume(r)
      PROVE  LocalOK' /\ Held' /\ starts' \in Nat /\ shared' \in BOOLEAN
  <2>1. map \in Objects /\ heap[map] \in States /\ Entry(r, heap[map])
    BY <1>4 DEF Resume, StoreOK, LocalOK
  <2>2. obj' = [obj EXCEPT ![r] = map] /\ UNCHANGED <<heap, starts>>
    BY <1>4 DEF Resume
  <2>3. LocalOK' /\ Held'
    BY <1>1, <2>1, <2>2, EntryOK DEF LocalOK, Held
  <2>4. shared' \in BOOLEAN
    BY <1>4 DEF Resume, CountsOK
  <2> QED
    BY <2>2, <2>3, <2>4 DEF CountsOK
<1>5. LocalOK' /\ Held' /\ starts' \in Nat /\ shared' \in BOOLEAN
  BY <1>1, <1>3, <1>4, AbsentOK DEF StoreOK, CountsOK
<1>6. StoreOK' /\ OutsideOK'
  BY <1>1 DEF StoreOK, OutsideOK, storage, outside
<1> QED
  BY <1>1, <1>2, <1>5, <1>6 DEF CountsOK

LEMMA SaveOK == ASSUME GraphAssumption, AllOK, NEW r \in Runners, Save(r) PROVE AllOK'
<1> USE DEF AllOK
<1>1. /\ pc[r] = "save" /\ UNCHANGED <<graph, connected, outside, requests, history>>
      /\ redis' \in {redis, State(r)} /\ map' \in {map, obj[r]} /\ faults' \in 0..MaxFaults
  BY FaultOK DEF Save, WithoutRedis
<1>2. State(r) \in States /\ obj[r] \in Objects
  BY <1>1, StateOK
<1>3. StoreOK' /\ OutsideOK' /\ CountsOK'
  BY <1>1, <1>2 DEF StoreOK, OutsideOK, CountsOK, outside, history
<1>4. CASE after[r] = "run"
  BY <1>1, <1>2, <1>3, <1>4 DEF Save, Goto, LocalOK, Held, Labels, local
<1>5. CASE after[r] # "run"
  BY <1>3, <1>5, LeaveOK DEF Save
<1> QED
  BY <1>4, <1>5

LEMMA ClearOK == ASSUME GraphAssumption, AllOK, NEW r \in Runners, Clear(r) PROVE AllOK'
<1> USE DEF AllOK
<1>1. /\ UNCHANGED <<graph, connected, outside, requests, history>> /\ Leave(r, {})
      /\ redis' \in {redis, Absent} /\ map' = None /\ faults' \in 0..MaxFaults
  BY FaultOK DEF Clear, WithoutRedis
<1>2. StoreOK' /\ OutsideOK' /\ CountsOK'
  BY <1>1, AbsentOK DEF StoreOK, OutsideOK, CountsOK, outside, history
<1> QED
  BY <1>1, <1>2, LeaveOK

LEMMA ReadReviewOK == ASSUME GraphAssumption, AllOK, NEW r \in Runners, ReadReview(r) PROVE AllOK'
<1> USE DEF AllOK
<1> DEFINE s == State(r)
<1>1. /\ pc[r] = "review" /\ UNCHANGED <<graph, storage, outside, requests, faults, history>>
  BY DEF ReadReview
<1>2. s \in States /\ obj[r] \in Objects
  BY <1>1, StateOK
<1>3. StoreOK' /\ OutsideOK' /\ CountsOK'
  BY <1>1 DEF StoreOK, OutsideOK, CountsOK, storage, outside, history
<1>4. CASE Leave(r, {map})
  BY <1>3, <1>4, LeaveOK
<1>5. CASE SaveThen(r, [s EXCEPT !.status = "error"], "idle") /\ UNCHANGED <<obj, steps>>
  <2>1. [s EXCEPT !.status = "error"] \in States
    BY <1>2 DEF States
  <2> HIDE DEF s
  <2>2. steps' \in [Runners -> 0..MaxSteps]
    BY <1>5 DEF LocalOK
  <2> QED
    BY <1>1, <1>3, <1>5, <2>1, <2>2, SaveThenOK
<1> DEFINE t == [s EXCEPT !.status = "running", !.review = 0,
                          !.approved = @ \cup ({s.node} \cap Nodes)]
<1>6. CASE Change(r, t) /\ Goto(r, "run") /\ Forget(r) /\ UNCHANGED <<obj, steps, after>>
  <2>1. s.approved \cup ({s.node} \cap Nodes) \in SUBSET Nodes
    BY <1>2, Gathers DEF States
  <2>2. t \in States
    BY <1>2, <2>1, Zeros DEF States
  <2> HIDE DEF t
  <2>3. LocalOK'
    BY <1>6, <2>2, ForgetOK DEF Change, Goto, LocalOK, Labels
  <2>4. Held'
    BY <1>2, <1>6 DEF Goto, LocalOK, Held
  <2> QED
    BY <1>3, <2>3, <2>4
<1> QED
  BY <1>4, <1>5, <1>6 DEF ReadReview

\* The request saves some state and goes on; nothing else but a review or a
\* token comes of it.
LEMMA SavesOK ==
    ASSUME GraphAssumption, AllOK, NEW r \in Runners, pc[r] \notin {"idle", "load"},
           NEW s \in States, NEW label \in {"idle", "run"}, SaveThen(r, s, label),
           UNCHANGED <<graph, storage, obj, seen, requests, history>>,
           steps' \in [Runners -> 0..MaxSteps],
           reviews' \in [1..MaxReviews -> Reviews], tokens' \in [1..MaxTokens -> Tokens],
           faults' \in 0..MaxFaults
    PROVE  AllOK'
<1> USE DEF AllOK
<1>1. StoreOK' /\ OutsideOK' /\ CountsOK'
  BY DEF StoreOK, OutsideOK, CountsOK, storage, history
<1> QED
  BY <1>1, SaveThenOK

LEMMA ReadTokenOK == ASSUME GraphAssumption, AllOK, NEW r \in Runners, ReadToken(r) PROVE AllOK'
<1> USE DEF AllOK
<1> DEFINE s == State(r)
           t == [s EXCEPT !.status = "error", !.token = 0]
           u == [s EXCEPT !.status = "running", !.token = 0,
                          !.node = IF @ = End THEN End ELSE @ + 1,
                          !.done = @ \cup ({s.node} \cap Nodes)]
<1>1. /\ pc[r] = "token" /\ UNCHANGED <<graph, storage, obj, steps, outside, requests, history>>
      /\ faults' \in 0..MaxFaults
      /\ \/ SaveThen(r, t, "idle") \/ SaveThen(r, s, "idle") \/ SaveThen(r, u, "run")
  BY FaultOK DEF ReadToken, NotConfirmed
<1>2. s \in States
  BY <1>1, StateOK
<1>3. t \in States
  BY <1>2, Zeros DEF States
<1>4. u \in States
  <2>1. s.node # End => s.node + 1 \in 1..End
    BY <1>2 DEF States, End, GraphAssumption
  <2>2. s.done \cup ({s.node} \cap Nodes) \in SUBSET Nodes
    BY <1>2, Gathers DEF States
  <2> QED
    BY <1>2, <2>1, <2>2, Zeros DEF States
<1>5. UNCHANGED <<seen, reviews, tokens>>
  BY <1>1 DEF outside
<1>6. reviews' \in [1..MaxReviews -> Reviews] /\ tokens' \in [1..MaxTokens -> Tokens]
  BY <1>5 DEF OutsideOK
<1>7. steps' \in [Runners -> 0..MaxSteps]
  BY <1>1 DEF LocalOK
<1> HIDE DEF s, t, u
<1> QED
  BY <1>1, <1>2, <1>3, <1>4, <1>5, <1>6, <1>7, SavesOK

LEMMA TurnOK ==
    ASSUME GraphAssumption, AllOK, NEW r \in Runners, NEW types, Turn(r, types)
    PROVE  /\ pc[r] = "run" /\ State(r) \in States /\ obj[r] \in Objects
           /\ State(r).node \in Nodes
           /\ steps' \in [Runners -> 0..MaxSteps]
<1>1. pc[r] = "run" /\ State(r).node \in Nodes
  BY DEF Turn
<1>2. steps[r] + 1 \in 0..MaxSteps
  BY DEF Turn, AllOK, LocalOK, GraphAssumption
<1>3. steps' \in [Runners -> 0..MaxSteps]
  BY <1>2 DEF Turn, AllOK, LocalOK
<1> QED
  BY <1>1, <1>3, StateOK DEF AllOK

LEMMA AwaitsOK ==
    ASSUME GraphAssumption, AllOK, NEW r \in Runners, NEW types, Turn(r, types),
           NEW labels \in SUBSET {"leave", "fail", "ask", "create"}, Await(r, labels), Frame
    PROVE  AllOK'
<1> USE DEF AllOK
<1>1. /\ pc[r] = "run" /\ State(r) \in States /\ obj[r] \in Objects
      /\ State(r).node \in 1..End
      /\ steps' \in [Runners -> 0..MaxSteps]
  BY TurnOK DEF States
<1>2. PICK label \in labels : pc' = [pc EXCEPT ![r] = label]
  BY DEF Await, Goto
<1>3. at' = [at EXCEPT ![r] = State(r).node] /\ UNCHANGED <<heap, after, ticket, reviews, tokens>>
  BY DEF Await
<1>4. UNCHANGED <<graph, storage, obj, seen, requests, faults, history>>
  BY DEF Frame
<1>5. StoreOK' /\ OutsideOK' /\ CountsOK'
  BY <1>3, <1>4 DEF StoreOK, OutsideOK, CountsOK, storage, history
<1>6. LocalOK' /\ Held'
  BY <1>1, <1>2, <1>3, <1>4 DEF LocalOK, Held, Labels
<1> QED
  BY <1>5, <1>6

\* Any state may fail.
LEMMA ErrorOK == ASSUME NEW s \in States PROVE [s EXCEPT !.status = "error"] \in States
  BY DEF States

\* The steps of the loop that end in a save.
LEMMA LoopSavesOK ==
    ASSUME GraphAssumption, AllOK, NEW r \in Runners,
           \/ TooManySteps(r) \/ RunCondition(r) \/ Fails(r) \/ Succeeds(r) \/ CreateFails(r)
    PROVE  AllOK'
<1> USE DEF AllOK
<1>1. /\ pc[r] \notin {"idle", "load"}
      /\ UNCHANGED <<reviews, tokens>> /\ Frame
  BY DEF TooManySteps, RunCondition, Turn, Fails, Succeeds, CreateFails
<1>2. steps' \in [Runners -> 0..MaxSteps]
  BY TurnOK DEF TooManySteps, RunCondition, Fails, Succeeds, CreateFails, LocalOK
<1>3. State(r) \in States
  BY <1>1, StateOK
<1>4. /\ UNCHANGED <<graph, storage, obj, seen, requests, history>> /\ faults' \in 0..MaxFaults
      /\ reviews' \in [1..MaxReviews -> Reviews] /\ tokens' \in [1..MaxTokens -> Tokens]
  BY <1>1 DEF Frame, OutsideOK, CountsOK
<1>5. \E t \in States, label \in {"idle", "run"} : SaveThen(r, t, label)
  <2>1. CASE TooManySteps(r) \/ Fails(r) \/ CreateFails(r)
    BY <1>3, <2>1, ErrorOK DEF TooManySteps, Fails, CreateFails
  <2>2. CASE RunCondition(r)
    <3>1. State(r).node \in Nodes
      BY <2>2 DEF RunCondition, Turn
    <3>2. ASSUME NEW n \in 1..End
          PROVE  [State(r) EXCEPT !.node = n, !.done = @ \cup {State(r).node}] \in States
      BY <1>3, <3>1 DEF States
    <3> QED
      BY <1>3, <2>2, <3>2, ErrorOK DEF RunCondition
  <2>3. CASE Succeeds(r)
    <3>1. at[r] \in Nodes /\ at[r] + 1 \in 1..End
      BY <2>3, NodesOK DEF Succeeds
    <3>2. [State(r) EXCEPT !.node = at[r] + 1, !.done = @ \cup {at[r]}] \in States
      BY <1>3, <3>1 DEF States
    <3> QED
      BY <2>3, <3>2 DEF Succeeds
  <2> QED
    BY <2>1, <2>2, <2>3
<1> QED
  BY <1>1, <1>2, <1>4, <1>5, SavesOK

LEMMA AskReviewOK == ASSUME GraphAssumption, AllOK, NEW r \in Runners, AskReview(r) PROVE AllOK'
<1> USE DEF AllOK
<1>1. /\ pc[r] = "ask" /\ at[r] \in Nodes
      /\ UNCHANGED <<graph, storage, obj, seen, requests, history, tokens, faults, steps>>
  BY DEF AskReview, Frame
<1>2. PICK i \in 1..MaxReviews :
         /\ reviews' = [reviews EXCEPT ![i].status = "pending", ![i].node = at[r],
                                        ![i].start = State(r).start]
         /\ SaveThen(r, [State(r) EXCEPT !.status = "paused", !.review = i], "idle")
  BY DEF AskReview
<1>3. State(r) \in States
  BY <1>1, StateOK
<1>4. [State(r) EXCEPT !.status = "paused", !.review = i] \in States
  <2>1. i \in 0..MaxReviews
    BY DEF GraphAssumption
  <2> QED
    BY <1>3, <2>1 DEF States
<1>5. reviews' \in [1..MaxReviews -> Reviews]
  <2>1. State(r).start \in Nat
    BY <1>3 DEF States
  <2>2. PICK k \in Nat, n \in Nodes : k = State(r).start /\ n = at[r]
    BY <1>1, <2>1
  <2>3. reviews' = [reviews EXCEPT ![i].status = "pending", ![i].node = n, ![i].start = k]
    BY <1>2, <2>2
  <2>4. [reviews[i] EXCEPT !.status = "pending", !.node = n, !.start = k] \in Reviews
    BY DEF OutsideOK, Reviews
  <2> QED
    BY <2>3, <2>4 DEF OutsideOK
<1>6. /\ tokens' \in [1..MaxTokens -> Tokens] /\ faults' \in 0..MaxFaults
      /\ steps' \in [Runners -> 0..MaxSteps]
  BY <1>1 DEF OutsideOK, CountsOK, LocalOK
<1> QED
  BY <1>1, <1>2, <1>4, <1>5, <1>6, SavesOK

LEMMA CreateTokenOK == ASSUME GraphAssumption, AllOK, NEW r \in Runners, CreateToken(r) PROVE AllOK'
<1> USE DEF AllOK
<1>1. /\ pc[r] = "create" /\ at[r] \in Nodes
      /\ UNCHANGED <<graph, storage, obj, seen, requests, history, reviews, faults, steps>>
  BY DEF CreateToken, Frame
<1>2. PICK i \in 1..MaxTokens :
         /\ tokens' = [tokens EXCEPT ![i] =
               [status |-> "pending", node |-> at[r], start |-> State(r).start,
                high |-> Kind(at[r]).high, confirmed |-> FALSE]]
         /\ SaveThen(r, [State(r) EXCEPT !.status = "paused", !.token = i], "idle")
  BY DEF CreateToken
<1>3. State(r) \in States
  BY <1>1, StateOK
<1>4. [State(r) EXCEPT !.status = "paused", !.token = i] \in States
  <2>1. i \in 0..MaxTokens
    BY DEF GraphAssumption
  <2> QED
    BY <1>3, <2>1 DEF States
<1>5. Kind(at[r]).high \in BOOLEAN
  BY <1>1, NodesOK DEF Kind, NodeKinds
<1>6. tokens' \in [1..MaxTokens -> Tokens]
  <2>1. State(r).start \in Nat
    BY <1>3 DEF States
  <2> QED
    BY <1>1, <1>2, <1>5, <2>1 DEF OutsideOK, Tokens
<1>7. /\ reviews' \in [1..MaxReviews -> Reviews] /\ faults' \in 0..MaxFaults
      /\ steps' \in [Runners -> 0..MaxSteps]
  BY <1>1 DEF OutsideOK, CountsOK, LocalOK
<1> QED
  BY <1>1, <1>2, <1>4, <1>6, <1>7, SavesOK

LEMMA RunEndOK == ASSUME GraphAssumption, AllOK, NEW r \in Runners, RunEnd(r) PROVE AllOK'
<1> USE DEF AllOK
<1>1. /\ pc[r] = "run" /\ Change(r, [State(r) EXCEPT !.status = "done"]) /\ Goto(r, "clear")
      /\ UNCHANGED <<after, local, reviews, tokens>>
      /\ UNCHANGED <<graph, storage, obj, seen, requests, faults, history>>
  BY DEF RunEnd, Frame
<1>2. State(r) \in States
  BY <1>1, StateOK
<1>3. [State(r) EXCEPT !.status = "done"] \in States
  BY <1>2 DEF States
<1>4. LocalOK' /\ Held'
  BY <1>1, <1>3 DEF Change, Goto, local, LocalOK, Held, Labels
<1>5. StoreOK' /\ OutsideOK' /\ CountsOK'
  BY <1>1 DEF StoreOK, OutsideOK, CountsOK, storage, history
<1> QED
  BY <1>4, <1>5

LEMMA RunOK == ASSUME GraphAssumption, AllOK, NEW r \in Runners, Run(r) PROVE AllOK'
<1>1. CASE Load(r)
  BY <1>1, LoadOK
<1>2. CASE ReadReview(r) \/ ReadToken(r)
  BY <1>2, ReadReviewOK, ReadTokenOK
<1>3. CASE Save(r) \/ Clear(r)
  BY <1>3, SaveOK, ClearOK
<1>4. CASE TooManySteps(r) \/ RunCondition(r) \/ Fails(r) \/ Succeeds(r) \/ CreateFails(r)
  BY <1>4, LoopSavesOK
<1>5. CASE AskReview(r) \/ CreateToken(r) \/ RunEnd(r)
  BY <1>5, AskReviewOK, CreateTokenOK, RunEndOK
<1>6. CASE RunAgent(r)
  BY <1>6, AwaitsOK DEF RunAgent
<1>7. CASE RunTool(r)
  <2>1. Turn(r, ToolTypes) /\ Frame
        /\ \E labels \in SUBSET {"leave", "fail", "ask", "create"} : Await(r, labels)
    BY <1>7 DEF RunTool
  <2> QED
    BY <2>1, AwaitsOK
<1> QED
  BY <1>1, <1>2, <1>3, <1>4, <1>5, <1>6, <1>7 DEF Run

\* The others, and the process itself.
LEMMA MoveOK ==
    ASSUME AllOK, NEW i \in 1..MaxTokens, NEW from,
           NEW to \in {"pending", "first_confirmed", "running", "written", "gone"}, Move(i, from, to)
    PROVE  AllOK'
<1> USE DEF AllOK
<1>1. tokens' = [tokens EXCEPT ![i].status = to,
                               ![i].confirmed = @ \/ to \in {"first_confirmed", "running"}]
      /\ stale' = (stale \/ tokens[i].status = "written")
      /\ UNCHANGED <<graph, storage, running, reviews, seen, requests, faults, starts, overlapped,
                     shared>>
  BY DEF Move
<1>2. tokens' \in [1..MaxTokens -> Tokens]
  <2>1. [tokens[i] EXCEPT !.status = to, !.confirmed = @ \/ to \in {"first_confirmed", "running"}] \in Tokens
    BY DEF OutsideOK, Tokens
  <2> QED
    BY <1>1, <2>1 DEF OutsideOK
<1>3. LocalOK' /\ Held' /\ StoreOK'
  BY <1>1 DEF storage, running, local, LocalOK, Held, StoreOK
<1> QED
  BY <1>1, <1>2, <1>3 DEF OutsideOK, CountsOK

LEMMA ReviewerOK ==
    ASSUME GraphAssumption, AllOK, NEW i \in 1..MaxReviews,
           \/ ReadTask(i)
           \/ \E d \in {"approved", "rejected"} : Decide(i, d)
    PROVE  AllOK'
<1> USE DEF AllOK
<1>1. /\ UNCHANGED <<graph, storage, running, tokens, requests, faults, history>>
      /\ seen' \in SUBSET (1..MaxReviews)
  BY DEF ReadTask, Decide, OutsideOK
<1>2. reviews' \in [1..MaxReviews -> Reviews]
  <2>1. CASE UNCHANGED reviews
    BY <2>1 DEF OutsideOK
  <2>2. ASSUME NEW d \in {"approved", "rejected"}, Decide(i, d) PROVE reviews' \in [1..MaxReviews -> Reviews]
    BY <2>2 DEF Decide, OutsideOK, Reviews
  <2> QED
    BY <2>1, <2>2 DEF ReadTask
<1> QED
  BY <1>1, <1>2 DEF storage, running, local, history, LocalOK, Held, StoreOK, OutsideOK, CountsOK

LEMMA RestartOK == ASSUME GraphAssumption, AllOK, Restart PROVE AllOK'
<1> USE DEF AllOK
<1>1. 1 \in 1..End /\ 0 \in 0..MaxSteps /\ 0 \in 0..MaxReviews /\ faults' \in 0..MaxFaults
  BY FaultOK, NodesOK DEF Restart, GraphAssumption
<1>2. LocalOK' /\ Held'
  BY <1>1, AbsentOK DEF Restart, LocalOK, Held, Labels
<1>3. StoreOK' /\ OutsideOK' /\ CountsOK'
  BY <1>1 DEF Restart, history, StoreOK, OutsideOK, CountsOK
<1> QED
  BY <1>2, <1>3

LEMMA RequestOK == ASSUME GraphAssumption, AllOK, NEW r \in Runners, Request(r) PROVE AllOK'
<1> USE DEF AllOK
<1>1. LocalOK' /\ Held'
  BY DEF Request, Goto, local, LocalOK, Held, Labels
<1>2. StoreOK' /\ OutsideOK'
  BY DEF Request, storage, outside, StoreOK, OutsideOK
<1>3. CountsOK'
  BY DEF Request, CountsOK, GraphAssumption
<1> QED
  BY <1>1, <1>2, <1>3

LEMMA StepTypeInv ==
  ASSUME GraphAssumption, TypeInv, [Next]_vars
  PROVE  TypeInv'
<1>0. AllOK
  BY Parts DEF TypeInv, AllOK
<1> SUFFICES AllOK'
  BY DEF AllOK, TypeInv, TypeOK, LocalOK, StoreOK, OutsideOK, CountsOK, Labels
<1>1. ASSUME NEW r \in Runners, Request(r) \/ Run(r) PROVE AllOK'
  BY <1>0, <1>1, RequestOK, RunOK
<1>2. ASSUME NEW i \in 1..MaxReviews,
             ReadTask(i) \/ \E d \in {"approved", "rejected"} : Decide(i, d)
      PROVE  AllOK'
  BY <1>0, <1>2, ReviewerOK
<1>3. ASSUME NEW i \in 1..MaxTokens, ConfirmToken(i) \/ Written(i) \/ WriteFails(i) \/ TokenGone(i)
      PROVE  AllOK'
  BY <1>0, <1>3, MoveOK DEF ConfirmToken, Written, WriteFails, TokenGone
<1>4. CASE ExpireCheckpoint
  BY <1>0, <1>4, AbsentOK DEF ExpireCheckpoint, running, local, outside, history, AllOK, LocalOK, Held,
                              StoreOK, OutsideOK, CountsOK
<1>5. CASE Restart
  BY <1>0, <1>5, RestartOK
<1>6. CASE UNCHANGED vars
  BY <1>0, <1>6 DEF vars, storage, running, local, outside, history, AllOK, LocalOK, Held, StoreOK,
                    OutsideOK, CountsOK
<1> QED
  BY <1>1, <1>2, <1>3, <1>4, <1>5, <1>6 DEF Next

\* Every reachable state has its type (GraphState, and the locals of execute()).
THEOREM Typing == Spec => []TypeOK
<1>1. Init => TypeInv
  BY InitTypeInv, GraphAssumption
<1>2. TypeInv /\ [Next]_vars => TypeInv'
  BY StepTypeInv, GraphAssumption
<1>3. TypeInv => TypeOK
  BY DEF TypeInv
<1> QED
  BY <1>1, <1>2, <1>3, PTL DEF Spec

-----------------------------------------------------------------------------
(* What a state of the graph says                                          *)

\* For each start of the graph: the approved and the confirmed nodes, and the
\* node a review or a token was created for, 0 if it was not created for this start.
ApprovedNodes  == [k \in Nat |-> {n \in Nodes : Approved(n, k)}]
ConfirmedNodes == [k \in Nat |-> {n \in Nodes : Confirmed(n, k)}]
ReviewNode == [k \in Nat |-> [i \in 1..MaxReviews |->
                 IF reviews[i].status = "none" \/ reviews[i].start # k THEN 0 ELSE reviews[i].node]]
TokenNode  == [k \in Nat |-> [i \in 1..MaxTokens |->
                 IF tokens[i].status = "none" \/ tokens[i].start # k THEN 0 ELSE tokens[i].node]]

\* The nodes of graph g that may be done when the nodes in A are approved and
\* the nodes in C are confirmed.
Earned(g, A, C) ==
    {n \in Nodes : /\ g[n].type = "write" => n \in C
                   /\ g[n].type = "direct" => n \in A \cup C
                   /\ g[n].type \in ToolTypes /\ g[n].review => n \in A}

\* A state awaits the review or the token of its own node, and not both, and
\* what is approved or done was earned by its own start.
Sound(s, g, A, C, reviewed, suspended) ==
    /\ s.approved \subseteq A[s.start]
    /\ s.done \subseteq Earned(g, A[s.start], C[s.start])
    /\ s.review # 0 => /\ s.token = 0
                       /\ s.node \in Nodes /\ s.node \notin s.approved
                       /\ g[s.node].type \in ToolTypes /\ g[s.node].review
                       /\ reviewed[s.start][s.review] = s.node
    /\ s.token # 0 => /\ s.status = "paused"
                      /\ s.node \in Nodes
                      /\ suspended[s.start][s.token] = s.node

Good(g, A, C, reviewed, suspended) == {s \in States : Sound(s, g, A, C, reviewed, suspended)}

EarnedNow == [k \in Nat |-> Earned(graph, ApprovedNodes[k], ConfirmedNodes[k])]
GoodNow   == Good(graph, ApprovedNodes, ConfirmedNodes, ReviewNode, TokenNode)

\* The statuses of the reviews and the tokens agree with their history.
Marked ==
    /\ \A i \in 1..MaxReviews : /\ reviews[i].status = "none" => ~reviews[i].approved
                                /\ reviews[i].status = "approved" => reviews[i].approved
    /\ \A i \in 1..MaxTokens : /\ tokens[i].status = "none" => ~tokens[i].confirmed
                               /\ TakenForExecuted(tokens[i].status) => tokens[i].confirmed

\* A token of a node that needs a review was created after it.
Vouched ==
    \A i \in 1..MaxTokens :
        tokens[i].status # "none" /\ graph[tokens[i].node].review =>
            tokens[i].node \in ApprovedNodes[tokens[i].start]

\* Where a request is, and what its object says there.
Working(r) ==
    \/ pc[r] \in {"run", "leave", "fail", "ask", "create"}
    \/ pc[r] = "save" /\ after[r] = "run"
Placed(r) ==
    /\ Working(r) => State(r).token = 0
    /\ pc[r] = "review" => ticket[r] = State(r).review /\ ticket[r] # 0
    /\ pc[r] = "token" => ticket[r] = State(r).token /\ ticket[r] # 0
    /\ pc[r] \in {"leave", "ask", "create"} => at[r] = State(r).node /\ at[r] \in Nodes
    /\ pc[r] = "leave" => State(r).review = 0 /\ at[r] \in EarnedNow[State(r).start]
    /\ pc[r] = "ask" => NeedsReview(State(r)) /\ graph[at[r]].type \in ToolTypes
    /\ pc[r] = "create" => /\ State(r).review = 0
                         /\ (graph[at[r]].review => at[r] \in ApprovedNodes[State(r).start])

\* No two requests work on one object.
Alone == \A r, q \in Runners : r # q /\ obj[r] = obj[q] => obj[r] = None

Unshared ==
    /\ redis \in GoodNow /\ heap \in [Objects -> GoodNow]
    /\ Vouched /\ Alone
    /\ \A r \in Runners : Placed(r)

SafeInv == TypeInv /\ Marked /\ (~shared => Unshared)

-----------------------------------------------------------------------------
(* What may become of a state                                              *)

LEMMA AbsentGood ==
    ASSUME GraphAssumption, NEW g, NEW A, NEW C, NEW rn, NEW tn
    PROVE  /\ Absent \in Good(g, A, C, rn, tn)
           /\ \A k \in Nat : Fresh(k) \in Good(g, A, C, rn, tn)
  BY AbsentOK DEF Good, Sound, Absent, Fresh

\* More approvals, confirmations, reviews and tokens do no harm.
LEMMA StaysGood ==
    ASSUME NEW g, NEW A, NEW C, NEW rn, NEW tn, NEW A2, NEW C2, NEW rn2, NEW tn2,
           \A k \in Nat : A[k] \subseteq A2[k] /\ C[k] \subseteq C2[k],
           \A k \in Nat, i \in 1..MaxReviews : rn[k][i] # 0 => rn2[k][i] = rn[k][i],
           \A k \in Nat, i \in 1..MaxTokens : tn[k][i] # 0 => tn2[k][i] = tn[k][i],
           GraphAssumption,
           NEW s \in Good(g, A, C, rn, tn)
    PROVE  s \in Good(g, A2, C2, rn2, tn2)
<1>1. s \in States /\ Sound(s, g, A, C, rn, tn) /\ s.start \in Nat
  BY DEF Good, States
<1>2. Earned(g, A[s.start], C[s.start]) \subseteq Earned(g, A2[s.start], C2[s.start])
  BY <1>1 DEF Earned
<1>3. ASSUME s.review # 0 PROVE rn2[s.start][s.review] = s.node
  <2>1. s.review \in 1..MaxReviews /\ s.node # 0
    BY <1>1, <1>3 DEF States, GraphAssumption, End
  <2> QED
    BY <1>1, <1>3, <2>1 DEF Sound
<1>4. ASSUME s.token # 0 PROVE tn2[s.start][s.token] = s.node
  <2>1. s.token \in 1..MaxTokens /\ s.node # 0
    BY <1>1, <1>4 DEF States, GraphAssumption, End
  <2> QED
    BY <1>1, <1>4, <2>1 DEF Sound
<1>5. Sound(s, g, A2, C2, rn2, tn2)
  BY <1>1, <1>2, <1>3, <1>4 DEF Sound
<1> QED
  BY <1>1, <1>5 DEF Good

\* A state without a token may take any other status.
LEMMA StatusGood ==
    ASSUME NEW g, NEW A, NEW C, NEW rn, NEW tn, NEW s \in Good(g, A, C, rn, tn),
           s.token = 0, NEW status \in {"running", "done", "error"}
    PROVE  [s EXCEPT !.status = status] \in Good(g, A, C, rn, tn)
<1>1. s \in States /\ Sound(s, g, A, C, rn, tn)
  BY DEF Good
<1> DEFINE t == [s EXCEPT !.status = status]
<1>2. /\ t \in States /\ t.token = 0 /\ t.review = s.review /\ t.node = s.node
      /\ t.start = s.start /\ t.approved = s.approved /\ t.done = s.done
  BY <1>1 DEF States
<1> HIDE DEF t
<1> QED
  BY <1>1, <1>2 DEF Good, Sound, t

\* A state whose review was approved, by ReadReview.
LEMMA ApprovedGood ==
    ASSUME NEW g, NEW A, NEW C, NEW rn, NEW tn, NEW s \in Good(g, A, C, rn, tn),
           s.token = 0, s.node \in A[s.start], GraphAssumption
    PROVE  [s EXCEPT !.status = "running", !.review = 0,
                     !.approved = @ \cup ({s.node} \cap Nodes)] \in Good(g, A, C, rn, tn)
<1>1. s \in States /\ Sound(s, g, A, C, rn, tn)
  BY DEF Good
<1> DEFINE more == s.approved \cup ({s.node} \cap Nodes)
           t == [s EXCEPT !.status = "running", !.review = 0,
                          !.approved = @ \cup ({s.node} \cap Nodes)]
<1>2. more \in SUBSET Nodes
  BY <1>1, Gathers DEF States
<1>3. t = [s EXCEPT !.status = "running", !.review = 0, !.approved = more]
  BY <1>1 DEF States
<1>4. more \subseteq A[s.start]
  BY <1>1 DEF Sound
<1> HIDE DEF more, t
<1>5. /\ t \in States /\ t.token = 0 /\ t.review = 0 /\ t.start = s.start /\ t.approved = more /\ t.done = s.done
  BY <1>1, <1>2, <1>3, Zeros DEF States
<1> QED
  BY <1>1, <1>4, <1>5 DEF Good, Sound, t

\* A state that moves on from a node.
LEMMA MovedGood ==
    ASSUME NEW g, NEW A, NEW C, NEW rn, NEW tn, NEW s \in Good(g, A, C, rn, tn),
           s.token = 0, s.review = 0, NEW m \in 1..End, NEW n \in Earned(g, A[s.start], C[s.start])
    PROVE  [s EXCEPT !.node = m, !.done = @ \cup {n}] \in Good(g, A, C, rn, tn)
<1>1. s \in States /\ Sound(s, g, A, C, rn, tn) /\ n \in Nodes
  BY DEF Good, Earned
<1> DEFINE t == [s EXCEPT !.node = m, !.done = @ \cup {n}]
<1>2. /\ t \in States /\ t.token = 0 /\ t.review = 0
      /\ t.start = s.start /\ t.approved = s.approved /\ t.done = s.done \cup {n}
  BY <1>1 DEF States
<1> HIDE DEF t
<1> QED
  BY <1>1, <1>2 DEF Good, Sound, t

\* A state whose token is gone.
LEMMA DroppedGood ==
    ASSUME GraphAssumption, NEW g, NEW A, NEW C, NEW rn, NEW tn, NEW s \in Good(g, A, C, rn, tn),
           s.token # 0
    PROVE  [s EXCEPT !.status = "error", !.token = 0] \in Good(g, A, C, rn, tn)
<1>1. s \in States /\ Sound(s, g, A, C, rn, tn)
  BY DEF Good
<1> DEFINE t == [s EXCEPT !.status = "error", !.token = 0]
<1>2. /\ t \in States /\ t.token = 0 /\ t.review = s.review
      /\ t.start = s.start /\ t.approved = s.approved /\ t.done = s.done
  BY <1>1, Zeros DEF States
<1>3. s.review = 0
  BY <1>1 DEF Sound
<1> HIDE DEF t
<1> QED
  BY <1>1, <1>2, <1>3 DEF Good, Sound, t

\* A state whose token counts as executed, by ReadToken.
LEMMA TakenGood ==
    ASSUME GraphAssumption, NEW g, NEW A, NEW C, NEW rn, NEW tn, NEW s \in Good(g, A, C, rn, tn),
           s.token # 0, s.node \in Earned(g, A[s.start], C[s.start])
    PROVE  [s EXCEPT !.status = "running", !.token = 0,
                     !.node = IF @ = End THEN End ELSE @ + 1,
                     !.done = @ \cup ({s.node} \cap Nodes)] \in Good(g, A, C, rn, tn)
<1>1. s \in States /\ Sound(s, g, A, C, rn, tn) /\ s.node \in Nodes
  BY DEF Good, Earned
<1> DEFINE more == s.done \cup ({s.node} \cap Nodes)
           m == IF s.node = End THEN End ELSE s.node + 1
           t == [s EXCEPT !.status = "running", !.token = 0,
                     !.node = IF @ = End THEN End ELSE @ + 1,
                     !.done = @ \cup ({s.node} \cap Nodes)]
<1>2. more \in SUBSET Nodes
  BY <1>1, Gathers DEF States
<1>3. m \in 1..End
  BY <1>1 DEF Nodes, End, GraphAssumption
<1>4. t = [s EXCEPT !.status = "running", !.token = 0, !.node = m, !.done = more]
  BY <1>1 DEF States
<1>5. more \subseteq Earned(g, A[s.start], C[s.start])
  BY <1>1 DEF Sound
<1>6. s.review = 0
  BY <1>1 DEF Sound
<1> HIDE DEF more, m, t
<1>7. /\ t \in States /\ t.token = 0 /\ t.review = s.review
      /\ t.start = s.start /\ t.approved = s.approved /\ t.done = more
  BY <1>1, <1>2, <1>3, <1>4, Zeros DEF States
<1> QED
  BY <1>1, <1>5, <1>6, <1>7 DEF Good, Sound, t

\* A state that waits for a review of its node.
LEMMA AskedGood ==
    ASSUME NEW g, NEW A, NEW C, NEW rn, NEW tn, NEW s \in Good(g, A, C, rn, tn),
           s.token = 0, NEW i \in 0..MaxReviews, i # 0, s.node \in Nodes, s.node \notin s.approved,
           g[s.node].type \in ToolTypes, g[s.node].review, rn[s.start][i] = s.node
    PROVE  [s EXCEPT !.status = "paused", !.review = i] \in Good(g, A, C, rn, tn)
<1>1. s \in States /\ Sound(s, g, A, C, rn, tn)
  BY DEF Good
<1> DEFINE t == [s EXCEPT !.status = "paused", !.review = i]
<1>2. /\ t \in States /\ t.token = 0 /\ t.review = i /\ t.node = s.node
      /\ t.start = s.start /\ t.approved = s.approved /\ t.done = s.done
  BY <1>1 DEF States
<1> HIDE DEF t
<1> QED
  BY <1>1, <1>2 DEF Good, Sound, t

\* A state that waits for a token of its node.
LEMMA SuspendedGood ==
    ASSUME NEW g, NEW A, NEW C, NEW rn, NEW tn, NEW s \in Good(g, A, C, rn, tn),
           s.review = 0, NEW i \in 0..MaxTokens, s.node \in Nodes, tn[s.start][i] = s.node
    PROVE  [s EXCEPT !.status = "paused", !.token = i] \in Good(g, A, C, rn, tn)
<1>1. s \in States /\ Sound(s, g, A, C, rn, tn)
  BY DEF Good
<1> DEFINE t == [s EXCEPT !.status = "paused", !.token = i]
<1>2. /\ t \in States /\ t.token = i /\ t.review = 0 /\ t.node = s.node /\ t.status = "paused"
      /\ t.start = s.start /\ t.approved = s.approved /\ t.done = s.done
  BY <1>1 DEF States
<1> HIDE DEF t
<1> QED
  BY <1>1, <1>2 DEF Good, Sound, t

-----------------------------------------------------------------------------
(* Approvals and confirmations are not taken back                          *)

Lasts ==
    /\ \A i \in 1..MaxReviews :
          /\ reviews[i].status # "none" => /\ reviews'[i].status # "none"
                                           /\ reviews'[i].node = reviews[i].node
                                           /\ reviews'[i].start = reviews[i].start
          /\ reviews[i].approved => reviews'[i].approved
          /\ reviews'[i].status = "none" => ~reviews'[i].approved
          /\ reviews'[i].status = "approved" => reviews'[i].approved
    /\ \A i \in 1..MaxTokens :
          /\ tokens[i].status # "none" => /\ tokens'[i].status # "none"
                                          /\ tokens'[i].node = tokens[i].node
                                          /\ tokens'[i].start = tokens[i].start
          /\ tokens[i].confirmed => tokens'[i].confirmed
          /\ tokens'[i].status = "none" => ~tokens'[i].confirmed
          /\ TakenForExecuted(tokens'[i].status) => tokens'[i].confirmed

LEMMA SameLasts == ASSUME Marked, UNCHANGED <<reviews, tokens>> PROVE Lasts
  BY DEF Marked, Lasts, TakenForExecuted

LEMMA AskReviewLasts ==
    ASSUME TypeInv, Marked, NEW r \in Runners, AskReview(r) PROVE Lasts
<1>1. /\ reviews \in [1..MaxReviews -> Reviews] /\ tokens' = tokens
  BY DEF AskReview, TypeInv, TypeOK
<1>2. PICK i \in 1..MaxReviews :
         /\ reviews[i].status = "none"
         /\ reviews' = [reviews EXCEPT ![i].status = "pending", ![i].node = at[r],
                                        ![i].start = State(r).start]
  BY DEF AskReview
<1>3. /\ reviews'[i].status = "pending" /\ reviews'[i].approved = reviews[i].approved
      /\ \A j \in 1..MaxReviews : j # i => reviews'[j] = reviews[j]
  BY <1>1, <1>2 DEF Reviews
<1> QED
  BY <1>1, <1>2, <1>3 DEF Marked, Lasts, TakenForExecuted

LEMMA DecideLasts ==
    ASSUME TypeInv, Marked, NEW i \in 1..MaxReviews,
           NEW d \in {"approved", "rejected"}, Decide(i, d)
    PROVE  Lasts
<1>1. /\ reviews \in [1..MaxReviews -> Reviews] /\ tokens' = tokens
      /\ reviews' = [reviews EXCEPT ![i].status = d, ![i].approved = @ \/ d = "approved"]
  BY DEF Decide, TypeInv, TypeOK
<1>2. /\ reviews'[i].status = d /\ reviews'[i].node = reviews[i].node
      /\ reviews'[i].start = reviews[i].start
      /\ reviews[i].approved => reviews'[i].approved
      /\ d = "approved" => reviews'[i].approved
      /\ \A j \in 1..MaxReviews : j # i => reviews'[j] = reviews[j]
  BY <1>1 DEF Reviews
<1> QED
  BY <1>1, <1>2 DEF Marked, Lasts, TakenForExecuted

LEMMA CreateTokenLasts ==
    ASSUME TypeInv, Marked, NEW r \in Runners, CreateToken(r) PROVE Lasts
<1>1. /\ tokens \in [1..MaxTokens -> Tokens] /\ reviews' = reviews
  BY DEF CreateToken, TypeInv, TypeOK
<1>2. PICK i \in 1..MaxTokens :
         /\ tokens[i].status = "none"
         /\ tokens' = [tokens EXCEPT ![i] =
               [status |-> "pending", node |-> at[r], start |-> State(r).start,
                high |-> Kind(at[r]).high, confirmed |-> FALSE]]
  BY DEF CreateToken
<1>3. /\ tokens'[i].status = "pending" /\ tokens'[i].confirmed = FALSE
      /\ \A j \in 1..MaxTokens : j # i => tokens'[j] = tokens[j]
  BY <1>1, <1>2
<1> QED
  BY <1>1, <1>2, <1>3 DEF Marked, Lasts, TakenForExecuted

LEMMA MoveLasts ==
    ASSUME TypeInv, Marked, NEW i \in 1..MaxTokens, NEW from, NEW to, Move(i, from, to),
           \/ to \in {"first_confirmed", "running"}
           \/ to = "written" /\ from = {"running"}
           \/ to \in {"pending", "gone"} /\ "none" \notin from,
           "none" \notin from
    PROVE  Lasts
<1>1. /\ tokens \in [1..MaxTokens -> Tokens] /\ reviews' = reviews /\ tokens[i].status \in from
      /\ tokens' = [tokens EXCEPT ![i].status = to,
                                  ![i].confirmed = @ \/ to \in {"first_confirmed", "running"}]
  BY DEF Move, TypeInv, TypeOK
<1>2. /\ tokens'[i].status = to /\ tokens'[i].node = tokens[i].node
      /\ tokens'[i].start = tokens[i].start
      /\ tokens[i].confirmed => tokens'[i].confirmed
      /\ to \in {"first_confirmed", "running"} => tokens'[i].confirmed
      /\ \A j \in 1..MaxTokens : j # i => tokens'[j] = tokens[j]
  BY <1>1 DEF Tokens
<1>3. to # "none"
  OBVIOUS
<1>4. to = "written" => tokens[i].confirmed
  BY <1>1 DEF Marked, TakenForExecuted
<1> QED
  BY <1>1, <1>2, <1>3, <1>4 DEF Marked, Lasts, TakenForExecuted

LEMMA StepLasts == ASSUME GraphAssumption, TypeInv, Marked, [Next]_vars PROVE Lasts
<1>1. ASSUME NEW r \in Runners, Request(r) PROVE Lasts
  BY <1>1, SameLasts DEF Request, outside
<1>2. ASSUME NEW r \in Runners, Run(r) PROVE Lasts
  <2>1. CASE Load(r) \/ ReadReview(r) \/ ReadToken(r) \/ Save(r) \/ Clear(r)
    BY <2>1, SameLasts DEF Load, ReadReview, ReadToken, Save, Clear, outside
  <2>2. CASE TooManySteps(r) \/ RunEnd(r) \/ RunCondition(r) \/ Fails(r) \/ Succeeds(r) \/ CreateFails(r)
    BY <2>2, SameLasts DEF TooManySteps, RunEnd, RunCondition, Fails, Succeeds, CreateFails
  <2>3. CASE RunAgent(r) \/ RunTool(r)
    BY <2>3, SameLasts DEF RunAgent, RunTool, Await
  <2>4. CASE AskReview(r)
    BY <2>4, AskReviewLasts
  <2>5. CASE CreateToken(r)
    BY <2>5, CreateTokenLasts
  <2> QED
    BY <1>2, <2>1, <2>2, <2>3, <2>4, <2>5 DEF Run
<1>3. ASSUME NEW i \in 1..MaxReviews, ReadTask(i) PROVE Lasts
  BY <1>3, SameLasts DEF ReadTask
<1>4. ASSUME NEW i \in 1..MaxReviews, NEW d \in {"approved", "rejected"}, Decide(i, d) PROVE Lasts
  BY <1>4, DecideLasts
<1>5. ASSUME NEW i \in 1..MaxTokens, ConfirmToken(i) \/ Written(i) \/ WriteFails(i) \/ TokenGone(i)
      PROVE  Lasts
  BY <1>5, MoveLasts DEF ConfirmToken, Written, WriteFails, TokenGone
<1>6. CASE ExpireCheckpoint \/ Restart
  BY <1>6, SameLasts DEF ExpireCheckpoint, Restart, outside
<1>7. CASE UNCHANGED vars
  BY <1>7, SameLasts DEF vars, outside
<1> QED
  BY <1>1, <1>2, <1>3, <1>4, <1>5, <1>6, <1>7 DEF Next

\* What a step leaves true of approvals, confirmations, reviews and tokens.
Grown ==
    /\ graph' = graph
    /\ \A k \in Nat : /\ ApprovedNodes[k] \subseteq ApprovedNodes'[k]
                      /\ ConfirmedNodes[k] \subseteq ConfirmedNodes'[k]
    /\ \A k \in Nat, i \in 1..MaxReviews : ReviewNode[k][i] # 0 => ReviewNode'[k][i] = ReviewNode[k][i]
    /\ \A k \in Nat, i \in 1..MaxTokens : TokenNode[k][i] # 0 => TokenNode'[k][i] = TokenNode[k][i]
    /\ \A i \in 1..MaxTokens :
          tokens[i].status # "none" => /\ tokens'[i].node = tokens[i].node
                                       /\ tokens'[i].start = tokens[i].start
    /\ shared => shared'

LEMMA GraphStays == ASSUME [Next]_vars PROVE graph' = graph /\ (shared => shared')
<1>1. ASSUME NEW r \in Runners, Request(r) PROVE graph' = graph /\ (shared => shared')
  BY <1>1 DEF Request
<1>2. ASSUME NEW r \in Runners, Run(r) PROVE graph' = graph /\ (shared => shared')
  <2>1. CASE Load(r)
    <3>1. graph' = graph /\ (Begin(r, redis) \/ Begin(r, Absent) \/ Resume(r))
      BY <2>1 DEF Load
    <3>2. CASE Begin(r, redis) \/ Begin(r, Absent)
      BY <3>1, <3>2 DEF Begin
    <3>3. CASE Resume(r)
      BY <3>1, <3>3, Zenon DEF Resume
    <3> QED
      BY <3>1, <3>2, <3>3
  <2>2. CASE ReadReview(r) \/ ReadToken(r) \/ Save(r) \/ Clear(r)
    BY <2>2 DEF ReadReview, ReadToken, Save, Clear, history
  <2>3. CASE TooManySteps(r) \/ RunEnd(r) \/ RunCondition(r) \/ Fails(r) \/ Succeeds(r)
             \/ CreateFails(r) \/ RunAgent(r) \/ RunTool(r) \/ AskReview(r) \/ CreateToken(r)
    <3>1. Frame
      BY <2>3 DEF TooManySteps, RunEnd, RunCondition, Fails, Succeeds, CreateFails, RunAgent,
                  RunTool, AskReview, CreateToken
    <3> QED
      BY <3>1 DEF Frame, history
  <2> QED
    BY <1>2, <2>1, <2>2, <2>3 DEF Run
<1>3. ASSUME NEW i \in 1..MaxReviews, ReadTask(i)
      PROVE  graph' = graph /\ (shared => shared')
  BY <1>3 DEF ReadTask, history
<1>4. ASSUME NEW i \in 1..MaxReviews, NEW d \in {"approved", "rejected"}, Decide(i, d)
      PROVE  graph' = graph /\ (shared => shared')
  BY <1>4 DEF Decide, history
<1>5. ASSUME NEW i \in 1..MaxTokens, ConfirmToken(i) \/ Written(i) \/ WriteFails(i) \/ TokenGone(i)
      PROVE  graph' = graph /\ (shared => shared')
  BY <1>5 DEF ConfirmToken, Written, WriteFails, TokenGone, Move
<1>6. CASE ExpireCheckpoint \/ Restart \/ UNCHANGED vars
  BY <1>6 DEF ExpireCheckpoint, Restart, vars, history
<1> QED
  BY <1>1, <1>2, <1>3, <1>4, <1>5, <1>6 DEF Next

LEMMA StepGrown ==
    ASSUME GraphAssumption, TypeInv, Marked, [Next]_vars PROVE Grown /\ Marked'
<1>1. Lasts /\ graph' = graph /\ (shared => shared')
  BY StepLasts, GraphStays
<1>2. Marked'
  BY <1>1 DEF Lasts, Marked
<1>3. \A k \in Nat : ApprovedNodes[k] \subseteq ApprovedNodes'[k]
  BY <1>1 DEF ApprovedNodes, Approved, Lasts, Marked
<1>4. \A k \in Nat : ConfirmedNodes[k] \subseteq ConfirmedNodes'[k]
  BY <1>1 DEF ConfirmedNodes, Confirmed, Lasts, Marked
<1>5. \A k \in Nat, i \in 1..MaxReviews : ReviewNode[k][i] # 0 => ReviewNode'[k][i] = ReviewNode[k][i]
  BY <1>1 DEF ReviewNode, Lasts
<1>6. \A k \in Nat, i \in 1..MaxTokens : TokenNode[k][i] # 0 => TokenNode'[k][i] = TokenNode[k][i]
  BY <1>1 DEF TokenNode, Lasts
<1> QED
  BY <1>1, <1>2, <1>3, <1>4, <1>5, <1>6 DEF Grown, Lasts

-----------------------------------------------------------------------------
(* One request goes on                                                     *)

LEMMA KeptGood ==
    ASSUME GraphAssumption, Grown 
    PROVE  GoodNow \subseteq GoodNow' /\ \A k \in Nat : EarnedNow[k] \subseteq EarnedNow'[k]
<1>1. GoodNow \subseteq GoodNow'
  BY StaysGood DEF Grown, GoodNow
<1>2. \A k \in Nat : EarnedNow[k] \subseteq EarnedNow'[k]
  BY DEF Grown, EarnedNow, Earned
<1> QED
  BY <1>1, <1>2

LEMMA KeptVouched == ASSUME TypeInv, Vouched, Grown, UNCHANGED tokens PROVE Vouched'
  BY DEF TypeInv, TypeOK, Tokens, Vouched, Grown

\* A request that does nothing while its object stays as it is.
LEMMA KeptPlaced ==
    ASSUME GraphAssumption, Grown, NEW q \in Runners, Placed(q),
           pc'[q] = pc[q], after'[q] = after[q], ticket'[q] = ticket[q], at'[q] = at[q],
           pc[q] \notin {"idle", "load"} => State(q)' = State(q) /\ State(q) \in States
    PROVE  Placed(q)'
<1>1. /\ graph' = graph
      /\ \A k \in Nat : EarnedNow[k] \subseteq EarnedNow'[k] /\ ApprovedNodes[k] \subseteq ApprovedNodes'[k]
  BY KeptGood DEF Grown
<1>2. Working(q)' = Working(q)
  BY DEF Working
<1>3. CASE pc[q] \in {"idle", "load"}
  BY <1>3 DEF Placed, Working
<1>4. CASE pc[q] \notin {"idle", "load"}
  <2>1. State(q)' = State(q) /\ State(q).start \in Nat
    BY <1>4 DEF States
  <2>2. NeedsReview(State(q)) => NeedsReview(State(q))'
    BY <1>1, <2>1 DEF NeedsReview, Kind
  <2> QED
    BY <1>1, <1>2, <2>1, <2>2 DEF Placed
<1> QED
  BY <1>3, <1>4

\* The variables of all requests but r.
OthersStay(r) ==
    \A q \in Runners \ {r} :
        /\ pc'[q] = pc[q] /\ obj'[q] = obj[q] /\ after'[q] = after[q]
        /\ ticket'[q] = ticket[q] /\ at'[q] = at[q]
        /\ pc[q] \notin {"idle", "load"} => heap'[obj[q]] = heap[obj[q]]

LEMMA StateIn ==
    ASSUME TypeInv, NEW q \in Runners, pc[q] \notin {"idle", "load"} PROVE State(q) \in States
  BY DEF TypeInv, TypeOK, Held, State

LEMMA RunnerSafe ==
    ASSUME GraphAssumption, TypeInv, Grown, Unshared, NEW r \in Runners,
           redis' \in GoodNow', heap' \in [Objects -> GoodNow'], Vouched', Alone', Placed(r)',
           OthersStay(r)
    PROVE  Unshared'
<1>1. ASSUME NEW q \in Runners \ {r} PROVE Placed(q)'
  <2>1. pc[q] \notin {"idle", "load"} => State(q) \in States
    BY StateIn
  <2> QED
    BY <2>1, KeptPlaced DEF OthersStay, Unshared, State
<1> QED
  BY <1>1 DEF Unshared

\* Two requests have two objects.
LEMMA Apart ==
    ASSUME GraphAssumption, TypeInv, Unshared, NEW r \in Runners, NEW q \in Runners \ {r},
           pc[r] \notin {"idle", "load"}, pc[q] \notin {"idle", "load"}
    PROVE  obj[q] # obj[r] /\ obj[q] \in Objects
  BY DEF GraphAssumption, TypeInv, Held, Unshared, Alone

\* The request changes its object to a good state t and goes somewhere.
LEMMA ChangeSafe ==
    ASSUME GraphAssumption, TypeInv, Grown, Unshared, NEW r \in Runners, pc[r] \notin {"idle", "load"},
           NEW t \in GoodNow', Change(r, t), UNCHANGED <<redis, obj>>, Vouched',
           NEW label, Goto(r, label),
           Forget(r) \/ (UNCHANGED ticket /\ \A q \in Runners \ {r} : at'[q] = at[q]),
           \A q \in Runners \ {r} : after'[q] = after[q],
           State(r)' = t => Placed(r)'
    PROVE  Unshared'
<1>1. /\ heap \in [Objects -> GoodNow] /\ obj[r] \in Objects
      /\ heap' = [heap EXCEPT ![obj[r]] = t]
      /\ pc' = [pc EXCEPT ![r] = label] /\ pc \in [Runners -> Labels] /\ redis \in GoodNow
      /\ ticket \in [Runners -> Nat] /\ at \in [Runners -> 1..End]
  BY DEF Unshared, TypeInv, TypeOK, Held, Change, Goto, Labels
<1>2. heap' \in [Objects -> GoodNow'] /\ redis' \in GoodNow'
  BY <1>1, KeptGood
<1>3. State(r)' = t
  BY <1>1 DEF State
<1>4. OthersStay(r)
  BY <1>1, Apart DEF OthersStay, Forget
<1>5. Alone'
  BY DEF Unshared, Alone
<1> QED
  BY <1>2, <1>3, <1>4, <1>5, RunnerSafe

LEMMA SavesSafe ==
    ASSUME GraphAssumption, TypeInv, Grown, Unshared, NEW r \in Runners, pc[r] \notin {"idle", "load"},
           NEW t \in GoodNow', NEW label \in {"idle", "run"}, SaveThen(r, t, label),
           UNCHANGED <<redis, obj>>, Vouched', label = "run" => t.token = 0
    PROVE  Unshared'
<1>1. /\ pc \in [Runners -> Labels] /\ after \in [Runners -> {"idle", "run"}]
  BY DEF TypeInv, TypeOK, Labels
<1>2. /\ Change(r, t) /\ Goto(r, "save") /\ Forget(r)
      /\ pc'[r] = "save" /\ after'[r] = label /\ \A q \in Runners \ {r} : after'[q] = after[q]
  BY <1>1 DEF SaveThen, Goto
<1>3. State(r)' = t => Placed(r)'
  BY <1>2 DEF Placed, Working
<1> QED
  BY <1>2, <1>3, ChangeSafe

LEMMA LeaveSafe ==
    ASSUME GraphAssumption, TypeInv, Grown, Unshared, NEW r \in Runners, pc[r] \notin {"idle", "load"},
           NEW kept, Leave(r, kept), redis' \in GoodNow', Vouched'
    PROVE  Unshared'
<1>1. /\ heap \in [Objects -> GoodNow] /\ obj \in [Runners -> Objects \cup {None}]
      /\ pc \in [Runners -> Labels] /\ after \in [Runners -> {"idle", "run"}]
      /\ ticket \in [Runners -> Nat] /\ at \in [Runners -> 1..End]
      /\ obj[r] \in Objects
  BY DEF Unshared, TypeInv, TypeOK, Held, Labels
<1>2. heap' \in {heap, [heap EXCEPT ![obj[r]] = Absent]}
  BY DEF Leave
<1>3. Absent \in GoodNow'
  BY AbsentGood DEF GoodNow
<1>4. heap' \in [Objects -> GoodNow']
  BY <1>1, <1>2, <1>3, KeptGood
<1>5. OthersStay(r)
  BY <1>1, <1>2, Apart DEF OthersStay, Leave, Forget
<1>6. Alone' /\ Placed(r)'
  BY <1>1 DEF Leave, Unshared, Alone, Placed, Working
<1> QED
  BY <1>4, <1>5, <1>6, RunnerSafe

-----------------------------------------------------------------------------
(* The actions of a request                                                *)

\* What is assumed of a step: nobody has shared an object before it or does so in it.
Quiet == TypeInv /\ TypeInv' /\ Marked /\ Unshared /\ Grown /\ ~shared'

LEMMA EntryPlaced ==
    ASSUME NEW r \in Runners, NEW s \in GoodNow', TypeInv, Entry(r, s), State(r)' = s
    PROVE  Placed(r)'
<1>1. s \in States /\ (s.review # 0 => s.token = 0) /\ (s.token # 0 => s.status = "paused")
  BY DEF GoodNow, Good, Sound
<1>2. /\ pc'[r] \in {"review", "token", "run"}
      /\ pc'[r] = "review" <=> AwaitsReview(s)
      /\ pc'[r] = "token" <=> ~AwaitsReview(s) /\ AwaitsToken(s)
      /\ AwaitsReview(s) => ticket'[r] = s.review
      /\ ~AwaitsReview(s) /\ AwaitsToken(s) => ticket'[r] = s.token
  BY DEF Entry, Goto, TypeInv, TypeOK
<1> QED
  BY <1>1, <1>2 DEF Placed, Working, AwaitsReview, AwaitsToken

LEMMA LoadSafe ==
    ASSUME GraphAssumption, Quiet, NEW r \in Runners, Load(r) PROVE Unshared'
<1> USE DEF Quiet
<1>1. /\ pc[r] = "load"
      /\ Begin(r, redis) \/ Begin(r, Absent) \/ (map # None /\ Resume(r))
      /\ UNCHANGED <<graph, redis, after, at, tokens>>
  BY DEF Load, storage, outside
<1>2. Vouched' /\ redis' \in GoodNow' /\ GoodNow \subseteq GoodNow'
  BY <1>1, KeptVouched, KeptGood DEF Unshared
<1>3. /\ heap \in [Objects -> GoodNow] /\ obj \in [Runners -> Objects \cup {None}]
      /\ pc \in [Runners -> Labels] /\ ticket \in [Runners -> Nat] /\ None \notin Objects
  BY DEF Unshared, TypeInv, TypeOK, Labels, GraphAssumption
<1>4. Absent \in GoodNow /\ \A k \in Nat : Fresh(k) \in GoodNow
  BY AbsentGood DEF GoodNow
<1>5. ASSUME NEW s \in GoodNow, Begin(r, s) PROVE Unshared'
  <2> DEFINE t == IF s.status \in {"none", "done"} THEN Fresh(starts + 1) ELSE s
  <2>1. t \in GoodNow'
    BY <1>2, <1>4 DEF TypeInv, TypeOK
  <2>2. PICK o \in Unused : obj' = [obj EXCEPT ![r] = o] /\ heap' = [heap EXCEPT ![o] = t]
    BY <1>5 DEF Begin
  <2>3. Entry(r, t)
    BY <1>5 DEF Begin
  <2> HIDE DEF t
  <2>4. o \in Objects /\ \A q \in Runners : obj[q] # o
    BY <2>2 DEF Unused
  <2>5. heap' \in [Objects -> GoodNow']
    BY <1>2, <1>3, <2>1, <2>2
  <2>6. State(r)' = t
    BY <1>3, <2>2, <2>4 DEF State
  <2>7. Placed(r)'
    BY <2>1, <2>3, <2>6, EntryPlaced
  <2>8. Alone'
    BY <1>3, <2>2, <2>4 DEF Unshared, Alone
  <2>9. OthersStay(r)
    BY <1>1, <1>3, <2>2, <2>3, <2>4 DEF OthersStay, Entry, Goto
  <2> QED
    BY <1>2, <2>5, <2>7, <2>8, <2>9, RunnerSafe
<1>6. ASSUME map # None, Resume(r) PROVE Unshared'
  <2>1. /\ obj' = [obj EXCEPT ![r] = map] /\ heap' = heap /\ Entry(r, heap[map])
        /\ \A q \in Runners : obj[q] # map
    BY <1>6 DEF Resume
  <2>2. map \in Objects
    BY <1>6 DEF TypeInv, TypeOK
  <2>3. heap' \in [Objects -> GoodNow'] /\ heap[map] \in GoodNow'
    BY <1>2, <1>3, <2>1, <2>2
  <2>4. State(r)' = heap[map]
    BY <1>3, <2>1 DEF State
  <2>5. Placed(r)'
    BY <2>1, <2>3, <2>4, EntryPlaced
  <2>6. Alone'
    BY <1>3, <2>1, <2>2 DEF Unshared, Alone
  <2>7. OthersStay(r)
    BY <1>1, <1>3, <2>1 DEF OthersStay, Entry, Goto
  <2> QED
    BY <1>2, <2>3, <2>5, <2>6, <2>7, RunnerSafe
<1> QED
  BY <1>1, <1>4, <1>5, <1>6 DEF Unshared

\* The object of a request is good.
LEMMA StateGood ==
    ASSUME GraphAssumption, Quiet, NEW r \in Runners, pc[r] \notin {"idle", "load"}
    PROVE  /\ State(r) \in GoodNow /\ State(r) \in States
           /\ Sound(State(r), graph, ApprovedNodes, ConfirmedNodes, ReviewNode, TokenNode)
           /\ GoodNow \subseteq GoodNow'
<1>1. obj[r] \in Objects
  BY DEF Quiet, TypeInv, Held
<1>2. State(r) \in GoodNow
  BY <1>1 DEF Quiet, Unshared, State
<1> QED
  BY <1>2, KeptGood DEF GoodNow, Good, Quiet

LEMMA SaveSafe == ASSUME GraphAssumption, Quiet, NEW r \in Runners, Save(r) PROVE Unshared'
<1> USE DEF Quiet
<1>1. /\ pc[r] = "save" /\ redis' \in {redis, State(r)} /\ tokens' = tokens
  BY DEF Save, outside
<1>2. Vouched' /\ redis' \in GoodNow'
  BY <1>1, KeptVouched, StateGood DEF Unshared
<1>3. CASE after[r] = "run"
  <2>1. pc' = [pc EXCEPT ![r] = "run"] /\ UNCHANGED <<heap, obj, after, ticket, at>>
    BY <1>3 DEF Save, Goto, local
  <2>2. Placed(r)'
    <3>1. pc'[r] = "run"
      BY <2>1 DEF TypeInv, TypeOK
    <3>2. State(r)' = State(r) /\ State(r).token = 0
      BY <1>1, <1>3, <2>1 DEF State, Unshared, Placed, Working
    <3> QED
      BY <3>1, <3>2 DEF Placed, Working
  <2>3. heap' \in [Objects -> GoodNow'] /\ Alone' /\ OthersStay(r)
    BY <2>1, KeptGood DEF Unshared, Alone, OthersStay, TypeInv, TypeOK
  <2> QED
    BY <1>2, <2>2, <2>3, RunnerSafe
<1>4. CASE after[r] # "run"
  BY <1>1, <1>2, <1>4, LeaveSafe DEF Save
<1> QED
  BY <1>3, <1>4

LEMMA ClearSafe == ASSUME GraphAssumption, Quiet, NEW r \in Runners, Clear(r) PROVE Unshared'
<1> USE DEF Quiet
<1>1. /\ pc[r] = "clear" /\ redis' \in {redis, Absent} /\ tokens' = tokens /\ Leave(r, {})
  BY DEF Clear, outside
<1>2. Absent \in GoodNow'
  BY AbsentGood DEF GoodNow
<1>3. Vouched' /\ redis' \in GoodNow'
  BY <1>1, <1>2, KeptVouched, KeptGood DEF Unshared
<1> QED
  BY <1>1, <1>3, LeaveSafe

LEMMA ReadReviewSafe == ASSUME GraphAssumption, Quiet, NEW r \in Runners, ReadReview(r) PROVE Unshared'
<1> USE DEF Quiet
<1> DEFINE s == State(r)
<1>1. /\ pc[r] = "review" /\ redis' = redis /\ tokens' = tokens
  BY DEF ReadReview, storage, outside
<1>2. Vouched' /\ redis' \in GoodNow'
  BY <1>1, KeptVouched, KeptGood DEF Unshared
<1>3. /\ s \in GoodNow /\ s \in States /\ GoodNow \subseteq GoodNow'
      /\ Sound(s, graph, ApprovedNodes, ConfirmedNodes, ReviewNode, TokenNode)
  BY <1>1, StateGood
<1>4. ticket[r] = s.review /\ s.review # 0
  BY <1>1 DEF Unshared, Placed
<1>5. /\ s.token = 0 /\ s.node \in Nodes /\ ReviewNode[s.start][s.review] = s.node
  BY <1>3, <1>4 DEF Sound
<1> HIDE DEF s
<1>6. CASE Leave(r, {map})
  BY <1>1, <1>2, <1>6, LeaveSafe
<1>7. CASE SaveThen(r, [s EXCEPT !.status = "error"], "idle") /\ UNCHANGED <<obj, steps>>
  <2>1. [s EXCEPT !.status = "error"] \in GoodNow'
    BY <1>3, <1>5, StatusGood DEF GoodNow
  <2> QED
    BY <1>1, <1>2, <1>7, <2>1, SavesSafe
<1> DEFINE t == [s EXCEPT !.status = "running", !.review = 0,
                          !.approved = @ \cup ({s.node} \cap Nodes)]
<1>8. CASE /\ reviews[ticket[r]].status = "approved"
           /\ Change(r, t) /\ Goto(r, "run") /\ Forget(r) /\ UNCHANGED <<obj, steps, after>>
  <2>1. s.review \in 1..MaxReviews /\ s.start \in Nat
    BY <1>3, <1>4 DEF States, GraphAssumption
  <2>2. /\ reviews[s.review].approved /\ reviews[s.review].node = s.node
        /\ reviews[s.review].start = s.start
    BY <1>4, <1>5, <1>8, <2>1 DEF Marked, ReviewNode, Nodes
  <2>3. s.node \in ApprovedNodes[s.start]
    BY <1>5, <2>1, <2>2 DEF ApprovedNodes, Approved
  <2>4. t \in GoodNow'
    BY <1>3, <1>5, <2>3, ApprovedGood DEF GoodNow
  <2>5. t.token = 0
    BY <1>3, <1>5 DEF States
  <2> HIDE DEF t
  <2>6. State(r)' = t => Placed(r)'
    <3>1. pc'[r] = "run"
      BY <1>8 DEF Goto, TypeInv, TypeOK
    <3> QED
      BY <2>5, <3>1 DEF Placed, Working
  <2> QED
    BY <1>1, <1>2, <1>8, <2>4, <2>6, ChangeSafe
<1> QED
  BY <1>6, <1>7, <1>8 DEF ReadReview, s

LEMMA ReadTokenSafe == ASSUME GraphAssumption, Quiet, NEW r \in Runners, ReadToken(r) PROVE Unshared'
<1> USE DEF Quiet
<1> DEFINE s == State(r)
           t == [s EXCEPT !.status = "error", !.token = 0]
           u == [s EXCEPT !.status = "running", !.token = 0,
                          !.node = IF @ = End THEN End ELSE @ + 1,
                          !.done = @ \cup ({s.node} \cap Nodes)]
<1>1. /\ pc[r] = "token" /\ UNCHANGED <<redis, obj, tokens>>
      /\ \/ SaveThen(r, t, "idle")
         \/ SaveThen(r, s, "idle")
         \/ TakenForExecuted(tokens[ticket[r]].status) /\ SaveThen(r, u, "run")
  BY DEF ReadToken, NotConfirmed, storage, outside
<1>2. Vouched' /\ redis' \in GoodNow'
  BY <1>1, KeptVouched, KeptGood DEF Unshared
<1>3. /\ s \in GoodNow /\ s \in States /\ GoodNow \subseteq GoodNow'
      /\ Sound(s, graph, ApprovedNodes, ConfirmedNodes, ReviewNode, TokenNode)
  BY <1>1, StateGood
<1>4. ticket[r] = s.token /\ s.token # 0
  BY <1>1 DEF Unshared, Placed
<1>5. s.node \in Nodes /\ TokenNode[s.start][s.token] = s.node
  BY <1>3, <1>4 DEF Sound
<1>6. t \in GoodNow'
  BY <1>3, <1>4, DroppedGood DEF GoodNow
<1>7. ASSUME TakenForExecuted(tokens[ticket[r]].status) PROVE u \in GoodNow' /\ u.token = 0
  <2>1. s.token \in 1..MaxTokens /\ s.start \in Nat
    BY <1>3, <1>4 DEF States, GraphAssumption
  <2>2. /\ tokens[s.token].confirmed /\ tokens[s.token].node = s.node
        /\ tokens[s.token].start = s.start /\ tokens[s.token].status # "none"
    BY <1>4, <1>5, <1>7, <2>1 DEF Marked, TokenNode, TakenForExecuted, Nodes
  <2>3. s.node \in ConfirmedNodes[s.start]
    BY <1>5, <2>1, <2>2 DEF ConfirmedNodes, Confirmed
  <2>4. graph[s.node].review => s.node \in ApprovedNodes[s.start]
    BY <2>1, <2>2 DEF Unshared, Vouched
  <2>5. s.node \in Earned(graph, ApprovedNodes[s.start], ConfirmedNodes[s.start])
    BY <1>5, <2>3, <2>4 DEF Earned
  <2>6. u \in GoodNow
    BY <1>3, <1>4, <2>5, TakenGood DEF GoodNow
  <2>7. u.token = 0
    BY <1>3 DEF States
  <2> QED
    BY <1>3, <2>6, <2>7
<1> HIDE DEF s, t, u
<1> QED
  BY <1>1, <1>2, <1>3, <1>6, <1>7, SavesSafe

\* What a request at a turn, or after its await, knows of its object.
LEMMA WorkingKnows ==
    ASSUME GraphAssumption, Quiet, NEW r \in Runners,
           pc[r] \in {"run", "leave", "fail", "ask", "create"}
    PROVE  /\ State(r) \in GoodNow /\ State(r) \in States /\ State(r).token = 0
           /\ Sound(State(r), graph, ApprovedNodes, ConfirmedNodes, ReviewNode, TokenNode)
           /\ GoodNow \subseteq GoodNow'
  BY StateGood DEF Quiet, Unshared, Placed, Working

LEMMA FailingSafe ==
    ASSUME GraphAssumption, Quiet, NEW r \in Runners, TooManySteps(r) \/ Fails(r) \/ CreateFails(r)
    PROVE  Unshared'
<1> USE DEF Quiet
<1>1. /\ pc[r] \in {"run", "leave", "fail", "ask", "create"} /\ UNCHANGED <<redis, obj, tokens>>
      /\ SaveThen(r, [State(r) EXCEPT !.status = "error"], "idle")
  BY DEF TooManySteps, Fails, CreateFails, Frame, storage
<1>2. Vouched'
  BY <1>1, KeptVouched DEF Unshared
<1>3. [State(r) EXCEPT !.status = "error"] \in GoodNow'
  BY <1>1, WorkingKnows, StatusGood DEF GoodNow
<1> QED
  BY <1>1, <1>2, <1>3, SavesSafe

LEMMA RunEndSafe == ASSUME GraphAssumption, Quiet, NEW r \in Runners, RunEnd(r) PROVE Unshared'
<1> USE DEF Quiet
<1> DEFINE t == [State(r) EXCEPT !.status = "done"]
<1>1. /\ pc[r] = "run" /\ UNCHANGED <<redis, obj, tokens, after, ticket, at>>
      /\ Change(r, t) /\ Goto(r, "clear")
  BY DEF RunEnd, Frame, storage, local
<1>2. Vouched'
  BY <1>1, KeptVouched DEF Unshared
<1>3. t \in GoodNow'
  BY <1>1, WorkingKnows, StatusGood DEF GoodNow
<1> HIDE DEF t
<1>4. Placed(r)'
  <2>1. pc'[r] = "clear"
    BY <1>1 DEF Goto, TypeInv, TypeOK
  <2> QED
    BY <2>1 DEF Placed, Working
<1> QED
  BY <1>1, <1>2, <1>3, <1>4, ChangeSafe

LEMMA RunConditionSafe ==
    ASSUME GraphAssumption, Quiet, NEW r \in Runners, RunCondition(r) PROVE Unshared'
<1> USE DEF Quiet
<1> DEFINE s == State(r)
<1>1. /\ pc[r] = "run" /\ UNCHANGED <<redis, obj, tokens>>
      /\ s.node \in Nodes /\ graph[s.node].type = "condition"
  BY DEF RunCondition, Turn, Kind, Frame, storage
<1>2. \/ \E n \in 1..End : SaveThen(r, [s EXCEPT !.node = n, !.done = @ \cup {s.node}], "run")
      \/ SaveThen(r, [s EXCEPT !.status = "error"], "idle")
  BY DEF RunCondition
<1>3. Vouched'
  BY <1>1, KeptVouched DEF Unshared
<1>4. /\ s \in GoodNow /\ s \in States /\ s.token = 0 /\ GoodNow \subseteq GoodNow'
      /\ Sound(s, graph, ApprovedNodes, ConfirmedNodes, ReviewNode, TokenNode)
  BY <1>1, WorkingKnows
<1>5. s.review = 0
  BY <1>1, <1>4 DEF Sound, ToolTypes
<1>6. s.node \in Earned(graph, ApprovedNodes[s.start], ConfirmedNodes[s.start])
  BY <1>1 DEF Earned, ToolTypes
<1> HIDE DEF s
<1>7. CASE SaveThen(r, [s EXCEPT !.status = "error"], "idle")
  <2>1. [s EXCEPT !.status = "error"] \in GoodNow'
    BY <1>4, StatusGood DEF GoodNow
  <2> QED
    BY <1>1, <1>3, <1>7, <2>1, SavesSafe
<1>8. ASSUME NEW n \in 1..End,
             SaveThen(r, [s EXCEPT !.node = n, !.done = @ \cup {s.node}], "run")
      PROVE  Unshared'
  <2> DEFINE t == [s EXCEPT !.node = n, !.done = @ \cup {s.node}]
  <2>1. t \in GoodNow'
    BY <1>4, <1>5, <1>6, MovedGood DEF GoodNow
  <2>2. t.token = 0
    BY <1>4 DEF States
  <2>3. SaveThen(r, t, "run")
    BY <1>8
  <2> HIDE DEF t
  <2> QED
    BY <1>1, <1>3, <2>1, <2>2, <2>3, SavesSafe
<1> QED
  BY <1>2, <1>7, <1>8

LEMMA SucceedsSafe == ASSUME GraphAssumption, Quiet, NEW r \in Runners, Succeeds(r) PROVE Unshared'
<1> USE DEF Quiet
<1> DEFINE s == State(r)
           t == [s EXCEPT !.node = at[r] + 1, !.done = @ \cup {at[r]}]
<1>1. /\ pc[r] = "leave" /\ UNCHANGED <<redis, obj, tokens>> /\ at[r] \in Nodes
      /\ SaveThen(r, t, "run")
  BY DEF Succeeds, Frame, storage
<1>2. Vouched'
  BY <1>1, KeptVouched DEF Unshared
<1>3. s \in GoodNow /\ s \in States /\ s.token = 0 /\ GoodNow \subseteq GoodNow'
  BY <1>1, WorkingKnows
<1>4. s.review = 0 /\ at[r] \in Earned(graph, ApprovedNodes[s.start], ConfirmedNodes[s.start])
  BY <1>1, <1>3 DEF States, Unshared, Placed, EarnedNow
<1>5. at[r] + 1 \in 1..End
  BY <1>1 DEF Nodes, End, GraphAssumption
<1> HIDE DEF s
<1>6. t \in GoodNow'
  BY <1>3, <1>4, <1>5, MovedGood DEF GoodNow
<1>7. t.token = 0
  BY <1>3 DEF States
<1> HIDE DEF t
<1> QED
  BY <1>1, <1>2, <1>6, <1>7, SavesSafe

LEMMA AskReviewSafe == ASSUME GraphAssumption, Quiet, NEW r \in Runners, AskReview(r) PROVE Unshared'
<1> USE DEF Quiet
<1> DEFINE s == State(r)
<1>1. /\ pc[r] = "ask" /\ UNCHANGED <<redis, obj, tokens>> /\ at[r] \in Nodes
  BY DEF AskReview, Frame, storage
<1>2. PICK i \in 1..MaxReviews :
         /\ reviews' = [reviews EXCEPT ![i].status = "pending", ![i].node = at[r],
                                        ![i].start = State(r).start]
         /\ SaveThen(r, [s EXCEPT !.status = "paused", !.review = i], "idle")
  BY DEF AskReview
<1>3. Vouched'
  BY <1>1, KeptVouched DEF Unshared
<1>4. s \in GoodNow' /\ s \in States /\ s.token = 0
  BY <1>1, WorkingKnows
<1>5. /\ at[r] = s.node /\ s.node \in Nodes /\ s.node \notin s.approved
      /\ graph'[s.node].review /\ graph'[s.node].type \in ToolTypes
  BY <1>1 DEF Unshared, Placed, NeedsReview, Kind, Grown
<1>6. ReviewNode'[s.start][i] = s.node
  BY <1>2, <1>4, <1>5 DEF States, ReviewNode, TypeInv, TypeOK, Reviews
<1>7. i \in 0..MaxReviews /\ i # 0
  BY DEF GraphAssumption
<1> HIDE DEF s
<1>8. [s EXCEPT !.status = "paused", !.review = i] \in GoodNow'
  BY <1>4, <1>5, <1>6, <1>7, AskedGood DEF GoodNow
<1> QED
  BY <1>1, <1>2, <1>3, <1>8, SavesSafe

LEMMA CreateTokenSafe ==
    ASSUME GraphAssumption, Quiet, NEW r \in Runners, CreateToken(r) PROVE Unshared'
<1> USE DEF Quiet
<1> DEFINE s == State(r)
<1>1. /\ pc[r] = "create" /\ UNCHANGED <<redis, obj, reviews>> /\ at[r] \in Nodes
  BY DEF CreateToken, Frame, storage
<1>2. PICK i \in 1..MaxTokens :
         /\ tokens' = [tokens EXCEPT ![i] =
               [status |-> "pending", node |-> at[r], start |-> State(r).start,
                high |-> Kind(at[r]).high, confirmed |-> FALSE]]
         /\ SaveThen(r, [s EXCEPT !.status = "paused", !.token = i], "idle")
  BY DEF CreateToken
<1>3. s \in GoodNow' /\ s \in States
  BY <1>1, WorkingKnows
<1>4. /\ at[r] = s.node /\ s.node \in Nodes /\ s.review = 0
      /\ graph[at[r]].review => at[r] \in ApprovedNodes[s.start]
  BY <1>1 DEF Unshared, Placed
<1>5. /\ tokens'[i].status = "pending" /\ tokens'[i].node = at[r] /\ tokens'[i].start = s.start
      /\ s.start \in Nat
      /\ \A j \in 1..MaxTokens : j # i => tokens'[j] = tokens[j]
  BY <1>2, <1>3 DEF TypeInv, TypeOK, States
<1>6. TokenNode'[s.start][i] = s.node
  BY <1>4, <1>5 DEF TokenNode
<1>7. Vouched'
  <2>1. PICK k \in Nat, n \in Nodes : k = s.start /\ n = at[r]
    BY <1>4, <1>5
  <2>2. tokens'[i].node = n /\ tokens'[i].start = k /\ (graph[n].review => n \in ApprovedNodes'[k])
    BY <1>4, <1>5, <2>1 DEF Grown
  <2>3. ASSUME NEW j \in 1..MaxTokens, j # i, tokens[j].status # "none", graph[tokens[j].node].review
        PROVE  tokens[j].node \in ApprovedNodes'[tokens[j].start]
    BY <2>3 DEF Unshared, Vouched, Grown, TypeInv, TypeOK, Tokens
  <2> QED
    BY <1>5, <2>2, <2>3 DEF Vouched, Grown
<1>8. i \in 0..MaxTokens
  BY DEF GraphAssumption
<1> HIDE DEF s
<1>9. [s EXCEPT !.status = "paused", !.token = i] \in GoodNow'
  BY <1>3, <1>4, <1>6, <1>8, SuspendedGood DEF GoodNow
<1> QED
  BY <1>1, <1>2, <1>7, <1>9, SavesSafe

\* At a turn, the request goes on to an await that its object allows.
LEMMA AwaitSafe ==
    ASSUME GraphAssumption, Quiet, NEW r \in Runners, pc[r] = "run", State(r).node \in Nodes,
           NEW label \in {"leave", "fail", "ask", "create"}, Goto(r, label),
           at' = [at EXCEPT ![r] = State(r).node],
           UNCHANGED <<heap, after, ticket, tokens, obj, redis>>,
           label = "leave" => State(r).review = 0 /\ State(r).node \in EarnedNow[State(r).start],
           label = "ask" => NeedsReview(State(r)) /\ graph[State(r).node].type \in ToolTypes,
           label = "create" => /\ State(r).review = 0
                               /\ graph[State(r).node].review =>
                                      State(r).node \in ApprovedNodes[State(r).start]
    PROVE  Unshared'
<1> USE DEF Quiet
<1>1. Vouched'
  BY KeptVouched DEF Unshared
<1>2. /\ pc' = [pc EXCEPT ![r] = label] /\ pc \in [Runners -> Labels] /\ at \in [Runners -> 1..End]
  BY DEF Goto, TypeInv, TypeOK, Labels
<1>3. heap' \in [Objects -> GoodNow'] /\ redis' \in GoodNow' /\ Alone'
  BY KeptGood DEF Unshared, Alone
<1>4. OthersStay(r)
  BY <1>2 DEF OthersStay
<1>5. pc'[r] = label /\ at'[r] = State(r).node /\ State(r)' = State(r) /\ State(r).token = 0
      /\ State(r).start \in Nat
  BY <1>2, WorkingKnows DEF State, States
<1>6. /\ \A k \in Nat : EarnedNow[k] \subseteq EarnedNow'[k] /\ ApprovedNodes[k] \subseteq ApprovedNodes'[k]
      /\ graph' = graph
  BY KeptGood DEF Grown
<1>7. NeedsReview(State(r)) => NeedsReview(State(r))'
  BY <1>5, <1>6 DEF NeedsReview, Kind
<1>8. Placed(r)'
  BY <1>5, <1>6, <1>7 DEF Placed, Working
<1> QED
  BY <1>1, <1>3, <1>4, <1>8, RunnerSafe

LEMMA RunAgentSafe == ASSUME GraphAssumption, Quiet, NEW r \in Runners, RunAgent(r) PROVE Unshared'
<1> USE DEF Quiet
<1>1. /\ pc[r] = "run" /\ State(r).node \in Nodes /\ graph[State(r).node].type = "agent"
      /\ Await(r, {"leave", "fail"}) /\ UNCHANGED <<obj, redis>>
  BY DEF RunAgent, Turn, Kind, Frame, storage
<1>2. State(r).review = 0
  BY <1>1, WorkingKnows DEF Sound, ToolTypes
<1>3. State(r).node \in EarnedNow[State(r).start]
  BY <1>1, WorkingKnows DEF States, EarnedNow, Earned, ToolTypes
<1> QED
  BY <1>1, <1>2, <1>3, AwaitSafe DEF Await

LEMMA RunToolSafe == ASSUME GraphAssumption, Quiet, NEW r \in Runners, RunTool(r) PROVE Unshared'
<1> USE DEF Quiet
<1> DEFINE s == State(r)
           label == IF NeedsReview(s) THEN "ask"
                    ELSE IF Kind(s.node).type = "read" \/ Writes(s) THEN "leave"
                    ELSE "create"
<1>1. /\ pc[r] = "run" /\ s.node \in Nodes /\ graph[s.node].type \in ToolTypes
      /\ Await(r, {label, "fail"}) /\ UNCHANGED <<obj, redis>>
  BY DEF RunTool, Turn, Kind, Frame, storage
<1>2. /\ Sound(s, graph, ApprovedNodes, ConfirmedNodes, ReviewNode, TokenNode)
      /\ s.start \in Nat
  BY <1>1, WorkingKnows DEF States
<1>3. ASSUME ~NeedsReview(s)
      PROVE  /\ s.review = 0
             /\ graph[s.node].review => s.node \in ApprovedNodes[s.start]
  BY <1>2, <1>3 DEF Sound, NeedsReview, Kind
<1>4. ASSUME label = "leave" PROVE s.review = 0 /\ s.node \in EarnedNow[s.start]
  <2>1. ~NeedsReview(s) /\ (Kind(s.node).type = "read" \/ Writes(s))
    BY <1>4
  <2>2. graph[s.node].type = "read" \/ (graph[s.node].type = "direct" /\ s.node \in ApprovedNodes[s.start])
    BY <1>2, <2>1 DEF Writes, Kind, Sound
  <2> QED
    BY <1>1, <1>2, <1>3, <2>1, <2>2 DEF EarnedNow, Earned
<1>5. label = "ask" => NeedsReview(s)
  OBVIOUS
<1>6. label = "create" => ~NeedsReview(s)
  OBVIOUS
<1>7. label \in {"leave", "ask", "create"}
  OBVIOUS
<1> HIDE DEF s, label
<1>8. PICK l \in {label, "fail"} : Goto(r, l)
  BY <1>1 DEF Await
<1>9. /\ at' = [at EXCEPT ![r] = s.node] /\ UNCHANGED <<heap, after, ticket, tokens>>
  BY <1>1 DEF Await, s
<1> QED
  BY <1>1, <1>3, <1>4, <1>5, <1>6, <1>7, <1>8, <1>9, AwaitSafe DEF s

LEMMA RunSafe == ASSUME GraphAssumption, Quiet, NEW r \in Runners, Run(r) PROVE Unshared'
  BY LoadSafe, ReadReviewSafe, ReadTokenSafe, SaveSafe, ClearSafe, FailingSafe, RunEndSafe,
     RunConditionSafe, RunAgentSafe, RunToolSafe, SucceedsSafe, AskReviewSafe, CreateTokenSafe DEF Run

-----------------------------------------------------------------------------
(* The other actions, and the theorems                                     *)

\* The requests rest.
LEMMA RestSafe ==
    ASSUME GraphAssumption, Quiet, UNCHANGED running, redis' \in GoodNow', Vouched' PROVE Unshared'
<1> USE DEF Quiet
<1>1. UNCHANGED <<heap, obj, pc, after, ticket, at>>
  BY DEF running, local
<1>2. heap' \in [Objects -> GoodNow'] /\ Alone'
  BY <1>1, KeptGood DEF Unshared, Alone
<1>3. \A r \in Runners : Placed(r)'
  BY <1>1, StateIn, KeptPlaced DEF Unshared, State
<1> QED
  BY <1>2, <1>3 DEF Unshared

LEMMA RequestSafe == ASSUME GraphAssumption, Quiet, NEW r \in Runners, Request(r) PROVE Unshared'
<1> USE DEF Quiet
<1>1. /\ pc' = [pc EXCEPT ![r] = "load"] /\ UNCHANGED <<redis, heap, obj, after, ticket, at, tokens>>
  BY DEF Request, Goto, storage, local, outside
<1>2. Vouched' /\ redis' \in GoodNow' /\ heap' \in [Objects -> GoodNow'] /\ Alone'
  BY <1>1, KeptVouched, KeptGood DEF Unshared, Alone
<1>3. OthersStay(r) /\ Placed(r)'
  BY <1>1 DEF OthersStay, Placed, Working, TypeInv, TypeOK
<1> QED
  BY <1>2, <1>3, RunnerSafe

LEMMA MoveSafe ==
    ASSUME GraphAssumption, Quiet, NEW i \in 1..MaxTokens, NEW from, NEW to, "none" \notin from,
           Move(i, from, to)
    PROVE  Unshared'
<1> USE DEF Quiet
<1>1. /\ redis' = redis /\ UNCHANGED running /\ tokens[i].status # "none"
      /\ tokens' = [tokens EXCEPT ![i].status = to,
                                  ![i].confirmed = @ \/ to \in {"first_confirmed", "running"}]
  BY DEF Move, storage
<1>2. /\ tokens'[i].node = tokens[i].node /\ tokens'[i].start = tokens[i].start
      /\ tokens[i].start \in Nat
      /\ \A j \in 1..MaxTokens : j # i => tokens'[j] = tokens[j]
  BY <1>1 DEF TypeInv, TypeOK, Tokens
<1>3. Vouched'
  <2>1. ASSUME NEW j \in 1..MaxTokens, tokens[j].status # "none", graph[tokens[j].node].review
        PROVE  tokens[j].node \in ApprovedNodes'[tokens[j].start]
    BY <2>1 DEF Unshared, Vouched, Grown, TypeInv, TypeOK, Tokens
  <2>2. \A j \in 1..MaxTokens : /\ tokens'[j].node = tokens[j].node
                                /\ tokens'[j].start = tokens[j].start
                                /\ tokens'[j].status # "none" => tokens[j].status # "none"
    BY <1>1, <1>2
  <2> QED
    BY <2>1, <2>2 DEF Vouched, Grown
<1> QED
  BY <1>1, <1>3, RestSafe, KeptGood DEF Unshared

LEMMA RestartSafe == ASSUME GraphAssumption, Quiet, Restart PROVE Unshared'
<1> USE DEF Quiet
<1>1. /\ redis' = redis /\ tokens' = tokens /\ heap' = [o \in Objects |-> Absent]
      /\ obj' = [r \in Runners |-> None] /\ pc' = [r \in Runners |-> "idle"]
  BY DEF Restart
<1>2. Absent \in GoodNow'
  BY AbsentGood DEF GoodNow
<1>3. heap' \in [Objects -> GoodNow'] /\ redis' \in GoodNow' /\ Vouched'
  BY <1>1, <1>2, KeptGood, KeptVouched DEF Unshared
<1>4. Alone' /\ \A r \in Runners : Placed(r)'
  BY <1>1 DEF Alone, Placed, Working
<1> QED
  BY <1>3, <1>4 DEF Unshared

LEMMA StepSafeInv == ASSUME GraphAssumption, SafeInv, [Next]_vars PROVE SafeInv'
<1> USE DEF SafeInv
<1>1. TypeInv' /\ Grown /\ Marked'
  BY StepTypeInv, StepGrown
<1> SUFFICES ASSUME ~shared' PROVE Unshared'
  BY <1>1
<1>2. Quiet
  BY <1>1 DEF Quiet, Grown
<1>3. ASSUME NEW r \in Runners, Request(r) \/ Run(r) PROVE Unshared'
  BY <1>2, <1>3, RequestSafe, RunSafe
<1>4. CASE UNCHANGED <<redis, running, tokens>>
  BY <1>2, <1>4, RestSafe, KeptVouched, KeptGood DEF Quiet, Unshared
<1>5. ASSUME NEW i \in 1..MaxReviews, ReadTask(i) PROVE Unshared'
  BY <1>4, <1>5 DEF ReadTask, storage
<1>6. ASSUME NEW i \in 1..MaxReviews, NEW d \in {"approved", "rejected"}, Decide(i, d) PROVE Unshared'
  BY <1>4, <1>6 DEF Decide, storage
<1>7. ASSUME NEW i \in 1..MaxTokens, ConfirmToken(i) \/ Written(i) \/ WriteFails(i) \/ TokenGone(i)
      PROVE  Unshared'
  <2>1. PICK from, to : Move(i, from, to) /\ "none" \notin from
    BY <1>7 DEF ConfirmToken, Written, WriteFails, TokenGone
  <2> QED
    BY <1>2, <2>1, MoveSafe
<1>8. CASE ExpireCheckpoint
  <2>1. redis' = Absent /\ UNCHANGED <<running, tokens>>
    BY <1>8 DEF ExpireCheckpoint, outside
  <2> QED
    BY <1>2, <2>1, RestSafe, KeptVouched, AbsentGood DEF Quiet, Unshared, GoodNow
<1>9. CASE Restart
  BY <1>2, <1>9, RestartSafe
<1>10. CASE UNCHANGED vars
  BY <1>4, <1>10 DEF vars, storage, outside
<1> QED
  BY <1>3, <1>5, <1>6, <1>7, <1>8, <1>9, <1>10 DEF Next

LEMMA InitSafeInv == ASSUME GraphAssumption, Init PROVE SafeInv
<1>1. Absent \in GoodNow
  BY AbsentGood DEF GoodNow
<1>2. Marked
  BY DEF Init, Marked, TakenForExecuted
<1>3. Unshared
  BY <1>1 DEF Init, Unshared, Vouched, Alone, Placed, Working
<1> QED
  BY <1>2, <1>3, InitTypeInv DEF SafeInv

\* The states that can be used are good.
LEMMA LiveGood == ASSUME SafeInv, ~shared PROVE 
    \A s \in Live : s.start \in Nat /\ s.done \subseteq EarnedNow[s.start]
<1>1. Live \subseteq GoodNow
  BY DEF SafeInv, Unshared, Live
<1> QED
  BY <1>1 DEF GoodNow, Good, Sound, EarnedNow, States

\* A write is recorded as done only after its confirmation or its approval, of a
\* token or a task of the same start of the graph (execute(), from
\* pendingWriteToken), unless two requests worked on one object.
THEOREM NothingPassedOver == Spec => []DoneWasConfirmed
<1>1. Init => SafeInv
  BY InitSafeInv, GraphAssumption
<1>2. SafeInv /\ [Next]_vars => SafeInv'
  BY StepSafeInv, GraphAssumption
<1>3. SafeInv => DoneWasConfirmed
  BY LiveGood DEF DoneWasConfirmed, EarnedNow, Earned, ApprovedNodes, ConfirmedNodes
<1> QED
  BY <1>1, <1>2, <1>3, PTL DEF Spec

\* A node that needs a review is executed or suspended only after the approval
\* of a task of the same start of the graph (the gate before executeToolCall),
\* unless two requests worked on one object.
THEOREM ReviewComesFirst == Spec => []ReviewedFirst
<1>1. Init => SafeInv
  BY InitSafeInv, GraphAssumption
<1>2. SafeInv /\ [Next]_vars => SafeInv'
  BY StepSafeInv, GraphAssumption
<1>3. SafeInv => ReviewedFirst
  <2> SUFFICES ASSUME SafeInv, ~shared PROVE ReviewedFirst
    BY DEF ReviewedFirst
  <2>1. ASSUME NEW i \in 1..MaxTokens, tokens[i].status # "none", graph[tokens[i].node].review
        PROVE  Approved(tokens[i].node, tokens[i].start)
    <3>1. tokens[i].start \in Nat /\ tokens[i].node \in ApprovedNodes[tokens[i].start]
      BY <2>1 DEF SafeInv, TypeInv, TypeOK, Tokens, Unshared, Vouched
    <3> QED
      BY <3>1 DEF ApprovedNodes
  <2>2. ASSUME NEW s \in Live, NEW n \in s.done, graph[n].type \in ToolTypes, graph[n].review
        PROVE  Approved(n, s.start)
    BY <2>2, LiveGood DEF EarnedNow, Earned, ApprovedNodes
  <2> QED
    BY <2>1, <2>2 DEF ReviewedFirst
<1> QED
  BY <1>1, <1>2, <1>3, PTL DEF Spec

-----------------------------------------------------------------------------
(* Once per start                                                          *)

\* The premises of WrittenOncePerStart.
Linear ==
    /\ \A n \in Nodes : graph[n].type # "condition"
    /\ ~overlapped /\ ~stale /\ faults = 0

\* The tokens of a node that were or may still be written, and the nodes for
\* which a graph in state s may still get one.
Usable(n) == {i \in 1..MaxTokens : tokens[i].node = n /\ tokens[i].status \notin {"none", "gone"}}
Begun(s)  == s.status \notin {"none", "done"}
Ahead(s)  == {n \in Nodes : /\ Begun(s) /\ n >= s.node
                            /\ n = s.node => s.token = 0 \/ tokens[s.token].status = "gone"}

\* The starts pay for what is usable and for what may follow.
Due(b)  == IF b THEN 1 ELSE 0
Fits(s) == \A n \in Nodes : Cardinality(Usable(n)) + Due(n \in Ahead(s)) <= starts

\* The checkpoint that the next request will find.
Stored == IF connected THEN redis ELSE IF map = None THEN Absent ELSE heap[map]

Outside(r) == pc[r] \in {"idle", "load"}

\* One request runs at a time, on an object of its own; its state, or the
\* checkpoint when none runs, fits.
Once ==
    /\ ~shared
    /\ \A r, q \in Runners : pc[r] # "idle" /\ pc[q] # "idle" => r = q
    /\ \A r \in Runners : Outside(r) => obj[r] = None
    /\ connected => map = None
    /\ \A r \in Runners : pc[r] = "review" => State(r) = Stored
    /\ \A r \in Runners : ~Outside(r) => Fits(State(r))
    /\ \A r \in Runners : Outside(r) \/ pc[r] = "clear" \/ Begun(State(r))
    /\ (\A r \in Runners : Outside(r)) => Fits(Stored)

OnceInv == SafeInv /\ (Linear => Once)

\* The situation in which a step is looked at.
Calm == GraphAssumption /\ SafeInv /\ TypeInv' /\ Linear /\ Linear' /\ Once

\* No fault has happened and none happens: Redis answers, or is not used.
LEMMA NoFaults == ASSUME Calm PROVE ~Fault /\ (WithoutRedis => ~connected)
<1>1. faults = 0 /\ faults' = 0
  BY DEF Calm, Linear
<1> QED
  BY <1>1 DEF Fault, WithoutRedis

LEMMA Finite == ASSUME NEW n PROVE IsFiniteSet(Usable(n)) /\ Cardinality(Usable(n)) \in Nat
<1>1. Usable(n) \subseteq 1..MaxTokens /\ IsFiniteSet(1..MaxTokens)
  BY FS_Interval, GraphAssumption DEF Usable, GraphAssumption
<1> QED
  BY <1>1, FS_Subset, FS_CardinalityType

\* A state fits if it is ahead of no more, and a new graph after a start.
LEMMA StillFits ==
    ASSUME NEW s, NEW t, Fits(s), UNCHANGED <<tokens, starts>>, starts \in Nat,
           \A n \in Nodes : n \in Ahead(t) => n \in Ahead(s)
    PROVE  Fits(t)'
<1>1. \A n \in Nodes : Usable(n)' = Usable(n) /\ (n \in Ahead(t)' <=> n \in Ahead(t))
  BY DEF Usable, Ahead, Begun
<1>2. \A n \in Nodes : Cardinality(Usable(n)') + Due(n \in Ahead(t)') <= starts'
  BY <1>1, Finite DEF Fits, Due
<1> QED
  BY <1>2 DEF Fits, Due

LEMMA NothingAhead ==
    ASSUME NEW s, Fits(s), UNCHANGED <<tokens, starts>>, starts \in Nat,
           NEW t, t.status \in {"none", "done"}
    PROVE  Fits(t)'
<1>1. \A n \in Nodes : n \notin Ahead(t)
  BY DEF Ahead, Begun
<1> QED
  BY <1>1, StillFits

LEMMA StartFits ==
    ASSUME NEW s, Fits(s), starts \in Nat, UNCHANGED tokens, starts' = starts + 1, NEW t
    PROVE  Fits(t)'
<1>1. \A n \in Nodes : Usable(n)' = Usable(n)
  BY DEF Usable
<1>2. \A n \in Nodes : Cardinality(Usable(n)) <= starts
  BY Finite DEF Fits, Due
<1>3. \A n \in Nodes : Cardinality(Usable(n)') + Due(n \in Ahead(t)') <= starts'
  BY <1>1, <1>2, Finite DEF Due
<1> QED
  BY <1>3 DEF Fits, Due

\* A request goes on with its object in a state that fits.
LEMMA GoesOn ==
    ASSUME Calm, NEW r \in Runners, ~Outside(r), NEW s \in States, NEW label \in Labels,
           label \notin {"idle", "load", "review"}, label = "clear" \/ Begun(s),
           pc' = [pc EXCEPT ![r] = label], heap' = [heap EXCEPT ![obj[r]] = s],
           UNCHANGED <<obj, storage, shared>>, Fits(s)'
    PROVE  Once'
<1>1. /\ obj[r] \in Objects /\ heap'[obj[r]] = s /\ obj'[r] = obj[r]
  BY DEF Calm, SafeInv, TypeInv, TypeOK, Held, Outside
<1>2. /\ pc'[r] = label /\ pc[r] # "idle"
      /\ \A q \in Runners : q # r => pc'[q] = pc[q] /\ pc[q] = "idle"
  BY DEF Calm, Once, Outside, SafeInv, TypeInv, TypeOK
<1>3. State(r)' = s
  BY <1>1 DEF State
<1>4. ~shared' /\ (connected' => map' = None)
  BY DEF Calm, Once, storage
<1>5. \A p, q \in Runners : pc'[p] # "idle" /\ pc'[q] # "idle" => p = q
  BY <1>2
<1>6. \A q \in Runners : Outside(q)' => q # r /\ obj'[q] = None
  BY <1>2 DEF Calm, Once, Outside
<1>7. \A q \in Runners : pc'[q] # "review"
  BY <1>2
<1>8. \A q \in Runners : ~Outside(q)' => q = r
  BY <1>2 DEF Outside
<1>9. ~(\A q \in Runners : Outside(q)')
  BY <1>2 DEF Outside
<1>10. \A q \in Runners : ~Outside(q)' => Fits(State(q))'
  BY <1>3, <1>8 DEF Fits, Ahead, Begun
<1>11. \A q \in Runners : ~Outside(q)' => pc'[q] = "clear" \/ Begun(State(q))'
  BY <1>2, <1>3, <1>8 DEF Begun
<1> QED
  BY <1>4, <1>5, <1>6, <1>7, <1>9, <1>10, <1>11 DEF Once

\* A request ends, and leaves a checkpoint that fits.
LEMMA Ends ==
    ASSUME Calm, NEW r \in Runners, ~Outside(r), NEW kept, Leave(r, kept),
           ~shared', connected' => map' = None, Fits(Stored)'
    PROVE  Once'
<1>1. /\ pc'[r] = "idle" /\ obj'[r] = None
      /\ \A q \in Runners : q # r => pc'[q] = "idle" /\ obj'[q] = None
  BY DEF Calm, Once, Outside, Leave, SafeInv, TypeInv, TypeOK
<1>2. \A q \in Runners : pc'[q] = "idle" /\ obj'[q] = None
  BY <1>1
<1> QED
  BY <1>2 DEF Once, Outside

\* What the running request knows of its object.
LEMMA RunnerKnows ==
    ASSUME Calm, NEW r \in Runners, ~Outside(r)
    PROVE  /\ State(r) \in States /\ State(r) \in GoodNow /\ obj[r] \in Objects
           /\ Fits(State(r)) /\ starts \in Nat
           /\ Sound(State(r), graph, ApprovedNodes, ConfirmedNodes, ReviewNode, TokenNode)
           /\ Placed(r) /\ (pc[r] = "clear" \/ Begun(State(r)))
<1>1. /\ SafeInv /\ ~shared /\ Fits(State(r)) /\ pc[r] \notin {"idle", "load"}
      /\ pc[r] = "clear" \/ Begun(State(r))
  BY DEF Calm, Once, Outside
<1>2. /\ Placed(r) /\ obj[r] \in Objects /\ starts \in Nat
      /\ heap \in [Objects -> GoodNow]
  BY <1>1 DEF SafeInv, Unshared, TypeInv, Held, TypeOK
<1>3. State(r) \in GoodNow
  BY <1>2 DEF State
<1> QED
  BY <1>1, <1>2, <1>3 DEF GoodNow, Good

LEMMA RequestOnce == ASSUME Calm, NEW r \in Runners, Request(r) PROVE Once'
<1>1. /\ pc[r] = "idle" /\ pc' = [pc EXCEPT ![r] = "load"]
      /\ \A q \in Runners : pc[q] = "idle"
      /\ UNCHANGED <<graph, storage, heap, obj, outside, starts, shared>>
  BY DEF Request, Goto, Calm, Linear
<1>2. \A q \in Runners : pc'[q] = IF q = r THEN "load" ELSE "idle"
  BY <1>1 DEF Calm, SafeInv, TypeInv, TypeOK
<1>3. Fits(Stored) /\ Stored' = Stored /\ starts \in Nat
  BY <1>1 DEF Calm, Once, Outside, Stored, storage, SafeInv, TypeInv, TypeOK
<1>4. Fits(Stored)'
  BY <1>1, <1>3, StillFits DEF outside, Fits, Ahead
<1>5. \A q \in Runners : obj'[q] = None
  BY <1>1 DEF Calm, Once, Outside
<1> QED
  BY <1>1, <1>2, <1>4, <1>5 DEF Calm, Once, Outside, storage

LEMMA LoadOnce == ASSUME Calm, NEW r \in Runners, Load(r) PROVE Once'
<1>1. /\ pc[r] = "load" /\ obj[r] = None
      /\ \A q \in Runners : q # r => pc[q] = "idle"
      /\ \A q \in Runners : obj[q] = None
      /\ UNCHANGED <<graph, storage, outside>>
  BY DEF Load, Calm, Once, Outside
<1>2. Fits(Stored) /\ starts \in Nat
  BY <1>1 DEF Calm, Once, Outside, SafeInv, TypeInv, TypeOK
<1> DEFINE usable == map # None /\ heap[map].status \notin {"none", "done"}
<1>3. \/ connected /\ Begin(r, redis)
      \/ ~connected /\ ~usable /\ Begin(r, Absent)
      \/ ~connected /\ usable /\ Resume(r)
  BY NoFaults DEF Load
<1>4. ASSUME NEW t \in States, Entry(r, t), NEW o \in Objects, o # None,
             obj' = [obj EXCEPT ![r] = o], heap'[o] = t,
             Stored' = Stored, ~shared', Fits(t)', Begun(t), AwaitsReview(t) => t = Stored
      PROVE  Once'
  <2>1. /\ pc'[r] = (IF AwaitsReview(t) THEN "review" ELSE IF AwaitsToken(t) THEN "token" ELSE "run")
        /\ obj'[r] = o
        /\ \A q \in Runners : q # r => pc'[q] = "idle" /\ obj'[q] = None
    BY <1>1, <1>4 DEF Entry, Goto, Calm, SafeInv, TypeInv, TypeOK
  <2>2. State(r)' = t
    BY <1>4, <2>1 DEF State
  <2>3. \A q \in Runners : ~Outside(q)' <=> q = r
    BY <2>1 DEF Outside
  <2>4. Fits(State(r))'
    BY <1>4, <2>2 DEF Fits, Ahead, Begun
  <2>5. pc'[r] = "review" => State(r)' = Stored'
    BY <1>4, <2>1, <2>2
  <2>6. connected' => map' = None
    BY <1>1 DEF storage, Calm, Once
  <2>7. Begun(State(r))'
    BY <1>4, <2>2 DEF Begun
  <2> QED
    BY <1>4, <2>1, <2>3, <2>4, <2>5, <2>6, <2>7 DEF Once
<1>5. None \notin Objects
  BY GraphAssumption DEF GraphAssumption
<1>6. ASSUME NEW s \in States, Begin(r, s), s = Stored \/ s = Absent
      PROVE  Once'
  <2>0. PICK t : t = IF s.status \in {"none", "done"} THEN Fresh(starts + 1) ELSE s
    OBVIOUS
  <2>1. t \in States
    BY <1>2, <2>0, AbsentOK, GraphAssumption
  <2>2. PICK o \in Unused : obj' = [obj EXCEPT ![r] = o] /\ heap' = [heap EXCEPT ![o] = t]
    BY <1>6, <2>0 DEF Begin
  <2>3. /\ Entry(r, t) /\ ~shared'
        /\ starts' = IF s.status \in {"none", "done"} THEN starts + 1 ELSE starts
    BY <1>6, <2>0 DEF Begin, Calm, Once
  <2>4. o \in Objects /\ o # map /\ o # None
    BY <1>5, <2>2 DEF Unused
  <2>5. heap'[o] = t /\ (map # None => heap'[map] = heap[map])
    BY <2>1, <2>2, <2>4 DEF Calm, SafeInv, TypeInv, TypeOK
  <2>6. Stored' = Stored
    BY <1>1, <2>5 DEF Stored, storage
  <2>7. Fits(t)'
    <3>1. CASE s.status \in {"none", "done"}
      BY <1>1, <1>2, <2>3, <3>1, StartFits DEF outside
    <3>2. CASE s.status \notin {"none", "done"}
      <4>1. t = Stored
        BY <1>6, <2>0, <3>2 DEF Absent
      <4>2. UNCHANGED <<tokens, starts>>
        BY <1>1, <2>3, <3>2 DEF outside
      <4> QED
        BY <1>2, <4>1, <4>2, StillFits
    <3> QED
      BY <3>1, <3>2
  <2>8. AwaitsReview(t) => t = Stored
    BY <1>6, <2>0 DEF AwaitsReview, Fresh, Absent
  <2>9. Begun(t)
    BY <2>0 DEF Begun, Fresh, Absent
  <2> QED
    BY <1>4, <2>1, <2>2, <2>3, <2>4, <2>5, <2>6, <2>7, <2>8, <2>9
<1>7. CASE connected /\ Begin(r, redis)
  <2>1. redis \in States /\ redis = Stored
    BY <1>7 DEF Stored, Calm, SafeInv, TypeInv, TypeOK
  <2> QED
    BY <1>6, <1>7, <2>1
<1>8. CASE ~connected /\ ~usable /\ Begin(r, Absent)
  BY <1>6, <1>8, AbsentOK, GraphAssumption
<1>9. CASE ~connected /\ usable /\ Resume(r)
  <2>1. /\ Entry(r, heap[map]) /\ obj' = [obj EXCEPT ![r] = map] /\ UNCHANGED <<heap, starts>>
        /\ shared' = (shared \/ \E q \in Runners : obj[q] = map)
    BY <1>9 DEF Resume
  <2>2. map \in Objects /\ heap[map] \in States /\ map # None
    BY <1>9 DEF Calm, SafeInv, TypeInv, TypeOK
  <2>3. ~shared' /\ Stored = heap[map] /\ Stored' = Stored
    BY <1>1, <1>9, <2>1, <2>2 DEF Stored, storage, Calm, Once
  <2>4. UNCHANGED <<tokens, starts>>
    BY <1>1, <2>1 DEF outside
  <2>5. PICK t \in States, o \in Objects : t = heap[map] /\ o = map
    BY <2>2
  <2>6. Fits(t) /\ t = Stored /\ Entry(r, t) /\ heap'[o] = t
    BY <1>2, <2>1, <2>3, <2>5
  <2>7. Fits(t)' /\ Begun(t)
    BY <1>2, <1>9, <2>4, <2>5, <2>6, StillFits DEF Begun
  <2> QED
    BY <1>4, <2>1, <2>2, <2>3, <2>5, <2>6, <2>7
<1> QED
  BY <1>3, <1>7, <1>8, <1>9

LEMMA SaveOnce == ASSUME Calm, NEW r \in Runners, Save(r) PROVE Once'
<1>1. /\ pc[r] = "save" /\ UNCHANGED <<graph, connected, outside, history>>
      /\ \/ connected /\ redis' = State(r) /\ map' = map
         \/ ~connected /\ map' = obj[r] /\ redis' = redis
  BY NoFaults DEF Save
<1>2. /\ State(r) \in States /\ obj[r] \in Objects /\ Fits(State(r)) /\ starts \in Nat
      /\ ~Outside(r)
  BY <1>1, RunnerKnows DEF Outside
<1>3. ~shared' /\ (connected' => map' = None) /\ UNCHANGED <<tokens, starts>>
  BY <1>1 DEF history, outside, Calm, Once
<1>4. None \notin Objects
  BY GraphAssumption DEF GraphAssumption
<1>5. CASE after[r] = "run"
  <2>1. /\ pc' = [pc EXCEPT ![r] = "run"] /\ UNCHANGED <<heap, obj>>
    BY <1>5 DEF Save, Goto
  <2>2. /\ pc'[r] = "run" /\ pc[r] # "idle"
        /\ \A q \in Runners : q # r => pc'[q] = "idle" /\ pc[q] = "idle"
    BY <1>1, <2>1 DEF Calm, Once, SafeInv, TypeInv, TypeOK
  <2>3. PICK s \in States : s = State(r)
    BY <1>2
  <2>4. State(r)' = s /\ Fits(s)
    BY <1>2, <2>1, <2>3 DEF State
  <2>5. Fits(s)'
    BY <1>2, <1>3, <2>4, StillFits
  <2>6. \A q \in Runners : ~Outside(q)' <=> q = r
    BY <2>2 DEF Outside
  <2>7. \A q \in Runners : ~Outside(q)' => Fits(State(q))'
    BY <2>4, <2>5, <2>6 DEF Fits, Ahead, Begun
  <2>8. \A q \in Runners : Outside(q)' => obj'[q] = None
    BY <2>1, <2>2, <2>6 DEF Calm, Once, Outside
  <2>9. \A q \in Runners : ~Outside(q)' => Begun(State(q))'
    BY <1>1, <1>2, <2>3, <2>4, <2>6, RunnerKnows DEF Begun
  <2> QED
    BY <1>3, <2>2, <2>6, <2>7, <2>8, <2>9 DEF Once
<1>6. CASE after[r] # "run"
  <2>1. Leave(r, {map'})
    BY <1>6 DEF Save
  <2>2. PICK s \in States : s = State(r)
    BY <1>2
  <2>3. Stored' = s
    <3>1. CASE connected
      BY <1>1, <2>2, <3>1 DEF Stored
    <3>2. CASE ~connected
      BY <1>1, <1>2, <1>4, <2>1, <2>2, <3>2 DEF Stored, Leave, State
    <3> QED
      BY <3>1, <3>2
  <2>4. Fits(s)'
    BY <1>2, <1>3, <2>2, StillFits
  <2>5. Fits(Stored)'
    BY <2>3, <2>4 DEF Fits, Ahead, Begun
  <2> QED
    BY <1>2, <1>3, <2>1, <2>5, Ends
<1> QED
  BY <1>5, <1>6

LEMMA ClearOnce == ASSUME Calm, NEW r \in Runners, Clear(r) PROVE Once'
<1>1. /\ pc[r] = "clear" /\ UNCHANGED <<graph, connected, outside, history>> /\ Leave(r, {})
      /\ map' = None /\ (connected => redis' = Absent)
  BY NoFaults DEF Clear
<1>2. Fits(State(r)) /\ starts \in Nat /\ ~Outside(r)
  BY <1>1, RunnerKnows DEF Outside
<1>3. ~shared' /\ UNCHANGED <<tokens, starts>>
  BY <1>1 DEF history, outside, Calm, Once
<1>4. Stored' = Absent
  BY <1>1 DEF Stored
<1>5. Fits(Absent)'
  <2>1. Absent.status = "none"
    BY DEF Absent
  <2> QED
    BY <1>2, <1>3, <2>1, NothingAhead
<1>6. Fits(Stored)'
  BY <1>4, <1>5 DEF Fits, Ahead, Begun
<1> QED
  BY <1>1, <1>2, <1>3, <1>6, Ends

\* A state that is no further back, and keeps the token unless it is gone, is
\* ahead of no more.
LEMMA LessAhead ==
    ASSUME GraphAssumption, NEW s \in States, NEW t \in States, Begun(s),
           \/ t.node > s.node
           \/ t.node = s.node /\ (t.token = s.token \/ s.token = 0 \/ tokens[s.token].status = "gone")
    PROVE  \A n \in Nodes : n \in Ahead(t) => n \in Ahead(s)
<1>1. s.node \in Nat /\ t.node \in Nat /\ Nodes \subseteq Nat
  BY DEF States, End, Nodes, GraphAssumption
<1> SUFFICES ASSUME NEW n \in Nodes, n \in Ahead(t) PROVE n \in Ahead(s)
  OBVIOUS
<1>2. n >= t.node /\ (n = t.node => t.token = 0 \/ tokens[t.token].status = "gone")
  BY DEF Ahead
<1>3. CASE t.node > s.node
  <2>1. n >= s.node /\ n # s.node
    BY <1>1, <1>2, <1>3
  <2> QED
    BY <2>1 DEF Ahead
<1>4. CASE t.node = s.node /\ (t.token = s.token \/ s.token = 0 \/ tokens[s.token].status = "gone")
  BY <1>2, <1>4 DEF Ahead
<1> QED
  BY <1>3, <1>4

\* The running request changes its object to a state that is no further back.
LEMMA ChangeOnce ==
    ASSUME Calm, NEW r \in Runners, ~Outside(r), pc[r] # "clear",
           NEW s \in States, s = State(r), NEW t \in States, NEW label \in Labels,
           label \notin {"idle", "load", "review"}, label = "clear" \/ Begun(t),
           pc' = [pc EXCEPT ![r] = label], heap' = [heap EXCEPT ![obj[r]] = t],
           UNCHANGED <<obj, storage, shared, tokens, starts>>,
           \/ t.node > s.node
           \/ t.node = s.node /\ (t.token = s.token \/ s.token = 0 \/ tokens[s.token].status = "gone")
    PROVE  Once'
<1>1. Fits(s) /\ Begun(s) /\ starts \in Nat /\ GraphAssumption
  BY RunnerKnows DEF Calm
<1>2. \A n \in Nodes : n \in Ahead(t) => n \in Ahead(s)
  BY <1>1, LessAhead
<1>3. Fits(t)'
  BY <1>1, <1>2, StillFits
<1> QED
  BY <1>3, GoesOn

LEMMA SavesOnce ==
    ASSUME Calm, NEW r \in Runners, ~Outside(r), pc[r] # "clear",
           NEW s \in States, s = State(r), NEW t \in States, Begun(t),
           NEW label, SaveThen(r, t, label),
           UNCHANGED <<obj, storage, shared, tokens, starts>>,
           \/ t.node > s.node
           \/ t.node = s.node /\ (t.token = s.token \/ s.token = 0 \/ tokens[s.token].status = "gone")
    PROVE  Once'
  BY ChangeOnce DEF SaveThen, Change, Goto, Labels

LEMMA ReadReviewOnce == ASSUME Calm, NEW r \in Runners, ReadReview(r) PROVE Once'
<1>1. /\ pc[r] = "review" /\ ~Outside(r) /\ pc[r] # "clear"
      /\ UNCHANGED <<storage, shared, tokens, starts>>
  BY DEF ReadReview, Outside, outside, history
<1>2. PICK s \in States : s = State(r)
  BY <1>1, RunnerKnows
<1>3. /\ Fits(s) /\ Begun(s) /\ starts \in Nat /\ s = Stored /\ ~shared'
      /\ connected' => map' = None
  BY <1>1, <1>2, RunnerKnows DEF Calm, Once, storage
<1>4. CASE Leave(r, {map})
  <2>1. Stored' = s
    <3>1. map \in Objects => heap'[map] = heap[map]
      BY <1>1, <1>4 DEF Leave, Calm, SafeInv, TypeInv, TypeOK
    <3>2. map \in Objects \cup {None}
      BY DEF Calm, SafeInv, TypeInv, TypeOK
    <3> QED
      BY <1>1, <1>3, <3>1, <3>2 DEF Stored, storage
  <2>2. Fits(s)'
    BY <1>1, <1>3, StillFits
  <2>3. Fits(Stored)'
    BY <2>1, <2>2 DEF Fits, Ahead, Begun
  <2> QED
    BY <1>1, <1>3, <1>4, <2>3, Ends
<1>5. CASE SaveThen(r, [s EXCEPT !.status = "error"], "idle") /\ UNCHANGED obj
  <2>1. PICK t \in States : t = [s EXCEPT !.status = "error"]
    BY ErrorOK
  <2>2. Begun(t) /\ t.node = s.node /\ t.token = s.token
    BY <2>1 DEF Begun, States
  <2>3. SaveThen(r, t, "idle")
    BY <1>5, <2>1
  <2> QED
    BY <1>1, <1>2, <1>5, <2>2, <2>3, SavesOnce
<1>6. CASE /\ Change(r, [s EXCEPT !.status = "running", !.review = 0,
                                  !.approved = @ \cup ({s.node} \cap Nodes)])
           /\ Goto(r, "run") /\ UNCHANGED obj
  <2>1. s.approved \cup ({s.node} \cap Nodes) \in SUBSET Nodes
    BY Gathers DEF States
  <2>2. PICK t : t = [s EXCEPT !.status = "running", !.review = 0,
                               !.approved = @ \cup ({s.node} \cap Nodes)]
    OBVIOUS
  <2>3. t \in States /\ Begun(t) /\ t.node = s.node /\ t.token = s.token
    BY <2>1, <2>2, Zeros DEF Begun, States, Calm
  <2>4. heap' = [heap EXCEPT ![obj[r]] = t] /\ pc' = [pc EXCEPT ![r] = "run"]
    BY <1>6, <2>2 DEF Change, Goto
  <2> QED
    BY <1>1, <1>2, <1>6, <2>3, <2>4, ChangeOnce DEF Labels
<1> QED
  BY <1>2, <1>4, <1>5, <1>6 DEF ReadReview

LEMMA ReadTokenOnce == ASSUME Calm, NEW r \in Runners, ReadToken(r) PROVE Once'
<1>1. /\ pc[r] = "token" /\ ~Outside(r) /\ pc[r] # "clear"
      /\ UNCHANGED <<obj, storage, shared, tokens, starts>>
  BY DEF ReadToken, Outside, outside, history
<1>2. PICK s \in States : s = State(r)
  BY <1>1, RunnerKnows
<1>3. /\ Begun(s) /\ ticket[r] = s.token /\ s.token # 0 /\ s.node \in Nodes
  BY <1>1, <1>2, RunnerKnows DEF Placed, Sound
<1>4. CASE /\ tokens[s.token].status = "gone"
           /\ SaveThen(r, [s EXCEPT !.status = "error", !.token = 0], "idle")
  <2>1. PICK t : t = [s EXCEPT !.status = "error", !.token = 0]
    OBVIOUS
  <2>2. t \in States /\ Begun(t) /\ t.node = s.node
    BY <2>1, Zeros DEF Begun, States, Calm
  <2>3. SaveThen(r, t, "idle")
    BY <1>4, <2>1
  <2> QED
    BY <1>1, <1>2, <1>4, <2>2, <2>3, SavesOnce
<1>5. CASE SaveThen(r, s, "idle")
  BY <1>1, <1>2, <1>3, <1>5, SavesOnce
<1>6. CASE SaveThen(r, [s EXCEPT !.status = "running", !.token = 0,
                                 !.node = IF @ = End THEN End ELSE @ + 1,
                                 !.done = @ \cup ({s.node} \cap Nodes)], "run")
  <2>1. s.done \cup ({s.node} \cap Nodes) \in SUBSET Nodes
    BY Gathers DEF States
  <2>2. s.node + 1 \in 1..End /\ s.node + 1 > s.node /\ s.node # End
    BY <1>3 DEF Nodes, End, GraphAssumption, Calm
  <2>3. PICK t : t = [s EXCEPT !.status = "running", !.token = 0,
                               !.node = IF @ = End THEN End ELSE @ + 1,
                               !.done = @ \cup ({s.node} \cap Nodes)]
    OBVIOUS
  <2>4. t \in States /\ Begun(t) /\ t.node = s.node + 1
    BY <2>1, <2>2, <2>3, Zeros DEF Begun, States, Calm
  <2>5. SaveThen(r, t, "run")
    BY <1>6, <2>3
  <2> QED
    BY <1>1, <1>2, <2>2, <2>4, <2>5, SavesOnce
<1>7. \/ /\ tokens[s.token].status = "gone"
         /\ SaveThen(r, [s EXCEPT !.status = "error", !.token = 0], "idle")
      \/ SaveThen(r, s, "idle")
      \/ SaveThen(r, [s EXCEPT !.status = "running", !.token = 0,
                               !.node = IF @ = End THEN End ELSE @ + 1,
                               !.done = @ \cup ({s.node} \cap Nodes)], "run")
  BY <1>2, <1>3, NoFaults DEF ReadToken, NotConfirmed
<1> QED
  BY <1>4, <1>5, <1>6, <1>7

\* What a request at a turn, or after its await, has.
LEMMA WorksOn ==
    ASSUME Calm, NEW r \in Runners, pc[r] \in {"run", "leave", "fail", "ask", "create"}
    PROVE  /\ ~Outside(r) /\ pc[r] # "clear"
           /\ State(r) \in States /\ State(r).token = 0 /\ Begun(State(r))
           /\ pc[r] \in {"leave", "ask", "create"} => at[r] = State(r).node /\ at[r] \in Nodes
<1>1. ~Outside(r) /\ pc[r] # "clear" /\ Working(r)
  BY DEF Outside, Working
<1> QED
  BY <1>1, RunnerKnows DEF Placed

LEMMA FailingOnce ==
    ASSUME Calm, NEW r \in Runners, TooManySteps(r) \/ Fails(r) \/ CreateFails(r) PROVE Once'
<1>1. /\ pc[r] \in {"run", "leave", "fail", "ask", "create"}
      /\ UNCHANGED <<obj, storage, shared, tokens, starts>>
      /\ SaveThen(r, [State(r) EXCEPT !.status = "error"], "idle")
  BY DEF TooManySteps, Fails, CreateFails, Frame, history
<1>2. PICK s \in States : s = State(r)
  BY <1>1, WorksOn
<1>3. PICK t \in States : t = [s EXCEPT !.status = "error"]
  BY ErrorOK
<1>4. Begun(t) /\ t.node = s.node /\ t.token = s.token
  BY <1>3 DEF Begun, States
<1>5. SaveThen(r, t, "idle")
  BY <1>1, <1>2, <1>3
<1> QED
  BY <1>1, <1>2, <1>4, <1>5, WorksOn, SavesOnce

LEMMA RunEndOnce == ASSUME Calm, NEW r \in Runners, RunEnd(r) PROVE Once'
<1>1. /\ pc[r] = "run" /\ UNCHANGED <<obj, storage, shared, tokens, starts>>
      /\ Change(r, [State(r) EXCEPT !.status = "done"]) /\ Goto(r, "clear")
  BY DEF RunEnd, Frame, history
<1>2. PICK s \in States : s = State(r)
  BY <1>1, WorksOn
<1>3. PICK t : t = [s EXCEPT !.status = "done"]
  OBVIOUS
<1>4. t \in States /\ t.node = s.node /\ t.token = s.token
  BY <1>3 DEF States
<1>5. heap' = [heap EXCEPT ![obj[r]] = t] /\ pc' = [pc EXCEPT ![r] = "clear"]
  BY <1>1, <1>2, <1>3 DEF Change, Goto
<1> QED
  BY <1>1, <1>2, <1>4, <1>5, WorksOn, ChangeOnce DEF Labels

LEMMA AwaitsOnce ==
    ASSUME Calm, NEW r \in Runners, RunAgent(r) \/ RunTool(r) PROVE Once'
<1>1. pc[r] = "run" /\ UNCHANGED <<obj, storage, shared, starts>>
  BY DEF RunAgent, RunTool, Turn, Frame, history
<1>2. /\ \E label \in {"leave", "fail", "ask", "create"} : Goto(r, label)
      /\ UNCHANGED <<heap, tokens>>
  BY DEF RunAgent, RunTool, Await
<1>3. PICK label \in {"leave", "fail", "ask", "create"} : Goto(r, label)
  BY <1>2
<1>4. PICK s \in States : s = State(r)
  BY <1>1, WorksOn
<1>5. heap' = [heap EXCEPT ![obj[r]] = s]
  BY <1>2, <1>4 DEF State, Calm, SafeInv, TypeInv, TypeOK
<1>6. pc' = [pc EXCEPT ![r] = label] /\ label \in Labels /\ label \notin {"idle", "load", "review"}
  BY <1>3 DEF Goto, Labels
<1>7. ~Outside(r) /\ pc[r] # "clear" /\ Begun(s)
  BY <1>1, <1>4, WorksOn
<1> QED
  BY <1>1, <1>2, <1>4, <1>5, <1>6, <1>7, ChangeOnce

LEMMA SucceedsOnce == ASSUME Calm, NEW r \in Runners, Succeeds(r) PROVE Once'
<1>1. /\ pc[r] = "leave" /\ UNCHANGED <<obj, storage, shared, tokens, starts>>
      /\ SaveThen(r, [State(r) EXCEPT !.node = at[r] + 1, !.done = @ \cup {at[r]}], "run")
  BY DEF Succeeds, Frame, history
<1>2. PICK s \in States : s = State(r)
  BY <1>1, WorksOn
<1>3. at[r] = s.node /\ s.node \in Nodes /\ Begun(s)
  BY <1>1, <1>2, WorksOn
<1>4. s.node + 1 \in 1..End /\ s.node + 1 > s.node
  BY <1>3 DEF Nodes, End, GraphAssumption, Calm
<1>5. PICK t : t = [s EXCEPT !.node = s.node + 1, !.done = @ \cup {s.node}]
  OBVIOUS
<1>6. t \in States /\ Begun(t) /\ t.node = s.node + 1
  BY <1>3, <1>4, <1>5 DEF Begun, States
<1>7. SaveThen(r, t, "run")
  BY <1>1, <1>2, <1>3, <1>5
<1> QED
  BY <1>1, <1>2, <1>4, <1>6, <1>7, WorksOn, SavesOnce

LEMMA AskReviewOnce == ASSUME Calm, NEW r \in Runners, AskReview(r) PROVE Once'
<1>1. pc[r] = "ask" /\ UNCHANGED <<obj, storage, shared, tokens, starts>>
  BY DEF AskReview, Frame, history
<1>2. PICK i \in 1..MaxReviews :
         SaveThen(r, [State(r) EXCEPT !.status = "paused", !.review = i], "idle")
  BY DEF AskReview
<1>3. PICK s \in States : s = State(r)
  BY <1>1, WorksOn
<1>4. PICK t : t = [s EXCEPT !.status = "paused", !.review = i]
  OBVIOUS
<1>5. i \in 0..MaxReviews
  BY DEF GraphAssumption, Calm
<1>6. t \in States /\ Begun(t) /\ t.node = s.node /\ t.token = s.token
  BY <1>4, <1>5 DEF Begun, States
<1>7. SaveThen(r, t, "idle")
  BY <1>2, <1>3, <1>4
<1> QED
  BY <1>1, <1>3, <1>6, <1>7, WorksOn, SavesOnce

\* A new token takes the place of the node that was ahead.
LEMMA CreateTokenOnce == ASSUME Calm, NEW r \in Runners, CreateToken(r) PROVE Once'
<1>1. pc[r] = "create" /\ UNCHANGED <<obj, storage, shared, starts>>
  BY DEF CreateToken, Frame, history
<1>2. PICK i \in 1..MaxTokens :
         /\ tokens[i].status = "none"
         /\ tokens' = [tokens EXCEPT ![i] =
               [status |-> "pending", node |-> at[r], start |-> State(r).start,
                high |-> Kind(at[r]).high, confirmed |-> FALSE]]
         /\ SaveThen(r, [State(r) EXCEPT !.status = "paused", !.token = i], "idle")
  BY DEF CreateToken
<1>3. PICK s \in States : s = State(r)
  BY <1>1, WorksOn
<1>4. /\ at[r] = s.node /\ s.node \in Nodes /\ s.token = 0 /\ Begun(s) /\ Fits(s) /\ starts \in Nat
      /\ ~Outside(r)
  BY <1>1, <1>3, WorksOn, RunnerKnows
<1>5. PICK t : t = [s EXCEPT !.status = "paused", !.token = i]
  OBVIOUS
<1>6. i \in 0..MaxTokens /\ i # 0
  BY DEF GraphAssumption, Calm
<1>7. t \in States /\ Begun(t) /\ t.node = s.node /\ t.token = i
  BY <1>5, <1>6 DEF Begun, States
<1>8. /\ tokens'[i].status = "pending" /\ tokens'[i].node = s.node
      /\ \A j \in 1..MaxTokens : j # i => tokens'[j] = tokens[j]
  BY <1>2, <1>4 DEF Calm, SafeInv, TypeInv, TypeOK
<1>9. s.node \in Ahead(s) /\ s.node \notin Ahead(t)'
  <2>1. s.node \in Nat
    BY DEF States, End, GraphAssumption, Calm
  <2> QED
    BY <1>4, <1>6, <1>7, <1>8, <2>1 DEF Ahead, Begun
<1>10. \A n \in Nodes : n # s.node => (n \in Ahead(t)' => n \in Ahead(s))
  BY <1>4, <1>7 DEF Ahead, Begun
<1>11. /\ i \notin Usable(s.node) /\ Usable(s.node)' = Usable(s.node) \cup {i}
       /\ \A n \in Nodes : n # s.node => Usable(n)' = Usable(n)
  BY <1>2, <1>8 DEF Usable
<1>12. Fits(t)'
  <2> SUFFICES ASSUME NEW n \in Nodes
               PROVE  Cardinality(Usable(n)') + Due(n \in Ahead(t)') <= starts'
    BY DEF Fits, Due
  <2>1. Cardinality(Usable(n)) + Due(n \in Ahead(s)) <= starts /\ starts' = starts
    BY <1>1, <1>4 DEF Fits
  <2>2. IsFiniteSet(Usable(n)) /\ Cardinality(Usable(n)) \in Nat
    BY Finite DEF Calm
  <2>3. CASE n = s.node
    <3>1. Cardinality(Usable(n)') = Cardinality(Usable(n)) + 1
      BY <1>11, <2>2, <2>3, FS_AddElement
    <3> QED
      BY <1>1, <1>9, <2>1, <2>2, <2>3, <3>1 DEF Due
  <2>4. CASE n # s.node
    BY <1>4, <1>10, <1>11, <2>1, <2>2, <2>4 DEF Due
  <2> QED
    BY <2>3, <2>4
<1>13. heap' = [heap EXCEPT ![obj[r]] = t] /\ pc' = [pc EXCEPT ![r] = "save"]
  BY <1>2, <1>3, <1>5 DEF SaveThen, Change, Goto
<1> QED
  BY <1>1, <1>4, <1>7, <1>12, <1>13, GoesOn DEF Labels

LEMMA RunOnce == ASSUME Calm, NEW r \in Runners, Run(r) PROVE Once'
<1>1. ~RunCondition(r)
  BY DEF RunCondition, Turn, Kind, Calm, Linear
<1> QED
  BY <1>1, LoadOnce, ReadReviewOnce, ReadTokenOnce, SaveOnce, ClearOnce, FailingOnce, RunEndOnce,
     AwaitsOnce, SucceedsOnce, AskReviewOnce, CreateTokenOnce DEF Run

\* The requests rest, and the states that fit go on fitting.
LEMMA RestOnce ==
    ASSUME Calm, UNCHANGED <<running, storage, shared>>, \A s \in GoodNow : Fits(s) => Fits(s)'
    PROVE  Once'
<1>1. UNCHANGED <<heap, obj, pc, connected, redis, map, shared>>
  BY DEF running, storage
<1>2. ASSUME NEW r \in Runners, ~Outside(r) PROVE Fits(State(r))'
  <2>1. PICK s \in GoodNow : s = State(r)
    BY <1>2, RunnerKnows
  <2>2. Fits(s)' /\ State(r)' = s
    BY <1>1, <1>2, <2>1, RunnerKnows DEF State
  <2> QED
    BY <2>2 DEF Fits, Ahead, Begun
<1>3. ASSUME \A r \in Runners : Outside(r) PROVE Fits(Stored)'
  <2>1. Stored \in GoodNow
    BY AbsentGood DEF Calm, Once, SafeInv, Unshared, TypeInv, TypeOK, GoodNow, Stored
  <2>2. PICK s \in GoodNow : s = Stored
    BY <2>1
  <2>3. Fits(s)' /\ Stored' = s
    BY <1>1, <1>3, <2>2 DEF Stored, Calm, Once
  <2> QED
    BY <2>3 DEF Fits, Ahead, Begun
<1>4. \A r \in Runners : Outside(r)' = Outside(r) /\ State(r)' = State(r)
  BY <1>1 DEF Outside, State
<1>5. \A r \in Runners : ~Outside(r)' => Fits(State(r))'
  BY <1>2, <1>4
<1>6. (\A r \in Runners : Outside(r)') => Fits(Stored)'
  BY <1>3, <1>4
<1>7. Stored' = Stored
  BY <1>1 DEF Stored
<1>8. \A r \in Runners : Outside(r)' \/ pc'[r] = "clear" \/ Begun(State(r))'
  BY <1>1, <1>4 DEF Calm, Once, Begun
<1> QED
  BY <1>1, <1>4, <1>5, <1>6, <1>7, <1>8 DEF Calm, Once

\* A token that goes leaves room for the one that may follow.
LEMMA MoveFits ==
    ASSUME GraphAssumption, TypeInv, NEW i \in 1..MaxTokens, NEW from, NEW to, Move(i, from, to),
           from \cap {"none", "gone"} = {}, to # "none",
           NEW s \in GoodNow, Fits(s)
    PROVE  Fits(s)'
<1>1. /\ tokens'[i].status = to /\ tokens'[i].node = tokens[i].node
      /\ tokens[i].status \notin {"none", "gone"}
      /\ \A j \in 1..MaxTokens : j # i => tokens'[j] = tokens[j]
      /\ starts' = starts /\ starts \in Nat
  BY DEF Move, TypeInv, TypeOK, Tokens
<1>2. s.token # 0 => s.token \in 1..MaxTokens /\ TokenNode[s.start][s.token] = s.node /\ s.start \in Nat
  BY DEF GoodNow, Good, Sound, States, GraphAssumption
<1> SUFFICES ASSUME NEW n \in Nodes
             PROVE  Cardinality(Usable(n)') + Due(n \in Ahead(s)') <= starts'
  BY DEF Fits, Due
<1>3. Cardinality(Usable(n)) + Due(n \in Ahead(s)) <= starts
  BY DEF Fits
<1>4. IsFiniteSet(Usable(n)) /\ Cardinality(Usable(n)) \in Nat
  BY Finite
<1>5. CASE to # "gone" \/ n # tokens[i].node
  <2>1. Usable(n)' = Usable(n)
    BY <1>1, <1>5 DEF Usable
  <2>2. n \in Ahead(s)' => n \in Ahead(s)
    <3> SUFFICES ASSUME n \in Ahead(s)' PROVE n \in Ahead(s)
      OBVIOUS
    <3>1. Begun(s) /\ n >= s.node /\ (n = s.node => s.token = 0 \/ tokens'[s.token].status = "gone")
      BY DEF Ahead, Begun
    <3>2. ASSUME n = s.node, s.token # 0 PROVE tokens[s.token].status = "gone"
      <4>1. tokens'[s.token].status = "gone" /\ s.token \in 1..MaxTokens /\ TokenNode[s.start][s.token] = n
        BY <1>2, <3>1, <3>2
      <4>2. s.token # i
        <5> SUFFICES ASSUME s.token = i PROVE FALSE
          OBVIOUS
        <5>1. tokens[i].node = n
          BY <1>1, <1>2, <3>2, <4>1 DEF TokenNode, Nodes
        <5> QED
          BY <1>1, <1>5, <4>1, <5>1
      <4> QED
        BY <1>1, <4>1, <4>2
    <3> QED
      BY <3>1, <3>2 DEF Ahead
  <2> QED
    BY <1>1, <1>3, <1>4, <2>1, <2>2 DEF Due
<1>6. CASE to = "gone" /\ n = tokens[i].node
  <2>1. i \in Usable(n) /\ Usable(n)' = Usable(n) \ {i}
    BY <1>1, <1>6 DEF Usable
  <2>2. Cardinality(Usable(n)') = Cardinality(Usable(n)) - 1
    BY <1>4, <2>1, FS_RemoveElement
  <2> QED
    BY <1>1, <1>3, <1>4, <2>2 DEF Due
<1> QED
  BY <1>5, <1>6

LEMMA ExpireOnce == ASSUME Calm, ExpireCheckpoint PROVE Once'
<1>1. /\ \A r \in Runners : pc[r] = "idle"
      /\ redis' = Absent /\ UNCHANGED <<connected, map, running, shared, tokens, starts>>
  BY DEF ExpireCheckpoint, outside, history
<1>2. /\ UNCHANGED <<heap, obj, pc>> /\ \A r \in Runners : Outside(r)' /\ Outside(r) /\ pc'[r] = "idle"
  BY <1>1 DEF running, Outside
<1>3. /\ Fits(Stored) /\ starts \in Nat /\ GraphAssumption
      /\ Stored \in GoodNow
  BY <1>2, AbsentGood DEF Calm, Once, SafeInv, Unshared, TypeInv, TypeOK, Stored, GoodNow
<1>4. PICK s \in GoodNow : s = Stored
  BY <1>3
<1>5. PICK t : t = Absent
  OBVIOUS
<1>6. Stored' = s \/ Stored' = t
  BY <1>1, <1>2, <1>4, <1>5 DEF Stored
<1>7. Fits(s)' /\ Fits(t)'
  <2>1. t.status = "none"
    BY <1>5 DEF Absent
  <2> QED
    BY <1>1, <1>3, <1>4, <2>1, StillFits, NothingAhead
<1>8. Fits(Stored)'
  BY <1>6, <1>7 DEF Fits, Ahead, Begun
<1> QED
  BY <1>1, <1>2, <1>8 DEF Calm, Once

\* What WrittenOncePerStart supposes of a state, it supposes of those before it.
LEMMA LinearBefore ==
    ASSUME GraphAssumption, TypeInv, [Next]_vars, Linear' PROVE Linear /\ faults' = faults
<1> DEFINE Grows == /\ overlapped => overlapped'
                    /\ stale => stale'
                    /\ faults' = faults \/ faults' = faults + 1
<1> SUFFICES Grows
  <2>1. graph' = graph /\ faults \in Nat
    BY GraphStays DEF TypeInv, TypeOK, GraphAssumption
  <2> QED
    BY <2>1 DEF Linear
<1>1. ASSUME NEW r \in Runners, Request(r) PROVE Grows
  BY <1>1 DEF Request
<1>2. ASSUME NEW r \in Runners, Run(r) PROVE Grows
  <2>1. CASE Load(r) \/ Save(r) \/ Clear(r) \/ ReadReview(r) \/ ReadToken(r)
    BY <2>1 DEF Load, Save, Clear, ReadReview, ReadToken, NotConfirmed, WithoutRedis, Fault, NoFault,
                history
  <2>2. CASE TooManySteps(r) \/ RunEnd(r) \/ RunCondition(r) \/ Fails(r) \/ Succeeds(r)
             \/ CreateFails(r) \/ RunAgent(r) \/ RunTool(r) \/ AskReview(r) \/ CreateToken(r)
    <3>1. Frame
      BY <2>2 DEF TooManySteps, RunEnd, RunCondition, Fails, Succeeds, CreateFails, RunAgent,
                  RunTool, AskReview, CreateToken
    <3> QED
      BY <3>1 DEF Frame, history
  <2> QED
    BY <1>2, <2>1, <2>2 DEF Run
<1>3. ASSUME NEW i \in 1..MaxReviews, ReadTask(i) PROVE Grows
  BY <1>3 DEF ReadTask, history
<1>4. ASSUME NEW i \in 1..MaxReviews, NEW d \in {"approved", "rejected"}, Decide(i, d) PROVE Grows
  BY <1>4 DEF Decide, history
<1>5. ASSUME NEW i \in 1..MaxTokens, ConfirmToken(i) \/ Written(i) \/ WriteFails(i) \/ TokenGone(i)
      PROVE  Grows
  <2>1. PICK from, to : Move(i, from, to)
    BY <1>5 DEF ConfirmToken, Written, WriteFails, TokenGone
  <2> QED
    BY <2>1, Zenon DEF Move
<1>6. CASE ExpireCheckpoint \/ Restart \/ UNCHANGED vars
  BY <1>6 DEF ExpireCheckpoint, Restart, Fault, vars, history
<1> QED
  BY <1>1, <1>2, <1>3, <1>4, <1>5, <1>6 DEF Next

LEMMA StepOnceInv == ASSUME GraphAssumption, OnceInv, [Next]_vars PROVE OnceInv'
<1>1. SafeInv' /\ TypeInv'
  BY StepSafeInv DEF OnceInv, SafeInv
<1> SUFFICES ASSUME Linear' PROVE Once'
  BY <1>1 DEF OnceInv
<1>2. Calm /\ faults' = faults
  BY <1>1, LinearBefore DEF Calm, OnceInv, SafeInv
<1>3. ASSUME NEW r \in Runners, Request(r) \/ Run(r) PROVE Once'
  BY <1>2, <1>3, RequestOnce, RunOnce
<1>4. CASE UNCHANGED <<running, storage, shared, tokens, starts>>
  <2>1. starts \in Nat
    BY <1>2 DEF Calm, SafeInv, TypeInv, TypeOK
  <2>2. \A s \in GoodNow : Fits(s) => Fits(s)'
    BY <1>4, <2>1, StillFits
  <2> QED
    BY <1>2, <1>4, <2>2, RestOnce
<1>5. ASSUME NEW i \in 1..MaxReviews, ReadTask(i) PROVE Once'
  BY <1>4, <1>5 DEF ReadTask, history
<1>6. ASSUME NEW i \in 1..MaxReviews, NEW d \in {"approved", "rejected"}, Decide(i, d) PROVE Once'
  BY <1>4, <1>6 DEF Decide, history
<1>7. ASSUME NEW i \in 1..MaxTokens, ConfirmToken(i) \/ Written(i) \/ WriteFails(i) \/ TokenGone(i)
      PROVE  Once'
  <2>1. PICK from, to : Move(i, from, to) /\ from \cap {"none", "gone"} = {} /\ to # "none"
    BY <1>7 DEF ConfirmToken, Written, WriteFails, TokenGone
  <2>2. UNCHANGED <<running, storage, shared>>
    BY <2>1 DEF Move
  <2>3. \A s \in GoodNow : Fits(s) => Fits(s)'
    BY <1>2, <2>1, MoveFits DEF Calm, SafeInv
  <2> QED
    BY <1>2, <2>2, <2>3, RestOnce
<1>8. CASE ExpireCheckpoint
  BY <1>2, <1>8, ExpireOnce
<1>9. ~Restart
  BY <1>2, NoFaults DEF Restart
<1>10. CASE UNCHANGED vars
  BY <1>4, <1>10 DEF vars, outside, history
<1> QED
  BY <1>3, <1>5, <1>6, <1>7, <1>8, <1>9, <1>10 DEF Next

LEMMA InitOnceInv == ASSUME GraphAssumption, Init PROVE OnceInv
<1>1. \A n \in Nodes : Usable(n) = {} /\ n \notin Ahead(Stored)
  BY DEF Init, Usable, Ahead, Begun, Stored, Absent
<1>2. Fits(Stored)
  <2>1. Cardinality({}) = 0 /\ starts = 0
    BY FS_EmptySet DEF Init
  <2> QED
    BY <1>1, <2>1 DEF Fits, Due
<1>3. Once
  BY <1>2 DEF Init, Once, Outside
<1> QED
  BY <1>3, InitSafeInv DEF OnceInv

\* Wherever the graph is, what is written counts among what is usable.
LEMMA FitsIsEnough == ASSUME GraphAssumption, OnceInv PROVE WrittenOncePerStart
<1> SUFFICES ASSUME Linear, NEW n \in Nodes
             PROVE  Cardinality({i \in 1..MaxTokens : tokens[i].node = n /\ tokens[i].status = "written"})
                       <= starts
  BY DEF WrittenOncePerStart, Linear
<1>1. PICK s : Fits(s)
  BY DEF OnceInv, Once
<1>2. starts \in Nat
  BY DEF OnceInv, SafeInv, TypeInv, TypeOK
<1>3. Cardinality(Usable(n)) <= starts
  BY <1>1, <1>2, Finite DEF Fits, Due
<1> DEFINE written == {i \in 1..MaxTokens : tokens[i].node = n /\ tokens[i].status = "written"}
<1>4. written \subseteq Usable(n) /\ IsFiniteSet(Usable(n)) /\ Cardinality(Usable(n)) \in Nat
  BY Finite DEF Usable
<1>5. IsFiniteSet(written) /\ Cardinality(written) \in Nat
      /\ Cardinality(written) <= Cardinality(Usable(n))
  BY <1>4, FS_Subset, FS_CardinalityType
<1> HIDE DEF written
<1>6. Cardinality(written) <= starts
  BY <1>2, <1>3, <1>4, <1>5
<1> QED
  BY <1>6 DEF written

\* On a graph without conditions, requests that do not overlap write a node at
\* most once for each start of the graph (the checkpoint keeps the suspended
\* node and its token), when nothing fails and no written token goes.
THEOREM WritesOncePerStart == Spec => []WrittenOncePerStart
<1>1. Init => OnceInv
  BY InitOnceInv, GraphAssumption
<1>2. OnceInv /\ [Next]_vars => OnceInv'
  BY StepOnceInv, GraphAssumption
<1>3. OnceInv => WrittenOncePerStart
  BY FitsIsEnough, GraphAssumption
<1> QED
  BY <1>1, <1>2, <1>3, PTL DEF Spec
=============================================================================
