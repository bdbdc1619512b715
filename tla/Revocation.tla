------------------------------ MODULE Revocation ------------------------------
(***************************************************************************)
(* From the confirmation of a write to its revocation                      *)
(* (src/src/brain/confirmation.service.ts, rollback-executor.service.ts,   *)
(* the confirm and revoke endpoints of gateway/chat.controller.ts and      *)
(* write-guard.controller.ts).                                             *)
(*                                                                         *)
(* The write token is the state machine of WriteToken from its grant on;   *)
(* the idempotency gate is reduced to what IdempotencyGate shows of it:    *)
(* one claim per key at a time, a replay once a success is stored, and     *)
(* fail-open when its table cannot be reached.                             *)
(***************************************************************************)
EXTENDS Naturals

CONSTANTS
    Tokens,      \* write tokens
    Confirms,    \* requests that confirm a token; each may write one document
    Revokers,    \* requests that revoke an operation
    Keys,        \* idempotency keys: explicit ones can be shared by tokens
    Guided,      \* the keys of tools that ROLLBACK_MAP does not know
    None,
    MaxFaults    \* bound on lost answers, failed statements and restarts

ASSUME RevocationAssumption ==
    /\ None \notin Tokens \cup Confirms \cup Revokers
    /\ Guided \subseteq Keys
    /\ MaxFaults \in Nat

VARIABLES
    token,     \* the status of each token
    row,       \* per key: the status of its row and the document of its result
    doc,       \* the document that the execution of a request has created
    cpc,       \* where each confirmation is
    tokenOf,   \* its token
    keyOf,     \* its key
    claims,    \* the confirmations that have claimed the row of their key
    result,    \* the document its execution has answered with, None for a failure
    op,        \* executedMap: the operation registered by each confirmation
    attempts,  \* revokeAttempts
    rpc,       \* where each revocation is
    target,    \* the confirmation whose operation it revokes
    answer,    \* what the user of a revocation was told
    faults,
    lost,      \* writes and cancellations whose answer was lost
    stranded   \* tokens that a fault has left confirmed

confirming == <<token, row, cpc, tokenOf, keyOf, claims, result, stranded>>
revoking   == <<rpc, target, answer>>
operations == <<op, attempts>>
vars == <<confirming, revoking, operations, doc, faults, lost>>

Documents == Confirms \cup {None}
\* open: inside the three minutes; closed: after them, still in the map.
OpStatus  == {"none", "open", "closed", "gone"}
RowStatus == {"none", "in_flight", "succeeded", "failed"}

TypeOK ==
    /\ token \in [Tokens -> {"pending", "confirmed"}]
    /\ row \in [Keys -> [status : RowStatus, result : Documents]]
    /\ doc \in [Confirms -> {"none", "live", "shipped", "cancelled"}]
    /\ cpc \in [Confirms -> {"start", "check", "execute", "complete", "register",
                             "reset", "done", "dead"}]
    /\ tokenOf \in [Confirms -> Tokens \cup {None}]
    /\ keyOf \in [Confirms -> Keys \cup {None}]
    /\ claims \subseteq Confirms
    /\ result \in [Confirms -> Documents]
    /\ op \in [Confirms -> OpStatus]
    /\ attempts \in [Confirms -> Nat]
    /\ rpc \in [Revokers -> {"start", "rollback", "success", "failure", "done", "dead"}]
    /\ target \in [Revokers -> Documents]
    /\ answer \in [Revokers -> {"none", "refused", "failed", "revoked"}]
    /\ faults \in 0..MaxFaults
    /\ lost \subseteq Confirms
    /\ stranded \subseteq Tokens

Init ==
    /\ token = [t \in Tokens |-> "pending"]
    /\ row = [k \in Keys |-> [status |-> "none", result |-> None]]
    /\ doc = [c \in Confirms |-> "none"]
    /\ cpc = [c \in Confirms |-> "start"]
    /\ tokenOf = [c \in Confirms |-> None]
    /\ keyOf = [c \in Confirms |-> None]
    /\ claims = {}
    /\ result = [c \in Confirms |-> None]
    /\ op = [c \in Confirms |-> "none"]
    /\ attempts = [c \in Confirms |-> 0]
    /\ rpc = [v \in Revokers |-> "start"]
    /\ target = [v \in Revokers |-> None]
    /\ answer = [v \in Revokers |-> "none"]
    /\ faults = 0
    /\ lost = {}
    /\ stranded = {}

Fault == faults < MaxFaults /\ faults' = faults + 1

-----------------------------------------------------------------------------
(* confirmAndExecute()                                                     *)

Goto(c, label) == cpc' = [cpc EXCEPT ![c] = label]

\* The guard grants the execution to this request.
Confirm(c, t, k) ==
    /\ cpc[c] = "start" /\ token[t] = "pending"
    /\ token' = [token EXCEPT ![t] = "confirmed"]
    /\ tokenOf' = [tokenOf EXCEPT ![c] = t]
    /\ keyOf' = [keyOf EXCEPT ![c] = k]
    /\ Goto(c, "check")
    /\ UNCHANGED <<row, claims, result, stranded, revoking, operations, doc, faults, lost>>

\* The gate claims the key, lets the call pass without a claim, replays the
\* stored result, or refuses because the first execution is still running.
Check(c) ==
    /\ cpc[c] = "check"
    /\ \/ /\ row[keyOf[c]].status \in {"none", "failed"}
          /\ row' = [row EXCEPT ![keyOf[c]].status = "in_flight"]
          /\ claims' = claims \cup {c}
          /\ Goto(c, "execute") /\ UNCHANGED <<result, faults>>
       \/ /\ row[keyOf[c]].status = "succeeded"
          /\ result' = [result EXCEPT ![c] = row[keyOf[c]].result]
          /\ Goto(c, "register") /\ UNCHANGED <<row, claims, faults>>
       \/ /\ row[keyOf[c]].status = "in_flight"
          /\ Goto(c, "reset") /\ UNCHANGED <<row, claims, result, faults>>
       \/ Fault /\ Goto(c, "execute") /\ UNCHANGED <<row, claims, result>>
    /\ UNCHANGED <<token, tokenOf, keyOf, stranded, revoking, operations, doc, lost>>

\* The tool writes, fails, or writes and the answer does not arrive.
Execute(c) ==
    /\ cpc[c] = "execute"
    /\ \/ /\ doc' = [doc EXCEPT ![c] = "live"]
          /\ result' = [result EXCEPT ![c] = c] /\ UNCHANGED <<faults, lost>>
       \/ UNCHANGED <<doc, result, faults, lost>>
       \/ /\ Fault
          /\ doc' = [doc EXCEPT ![c] = "live"]
          /\ lost' = lost \cup {c} /\ UNCHANGED result
    /\ Goto(c, "complete")
    /\ UNCHANGED <<token, row, tokenOf, keyOf, claims, stranded, revoking, operations>>

\* complete() stores the outcome if the call has claimed the row, or fails to,
\* and the call returns.
Complete(c) ==
    /\ cpc[c] = "complete"
    /\ \/ /\ c \in claims
          /\ row' = [row EXCEPT ![keyOf[c]] =
                       IF result[c] = None THEN [status |-> "failed", result |-> None]
                       ELSE [status |-> "succeeded", result |-> result[c]]]
          /\ UNCHANGED faults
       \/ (IF c \in claims THEN Fault ELSE faults' = faults) /\ UNCHANGED row
    /\ Goto(c, IF result[c] = None THEN "reset" ELSE "register")
    /\ UNCHANGED <<token, tokenOf, keyOf, claims, result, stranded, revoking, operations, doc, lost>>

\* A success, replayed or not, opens a revocation window.
Register(c) ==
    /\ cpc[c] = "register"
    /\ op' = [op EXCEPT ![c] = "open"]
    /\ Goto(c, "done")
    /\ UNCHANGED <<token, row, tokenOf, keyOf, claims, result, stranded, revoking, attempts, doc, faults, lost>>

\* As before the token was given back after a failure.
ResetNever(c) ==
    /\ cpc[c] = "reset"
    /\ Goto(c, "done")
    /\ UNCHANGED <<token, row, tokenOf, keyOf, claims, result, stranded, revoking, operations, doc, faults, lost>>

\* A failure gives the token back, unless resetToPending() fails as well.
Reset(c) ==
    /\ cpc[c] = "reset"
    /\ \/ /\ token' = [token EXCEPT ![tokenOf[c]] = "pending"]
          /\ UNCHANGED <<faults, stranded>>
       \/ /\ Fault
          /\ stranded' = stranded \cup {tokenOf[c]} /\ UNCHANGED token
    /\ Goto(c, "done")
    /\ UNCHANGED <<row, tokenOf, keyOf, claims, result, revoking, operations, doc, lost>>

\* The clean-up of the gate gives up on an execution that it takes for dead.
TimeOut(k) ==
    /\ row[k].status = "in_flight"
    /\ row' = [row EXCEPT ![k].status = "failed"]
    /\ UNCHANGED <<token, cpc, tokenOf, keyOf, claims, result, stranded, revoking, operations, doc, faults, lost>>

-----------------------------------------------------------------------------
(* The revocation window                                                   *)

CanRevoke(c) == op[c] = "open"

CloseWindow(c) ==
    /\ op[c] = "open"
    /\ op' = [op EXCEPT ![c] = "closed"]
    /\ UNCHANGED <<confirming, revoking, attempts, doc, faults, lost>>

\* Entries with a failed rollback are kept for a retry that nobody makes.
RemovableUntried(c) == op[c] = "closed" /\ attempts[c] = 0

\* cleanupExpired() removes what can no longer be revoked.
Removable(c) == op[c] = "closed"
CleanupExpired ==
    /\ \E c \in Confirms : Removable(c)
    /\ op' = [c \in Confirms |-> IF Removable(c) THEN "gone" ELSE op[c]]
    /\ UNCHANGED <<confirming, revoking, attempts, doc, faults, lost>>

-----------------------------------------------------------------------------
(* The revoke endpoint                                                     *)

Answer(v, a) ==
    /\ answer' = [answer EXCEPT ![v] = a]
    /\ rpc' = [rpc EXCEPT ![v] = "done"]

Revoke(v, c) ==
    /\ rpc[v] = "start" /\ op[c] # "none"
    /\ target' = [target EXCEPT ![v] = c]
    /\ \/ CanRevoke(c) /\ rpc' = [rpc EXCEPT ![v] = "rollback"] /\ UNCHANGED answer
       \/ ~CanRevoke(c) /\ Answer(v, "refused")
    /\ UNCHANGED <<confirming, operations, doc, faults, lost>>

Automatic(v) == keyOf[target[v]] \notin Guided
Document(v)  == result[target[v]]

\* The cancelling tool: it cancels a document that is not shipped, and may be
\* refused by the breaker, the registry or the back end.
Cancels(v) == doc[Document(v)] \in {"live", "cancelled"}
RollbackEnds(v, outcome) == rpc' = [rpc EXCEPT ![v] = outcome]

ExecuteRollback(v) ==
    /\ rpc[v] = "rollback"
    /\ \/ /\ ~Automatic(v)
          /\ RollbackEnds(v, "success") /\ UNCHANGED <<doc, faults, lost>>
       \/ /\ Automatic(v) /\ Cancels(v)
          /\ doc' = [doc EXCEPT ![Document(v)] = "cancelled"]
          /\ \/ RollbackEnds(v, "success") /\ UNCHANGED <<faults, lost>>
             \/ Fault /\ RollbackEnds(v, "failure") /\ lost' = lost \cup {Document(v)}
       \/ /\ Automatic(v)
          /\ RollbackEnds(v, "failure") /\ UNCHANGED <<doc, faults, lost>>
    /\ UNCHANGED <<confirming, target, answer, operations>>

\* The status is set to revoked, and the entry is not deleted.
MarkRevokedKeeps(v) ==
    /\ rpc[v] = "success"
    /\ op' = IF CanRevoke(target[v]) THEN [op EXCEPT ![target[v]] = "revoked"] ELSE op
    /\ Answer(v, "revoked")
    /\ UNCHANGED <<confirming, target, attempts, doc, faults, lost>>

\* The entry is left as it is.
MarkRevokedForgets(v) ==
    /\ rpc[v] = "success"
    /\ Answer(v, "revoked")
    /\ UNCHANGED <<confirming, target, operations, doc, faults, lost>>

\* A failed rollback is marked like a successful one.
MarkRevokedAlways(v) ==
    /\ rpc[v] \in {"success", "failure"}
    /\ op' = IF CanRevoke(target[v]) THEN [op EXCEPT ![target[v]] = "gone"] ELSE op
    /\ Answer(v, "revoked")
    /\ UNCHANGED <<confirming, target, attempts, doc, faults, lost>>

\* markRevoked(): its refusal is not looked at, the answer is success.
MarkRevoked(v) ==
    /\ rpc[v] = "success"
    /\ op' = IF CanRevoke(target[v]) THEN [op EXCEPT ![target[v]] = "gone"] ELSE op
    /\ Answer(v, "revoked")
    /\ UNCHANGED <<confirming, target, attempts, doc, faults, lost>>

\* The entry is removed before the rollback is known to have worked.
MarkRevokeFailed(v) ==
    /\ rpc[v] = "failure"
    /\ attempts' = IF CanRevoke(target[v])
                   THEN [attempts EXCEPT ![target[v]] = @ + 1] ELSE attempts
    /\ Answer(v, "failed")
    /\ UNCHANGED <<confirming, target, op, doc, faults, lost>>

-----------------------------------------------------------------------------
(* The surroundings                                                        *)

Ship(c) ==
    /\ doc[c] = "live"
    /\ doc' = [doc EXCEPT ![c] = "shipped"]
    /\ UNCHANGED <<confirming, revoking, operations, faults, lost>>

\* The process dies with executedMap and with its requests.
Running(c) == cpc[c] \notin {"start", "done", "dead"}
Restart ==
    /\ Fault
    /\ stranded' = stranded \cup {tokenOf[c] : c \in {d \in Confirms : Running(d)}}
    /\ cpc' = [c \in Confirms |-> IF Running(c) THEN "dead" ELSE cpc[c]]
    /\ op' = [c \in Confirms |-> IF op[c] = "none" THEN "none" ELSE "gone"]
    /\ rpc' = [v \in Revokers |-> IF rpc[v] \in {"start", "done"} THEN rpc[v] ELSE "dead"]
    /\ UNCHANGED <<token, row, tokenOf, keyOf, claims, result, target, answer, attempts, doc, lost>>

ConfirmStep(c) == Check(c) \/ Execute(c) \/ Complete(c) \/ Register(c) \/ Reset(c)
RevokeStep(v)  == ExecuteRollback(v) \/ MarkRevoked(v) \/ MarkRevokeFailed(v)

Next ==
    \/ \E c \in Confirms : \/ \E t \in Tokens, k \in Keys : Confirm(c, t, k)
                           \/ ConfirmStep(c) \/ CloseWindow(c) \/ Ship(c)
    \/ \E v \in Revokers : RevokeStep(v) \/ (\E c \in Confirms : Revoke(v, c))
    \/ (\E k \in Keys : TimeOut(k)) \/ CleanupExpired \/ Restart

Spec == Init /\ [][Next]_vars

\* The clock closes windows and the cron job comes round every five minutes.
FairSpec == Spec /\ WF_vars(CleanupExpired)
                 /\ \A c \in Confirms : WF_vars(CloseWindow(c))

-----------------------------------------------------------------------------
(* Properties                                                              *)

\* No dead end without a fault: a token stays confirmed only while its write
\* runs, when the write has succeeded, or when giving it back has failed or
\* the process died (executeConfirmed, resetToPending).
NoDeadEnd ==
    \A t \in Tokens : token[t] = "confirmed" /\ t \notin stranded =>
        \E c \in Confirms : tokenOf[c] = t /\ (Running(c) \/ op[c] # "none")

\* A user is told that an operation with an automatic rollback is revoked only
\* if the document is cancelled: whatever else revokes, replays or ships it
\* between the check and the mark (revokeOperation).
RevokedIsCancelled ==
    \A v \in Revokers : answer[v] = "revoked" /\ Automatic(v) => doc[Document(v)] = "cancelled"

\* A revocation is offered for a cancelled document only while the request
\* that cancelled it has yet to mark it, when the answer of that cancellation
\* was lost, or for the second operation that a replay has registered.
OfferExplained ==
    \A c \in Confirms : CanRevoke(c) /\ doc[result[c]] = "cancelled" =>
        \/ \E v \in Revokers : target[v] = c /\ rpc[v] = "success"
        \/ result[c] \in lost
        \/ \E d \in Confirms \ {c} : op[d] # "none" /\ result[d] = result[c]

\* Every entry of executedMap leaves it in the end (the bound of the memory
\* that the comment of cleanupExpired() computes).
EntriesLeave == \A c \in Confirms : op[c] = "open" ~> op[c] = "gone"
=============================================================================
