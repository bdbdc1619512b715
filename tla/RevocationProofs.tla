--------------------------- MODULE RevocationProofs ---------------------------
(***************************************************************************)
(* Theorems about Revocation.                                              *)
(***************************************************************************)
EXTENDS Revocation, TLAPS

-----------------------------------------------------------------------------
(* Typing                                                                  *)

\* A confirmation that has begun has a token and a key.
Begun == \A c \in Confirms : cpc[c] # "start" => tokenOf[c] \in Tokens /\ keyOf[c] \in Keys

\* A stored success has a document, and so has a call that is to be registered.
Stored  == \A k \in Keys : row[k].status = "succeeded" => row[k].result \in Confirms
Results == \A c \in Confirms : cpc[c] = "register" \/ op[c] # "none" => result[c] \in Confirms

\* A revocation that has begun works on an operation that was registered.
Targets == \A v \in Revokers : rpc[v] # "start" => target[v] \in Confirms /\ op[target[v]] # "none"

\* Only a request that is done has registered one.
Registered == \A c \in Confirms : op[c] # "none" => cpc[c] = "done"

TypeInv == TypeOK /\ Begun /\ Stored /\ Results /\ Targets /\ Registered

LEMMA InitTypeInv == RevocationAssumption /\ Init => TypeInv
  BY DEF RevocationAssumption, Init, TypeInv, TypeOK, Begun, Stored, Results,
         Targets, Registered, Documents, RowStatus, OpStatus

LEMMA StepTypeInv ==
  ASSUME RevocationAssumption, TypeInv, [Next]_vars
  PROVE  TypeInv'
<1> USE DEF TypeInv
<1>1. ASSUME NEW c \in Confirms, NEW t \in Tokens, NEW k \in Keys, Confirm(c, t, k)
      PROVE  TypeInv'
  BY <1>1 DEF Confirm, Goto, revoking, operations, TypeOK, Begun, Stored, Results,
              Targets, Registered, Documents, RowStatus, OpStatus
<1>2. ASSUME NEW c \in Confirms, Check(c) PROVE TypeInv'
  <2>1. /\ cpc[c] = "check" /\ keyOf[c] \in Keys
        /\ cpc' \in {[cpc EXCEPT ![c] = l] : l \in {"execute", "register", "reset"}}
        /\ UNCHANGED <<token, tokenOf, keyOf, stranded, op, attempts, rpc, target, answer, doc, lost>>
    BY <1>2 DEF Check, Goto, revoking, operations, Begun, TypeOK
  <2>2. cpc' \in [Confirms -> {"start", "check", "execute", "complete", "register",
                               "reset", "done", "dead"}]
    BY <2>1 DEF TypeOK
  <2>3. row' \in [Keys -> [status : RowStatus, result : Documents]] /\ Stored'
    <3>1. CASE UNCHANGED row
      BY <3>1 DEF TypeOK, Stored
    <3>2. CASE row' = [row EXCEPT ![keyOf[c]].status = "in_flight"]
      BY <3>2, <2>1 DEF TypeOK, Stored, RowStatus
    <3>3. QED
      BY <3>1, <3>2, <1>2 DEF Check
  <2>4. claims' \subseteq Confirms /\ faults' \in 0..MaxFaults
    BY <1>2 DEF Check, Fault, TypeOK, RevocationAssumption
  <2>5. /\ \/ result' = result /\ cpc' # [cpc EXCEPT ![c] = "register"]
           \/ row[keyOf[c]].result \in Confirms
              /\ result' = [result EXCEPT ![c] = row[keyOf[c]].result]
    BY <1>2, <2>1 DEF Check, Goto, Stored, TypeOK
  <2>6. result' \in [Confirms -> Documents] /\ Results'
    BY <2>1, <2>5 DEF TypeOK, Results, Documents
  <2>7. Begun' /\ Targets' /\ Registered'
    BY <2>1 DEF Begun, Targets, Registered, TypeOK
  <2>8. QED
    BY <2>1, <2>2, <2>3, <2>4, <2>6, <2>7 DEF TypeOK
<1>3. ASSUME NEW c \in Confirms, Execute(c) PROVE TypeInv'
  BY <1>3 DEF Execute, Goto, Fault, revoking, operations, TypeOK, Begun, Stored,
              Results, Targets, Registered, Documents, RowStatus, OpStatus
<1>4. ASSUME NEW c \in Confirms, Complete(c) PROVE TypeInv'
  <2>1. /\ cpc[c] = "complete" /\ keyOf[c] \in Keys
        /\ cpc' = [cpc EXCEPT ![c] = IF result[c] = None THEN "reset" ELSE "register"]
        /\ UNCHANGED <<token, tokenOf, keyOf, claims, result, stranded, op, attempts, rpc, target,
                       answer, doc, lost>>
    BY <1>4 DEF Complete, Goto, revoking, operations, Begun, TypeOK
  <2>2. row' \in [Keys -> [status : RowStatus, result : Documents]] /\ Stored'
    <3>1. CASE UNCHANGED row
      BY <3>1 DEF TypeOK, Stored
    <3>2. CASE row' = [row EXCEPT ![keyOf[c]] =
                        IF result[c] = None THEN [status |-> "failed", result |-> None]
                        ELSE [status |-> "succeeded", result |-> result[c]]]
      BY <3>2, <2>1 DEF TypeOK, Stored, RowStatus, Documents
    <3>3. QED
      BY <3>1, <3>2, <1>4 DEF Complete
  <2>3. faults' \in 0..MaxFaults
    BY <1>4 DEF Complete, Fault, TypeOK, RevocationAssumption
  <2>4. Begun' /\ Results' /\ Targets' /\ Registered'
    BY <2>1 DEF Begun, Results, Targets, Registered, TypeOK, Documents
  <2>5. QED
    BY <2>1, <2>2, <2>3, <2>4 DEF TypeOK
<1>5. ASSUME NEW c \in Confirms, Register(c) PROVE TypeInv'
  BY <1>5 DEF Register, Goto, revoking, operations, TypeOK, Begun, Stored, Results,
              Targets, Registered, Documents, RowStatus, OpStatus
<1>6. ASSUME NEW c \in Confirms, Reset(c) PROVE TypeInv'
  BY <1>6 DEF Reset, Goto, Fault, revoking, operations, TypeOK, Begun, Stored,
              Results, Targets, Registered, Documents, RowStatus, OpStatus
<1>7. ASSUME NEW k \in Keys, TimeOut(k) PROVE TypeInv'
  BY <1>7 DEF TimeOut, revoking, operations, TypeOK, Begun, Stored, Results,
              Targets, Registered, Documents, RowStatus, OpStatus
<1>8. ASSUME NEW c \in Confirms, CloseWindow(c) PROVE TypeInv'
  BY <1>8 DEF CloseWindow, confirming, revoking, TypeOK, Begun, Stored, Results,
              Targets, Registered, Documents, RowStatus, OpStatus
<1>9. CASE CleanupExpired
  BY <1>9 DEF CleanupExpired, Removable, confirming, revoking, TypeOK, Begun,
              Stored, Results, Targets, Registered, Documents, RowStatus, OpStatus
<1>10. ASSUME NEW v \in Revokers, NEW c \in Confirms, Revoke(v, c) PROVE TypeInv'
  BY <1>10 DEF Revoke, Answer, CanRevoke, confirming, operations, TypeOK, Begun,
               Stored, Results, Targets, Registered, Documents, RowStatus, OpStatus
<1>11. ASSUME NEW v \in Revokers, ExecuteRollback(v) PROVE TypeInv'
  BY <1>11 DEF ExecuteRollback, RollbackEnds, Cancels, Automatic, Document, Fault,
               confirming, operations, TypeOK, Begun, Stored, Results, Targets,
               Registered, Documents, RowStatus, OpStatus
<1>12. ASSUME NEW v \in Revokers, MarkRevoked(v) PROVE TypeInv'
  BY <1>12 DEF MarkRevoked, Answer, CanRevoke, confirming, TypeOK, Begun, Stored,
               Results, Targets, Registered, Documents, RowStatus, OpStatus
<1>13. ASSUME NEW v \in Revokers, MarkRevokeFailed(v) PROVE TypeInv'
  BY <1>13 DEF MarkRevokeFailed, Answer, CanRevoke, confirming, TypeOK, Begun,
               Stored, Results, Targets, Registered, Documents, RowStatus, OpStatus
<1>14. ASSUME NEW c \in Confirms, Ship(c) PROVE TypeInv'
  BY <1>14 DEF Ship, confirming, revoking, operations, TypeOK, Begun, Stored,
               Results, Targets, Registered, Documents, RowStatus, OpStatus
<1>15. CASE Restart
  BY <1>15 DEF Restart, Running, Fault, TypeOK, Begun, Stored, Results, Targets,
               Registered, Documents, RowStatus, OpStatus
<1>16. CASE UNCHANGED vars
  BY <1>16 DEF vars, confirming, revoking, operations, TypeOK, Begun, Stored,
               Results, Targets, Registered, Documents, RowStatus, OpStatus
<1>17. QED
  BY <1>1, <1>2, <1>3, <1>4, <1>5, <1>6, <1>7, <1>8, <1>9, <1>10, <1>11, <1>12, <1>13, <1>14,
     <1>15, <1>16 DEF Next, ConfirmStep, RevokeStep

\* The type invariant, for every number of tokens, requests and faults.
THEOREM Typing == Spec => []TypeOK
<1>1. Init => TypeInv
  BY InitTypeInv, RevocationAssumption
<1>2. TypeInv /\ [Next]_vars => TypeInv'
  BY StepTypeInv, RevocationAssumption
<1>3. TypeInv => TypeOK
  BY DEF TypeInv
<1>4. QED
  BY <1>1, <1>2, <1>3, PTL DEF Spec

-----------------------------------------------------------------------------
(* No dead end                                                             *)

\* A confirmed token stays confirmed for a reason (executeConfirmed): its
\* write runs, has succeeded, or a fault has stranded it.
THEOREM NoTokenStuck == Spec => []NoDeadEnd
<1>1. Init => NoDeadEnd
  BY DEF Init, NoDeadEnd
<1>2. ASSUME TypeInv, NoDeadEnd, [Next]_vars PROVE NoDeadEnd'
  <2> USE <1>2 DEF TypeInv
  <2>1. ASSUME NEW c \in Confirms, NEW t \in Tokens, NEW k \in Keys, Confirm(c, t, k)
        PROVE  NoDeadEnd'
    BY <2>1 DEF Confirm, Goto, operations, TypeOK, Registered, NoDeadEnd, Running
  <2>2. ASSUME NEW c \in Confirms, Check(c) PROVE NoDeadEnd'
    <3>1. /\ cpc[c] = "check"
          /\ cpc' \in {[cpc EXCEPT ![c] = l] : l \in {"execute", "register", "reset"}}
          /\ UNCHANGED <<token, tokenOf, stranded, op>>
      BY <2>2 DEF Check, Goto, operations
    <3>2. QED
      BY <3>1 DEF TypeOK, NoDeadEnd, Running
  <2>3. ASSUME NEW c \in Confirms, Execute(c) PROVE NoDeadEnd'
    BY <2>3 DEF Execute, Goto, operations, TypeOK, NoDeadEnd, Running
  <2>4. ASSUME NEW c \in Confirms, Complete(c) PROVE NoDeadEnd'
    <3>1. /\ cpc[c] = "complete"
          /\ cpc' \in {[cpc EXCEPT ![c] = l] : l \in {"register", "reset"}}
          /\ UNCHANGED <<token, tokenOf, stranded, op>>
      BY <2>4 DEF Complete, Goto, operations
    <3>2. QED
      BY <3>1 DEF TypeOK, NoDeadEnd, Running
  <2>5. ASSUME NEW c \in Confirms, Register(c) PROVE NoDeadEnd'
    BY <2>5 DEF Register, Goto, TypeOK, NoDeadEnd, Running
  <2>6. ASSUME NEW c \in Confirms, Reset(c) PROVE NoDeadEnd'
    BY <2>6 DEF Reset, Goto, Fault, operations, TypeOK, NoDeadEnd, Running
  <2>7. ASSUME NEW k \in Keys, TimeOut(k) PROVE NoDeadEnd'
    BY <2>7 DEF TimeOut, operations, NoDeadEnd, Running
  <2>8. ASSUME NEW c \in Confirms, CloseWindow(c) PROVE NoDeadEnd'
    BY <2>8 DEF CloseWindow, confirming, TypeOK, NoDeadEnd, Running
  <2>9. CASE CleanupExpired
    BY <2>9 DEF CleanupExpired, Removable, confirming, TypeOK, NoDeadEnd, Running
  <2>10. ASSUME NEW v \in Revokers, NEW c \in Confirms, Revoke(v, c) PROVE NoDeadEnd'
    BY <2>10 DEF Revoke, confirming, operations, NoDeadEnd, Running
  <2>11. ASSUME NEW v \in Revokers, ExecuteRollback(v) PROVE NoDeadEnd'
    BY <2>11 DEF ExecuteRollback, confirming, operations, NoDeadEnd, Running
  <2>12. ASSUME NEW v \in Revokers, MarkRevoked(v) PROVE NoDeadEnd'
    BY <2>12 DEF MarkRevoked, confirming, TypeOK, NoDeadEnd, Running, CanRevoke
  <2>13. ASSUME NEW v \in Revokers, MarkRevokeFailed(v) PROVE NoDeadEnd'
    BY <2>13 DEF MarkRevokeFailed, confirming, NoDeadEnd, Running
  <2>14. ASSUME NEW c \in Confirms, Ship(c) PROVE NoDeadEnd'
    BY <2>14 DEF Ship, confirming, operations, NoDeadEnd, Running
  <2>15. CASE Restart
    BY <2>15 DEF Restart, TypeOK, NoDeadEnd, Running
  <2>16. CASE UNCHANGED vars
    BY <2>16 DEF vars, confirming, operations, NoDeadEnd, Running
  <2>17. QED
    BY <1>2, <2>1, <2>2, <2>3, <2>4, <2>5, <2>6, <2>7, <2>8, <2>9, <2>10, <2>11, <2>12, <2>13,
       <2>14, <2>15, <2>16 DEF Next, ConfirmStep, RevokeStep
<1>3. QED
  BY <1>1, <1>2, InitTypeInv, StepTypeInv, RevocationAssumption, PTL DEF Spec

-----------------------------------------------------------------------------
(* Revoked documents                                                       *)

\* A request that has not written has no document.
Unwritten == \A c \in Confirms : cpc[c] \in {"start", "check", "execute"} => doc[c] = "none"

\* A revocation that has answered is over.
Answered == \A v \in Revokers : answer[v] # "none" => rpc[v] = "done"

\* A rollback that succeeded has cancelled the document, if it is automatic.
Rolled ==
    \A v \in Revokers : (rpc[v] = "success" \/ answer[v] = "revoked") /\ Automatic(v)
                          => doc[Document(v)] = "cancelled"

\* A cancelled document belongs to some registered operation.
Cancelled ==
    \A x \in Confirms : doc[x] = "cancelled" =>
        \E d \in Confirms : op[d] # "none" /\ result[d] = x

RollInv == TypeInv /\ Unwritten /\ Answered /\ Rolled /\ Cancelled

\* What a step leaves alone: cancelled documents, registered operations,
\* revocations that have begun, answers that were lost.
Stable ==
    /\ \A x \in Confirms : doc[x] = "cancelled" => doc'[x] = "cancelled"
    /\ \A c \in Confirms : op[c] # "none" =>
          op'[c] # "none" /\ result'[c] = result[c] /\ keyOf'[c] = keyOf[c]
    /\ \A v \in Revokers : rpc[v] # "start" => target'[v] = target[v] /\ rpc'[v] # "start"
    /\ lost \subseteq lost'

LEMMA StepStable ==
  ASSUME TypeInv, Unwritten, [Next]_vars
  PROVE  Stable /\ Unwritten'
<1> USE DEF TypeInv
<1>1. ASSUME NEW c \in Confirms, NEW t \in Tokens, NEW k \in Keys, Confirm(c, t, k)
      PROVE  Stable /\ Unwritten'
  BY <1>1 DEF Confirm, Goto, revoking, operations, TypeOK, Registered, Unwritten, Stable
<1>2. ASSUME NEW c \in Confirms, Check(c) PROVE Stable /\ Unwritten'
  <2>1. /\ cpc[c] = "check"
        /\ cpc' \in {[cpc EXCEPT ![c] = l] : l \in {"execute", "register", "reset"}}
        /\ \E r \in Documents \cup {row[keyOf[c]].result} : result' = [result EXCEPT ![c] = r]
        /\ UNCHANGED <<keyOf, op, rpc, target, doc, lost>>
    <3>1. result = [result EXCEPT ![c] = result[c]] /\ result[c] \in Documents
      BY DEF TypeOK
    <3>2. QED
      BY <1>2, <3>1 DEF Check, Goto, revoking, operations
  <2>2. QED
    BY <2>1 DEF TypeOK, Registered, Unwritten, Stable
<1>3. ASSUME NEW c \in Confirms, Execute(c) PROVE Stable /\ Unwritten'
  BY <1>3 DEF Execute, Goto, revoking, operations, TypeOK, Registered, Unwritten, Stable
<1>4. ASSUME NEW c \in Confirms, Complete(c) PROVE Stable /\ Unwritten'
  <2>1. /\ cpc[c] = "complete"
        /\ cpc' \in {[cpc EXCEPT ![c] = l] : l \in {"register", "reset"}}
        /\ UNCHANGED <<keyOf, result, op, rpc, target, doc, lost>>
    BY <1>4 DEF Complete, Goto, revoking, operations
  <2>2. QED
    BY <2>1 DEF TypeOK, Unwritten, Stable
<1>5. ASSUME NEW c \in Confirms, Register(c) PROVE Stable /\ Unwritten'
  BY <1>5 DEF Register, Goto, revoking, TypeOK, Unwritten, Stable
<1>6. ASSUME NEW c \in Confirms, Reset(c) PROVE Stable /\ Unwritten'
  BY <1>6 DEF Reset, Goto, revoking, operations, TypeOK, Unwritten, Stable
<1>7. ASSUME NEW k \in Keys, TimeOut(k) PROVE Stable /\ Unwritten'
  BY <1>7 DEF TimeOut, revoking, operations, Unwritten, Stable
<1>8. ASSUME NEW c \in Confirms, CloseWindow(c) PROVE Stable /\ Unwritten'
  BY <1>8 DEF CloseWindow, confirming, revoking, TypeOK, Unwritten, Stable
<1>9. CASE CleanupExpired
  BY <1>9 DEF CleanupExpired, Removable, confirming, revoking, TypeOK, Unwritten, Stable
<1>10. ASSUME NEW v \in Revokers, NEW c \in Confirms, Revoke(v, c) PROVE Stable /\ Unwritten'
  BY <1>10 DEF Revoke, Answer, CanRevoke, confirming, operations, TypeOK, Unwritten, Stable
<1>11. ASSUME NEW v \in Revokers, ExecuteRollback(v) PROVE Stable /\ Unwritten'
  <2>1. Document(v) \in Confirms
    BY <1>11 DEF ExecuteRollback, Targets, Results, Document
  <2>2. QED
    BY <1>11, <2>1 DEF ExecuteRollback, RollbackEnds, Cancels, confirming, operations, TypeOK,
                       Unwritten, Stable
<1>12. ASSUME NEW v \in Revokers, MarkRevoked(v) PROVE Stable /\ Unwritten'
  BY <1>12 DEF MarkRevoked, Answer, CanRevoke, confirming, TypeOK, Unwritten, Stable
<1>13. ASSUME NEW v \in Revokers, MarkRevokeFailed(v) PROVE Stable /\ Unwritten'
  BY <1>13 DEF MarkRevokeFailed, Answer, confirming, TypeOK, Unwritten, Stable
<1>14. ASSUME NEW c \in Confirms, Ship(c) PROVE Stable /\ Unwritten'
  BY <1>14 DEF Ship, confirming, revoking, operations, TypeOK, Unwritten, Stable
<1>15. CASE Restart
  BY <1>15 DEF Restart, Running, TypeOK, Unwritten, Stable
<1>16. CASE UNCHANGED vars
  BY <1>16 DEF vars, confirming, revoking, operations, Unwritten, Stable
<1>17. QED
  BY <1>1, <1>2, <1>3, <1>4, <1>5, <1>6, <1>7, <1>8, <1>9, <1>10, <1>11, <1>12, <1>13, <1>14,
     <1>15, <1>16 DEF Next, ConfirmStep, RevokeStep

\* Where a change comes from.
Traced ==
    /\ \A v \in Revokers :
          /\ rpc'[v] = "success" /\ rpc[v] # "success" =>
                /\ rpc[v] = "rollback"
                /\ Automatic(v) => doc'[Document(v)] = "cancelled"
          /\ answer'[v] = "revoked" /\ answer[v] # "revoked" => rpc[v] = "success"
          /\ rpc[v] = "success" /\ rpc'[v] # "success" => op'[target[v]] # "open"
    /\ \A x \in Confirms : doc'[x] = "cancelled" /\ doc[x] # "cancelled" =>
          \E v \in Revokers : /\ rpc[v] = "rollback" /\ x = Document(v)
                              /\ rpc'[v] = "success" \/ x \in lost'
    /\ \A c \in Confirms : op'[c] = "open" => op[c] = "open" \/ op[c] = "none"

LEMMA StepTraced ==
  ASSUME TypeInv, Answered, [Next]_vars
  PROVE  Traced /\ Answered'
<1> USE DEF TypeInv
<1>1. ASSUME NEW c \in Confirms, NEW t \in Tokens, NEW k \in Keys, Confirm(c, t, k)
      PROVE  Traced /\ Answered'
  BY <1>1 DEF Confirm, Goto, revoking, operations, TypeOK, Targets, Registered, Answered, Traced
<1>2. ASSUME NEW c \in Confirms, Check(c)
      PROVE  Traced /\ Answered'
  BY <1>2 DEF Check, revoking, operations, TypeOK, Targets, Registered, Answered, Traced
<1>3. ASSUME NEW c \in Confirms, Execute(c)
      PROVE  Traced /\ Answered'
  BY <1>3 DEF Execute, revoking, operations, TypeOK, Targets, Registered, Answered, Traced
<1>4. ASSUME NEW c \in Confirms, Complete(c)
      PROVE  Traced /\ Answered'
  BY <1>4 DEF Complete, revoking, operations, TypeOK, Targets, Registered, Answered, Traced
<1>5. ASSUME NEW c \in Confirms, Register(c)
      PROVE  Traced /\ Answered'
  BY <1>5 DEF Register, revoking, TypeOK, Targets, Registered, Answered, Traced
<1>6. ASSUME NEW c \in Confirms, Reset(c)
      PROVE  Traced /\ Answered'
  BY <1>6 DEF Reset, revoking, operations, TypeOK, Targets, Registered, Answered, Traced
<1>7. ASSUME NEW k \in Keys, TimeOut(k)
      PROVE  Traced /\ Answered'
  BY <1>7 DEF TimeOut, revoking, operations, TypeOK, Targets, Registered, Answered, Traced
<1>8. ASSUME NEW c \in Confirms, CloseWindow(c)
      PROVE  Traced /\ Answered'
  BY <1>8 DEF CloseWindow, revoking, TypeOK, Targets, Registered, Answered, Traced
<1>9. CASE CleanupExpired
  BY <1>9 DEF CleanupExpired, Removable, revoking, TypeOK, Targets, Registered, Answered, Traced
<1>10. ASSUME NEW v \in Revokers, NEW c \in Confirms, Revoke(v, c)
      PROVE  Traced /\ Answered'
  BY <1>10 DEF Revoke, Answer, CanRevoke, operations, TypeOK, Targets, Registered, Answered, Traced
<1>11. ASSUME NEW v \in Revokers, ExecuteRollback(v)
      PROVE  Traced /\ Answered'
  <2>1. Document(v) \in Confirms
    BY <1>11 DEF ExecuteRollback, Targets, Results, Document
  <2>2. QED
    BY <1>11, <2>1 DEF ExecuteRollback, RollbackEnds, Cancels, operations, TypeOK, Answered, Traced
<1>12. ASSUME NEW v \in Revokers, MarkRevoked(v)
      PROVE  Traced /\ Answered'
  BY <1>12 DEF MarkRevoked, Answer, CanRevoke, TypeOK, Targets, Registered, Answered, Traced
<1>13. ASSUME NEW v \in Revokers, MarkRevokeFailed(v)
      PROVE  Traced /\ Answered'
  BY <1>13 DEF MarkRevokeFailed, Answer, CanRevoke, TypeOK, Targets, Registered, Answered, Traced
<1>14. ASSUME NEW c \in Confirms, Ship(c)
      PROVE  Traced /\ Answered'
  BY <1>14 DEF Ship, revoking, operations, TypeOK, Targets, Registered, Answered, Traced
<1>15. CASE Restart
  BY <1>15 DEF Restart, TypeOK, Targets, Registered, Answered, Traced
<1>16. CASE UNCHANGED vars
  BY <1>16 DEF vars, revoking, operations, TypeOK, Targets, Registered, Answered, Traced
<1>17. QED
  BY <1>1, <1>2, <1>3, <1>4, <1>5, <1>6, <1>7, <1>8, <1>9, <1>10, <1>11, <1>12, <1>13, <1>14,
     <1>15, <1>16 DEF Next, ConfirmStep, RevokeStep

LEMMA StepRollInv ==
  ASSUME RevocationAssumption, RollInv, [Next]_vars
  PROVE  RollInv'
<1> USE DEF RollInv
<1>1. TypeInv' /\ Stable /\ Unwritten' /\ Traced /\ Answered'
  BY StepTypeInv, StepStable, StepTraced
<1>2. Rolled'
  <2> SUFFICES ASSUME NEW v \in Revokers, rpc'[v] = "success" \/ answer'[v] = "revoked",
                      Automatic(v)'
               PROVE  doc'[Document(v)'] = "cancelled"
    BY DEF Rolled
  <2>1. rpc[v] # "start"
    BY <1>1 DEF Answered, Traced
  <2>2. target[v] \in Confirms /\ Document(v) \in Confirms
    BY <2>1 DEF TypeInv, Targets, Results, Document
  <2>3. Document(v)' = Document(v) /\ Automatic(v)
    BY <1>1, <2>1, <2>2 DEF TypeInv, Targets, Stable, Document, Automatic
  <2>4. doc'[Document(v)] = "cancelled"
    BY <1>1, <2>2, <2>3 DEF Rolled, Traced, Stable
  <2>5. QED
    BY <2>3, <2>4
<1>3. Cancelled'
  <2> SUFFICES ASSUME NEW x \in Confirms, doc'[x] = "cancelled"
               PROVE  \E d \in Confirms : op'[d] # "none" /\ result'[d] = x
    BY DEF Cancelled
  <2>1. \E d \in Confirms : op[d] # "none" /\ result[d] = x
    BY <1>1 DEF Cancelled, Traced, TypeInv, Targets, Document
  <2>2. QED
    BY <1>1, <2>1 DEF Stable
<1>4. QED
  BY <1>1, <1>2, <1>3

\* Who is told that an operation with an automatic rollback is revoked has a
\* cancelled document (revokeOperation).
THEOREM RevokedMeansCancelled == Spec => []RevokedIsCancelled
<1>1. Init => RollInv
  BY InitTypeInv, RevocationAssumption
     DEF Init, RollInv, Unwritten, Answered, Rolled, Cancelled
<1>2. RollInv /\ [Next]_vars => RollInv'
  BY StepRollInv, RevocationAssumption
<1>3. RollInv => RevokedIsCancelled
  BY DEF RollInv, Rolled, RevokedIsCancelled
<1>4. QED
  BY <1>1, <1>2, <1>3, PTL DEF Spec

-----------------------------------------------------------------------------
(* What is offered for revocation                                          *)

LEMMA StepOffer ==
  ASSUME RollInv, OfferExplained, [Next]_vars
  PROVE  OfferExplained'
<1> USE DEF RollInv
<1>1. Stable /\ Traced
  BY StepStable, StepTraced
<1> SUFFICES ASSUME NEW c \in Confirms, op'[c] = "open", doc'[result'[c]] = "cancelled"
             PROVE  \/ \E v \in Revokers : target'[v] = c /\ rpc'[v] = "success"
                    \/ result'[c] \in lost'
                    \/ \E d \in Confirms \ {c} : op'[d] # "none" /\ result'[d] = result'[c]
  BY DEF OfferExplained, CanRevoke
<1>2. CASE op[c] = "none"
  <2>1. result'[c] \in Confirms
    BY StepTypeInv, RevocationAssumption DEF TypeInv, Results
  <2>2. \E d \in Confirms : op[d] # "none" /\ result[d] = result'[c]
    <3>1. CASE doc[result'[c]] = "cancelled"
      BY <2>1, <3>1 DEF Cancelled
    <3>2. CASE doc[result'[c]] # "cancelled"
      BY <1>1, <2>1, <3>2 DEF Traced, TypeInv, Targets, Document
    <3>3. QED
      BY <3>1, <3>2
  <2>3. QED
    BY <1>1, <1>2, <2>2 DEF Stable
<1>3. CASE op[c] = "open"
  <2>1. result'[c] = result[c] /\ result[c] \in Confirms
    BY <1>1, <1>3 DEF Stable, TypeInv, Results
  <2>2. CASE doc[result[c]] = "cancelled"
    <3>1. CASE \E v \in Revokers : target[v] = c /\ rpc[v] = "success"
      BY <1>1, <3>1 DEF Stable, Traced
    <3>2. CASE result[c] \in lost
      BY <1>1, <2>1, <3>2 DEF Stable
    <3>3. CASE \E d \in Confirms \ {c} : op[d] # "none" /\ result[d] = result[c]
      BY <1>1, <2>1, <3>3 DEF Stable
    <3>4. QED
      BY <1>3, <2>2, <3>1, <3>2, <3>3 DEF OfferExplained, CanRevoke
  <2>3. CASE doc[result[c]] # "cancelled"
    <3>1. PICK v \in Revokers : /\ rpc[v] = "rollback" /\ result[c] = Document(v)
                                /\ rpc'[v] = "success" \/ result[c] \in lost'
      BY <1>1, <2>1, <2>3 DEF Traced
    <3>2. target[v] \in Confirms /\ op[target[v]] # "none" /\ target'[v] = target[v]
      <4>1. rpc[v] # "start"
        BY <3>1
      <4>2. Targets
        BY DEF TypeInv
      <4>3. QED
        BY <1>1, <4>1, <4>2 DEF Targets, Stable
    <3>3. CASE target[v] = c
      BY <2>1, <3>1, <3>2, <3>3
    <3>4. CASE target[v] # c
      BY <1>1, <2>1, <3>1, <3>2, <3>4 DEF Stable, Document
    <3>5. QED
      BY <3>3, <3>4
  <2>4. QED
    BY <2>2, <2>3
<1>4. QED
  BY <1>1, <1>2, <1>3 DEF Traced

\* A revocation is offered for a cancelled document only in the three named
\* cases (canRevoke, markRevoked).
THEOREM OffersExplained == Spec => []OfferExplained
<1>1. Init => RollInv /\ OfferExplained
  BY InitTypeInv, RevocationAssumption
     DEF Init, RollInv, Unwritten, Answered, Rolled, Cancelled, OfferExplained, CanRevoke
<1>2. RollInv /\ OfferExplained /\ [Next]_vars => (RollInv /\ OfferExplained)'
  BY StepRollInv, StepOffer, RevocationAssumption
<1>3. QED
  BY <1>1, <1>2, PTL DEF Spec
=============================================================================
