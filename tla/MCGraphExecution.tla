--------------------------- MODULE MCGraphExecution ---------------------------
(* Small graphs: a risky write or a plain one before an agent, two writes  *)
(* that an approval lets through, a reviewed reading node before a         *)
(* condition that may lead back.                                           *)
EXTENDS GraphExecution, TLC

Node(type, review, high) == [type |-> type, review |-> review, high |-> high]

Small == { <<Node("write", TRUE, TRUE), Node("agent", TRUE, FALSE)>>,
           <<Node("write", FALSE, FALSE), Node("agent", FALSE, FALSE)>>,
           <<Node("direct", TRUE, FALSE), Node("direct", FALSE, FALSE)>>,
           <<Node("read", TRUE, FALSE), Node("condition", FALSE, FALSE)>> }
=============================================================================
