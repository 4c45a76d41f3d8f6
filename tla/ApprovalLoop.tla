--------------------------- MODULE ApprovalLoop ---------------------------
(***************************************************************************)
(* What the human-in-the-loop part promises, whoever asks and in whatever   *)
(* order: a decision is revised until it is approved or rejected, and stays *)
(* what it then is; its outcome is learned once, as what it is; only an     *)
(* approved decision gets a write-back task, one, for the content that was  *)
(* approved; a task is completed once.                                      *)
(***************************************************************************)
CONSTANTS Decisions, Contents, Receipts, None

VARIABLES decision,  \* id -> status and content, or None
          learned,   \* id -> the verdict the learning store remembers, or None
          task       \* id -> action and completion receipt, or None

loop == <<decision, learned, task>>

Terminal == {"approved", "rejected"}
Open(d) == decision[d] = None \/ decision[d].status = "pending"

Init ==
    /\ decision = [d \in Decisions |-> None]
    /\ learned = [d \in Decisions |-> None]
    /\ task = [d \in Decisions |-> None]

\* A cascade proposes, or revises what it proposed.
Propose(d, c) ==
    /\ Open(d)
    /\ decision' = [decision EXCEPT ![d] = [status |-> "pending", content |-> c]]
    /\ UNCHANGED <<learned, task>>

\* A manager, or the cascade itself, settles the decision for good.
Decide(d, c, verdict) ==
    /\ Open(d)
    /\ decision' = [decision EXCEPT ![d] = [status |-> verdict, content |-> c]]
    /\ UNCHANGED <<learned, task>>

Learn(d) ==
    /\ ~ Open(d) /\ learned[d] = None
    /\ learned' = [learned EXCEPT ![d] = decision[d].status]
    /\ UNCHANGED <<decision, task>>

File(d) ==
    /\ ~ Open(d) /\ decision[d].status = "approved"
    /\ task[d] = None
    /\ task' = [task EXCEPT ![d] = [action |-> decision[d].content, receipt |-> None]]
    /\ UNCHANGED <<decision, learned>>

Complete(d, r) ==
    /\ task[d] # None
    /\ task[d].receipt = None
    /\ task' = [task EXCEPT ![d].receipt = r]
    /\ UNCHANGED <<decision, learned>>

Next == \E d \in Decisions :
            \/ \E c \in Contents : Propose(d, c)
            \/ \E c \in Contents, v \in Terminal : Decide(d, c, v)
            \/ Learn(d) \/ File(d)
            \/ \E r \in Receipts : Complete(d, r)

Spec == Init /\ [][Next]_loop
=============================================================================
