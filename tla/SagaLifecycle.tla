---------------------------- MODULE SagaLifecycle ----------------------------
(***************************************************************************)
(* What the coordinator promises about one saga, free of rows, workers and *)
(* requests: it is started once, ends in exactly one of two ways, and ends *)
(* as failed only after every command its failure calls for was sent, the  *)
(* cancellation of the shipment last.                                      *)
(***************************************************************************)
CONSTANT Sagas

VARIABLES
    status,   \* where each saga is in its life
    plan,     \* the compensating commands its failure calls for
    sent      \* those of them that have been sent

lifecycleVars == <<status, plan, sent>>

Stages == {"absent", "started", "completed", "compensating", "failed"}
Steps == {"unassign", "release", "cancel"}

(* What must be sent before a step: compensation runs back from the courier
   through the stock to the shipment. *)
Before(step) ==
    CASE step = "unassign" -> {}
      [] step = "release" -> {"unassign"}
      [] step = "cancel" -> {"unassign", "release"}

Init ==
    /\ status = [s \in Sagas |-> "absent"]
    /\ plan = [s \in Sagas |-> {}]
    /\ sent = [s \in Sagas |-> {}]

Move(s, from, to) ==
    /\ status[s] = from
    /\ status' = [status EXCEPT ![s] = to]

Start(s) == Move(s, "absent", "started") /\ UNCHANGED <<plan, sent>>

Complete(s) == Move(s, "started", "completed") /\ UNCHANGED <<plan, sent>>

Compensate(s) ==
    /\ Move(s, "started", "compensating")
    /\ \E steps \in SUBSET Steps :
         /\ "cancel" \in steps
         /\ plan' = [plan EXCEPT ![s] = steps]
    /\ UNCHANGED sent

Send(s, step) ==
    /\ status[s] = "compensating"
    /\ step \in plan[s]
    /\ plan[s] \cap Before(step) \subseteq sent[s]
    /\ sent' = [sent EXCEPT ![s] = @ \cup {step}]
    /\ UNCHANGED <<status, plan>>

Fail(s) ==
    /\ sent[s] = plan[s]
    /\ Move(s, "compensating", "failed")
    /\ UNCHANGED <<plan, sent>>

Next ==
    \E s \in Sagas :
        \/ Start(s) \/ Complete(s) \/ Compensate(s) \/ Fail(s)
        \/ \E step \in Steps : Send(s, step)

Spec == Init /\ [][Next]_lifecycleVars
=============================================================================
