----------------------------- MODULE ScaleGate -----------------------------
(***************************************************************************)
(* What the operator promises a client who asks for a scale, whatever the  *)
(* twin, the apiserver and the network do: "simulate, check the            *)
(* requirement, then apply - or roll back without touching production"     *)
(* (src/README.md:12).  One request at a time is open; the cluster moves   *)
(* for a request only after it is approved, at most once and to the valid  *)
(* count asked for; and the answer never contradicts what was done, except *)
(* that a failure may be reported for a change that happened.  Others      *)
(* change the cluster freely.                                              *)
(***************************************************************************)
EXTENDS Integers

CONSTANTS Deployments, Requests, None

VARIABLES
    cluster,        \* the replica count of each deployment
    stage,          \* of the open request, "idle" when there is none
    ask,            \* the last request: dep, n
    changed,        \* the cluster was changed for it
    answer          \* the answer it got

vars == <<cluster, stage, ask, changed, answer>>

Init ==
    /\ cluster \in [Deployments -> Nat \union {None}]
    /\ stage = "idle"
    /\ ask = None
    /\ changed = FALSE
    /\ answer = "none"

Ask(d, n) ==
    /\ stage = "idle"
    /\ stage' = "asked"
    /\ ask' = [dep |-> d, n |-> n]
    /\ changed' = FALSE
    /\ answer' = "none"
    /\ UNCHANGED cluster

Decide ==
    /\ stage = "asked"
    /\ stage' \in {"approved", "denied"}
    /\ ask.n > 0
    /\ UNCHANGED <<cluster, ask, changed, answer>>

\* Once approved, the cluster takes the count or does not.
Act ==
    /\ stage = "approved"
    /\ \/ /\ cluster' = [cluster EXCEPT ![ask.dep] = ask.n]
          /\ changed' = TRUE
          /\ stage' \in {"done", "unsure"}
       \/ /\ UNCHANGED <<cluster, changed>>
          /\ stage' = "unsure"
    /\ UNCHANGED <<ask, answer>>

AnswersAt(s) ==
    CASE s = "asked"  -> {"unknown", "error"}
      [] s = "denied" -> {"refused"}
      [] s = "done"   -> {"applied"}
      [] s = "unsure" -> {"failed"}
      [] OTHER        -> {}

Answer ==
    /\ answer' \in AnswersAt(stage)
    /\ stage' = "idle"
    /\ UNCHANGED <<cluster, ask, changed>>

\* The operator is restarted: the client gets no answer.
Abort ==
    /\ stage # "idle"
    /\ stage' = "idle"
    /\ answer' = "none"
    /\ UNCHANGED <<cluster, ask, changed>>

Others ==
    /\ cluster' \in [Deployments -> Nat \union {None}]
    /\ UNCHANGED <<stage, ask, changed, answer>>

Next ==
    \/ \E d \in Deployments, n \in Requests : Ask(d, n)
    \/ Decide
    \/ Act
    \/ Answer
    \/ Abort
    \/ Others

Spec == Init /\ [][Next]_vars
=============================================================================
