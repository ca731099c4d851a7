---------------------------- MODULE RequestDedup ----------------------------
(***************************************************************************)
(* What the ledger promises of a request_id, whoever uses it: it is        *)
(* claimed once, each step of it is sent at most once and only while the   *)
(* request is open, and its outcome is settled at most once, for good.     *)
(***************************************************************************)
EXTENDS Naturals

CONSTANTS Ids, Methods, Outcomes

VARIABLES
  state,   \* "free", "open" or the outcome of each request_id
  sent     \* how often each method was sent for it

vars == <<state, sent>>

States == {"free", "open"} \union Outcomes

Init ==
  /\ state \in [Ids -> States]
  /\ sent = [i \in Ids |-> [m \in Methods |-> 0]]

Claim(i) ==
  /\ state[i] = "free"
  /\ state' = [state EXCEPT ![i] = "open"]
  /\ UNCHANGED sent

Send(i, m) ==
  /\ state[i] = "open"
  /\ sent[i][m] = 0
  /\ sent' = [sent EXCEPT ![i][m] = 1]
  /\ UNCHANGED state

Settle(i, outcome) ==
  /\ state[i] \in {"free", "open"}
  /\ state' = [state EXCEPT ![i] = outcome]
  /\ UNCHANGED sent

Next ==
  \E i \in Ids :
    \/ Claim(i)
    \/ \E m \in Methods : Send(i, m)
    \/ \E o \in Outcomes : Settle(i, o)

Spec == Init /\ [][Next]_vars
=============================================================================
