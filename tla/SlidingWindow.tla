---------------------------- MODULE SlidingWindow ----------------------------
(* What a sliding-window rate limiter promises each client, in terms of the *)
(* log of the requests it has let through: a request passes exactly when    *)
(* fewer than Limit of the requests let through in the last Window units    *)
(* of time were this client's.                                              *)
EXTENDS Integers, Sequences

CONSTANTS Clients, Limit, Window

VARIABLES
  now,     \* the clock
  log,     \* for each client, the times at which a request passed
  verdict  \* the answer to the last request

vars == <<now, log, verdict>>

NoVerdict == [client |-> "nobody", passed |-> TRUE]

Init ==
  /\ now \in Nat
  /\ log = [c \in Clients |-> <<>>]
  /\ verdict = NoVerdict

(* Limit of c's requests passed within the window that ends now.            *)
Full(c) ==
  LET n == Len(log[c]) IN n >= Limit /\ log[c][n - Limit + 1] > now - Window

Pass(c) ==
  /\ ~Full(c)
  /\ log' = [log EXCEPT ![c] = Append(@, now)]
  /\ verdict' = [client |-> c, passed |-> TRUE]
  /\ UNCHANGED now

Refuse(c) ==
  /\ Full(c)
  /\ verdict' = [client |-> c, passed |-> FALSE]
  /\ UNCHANGED <<now, log>>

Advance ==
  /\ now' \in Nat /\ now' > now
  /\ UNCHANGED <<log, verdict>>

Next == Advance \/ \E c \in Clients : Pass(c) \/ Refuse(c)

Spec == Init /\ [][Next]_vars
=============================================================================
