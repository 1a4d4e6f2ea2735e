----------------------------- MODULE RateLimiter -----------------------------
(***************************************************************************)
(* _check_rate_limit in api/main.py: per client address, the list of the    *)
(* times of the requests let through, pruned by each new request.  The      *)
(* handler has no await, so one request is one step of the event loop.      *)
(***************************************************************************)
EXTENDS Integers, Sequences

CONSTANTS
  Clients,  \* the client addresses
  Limit,    \* _RATE_LIMIT
  Window,   \* _RATE_WINDOW
  MaxTime   \* bound on the clock

ASSUME RateLimiterAssumption ==
  /\ Limit \in Nat \ {0}
  /\ Window \in Nat \ {0}
  /\ MaxTime \in Nat

VARIABLES
  now,      \* time.time()
  hits,     \* _rate_counts
  log,      \* history: every time at which a request passed
  verdict   \* the answer to the last request

vars == <<now, hits, log, verdict>>

Times == 0..MaxTime
NoVerdict == [client |-> "nobody", passed |-> TRUE]

TypeOK ==
  /\ now \in Times
  /\ hits \in [Clients -> Seq(Times)]
  /\ log \in [Clients -> Seq(Times)]

Init ==
  /\ now \in Times
  /\ hits = [c \in Clients |-> <<>>]
  /\ log = [c \in Clients |-> <<>>]
  /\ verdict = NoVerdict

(* Mutant of ExpiredPrefix: an entry exactly one window old is kept.        *)
ExpiredPrefixStrict(h, k, start) ==
  /\ \A i \in 1..k : h[i] < start
  /\ \A i \in (k + 1)..Len(h) : h[i] >= start

(* The first k entries of the list h are the ones of up to `start`: the     *)
(* entries are in the order of the clock, so what pruning drops is a prefix. *)
ExpiredPrefix(h, k, start) ==
  /\ \A i \in 1..k : h[i] <= start
  /\ \A i \in (k + 1)..Len(h) : h[i] > start

(* A request of client c: the list is pruned, and the request is refused    *)
(* without being recorded, or recorded and let through.                     *)
Refuse(c, kept) ==
  /\ Len(kept) >= Limit
  /\ hits' = [hits EXCEPT ![c] = kept]
  /\ verdict' = [client |-> c, passed |-> FALSE]
  /\ UNCHANGED <<now, log>>

(* Mutants of Pass: one request too many passes; what is kept is the time   *)
(* at which the request leaves the window.                                  *)
PassOneMore(c, kept) ==
  /\ Len(kept) <= Limit
  /\ hits' = [hits EXCEPT ![c] = Append(kept, now)]
  /\ log' = [log EXCEPT ![c] = Append(@, now)]
  /\ verdict' = [client |-> c, passed |-> TRUE]
  /\ UNCHANGED now

PassKeepingExpiry(c, kept) ==
  /\ Len(kept) < Limit
  /\ hits' = [hits EXCEPT ![c] = Append(kept, now + Window)]
  /\ log' = [log EXCEPT ![c] = Append(@, now)]
  /\ verdict' = [client |-> c, passed |-> TRUE]
  /\ UNCHANGED now

Pass(c, kept) ==
  /\ Len(kept) < Limit
  /\ hits' = [hits EXCEPT ![c] = Append(kept, now)]
  /\ log' = [log EXCEPT ![c] = Append(@, now)]
  /\ verdict' = [client |-> c, passed |-> TRUE]
  /\ UNCHANGED now

Check(c) ==
  \E k \in 0..Len(hits[c]) :
    /\ ExpiredPrefix(hits[c], k, now - Window)
    /\ LET kept == SubSeq(hits[c], k + 1, Len(hits[c]))
       IN  Refuse(c, kept) \/ Pass(c, kept)

Advance ==
  /\ now' \in Times /\ now' > now
  /\ UNCHANGED <<hits, log, verdict>>

Next == Advance \/ \E c \in Clients : Check(c)

Spec == Init /\ [][Next]_vars

-----------------------------------------------------------------------------
(* "Rate limit exceeded: 100 req/min": of any Limit + 1 requests of one     *)
(* client that pass, the last comes at least Window after the first.        *)
WindowBound ==
  \A c \in Clients : \A i \in 1..Len(log[c]) :
    i + Limit <= Len(log[c]) => log[c][i + Limit] >= log[c][i] + Window

(* The list of an address never holds more than Limit entries.              *)
HitsBound == \A c \in Clients : Len(hits[c]) <= Limit

(* The list is what is left of the log, except for entries that have left   *)
(* the window for good.                                                     *)
HitsAreSuffix(c) ==
  \E k \in 0..Len(log[c]) :
    /\ hits[c] = SubSeq(log[c], k + 1, Len(log[c]))
    /\ \A i \in 1..k : log[c][i] <= now - Window

LogOrdered(c) ==
  /\ \A i \in 1..Len(log[c]) : log[c][i] <= now
  /\ \A i, j \in 1..Len(log[c]) : i <= j => log[c][i] <= log[c][j]

(* The lists, the log and the clock hang together: a request that has been   *)
(* forgotten has left the window, and a refused one was never recorded. It   *)
(* is what keeps WindowBound true from one request to the next.              *)
IInv ==
  /\ TypeOK
  /\ HitsBound
  /\ WindowBound
  /\ \A c \in Clients : HitsAreSuffix(c) /\ LogOrdered(c)

(* Pruning forgets nothing that matters: the limiter refuses and lets       *)
(* through exactly the requests the log calls for.                          *)
SW == INSTANCE SlidingWindow WITH
  Clients <- Clients, Limit <- Limit, Window <- Window,
  now <- now, log <- log, verdict <- verdict
ImplementsSlidingWindow == SW!Spec
=============================================================================
