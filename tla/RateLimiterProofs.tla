-------------------------- MODULE RateLimiterProofs --------------------------
(* The limiter's invariant for every set of clients, limit, window and clock  *)
(* bound, and the proof that it implements SlidingWindow.                     *)
EXTENDS RateLimiter, SequenceTheorems, TLAPS

(* What is left of a sequence without its first m entries.                    *)
LEMMA SuffixFacts ==
  ASSUME NEW S, NEW s \in Seq(S), NEW m \in 0..Len(s)
  PROVE  /\ SubSeq(s, m + 1, Len(s)) \in Seq(S)
         /\ Len(SubSeq(s, m + 1, Len(s))) = Len(s) - m
         /\ \A i \in 1..(Len(s) - m) : SubSeq(s, m + 1, Len(s))[i] = s[m + i]
<1>1. Len(s) \in Nat /\ m + 1 \in Int /\ Len(s) \in Int /\ m \in Int
  OBVIOUS
<1>2. \A i \in (m + 1)..Len(s) : s[i] \in S
  BY <1>1, ElementOfSeq
<1> DEFINE t == SubSeq(s, m + 1, Len(s))
<1>3. /\ t \in Seq(S)
      /\ Len(t) = IF m + 1 <= Len(s) THEN Len(s) - (m + 1) + 1 ELSE 0
      /\ \A i \in 1 .. Len(s) - (m + 1) + 1 : t[i] = s[(m + 1) + i - 1]
  BY ONLY <1>1, <1>2, SubSeqProperties
<1>4. Len(t) = Len(s) - m
  BY <1>1, <1>3
<1>5. ASSUME NEW i \in 1..(Len(s) - m) PROVE t[i] = s[m + i]
  <2> HIDE DEF t
  <2>1. i \in 1 .. Len(s) - (m + 1) + 1 /\ (m + 1) + i - 1 = m + i
    BY <1>1
  <2> QED
    BY ONLY <1>3, <2>1, Zenon
<1> QED
  BY <1>3, <1>4, <1>5

LEMMA InitIInv == Init => IInv
<1> SUFFICES ASSUME Init PROVE IInv
  OBVIOUS
<1>1. TypeOK /\ HitsBound /\ WindowBound
  BY RateLimiterAssumption DEF Init, TypeOK, HitsBound, WindowBound, Times
<1>2. ASSUME NEW c \in Clients PROVE HitsAreSuffix(c) /\ LogOrdered(c)
  <2>1. hits[c] = <<>> /\ log[c] = <<>> /\ Len(log[c]) = 0
    BY DEF Init
  <2>2. hits[c] = SubSeq(log[c], 0 + 1, Len(log[c]))
    BY <2>1
  <2> QED
    BY <2>1, <2>2 DEF HitsAreSuffix, LogOrdered
<1> QED
  BY <1>1, <1>2 DEF IInv

(* What one request finds: the pruned list is a suffix of the log that       *)
(* starts right after the last entry outside the window.                     *)
LEMMA KeptIsWindow ==
  ASSUME IInv, NEW c \in Clients, NEW k \in 0..Len(hits[c]),
         ExpiredPrefix(hits[c], k, now - Window)
  PROVE  \E m \in 0..Len(log[c]) :
           /\ SubSeq(hits[c], k + 1, Len(hits[c])) = SubSeq(log[c], m + 1, Len(log[c]))
           /\ Len(SubSeq(hits[c], k + 1, Len(hits[c]))) = Len(log[c]) - m
           /\ \A i \in 1..m : log[c][i] <= now - Window
           /\ \A i \in (m + 1)..Len(log[c]) : log[c][i] > now - Window
<1> USE DEF IInv, TypeOK
<1> DEFINE g == log[c]
           h == hits[c]
<1>1. h \in Seq(Times) /\ g \in Seq(Times) /\ now \in Int /\ Window \in Int
  BY RateLimiterAssumption DEF Times
<1>2. PICK j \in 0..Len(g) : /\ h = SubSeq(g, j + 1, Len(g))
                             /\ \A i \in 1..j : g[i] <= now - Window
  BY DEF HitsAreSuffix
<1>3. Len(h) = Len(g) - j /\ \A i \in 1..Len(h) : h[i] = g[j + i]
  BY <1>1, <1>2
<1> DEFINE m == j + k
<1>4. m \in 0..Len(g)
  BY <1>1, <1>3
<1> DEFINE p == SubSeq(h, k + 1, Len(h))
           q == SubSeq(g, m + 1, Len(g))
<1>5. /\ p \in Seq(Times) /\ Len(p) = Len(h) - k
      /\ \A i \in 1..Len(p) : p[i] = h[k + i]
  <2>1. h \in Seq(Times) /\ k \in 0..Len(h)
    BY <1>1
  <2>2. /\ p \in Seq(Times) /\ Len(p) = Len(h) - k
        /\ \A i \in 1..(Len(h) - k) : p[i] = h[k + i]
    BY ONLY <2>1, SuffixFacts, Zenon
  <2> QED
    BY ONLY <2>2, Zenon
<1>6. /\ q \in Seq(Times) /\ Len(q) = Len(g) - m
      /\ \A i \in 1..Len(q) : q[i] = g[m + i]
  <2>1. /\ q \in Seq(Times) /\ Len(q) = Len(g) - m
        /\ \A i \in 1..(Len(g) - m) : q[i] = g[m + i]
    BY ONLY <1>1, <1>4, SuffixFacts, Zenon
  <2> QED
    BY ONLY <2>1, Zenon
<1>7. Len(p) = Len(q) /\ Len(p) \in Nat
  BY <1>1, <1>3, <1>5, <1>6
<1>8. ASSUME NEW i \in 1..Len(p) PROVE p[i] = q[i]
  <2>1. k + i \in 1..Len(h) /\ p[i] = h[k + i] /\ q[i] = g[m + i]
    BY <1>1, <1>5, <1>6, <1>7
  <2>2. h[k + i] = g[j + (k + i)]
    BY ONLY <1>3, <2>1, Zenon
  <2>3. i \in Int /\ Len(p) \in Nat
    BY ONLY <1>7
  <2>4. j + (k + i) = m + i
    BY <2>3
  <2> QED
    BY ONLY <2>1, <2>2, <2>4, Zenon
<1>9. p = q
  <2> HIDE DEF p, q
  <2>1. p \in Seq(Times) /\ q \in Seq(Times)
    BY <1>5, <1>6
  <2> QED
    BY ONLY <1>7, <1>8, <2>1, SeqEqual, Zenon
<1>10. \A i \in 1..m : g[i] <= now - Window
  <2> SUFFICES ASSUME NEW i \in 1..m, i > j PROVE g[i] <= now - Window
    BY <1>2, <1>4
  <2>1. i - j \in 1..k /\ i - j \in 1..Len(h)
    BY <1>1, <1>3
  <2>2. h[i - j] = g[j + (i - j)]
    BY ONLY <1>3, <2>1, Zenon
  <2>3. j + (i - j) = i
    OBVIOUS
  <2>4. h[i - j] <= now - Window
    BY <2>1 DEF ExpiredPrefix
  <2> QED
    BY ONLY <2>2, <2>3, <2>4
<1>11. \A i \in (m + 1)..Len(g) : g[i] > now - Window
  <2> SUFFICES ASSUME NEW i \in (m + 1)..Len(g) PROVE g[i] > now - Window
    OBVIOUS
  <2>1. i - j \in (k + 1)..Len(h) /\ i - j \in 1..Len(h)
    BY <1>1, <1>3
  <2>2. h[i - j] = g[j + (i - j)]
    BY ONLY <1>3, <2>1, Zenon
  <2>3. j + (i - j) = i
    OBVIOUS
  <2>4. h[i - j] > now - Window
    BY <2>1 DEF ExpiredPrefix
  <2> QED
    BY ONLY <2>2, <2>3, <2>4
<1> QED
  BY <1>4, <1>5, <1>6, <1>7, <1>9, <1>10, <1>11

(* A list that is a suffix stays one when both sequences get the same entry.  *)
LEMMA AppendToSuffix ==
  ASSUME NEW S, NEW g \in Seq(S), NEW e \in S, NEW m \in 0..Len(g)
  PROVE  Append(SubSeq(g, m + 1, Len(g)), e)
           = SubSeq(Append(g, e), m + 1, Len(Append(g, e)))
<1> DEFINE a == SubSeq(g, m + 1, Len(g))
           f == Append(g, e)
           b == SubSeq(f, m + 1, Len(f))
<1>1. /\ a \in Seq(S) /\ Len(a) = Len(g) - m
      /\ \A i \in 1..(Len(g) - m) : a[i] = g[m + i]
  BY SuffixFacts
<1>2. /\ f \in Seq(S) /\ Len(f) = Len(g) + 1 /\ m \in 0..Len(f)
      /\ f[Len(g) + 1] = e /\ \A i \in 1..Len(g) : f[i] = g[i]
  OBVIOUS
<1> HIDE DEF a, f
<1>3. /\ b \in Seq(S) /\ Len(b) = Len(f) - m
      /\ \A i \in 1..(Len(f) - m) : b[i] = f[m + i]
  BY <1>2, SuffixFacts
<1> HIDE DEF b
<1>4. /\ Append(a, e) \in Seq(S) /\ Len(Append(a, e)) = Len(g) - m + 1
      /\ Append(a, e)[Len(g) - m + 1] = e
      /\ \A i \in 1..(Len(g) - m) : Append(a, e)[i] = a[i]
  BY <1>1
<1>5. Len(g) \in Nat /\ m \in 0..Len(g)
  OBVIOUS
<1>6. ASSUME NEW i \in 1..Len(Append(a, e)) PROVE Append(a, e)[i] = b[i]
  <2>1. CASE i = Len(g) - m + 1
    <3>1. i \in 1..(Len(f) - m) /\ m + i = Len(g) + 1
      BY <1>2, <1>5, <2>1
    <3> QED
      BY <1>2, <1>3, <1>4, <2>1, <3>1
  <2>2. CASE i # Len(g) - m + 1
    <3>1. i \in 1..(Len(g) - m) /\ i \in 1..(Len(f) - m) /\ m + i \in 1..Len(g)
      BY <1>2, <1>4, <1>5, <2>2
    <3> QED
      BY <1>1, <1>2, <1>3, <1>4, <3>1
  <2> QED
    BY <2>1, <2>2
<1>7. Len(Append(a, e)) = Len(b)
  BY <1>2, <1>3, <1>4, <1>5
<1>8. Append(a, e) = b
  BY ONLY <1>3, <1>4, <1>6, <1>7, SeqEqual
<1> QED
  BY <1>8 DEF a, b, f

LEMMA AdvanceKeepsIInv == IInv /\ Advance => IInv'
<1> SUFFICES ASSUME IInv, Advance PROVE IInv'
  OBVIOUS
<1> USE RateLimiterAssumption DEF Advance
<1>1. TypeOK' /\ HitsBound' /\ WindowBound'
  BY DEF IInv, TypeOK, HitsBound, WindowBound, Times
<1>2. ASSUME NEW c \in Clients PROVE HitsAreSuffix(c)' /\ LogOrdered(c)'
  <2>1. log[c] \in Seq(Times) /\ now \in Int /\ now' \in Int /\ now' > now
    BY DEF IInv, TypeOK, Times
  <2>2. \A i \in 1..Len(log[c]) : log[c][i] \in Int
    BY <2>1, ElementOfSeq DEF Times
  <2>3. HitsAreSuffix(c) /\ LogOrdered(c)
    BY DEF IInv
  <2>4. HitsAreSuffix(c)'
    <3>1. PICK k \in 0..Len(log[c]) :
             /\ hits[c] = SubSeq(log[c], k + 1, Len(log[c]))
             /\ \A i \in 1..k : log[c][i] <= now - Window
      BY <2>3 DEF HitsAreSuffix
    <3>2. ASSUME NEW i \in 1..k PROVE log[c][i] <= now' - Window
      <4>1. Len(log[c]) \in Nat /\ Window \in Int
        BY <2>1
      <4>2. i \in 1..Len(log[c])
        BY ONLY <4>1, i \in 1..k, k \in 0..Len(log[c])
      <4>3. log[c][i] \in Int
        BY ONLY <2>2, <4>2
      <4>4. log[c][i] <= now - Window
        BY <3>1
      <4> QED
        BY ONLY <2>1, <4>1, <4>3, <4>4
    <3> QED
      BY <3>1, <3>2 DEF HitsAreSuffix
  <2>5. LogOrdered(c)'
    BY <2>1, <2>2, <2>3 DEF LogOrdered
  <2> QED
    BY <2>4, <2>5
<1> QED
  BY <1>1, <1>2 DEF IInv

LEMMA RefuseKeepsIInv ==
  ASSUME IInv, NEW c \in Clients, NEW k \in 0..Len(hits[c]),
         ExpiredPrefix(hits[c], k, now - Window),
         Refuse(c, SubSeq(hits[c], k + 1, Len(hits[c])))
  PROVE  IInv'
<1> DEFINE kept == SubSeq(hits[c], k + 1, Len(hits[c]))
<1>1. TypeOK /\ hits[c] \in Seq(Times) /\ Len(hits[c]) <= Limit
  BY DEF IInv, TypeOK, HitsBound
<1>2. kept \in Seq(Times) /\ Len(kept) = Len(hits[c]) - k
  BY <1>1, SuffixFacts
<1>3. PICK m \in 0..Len(log[c]) :
         /\ kept = SubSeq(log[c], m + 1, Len(log[c]))
         /\ \A i \in 1..m : log[c][i] <= now - Window
  BY KeptIsWindow
<1>4. /\ hits' = [hits EXCEPT ![c] = kept]
      /\ now' = now /\ log' = log
  BY DEF Refuse
<1> HIDE DEF kept
<1>5. TypeOK'
  BY <1>1, <1>2, <1>4 DEF TypeOK
<1>6. HitsBound'
  BY <1>1, <1>2, <1>4, RateLimiterAssumption DEF IInv, HitsBound, TypeOK
<1>7. WindowBound'
  BY <1>4 DEF IInv, WindowBound
<1>8. ASSUME NEW d \in Clients PROVE HitsAreSuffix(d)' /\ LogOrdered(d)'
  <2>1. LogOrdered(d)'
    BY <1>4 DEF IInv, LogOrdered
  <2>2. CASE d = c
    BY <1>1, <1>3, <1>4, <2>1, <2>2 DEF TypeOK, HitsAreSuffix
  <2>3. CASE d # c
    BY <1>1, <1>4, <2>1, <2>3 DEF IInv, TypeOK, HitsAreSuffix
  <2> QED
    BY <2>2, <2>3
<1> QED
  BY <1>5, <1>6, <1>7, <1>8 DEF IInv

LEMMA PassKeepsIInv ==
  ASSUME IInv, NEW c \in Clients, NEW k \in 0..Len(hits[c]),
         ExpiredPrefix(hits[c], k, now - Window),
         Pass(c, SubSeq(hits[c], k + 1, Len(hits[c])))
  PROVE  IInv'
<1> DEFINE kept == SubSeq(hits[c], k + 1, Len(hits[c]))
           g == log[c]
<1>1. TypeOK /\ hits[c] \in Seq(Times) /\ g \in Seq(Times) /\ now \in Times
  BY DEF IInv, TypeOK
<1>2. kept \in Seq(Times)
  BY <1>1, SuffixFacts
<1>3. PICK m \in 0..Len(g) :
         /\ kept = SubSeq(g, m + 1, Len(g))
         /\ Len(kept) = Len(g) - m
         /\ \A i \in 1..m : g[i] <= now - Window
  BY KeptIsWindow
<1>4. /\ Len(kept) < Limit
      /\ hits' = [hits EXCEPT ![c] = Append(kept, now)]
      /\ log' = [log EXCEPT ![c] = Append(g, now)]
      /\ now' = now
  BY DEF Pass
<1>5. Append(kept, now) = SubSeq(Append(g, now), m + 1, Len(Append(g, now)))
  BY <1>1, <1>3, AppendToSuffix
<1> HIDE DEF kept
<1>6. Len(kept) \in Nat /\ Append(kept, now) \in Seq(Times)
      /\ Len(Append(kept, now)) = Len(kept) + 1
  BY <1>1, <1>2
<1>7. /\ Append(g, now) \in Seq(Times) /\ Len(Append(g, now)) = Len(g) + 1
      /\ Append(g, now)[Len(g) + 1] = now /\ Len(g) \in Nat
      /\ \A i \in 1..Len(g) : Append(g, now)[i] = g[i]
  BY <1>1
<1>8. /\ now \in Int /\ Limit \in Nat \ {0} /\ Window \in Nat \ {0}
      /\ \A i \in 1..Len(g) : g[i] \in Int
  BY <1>1, ElementOfSeq, RateLimiterAssumption DEF Times
<1>9. /\ hits'[c] = Append(kept, now) /\ log'[c] = Append(g, now)
      /\ \A d \in Clients \ {c} : hits'[d] = hits[d] /\ log'[d] = log[d]
  BY <1>1, <1>4 DEF TypeOK
<1>10. TypeOK'
  BY <1>1, <1>4, <1>6, <1>7 DEF TypeOK
<1>11. HitsBound'
  BY <1>4, <1>6, <1>8, <1>9 DEF IInv, HitsBound
<1>12. \A i \in 1..Len(g) : i + Limit <= Len(g) => g[i + Limit] >= g[i] + Window
  BY DEF IInv, WindowBound
<1>13. LogOrdered(c)
  BY DEF IInv
<1> HIDE DEF g
<1>14. WindowBound'
  <2> SUFFICES ASSUME NEW i \in 1..(Len(g) + 1), i + Limit <= Len(g) + 1
               PROVE  Append(g, now)[i + Limit] >= Append(g, now)[i] + Window
    BY <1>7, <1>9 DEF IInv, WindowBound
  <2>1. i \in 1..Len(g)
    BY <1>7, <1>8
  <2>2. CASE i + Limit <= Len(g)
    <3>1. i + Limit \in 1..Len(g)
      BY <1>7, <1>8, <2>2
    <3> QED
      BY <1>7, <1>12, <2>1, <2>2, <3>1
  <2>3. CASE i + Limit = Len(g) + 1
    <3>1. i \in 1..m
      BY <1>3, <1>4, <1>6, <1>7, <1>8, <2>3
    <3> QED
      BY <1>3, <1>7, <1>8, <2>1, <2>3, <3>1
  <2>4. i + Limit <= Len(g) \/ i + Limit = Len(g) + 1
    <3>1. Len(g) \in Nat /\ i \in Int /\ Limit \in Int
      BY <1>7, <1>8
    <3> QED
      BY ONLY <3>1, i + Limit <= Len(g) + 1
  <2> QED
    BY ONLY <2>2, <2>3, <2>4
<1>15. HitsAreSuffix(c)'
  <2>1. m \in 0..Len(Append(g, now))
    BY <1>3, <1>7
  <2>2. \A i \in 1..m : Append(g, now)[i] <= now - Window
    BY <1>3, <1>7
  <2> QED
    BY <1>4, <1>5, <1>9, <2>1, <2>2 DEF HitsAreSuffix
<1>16. LogOrdered(c)'
  <2> USE <1>7, <1>8, <1>13 DEF LogOrdered, g
  <2>1. \A i \in 1..(Len(g) + 1) : Append(g, now)[i] <= now
    OBVIOUS
  <2>2. ASSUME NEW i \in 1..(Len(g) + 1), NEW j \in 1..(Len(g) + 1), i <= j
        PROVE  Append(g, now)[i] <= Append(g, now)[j]
    <3>1. CASE j = Len(g) + 1
      BY <2>1, <3>1
    <3>2. CASE j # Len(g) + 1
      <4>1. i \in 1..Len(g) /\ j \in 1..Len(g)
        BY <2>2, <3>2
      <4> QED
        BY <2>2, <4>1
    <3> QED
      BY <3>1, <3>2
  <2> QED
    BY <1>4, <1>9, <2>1, <2>2
<1>17. ASSUME NEW d \in Clients \ {c} PROVE HitsAreSuffix(d)' /\ LogOrdered(d)'
  BY <1>4, <1>9 DEF IInv, HitsAreSuffix, LogOrdered
<1> QED
  BY <1>10, <1>11, <1>14, <1>15, <1>16, <1>17 DEF IInv

LEMMA NextIInv == IInv /\ [Next]_vars => IInv'
<1> SUFFICES ASSUME IInv, [Next]_vars PROVE IInv'
  OBVIOUS
<1>1. CASE Advance
  BY <1>1, AdvanceKeepsIInv
<1>2. ASSUME NEW c \in Clients, Check(c) PROVE IInv'
  BY <1>2, RefuseKeepsIInv, PassKeepsIInv DEF Check
<1>3. CASE UNCHANGED vars
  BY <1>3 DEF vars, IInv, TypeOK, HitsBound, WindowBound, HitsAreSuffix, LogOrdered
<1> QED
  BY <1>1, <1>2, <1>3 DEF Next

LEMMA SpecIInv == Spec => []IInv
BY InitIInv, NextIInv, PTL DEF Spec

(* The state of _check_rate_limit keeps its types.                            *)
THEOREM RateLimiterTypeOK == Spec => []TypeOK
<1>1. IInv => TypeOK
  BY DEF IInv
<1> QED
  BY <1>1, SpecIInv, PTL

(* No client gets more than Limit requests through in any Window of time: the *)
(* promise of the 429 answer, whatever the limit, the window and the clients. *)
THEOREM NeverMoreThanLimit == Spec => []WindowBound
<1>1. IInv => WindowBound
  BY DEF IInv
<1> QED
  BY <1>1, SpecIInv, PTL

LEMMA InitRefines == Init => SW!Init
BY DEF Init, SW!Init, Times, NoVerdict, SW!NoVerdict

LEMMA CheckRefines ==
  ASSUME IInv, NEW c \in Clients, Check(c)
  PROVE  SW!Next
<1>1. PICK k \in 0..Len(hits[c]) :
         /\ ExpiredPrefix(hits[c], k, now - Window)
         /\ \/ Refuse(c, SubSeq(hits[c], k + 1, Len(hits[c])))
            \/ Pass(c, SubSeq(hits[c], k + 1, Len(hits[c])))
  BY DEF Check
<1> DEFINE kept == SubSeq(hits[c], k + 1, Len(hits[c]))
<1>2. PICK m \in 0..Len(log[c]) :
         /\ Len(kept) = Len(log[c]) - m
         /\ \A i \in 1..m : log[c][i] <= now - Window
         /\ \A i \in (m + 1)..Len(log[c]) : log[c][i] > now - Window
  BY <1>1, KeptIsWindow
<1>3. Len(log[c]) \in Nat /\ now \in Int
      /\ \A i \in 1..Len(log[c]) : log[c][i] \in Int
  <2>1. now \in Int /\ log[c] \in Seq(Times)
    BY DEF IInv, TypeOK, Times
  <2>2. \A i \in 1..Len(log[c]) : log[c][i] \in Times
    BY <2>1, ElementOfSeq
  <2> QED
    BY <2>1, <2>2 DEF Times
<1> HIDE DEF kept
<1>4. CASE Refuse(c, kept)
  <2>1. Len(log[c]) >= Limit /\ Len(log[c]) - Limit + 1 \in (m + 1)..Len(log[c])
    BY <1>2, <1>3, <1>4, RateLimiterAssumption DEF Refuse
  <2>2. SW!Full(c)
    BY <1>2, <2>1 DEF SW!Full
  <2> QED
    BY <1>4, <2>2 DEF Refuse, SW!Refuse, SW!Next
<1>5. CASE Pass(c, kept)
  <2>1. ~SW!Full(c)
    <3> SUFFICES ASSUME Len(log[c]) >= Limit
                 PROVE  ~(log[c][Len(log[c]) - Limit + 1] > now - Window)
      BY DEF SW!Full
    <3>1. Len(log[c]) - Limit + 1 \in 1..m /\ Len(log[c]) - Limit + 1 \in 1..Len(log[c])
      BY <1>2, <1>3, <1>5, RateLimiterAssumption DEF Pass
    <3>2. log[c][Len(log[c]) - Limit + 1] \in Int
      BY ONLY <1>3, <3>1
    <3> QED
      BY <1>2, <1>3, <3>1, <3>2, RateLimiterAssumption
  <2> QED
    BY <1>5, <2>1 DEF Pass, SW!Pass, SW!Next
<1> QED
  BY <1>1, <1>4, <1>5 DEF kept

LEMMA StepRefines == IInv /\ [Next]_vars => [SW!Next]_SW!vars
<1> SUFFICES ASSUME IInv, [Next]_vars PROVE [SW!Next]_SW!vars
  OBVIOUS
<1>1. CASE Advance
  BY <1>1 DEF Advance, SW!Advance, SW!Next, Times
<1>2. ASSUME NEW c \in Clients, Check(c) PROVE SW!Next
  BY <1>2, CheckRefines
<1>3. CASE UNCHANGED vars
  BY <1>3 DEF vars, SW!vars
<1> QED
  BY <1>1, <1>2, <1>3 DEF Next

(* _check_rate_limit, which keeps only the times of the current window,       *)
(* refuses and lets through exactly the requests that the complete log of     *)
(* past requests calls for.                                                   *)
THEOREM LimiterIsASlidingWindow == Spec => ImplementsSlidingWindow
<1>1. Spec => SW!Spec
  BY InitRefines, StepRefines, SpecIInv, PTL DEF Spec, SW!Spec
<1> QED
  BY <1>1 DEF ImplementsSlidingWindow
=============================================================================
