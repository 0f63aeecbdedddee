-------------------------- MODULE PaperSessionProofs --------------------------
(***************************************************************************)
(* Theorems about PaperSession: restarts replay and continue the session.  *)
(***************************************************************************)
EXTENDS PaperSession, FiniteSetTheorems, TLAPS

-----------------------------------------------------------------------------
(* Ordered sequences.  A finite set of numbers has one; that it is the     *)
(* only one is shown by counting, not by induction.                        *)

\* s lists the elements of S in ascending order.
Ordered(s, S) ==
  /\ Len(s) \in Nat
  /\ s \in [1..Len(s) -> S]
  /\ \A m, n \in 1..Len(s) : m < n => s[m] < s[n]
  /\ \A k \in S : \E n \in 1..Len(s) : s[n] = k

\* No element occurs twice.
LEMMA OrderedApart ==
  ASSUME NEW S, \A k \in S : k \in Int, NEW s, Ordered(s, S),
         NEW i \in 1..Len(s), NEW j \in 1..Len(s), s[i] = s[j]
  PROVE  i = j
<1>1. Len(s) \in Nat /\ s[i] \in Int /\ s[j] \in Int
  BY DEF Ordered
<1>2. ~(i < j) /\ ~(j < i)
  BY <1>1 DEF Ordered
<1>3. QED
  BY <1>1, <1>2

\* The elements up to the n-th are n many.
LEMMA CountUpTo ==
  ASSUME NEW S, \A k \in S : k \in Int, NEW s, Ordered(s, S), NEW n \in 1..Len(s)
  PROVE  /\ IsFiniteSet({k \in S : k <= s[n]})
         /\ Cardinality({k \in S : k <= s[n]}) = n
<1> DEFINE T == {k \in S : k <= s[n]}
           f == [i \in 1..n |-> s[i]]
<1>1. Len(s) \in Nat /\ n \in Nat /\ s[n] \in Int
  BY DEF Ordered
<1>2. ASSUME NEW i \in 1..n PROVE f[i] \in T
  <2>1. i \in 1..Len(s) /\ s[i] \in S /\ s[i] \in Int
    BY <1>1 DEF Ordered
  <2>2. i # n => s[i] < s[n]
    BY <2>1, <1>1 DEF Ordered
  <2>3. s[i] <= s[n]
    BY <2>1, <2>2, <1>1
  <2>4. QED
    BY <2>1, <2>3
<1>3. ASSUME NEW k \in T PROVE \E i \in 1..n : f[i] = k
  <2>1. PICK i \in 1..Len(s) : s[i] = k
    BY DEF Ordered
  <2>2. s[i] \in Int /\ s[i] <= s[n]
    BY <2>1
  <2>3. n < i => s[n] < s[i]
    BY <2>1 DEF Ordered
  <2>4. i \in 1..n
    BY <2>2, <2>3, <1>1
  <2>5. QED
    BY <2>1, <2>4
<1>4. ASSUME NEW i \in 1..n, NEW j \in 1..n, f[i] = f[j] PROVE i = j
  BY <1>1, <1>4, OrderedApart
<1>5. f \in Bijection(1..n, T)
  BY <1>2, <1>3, <1>4 DEF Bijection, Injection, Surjection, IsInjective
<1>6. ExistsBijection(1..n, T)
  BY <1>5 DEF ExistsBijection
<1>7. QED
  BY <1>6, <1>1, FS_CountingElements, FS_NatBijection

\* Of two orders of one set neither is below the other anywhere.
LEMMA OrderedBelow ==
  ASSUME NEW S, \A k \in S : k \in Int, NEW s, NEW t, Ordered(s, S), Ordered(t, S),
         NEW n \in 1..Len(s), n \in 1..Len(t)
  PROVE  ~(s[n] < t[n])
<1> SUFFICES ASSUME s[n] < t[n] PROVE FALSE
  OBVIOUS
<1> DEFINE A == {k \in S : k <= s[n]}
           B == {k \in S : k <= t[n]}
<1>1. s[n] \in S /\ t[n] \in S
  BY DEF Ordered
<1>2. A \subseteq B /\ t[n] \in B /\ t[n] \notin A
  BY <1>1
<1>3. IsFiniteSet(B) /\ Cardinality(A) = n /\ Cardinality(B) = n
  <2>1. IsFiniteSet(A) /\ Cardinality(A) = n
    BY CountUpTo
  <2>2. IsFiniteSet(B) /\ Cardinality(B) = n
    BY CountUpTo
  <2>3. QED
    BY <2>1, <2>2
<1> HIDE DEF A, B
<1>4. A = B
  BY <1>2, <1>3, FS_Subset
<1>5. QED
  BY <1>2, <1>4

\* The order of a set is as long as the set is large.
LEMMA OrderedSize ==
  ASSUME NEW S, \A k \in S : k \in Int, NEW s, Ordered(s, S)
  PROVE  IsFiniteSet(S) /\ Cardinality(S) = Len(s)
<1>1. ASSUME NEW i \in 1..Len(s), NEW j \in 1..Len(s), s[i] = s[j] PROVE i = j
  BY <1>1, OrderedApart
<1>2. s \in Bijection(1..Len(s), S)
  BY <1>1 DEF Bijection, Injection, Surjection, Ordered, IsInjective
<1>3. ExistsBijection(1..Len(s), S) /\ Len(s) \in Nat
  BY <1>2 DEF ExistsBijection, Ordered
<1>4. QED
  BY <1>3, FS_CountingElements, FS_NatBijection

\* InOrder(S) is the ordered sequence of S, where there is one.
LEMMA InOrderIs ==
  ASSUME NEW S, \A k \in S : k \in Int, NEW s, Ordered(s, S)
  PROVE  InOrder(S) = s
<1> DEFINE t == InOrder(S)
           N == Len(s)
<1>1. IsFiniteSet(S) /\ Cardinality(S) = N /\ N \in Nat
  BY OrderedSize DEF Ordered
<1>2. s \in [1..Cardinality(S) -> S] /\ \A m, n \in DOMAIN s : m < n => s[m] < s[n]
  BY <1>1 DEF Ordered
<1>3. t \in [1..Cardinality(S) -> S] /\ \A m, n \in DOMAIN t : m < n => t[m] < t[n]
  BY <1>2 DEF InOrder
<1> HIDE DEF t
<1>4. t \in [1..N -> S] /\ \A m, n \in 1..N : m < n => t[m] < t[n]
  BY <1>1, <1>3
<1>5. ASSUME NEW i \in 1..N, NEW j \in 1..N, t[i] = t[j] PROVE i = j
  <2>1. t[i] \in Int /\ t[j] \in Int
    BY <1>4
  <2>2. ~(i < j) /\ ~(j < i)
    BY <2>1, <1>4, <1>5
  <2>3. QED
    BY <2>2, <1>1
<1>6. t \in Injection(1..N, S)
  BY <1>4, <1>5 DEF Injection, IsInjective
<1>7. Cardinality(1..N) = N
  <2>1. \A b \in Int : Cardinality(1..b) = IF 1 > b THEN 0 ELSE b - 1 + 1
    BY FS_Interval
  <2>2. QED
    BY <2>1, <1>1
<1>8. t \in Surjection(1..N, S)
  BY <1>1, <1>6, <1>7, FS_Injection
<1>9. Len(t) = N
  BY <1>1, <1>4
<1>10. Ordered(t, S)
  BY <1>1, <1>4, <1>8, <1>9 DEF Ordered, Surjection
<1>11. ASSUME NEW n \in 1..N PROVE t[n] = s[n]
  <2>1. s[n] \in Int /\ t[n] \in Int
    BY <1>4 DEF Ordered
  <2>2. ~(s[n] < t[n]) /\ ~(t[n] < s[n])
    BY <1>9, <1>10, OrderedBelow
  <2>3. QED
    BY <2>1, <2>2
<1>12. s \in [1..N -> S]
  BY DEF Ordered
<1>13. s = t
  BY <1>4, <1>11, <1>12
<1>14. QED
  BY <1>13 DEF t

\* The newest element is the last of the order.
LEMMA NewestIs ==
  ASSUME NEW S, \A k \in S : k \in Int, NEW s, Ordered(s, S), S # {}
  PROVE  /\ Newest(S) \in S /\ \A k \in S : k <= Newest(S)
         /\ s # <<>> /\ Newest(S) = s[Len(s)]
<1> DEFINE last == s[Len(s)]
<1>1. Len(s) \in Nat \ {0} /\ last \in S
  BY DEF Ordered
<1>2. ASSUME NEW k \in S PROVE k <= last
  <2>1. PICK n \in 1..Len(s) : s[n] = k
    BY DEF Ordered
  <2>2. Len(s) \in 1..Len(s) /\ n <= Len(s) /\ n \in Int
    BY <1>1
  <2>3. n = Len(s) \/ n < Len(s)
    BY <1>1, <2>2
  <2>4. n < Len(s) => s[n] < s[Len(s)]
    BY <2>2 DEF Ordered
  <2>5. QED
    BY <1>1, <2>1, <2>3, <2>4
<1>3. Newest(S) \in S /\ \A k \in S : k <= Newest(S)
  BY <1>1, <1>2 DEF Newest
<1>4. Newest(S) = last
  BY <1>1, <1>2, <1>3
<1>5. QED
  BY <1>1, <1>3, <1>4

\* Appending what is ahead keeps the order.
LEMMA OrderedAppend ==
  ASSUME NEW S, \A k \in S : k \in Int, NEW s, Ordered(s, S),
         NEW T, \A k \in T : k \in Int, NEW t, Ordered(t, T),
         \A j \in S, k \in T : j < k
  PROVE  Ordered(s \o t, S \cup T)
<1> DEFINE u == s \o t
<1>1. /\ Len(s) \in Nat /\ Len(t) \in Nat
      /\ s \in Seq(S) /\ t \in Seq(T)
  BY SMTT(40) DEF Ordered
<1>2. /\ Len(u) = Len(s) + Len(t) /\ Len(u) \in Nat
      /\ u \in [1..Len(u) -> S \cup T]
      /\ \A n \in 1..Len(s) : u[n] = s[n]
      /\ \A n \in 1..Len(t) : u[Len(s) + n] = t[n]
  <2>1. u \in Seq(S \cup T)
    BY <1>1
  <2>2. Len(u) = Len(s) + Len(t)
    BY <1>1
  <2>3. /\ \A n \in 1..Len(s) : u[n] = s[n]
        /\ \A n \in 1..Len(t) : u[Len(s) + n] = t[n]
    BY <1>1
  <2> HIDE DEF u
  <2>4. u \in [1..Len(u) -> S \cup T]
    BY <2>1
  <2>5. QED
    BY <1>1, <2>2, <2>3, <2>4
<1>3. ASSUME NEW n \in 1..Len(u), n > Len(s)
      PROVE  n - Len(s) \in 1..Len(t) /\ u[n] = t[n - Len(s)]
  BY <1>1, <1>2, <1>3
<1> HIDE DEF u
<1>4. ASSUME NEW m \in 1..Len(u), NEW n \in 1..Len(u), m < n PROVE u[m] < u[n]
  <2>1. CASE n <= Len(s)
    <3>1. m \in 1..Len(s) /\ n \in 1..Len(s)
      BY <1>1, <1>2, <1>4, <2>1
    <3>2. s[m] < s[n]
      BY <1>4, <3>1 DEF Ordered
    <3>3. QED
      BY <1>2, <3>1, <3>2
  <2>2. CASE m <= Len(s) /\ n > Len(s)
    <3>1. u[m] \in S
      BY <1>1, <1>2, <2>2 DEF Ordered
    <3>2. u[n] \in T
      BY <1>1, <1>3, <2>2 DEF Ordered
    <3>3. QED
      BY <3>1, <3>2
  <2>3. CASE m > Len(s)
    <3>1. m - Len(s) \in 1..Len(t) /\ n - Len(s) \in 1..Len(t) /\ m - Len(s) < n - Len(s)
      BY <1>1, <1>3, <1>4, <2>3
    <3>2. u[m] = t[m - Len(s)] /\ u[n] = t[n - Len(s)]
      BY <1>1, <1>3, <1>4, <2>3
    <3>3. QED
      BY <3>1, <3>2 DEF Ordered
  <2>4. QED
    BY <1>1, <2>1, <2>2, <2>3
<1>5. ASSUME NEW k \in S \cup T PROVE \E n \in 1..Len(u) : u[n] = k
  <2>1. CASE k \in S
    <3>1. PICK n \in 1..Len(s) : s[n] = k
      BY <2>1 DEF Ordered
    <3>2. QED
      BY <1>1, <1>2, <3>1
  <2>2. CASE k \in T
    <3>1. PICK n \in 1..Len(t) : t[n] = k
      BY <2>2 DEF Ordered
    <3>2. Len(s) + n \in 1..Len(u)
      BY <1>1, <1>2
    <3>3. QED
      BY <1>2, <3>1, <3>2
  <2>3. QED
    BY <2>1, <2>2
<1>6. Ordered(u, S \cup T)
  BY <1>2, <1>4, <1>5 DEF Ordered
<1>7. QED
  BY <1>6 DEF u

\* Its elements, and those before one of them.
LEMMA OrderedToSet ==
  ASSUME NEW S, NEW s, Ordered(s, S)
  PROVE  ToSet(s) = S
<1>1. DOMAIN s = 1..Len(s) /\ \A n \in 1..Len(s) : s[n] \in S
  BY DEF Ordered
<1>2. QED
  BY <1>1 DEF Ordered, ToSet

\* The elements below the n-th are ordered by what comes before it.
LEMMA OrderedPrefix ==
  ASSUME NEW S, \A k \in S : k \in Int, NEW s, Ordered(s, S), NEW n \in 1..Len(s)
  PROVE  Ordered(SubSeq(s, 1, n - 1), {k \in S : k < s[n]})
<1> DEFINE u == SubSeq(s, 1, n - 1)
           B == {k \in S : k < s[n]}
<1>1. Len(s) \in Nat /\ n \in Int /\ n - 1 \in Nat /\ n <= Len(s) /\ s \in Seq(S)
  BY DEF Ordered
<1>2. Len(u) = n - 1 /\ DOMAIN u = 1..(n - 1)
  BY <1>1
<1>3. ASSUME NEW m \in 1..(n - 1)
      PROVE  m \in 1..Len(s) /\ m < n /\ u[m] = s[m]
  BY <1>1, <1>3
<1>4. u \in Seq(S)
  BY <1>1
<1> HIDE DEF u
<1>5. ASSUME NEW m \in 1..(n - 1) PROVE u[m] \in B
  BY <1>3, <1>5 DEF Ordered
<1>6. u \in [1..(n - 1) -> B]
  <2>1. u = [m \in 1..(n - 1) |-> u[m]]
    BY <1>2, <1>4
  <2>2. QED
    BY <1>5, <2>1
<1>7. ASSUME NEW i \in 1..(n - 1), NEW j \in 1..(n - 1), i < j PROVE u[i] < u[j]
  <2>1. i \in 1..Len(s) /\ j \in 1..Len(s)
    BY <1>3
  <2>2. s[i] < s[j]
    BY <2>1, <1>7 DEF Ordered
  <2>3. QED
    BY <2>2, <1>3
<1>8. ASSUME NEW k \in B PROVE \E m \in 1..(n - 1) : u[m] = k
  <2>1. PICK m \in 1..Len(s) : s[m] = k
    BY DEF Ordered
  <2>2. s[m] < s[n] /\ s[m] \in Int /\ s[n] \in Int
    BY <2>1 DEF Ordered
  <2>3. n < m => s[n] < s[m]
    BY DEF Ordered
  <2>4. m # n /\ ~(n < m)
    BY <2>2, <2>3
  <2>5. m \in 1..(n - 1)
    BY <2>4, <1>1
  <2>6. QED
    BY <2>1, <2>5, <1>3
<1>9. Ordered(u, B)
  BY <1>1, <1>2, <1>6, <1>7, <1>8 DEF Ordered
<1>10. QED
  BY <1>9 DEF u

-----------------------------------------------------------------------------
(* The inductive invariant.                                                *)

CandlesOrdered ==
  /\ \E s : Ordered(s, candles)
  /\ pc # "down" => Ordered(history, VisibleCandles)
  /\ \A k \in newCandles, j \in candles : j < k

\* One event per candle, made of the candles before it.
EventsOfCandles ==
  /\ candles = {e.candle : e \in events}
  /\ VisibleCandles = {e.candle : e \in VisibleEvents}
  /\ \A e, f \in VisibleEvents : e.candle = f.candle => e = f
  /\ EventsReplay

\* What is delivered closed after the session started, and so did its candles.
AfterStart ==
  /\ anchor <= closed
  /\ \A n \in 1..Len(buffer) : anchor < buffer[n] /\ buffer[n] <= closed
  /\ \A k \in VisibleCandles : anchor < k /\ k <= closed
  /\ anchor = -1 => pc = "down" /\ candles = {}

\* Where the process is tells what the open transaction and the reports hold.
Phases ==
  /\ pc = "down" => buffer = <<>>
  /\ pc \in {"down", "restored"} => newCandles = {} /\ newEvents = {}
  /\ newCandles # {} /\ pc # "committing" => candles # {}
  /\ \A k \in reported : k <= closed
  /\ pc \notin {"down", "restored"} => reported \subseteq VisibleCandles

SessionInv ==
  /\ TypeOK /\ CandlesOrdered /\ EventsOfCandles /\ AfterStart /\ Phases
  /\ ReportedIsRecoverable

-----------------------------------------------------------------------------
(* Processing candles, restored, backfilled or streamed.                   *)

\* Candles are numbered by their close times.
LEMMA CandlesAreNumbers == Candle \subseteq Nat /\ \A k \in Candle : k \in Int
BY SessionAssumption DEF Candle

\* The elements of S below n.
Before(S, n) == {k \in S : k < n}
\* s and t list S and T, and everything in T is newer.
Follows(s, S, t, T) ==
  /\ \A k \in S : k \in Int
  /\ \A k \in T : k \in Int
  /\ Ordered(s, S) /\ Ordered(t, T)
  /\ \A j \in S, k \in T : j < k
\* What a strategy has heard that was fed s and then t up to its n-th.
Heard(s, t, n) == s \o SubSeq(t, 1, n - 1)

\* The candles before the n-th of t, processed after the candles of S.
LEMMA HeardBefore ==
  ASSUME NEW s, NEW S, NEW t, NEW T, Follows(s, S, t, T), NEW n \in 1..Len(t),
         NEW U, U = S \cup T
  PROVE  ToSet(Heard(s, t, n)) = Before(U, t[n])
<1> DEFINE B == {k \in T : k < t[n]}
<1> USE DEF Follows
<1>1. Ordered(SubSeq(t, 1, n - 1), B)
  BY OrderedPrefix
<1>2. t[n] \in T
  BY DEF Ordered
<1>3. \A k \in B : k \in Int
  OBVIOUS
<1>4. \A j \in S, k \in B : j < k
  OBVIOUS
<1>5. S \cup B = Before(U, t[n])
  BY <1>2 DEF Before
<1> HIDE DEF B
<1>6. Ordered(s \o SubSeq(t, 1, n - 1), S \cup B)
  BY <1>1, <1>3, <1>4, OrderedAppend
<1>7. QED
  BY <1>5, <1>6, OrderedToSet DEF Heard

\* handle_candle, candle after candle: what is ahead of the session's rows is
\* written once, each candle with the event replay would compute for it.
LEMMA ProcessKeeps ==
  ASSUME TypeOK, CandlesOrdered, EventsOfCandles, pc # "down",
         NEW T, T \subseteq Candle, NEW s, Ordered(s, T),
         \A j \in VisibleCandles, k \in T : j < k,
         NEW rest \in BOOLEAN, Process(s, rest), UNCHANGED database
  PROVE  /\ newCandles' = newCandles \cup T
         /\ VisibleCandles' = VisibleCandles \cup T
         /\ Ordered(history', VisibleCandles')
         /\ history' \in Seq(Candle) /\ lastRest' \in BOOLEAN
         /\ newEvents \subseteq newEvents' /\ newEvents' \subseteq Event
         /\ \A e \in newEvents' : e \in newEvents \/ e.kill = ownKill
         /\ {e.candle : e \in VisibleEvents'} = VisibleCandles'
         /\ \A e, f \in VisibleEvents' : e.candle = f.candle => e = f
         /\ EventsReplay'
<1> DEFINE V == VisibleCandles
           after(n) == Before(V \cup T, s[n])
           ev(n) == [candle |-> s[n], after |-> after(n), kill |-> ownKill]
           made == {ev(n) : n \in 1..Len(s)}
<1> USE CandlesAreNumbers
<1>1. /\ V \subseteq Candle /\ \A k \in V : k \in Int /\ k \in Nat
      /\ \A k \in T : k \in Int
      /\ Ordered(history, V) /\ ownKill \in BOOLEAN
  BY DEF TypeOK, VisibleCandles, CandlesOrdered
<1>2. ToSet(s) = T
  BY OrderedToSet
<1>3. T \cap V = {}
  BY <1>1
<1>4. newCandles' = newCandles \cup T /\ VisibleCandles' = V \cup T
  BY <1>2, <1>3 DEF Process, AddCandles, VisibleCandles, database
<1>5. Len(s) \in Nat /\ DOMAIN s = 1..Len(s) /\ \A n \in 1..Len(s) : s[n] \in T
  BY DEF Ordered
<1>6. Ordered(history', VisibleCandles')
  BY <1>1, <1>4, OrderedAppend DEF Process
<1>7. history' \in Seq(Candle) /\ lastRest' \in BOOLEAN
  <2>1. s \in [1..Len(s) -> Candle]
    BY <1>5 DEF Ordered
  <2>2. s \in Seq(Candle)
    BY <2>1, <1>5
  <2>3. QED
    BY <2>2 DEF Process, TypeOK
<1>8. ASSUME NEW n \in 1..Len(s)
      PROVE  EventOf(s[n], history \o SubSeq(s, 1, n - 1), ownKill) = ev(n)
  <2> DEFINE h == history
  <2> DEFINE U == V \cup T
  <2>1. Follows(h, V, s, T) /\ U = V \cup T
    BY <1>1 DEF Follows
  <2> HIDE DEF V, h, U
  <2>2. ToSet(Heard(h, s, n)) = Before(U, s[n])
    BY <2>1, HeardBefore
  <2>3. QED
    BY <2>2 DEF EventOf, h, U, V, Heard
<1>9. AddEvents(made)
  <2>1. {EventOf(s[n], history \o SubSeq(s, 1, n - 1), ownKill) : n \in DOMAIN s} = made
    BY <1>5, <1>8
  <2>2. QED
    BY <2>1 DEF Process
<1>10. ASSUME NEW e \in made
       PROVE  /\ e.candle \in T /\ e.after = Before(V \cup T, e.candle)
              /\ e.kill = ownKill
  <2>1. PICK n \in 1..Len(s) : e = ev(n)
    OBVIOUS
  <2>2. QED
    BY <1>5, <2>1
<1>11. ASSUME NEW e \in made, NEW f \in made, e.candle = f.candle PROVE e = f
  <2>1. PICK n \in 1..Len(s) : e = ev(n)
    OBVIOUS
  <2>2. PICK m \in 1..Len(s) : f = ev(m)
    OBVIOUS
  <2>3. s[n] = s[m]
    BY <1>11, <2>1, <2>2
  <2>4. QED
    BY <2>1, <2>2, <2>3
<1>12. ASSUME NEW k \in T PROVE \E e \in made : e.candle = k
  <2>1. PICK n \in 1..Len(s) : s[n] = k
    BY DEF Ordered
  <2>2. ev(n).candle = k /\ ev(n) \in made
    BY <2>1
  <2>3. QED
    BY <2>2
<1>13. made \subseteq Event
  <2>1. ASSUME NEW n \in 1..Len(s) PROVE ev(n) \in Event
    <3>1. s[n] \in Candle /\ after(n) \in SUBSET Candle
      BY <1>1, <1>5 DEF Before
    <3>2. QED
      BY <1>1, <3>1 DEF Event
  <2>2. QED
    BY <2>1
<1> HIDE DEF made
<1>14. \A e \in VisibleEvents : e.candle \in V
  BY DEF EventsOfCandles
<1>15. newEvents' = newEvents \cup made /\ VisibleEvents' = VisibleEvents \cup made
  BY <1>3, <1>9, <1>10, <1>14 DEF AddEvents, VisibleEvents, database
<1>16. newEvents' \subseteq Event
  BY <1>13, <1>15 DEF TypeOK
<1>17. {e.candle : e \in VisibleEvents'} = VisibleCandles'
  <2>1. V = {e.candle : e \in VisibleEvents}
    BY DEF EventsOfCandles
  <2>2. T = {e.candle : e \in made}
    BY <1>10, <1>12
  <2>3. QED
    BY <1>4, <1>15, <2>1, <2>2
<1>18. \A e, f \in VisibleEvents' : e.candle = f.candle => e = f
  BY <1>3, <1>10, <1>11, <1>14, <1>15 DEF EventsOfCandles
<1>19. EventsReplay'
  <2>1. ASSUME NEW e \in VisibleEvents PROVE e.after = {k \in V \cup T : k < e.candle}
    <3>1. e.candle \in V /\ e.candle \in Int
      BY <1>1, <1>14
    <3>2. \A k \in T : ~(k < e.candle)
      BY <1>1, <3>1
    <3>3. e.after = {k \in V : k < e.candle}
      BY DEF EventsOfCandles, EventsReplay
    <3>4. QED
      BY <3>2, <3>3
  <2>2. QED
    BY <2>1, <1>4, <1>10, <1>15 DEF EventsReplay, Before
<1>20. QED
  BY <1>4, <1>6, <1>7, <1>10, <1>15, <1>16, <1>17, <1>18, <1>19

-----------------------------------------------------------------------------
(* Each action keeps the invariant.                                        *)

\* What the session holds when the process runs: its newest candle is the last
\* its memory has processed.
LEMMA NewestVisible ==
  ASSUME TypeOK, CandlesOrdered, pc # "down"
  PROVE  /\ VisibleCandles \subseteq Candle
         /\ VisibleCandles = {} => history = <<>>
         /\ VisibleCandles # {} =>
              /\ Newest(VisibleCandles) \in VisibleCandles
              /\ \A k \in VisibleCandles : k <= Newest(VisibleCandles)
              /\ history # <<>>
              /\ Newest(VisibleCandles) = history[Len(history)]
<1>1. VisibleCandles \subseteq Candle /\ \A k \in VisibleCandles : k \in Int
  BY CandlesAreNumbers DEF TypeOK, VisibleCandles
<1>2. Ordered(history, VisibleCandles)
  BY DEF CandlesOrdered
<1>3. VisibleCandles = {} => history = <<>>
  <2>1. VisibleCandles = {} => Len(history) = 0
    BY <1>2 DEF Ordered
  <2>2. QED
    BY <2>1 DEF TypeOK
<1>4. QED
  BY <1>1, <1>2, <1>3, NewestIs

\* The committed candles of the session.
LEMMA NewestCommitted ==
  ASSUME TypeOK, CandlesOrdered, candles # {}
  PROVE  Newest(candles) \in candles /\ \A k \in candles : k <= Newest(candles)
<1>1. \A k \in candles : k \in Int
  BY CandlesAreNumbers DEF TypeOK
<1>2. PICK s : Ordered(s, candles)
  BY DEF CandlesOrdered
<1>3. QED
  BY <1>1, <1>2, NewestIs

\* BackfillService.backfill fetches every candle after the newest, in order.
LEMMA MissingIs ==
  ASSUME TypeOK, CandlesOrdered, AfterStart, pc # "down"
  PROVE  /\ VisibleCandles = {} => Ordered(Missing, {})
         /\ VisibleCandles # {} => Ordered(Missing, (Newest(VisibleCandles) + 1)..closed)
<1>1. CASE VisibleCandles = {}
  BY <1>1 DEF Missing, Ordered
<1>2. CASE VisibleCandles # {}
  <2> DEFINE new == Newest(VisibleCandles)
             N == closed - new
             T == (new + 1)..closed
  <2>1. new \in Nat /\ closed \in Nat /\ new <= closed
    <3>1. new \in VisibleCandles /\ new \in Candle
      BY <1>2, NewestVisible
    <3>2. new <= closed
      BY <3>1 DEF AfterStart
    <3>3. MaxCandles \in Nat /\ closed \in 0..MaxCandles
      BY SessionAssumption DEF TypeOK
    <3>4. QED
      BY <3>1, <3>2, <3>3 DEF Candle
  <2>2. Missing = [n \in 1..N |-> new + n]
    BY <1>2 DEF Missing
  <2> HIDE DEF new
  <2>3. Len(Missing) = N /\ N \in Nat
    BY <2>1, <2>2
  <2>4. \A n \in 1..N : Missing[n] = new + n
    BY <2>2
  <2>5. Missing \in [1..N -> T]
    BY <2>1, <2>2
  <2>6. ASSUME NEW k \in T PROVE \E n \in 1..N : Missing[n] = k
    <3>1. k \in Int /\ k - new \in 1..N /\ new + (k - new) = k
      BY <2>1
    <3>2. QED
      BY <3>1, <2>4
  <2>7. \A m, n \in 1..N : m < n => Missing[m] < Missing[n]
    BY <2>1, <2>4
  <2> HIDE DEF N, T
  <2>8. Ordered(Missing, T)
    BY <2>3, <2>5, <2>6, <2>7 DEF Ordered
  <2>9. QED
    BY <2>8, <1>2 DEF T, new
<1>3. QED
  BY <1>1, <1>2

\* A view of what is unchanged when neither rows nor memory change.
LEMMA RowsKept ==
  ASSUME SessionInv, UNCHANGED <<database, transaction, history, pc>>
  PROVE  /\ CandlesOrdered' /\ EventsOfCandles'
         /\ VisibleCandles' = VisibleCandles /\ VisibleEvents' = VisibleEvents
BY DEF SessionInv, database, transaction, CandlesOrdered, EventsOfCandles, EventsReplay,
       VisibleCandles, VisibleEvents

\* Market, exchange and operator keep the invariant.
LEMMA EnvironmentInv ==
  ASSUME SessionInv, Environment
  PROVE  SessionInv'
<1> USE SessionAssumption DEF exchange, database, transaction, memory
<1>1. TypeOK /\ AfterStart /\ Phases /\ ReportedIsRecoverable
  BY DEF SessionInv
<1>2. UNCHANGED <<database, transaction, history, pc, anchor, reported>>
  BY DEF Environment, CandleCloses, ServeSubscription, Disconnect, SetKillSwitch
<1>3. /\ CandlesOrdered' /\ EventsOfCandles'
      /\ VisibleCandles' = VisibleCandles /\ VisibleEvents' = VisibleEvents
  BY <1>2, RowsKept
<1>4. ReportedIsRecoverable'
  BY <1>1, <1>2 DEF ReportedIsRecoverable
<1>5. CASE CandleCloses
  <2>1. closed \in Nat /\ closed' = closed + 1 /\ closed' \in 0..MaxCandles /\ closed' \in Candle
    BY <1>1, <1>5 DEF CandleCloses, TypeOK, Candle
  <2>2. anchor' <= closed' /\ anchor' < closed' /\ anchor' = anchor
    BY <1>1, <1>2, <2>1 DEF AfterStart, TypeOK
  <2>3. ASSUME NEW k \in Candle, anchor < k, k <= closed PROVE anchor' < k /\ k <= closed'
    BY <1>2, <2>1, <2>3, CandlesAreNumbers
  <2>4. buffer \in Seq(Candle) /\ \A n \in 1..Len(buffer) : buffer[n] \in Candle
    BY <1>1 DEF TypeOK
  <2>5. /\ buffer' \in Seq(Candle)
        /\ \A n \in 1..Len(buffer') :
             buffer'[n] = closed' \/ (n \in 1..Len(buffer) /\ buffer'[n] = buffer[n])
        /\ pc = "down" => buffer' = buffer
    <3>1. CASE conn = "serving"
      <4>1. buffer' = Append(buffer, closed') /\ pc # "down"
        BY <1>1, <1>5, <2>1, <3>1 DEF CandleCloses, TypeOK
      <4>2. QED
        BY <2>1, <2>4, <4>1
    <3>2. CASE conn # "serving"
      BY <1>5, <2>4, <3>2 DEF CandleCloses
    <3>3. QED
      BY <3>1, <3>2
  <2>6. TypeOK'
    BY <1>1, <1>2, <1>3, <1>5, <2>1, <2>5 DEF CandleCloses, TypeOK
  <2>7. ASSUME NEW n \in 1..Len(buffer') PROVE anchor' < buffer'[n] /\ buffer'[n] <= closed'
    <3>1. CASE buffer'[n] = closed'
      BY <2>1, <2>2, <3>1
    <3>2. CASE n \in 1..Len(buffer) /\ buffer'[n] = buffer[n]
      <4>1. anchor < buffer[n] /\ buffer[n] <= closed /\ buffer[n] \in Candle
        BY <1>1, <2>4, <3>2 DEF AfterStart
      <4>2. QED
        BY <2>3, <3>2, <4>1
    <3>3. QED
      BY <2>5, <3>1, <3>2
  <2>8. \A k \in VisibleCandles' : anchor' < k /\ k <= closed'
    BY <1>1, <1>3, <2>3 DEF AfterStart, TypeOK, VisibleCandles
  <2>9. AfterStart'
    BY <1>1, <1>2, <2>2, <2>7, <2>8 DEF AfterStart
  <2>10. Phases'
    BY <1>1, <1>2, <1>3, <2>1, <2>5, CandlesAreNumbers DEF Phases, TypeOK
  <2>11. QED
    BY <1>3, <1>4, <2>6, <2>9, <2>10 DEF SessionInv
<1>6. CASE ServeSubscription
  <2>1. TypeOK' /\ buffer' = buffer /\ closed' = closed
    BY <1>1, <1>2, <1>3, <1>6 DEF ServeSubscription, TypeOK
  <2>2. AfterStart' /\ Phases'
    BY <1>1, <1>2, <1>3, <2>1 DEF AfterStart, Phases
  <2>3. QED
    BY <1>3, <1>4, <2>1, <2>2 DEF SessionInv
<1>7. CASE Disconnect
  <2>1. PICK n \in 0..Len(buffer) : buffer' = SubSeq(buffer, 1, n)
    BY <1>7 DEF Disconnect
  <2>2. buffer \in Seq(Candle) /\ pc # "down" /\ closed' = closed
    BY <1>1, <1>7 DEF Disconnect, TypeOK
  <2>3. buffer' \in Seq(Candle) /\ \A i \in 1..Len(buffer') : i \in 1..Len(buffer) /\ buffer'[i] = buffer[i]
    BY <2>1, <2>2
  <2>4. TypeOK'
    BY <1>1, <1>2, <1>3, <1>7, <2>2, <2>3 DEF Disconnect, TypeOK
  <2>5. AfterStart' /\ Phases'
    BY <1>1, <1>2, <1>3, <2>2, <2>3 DEF AfterStart, Phases
  <2>6. QED
    BY <1>3, <1>4, <2>4, <2>5 DEF SessionInv
<1>8. CASE SetKillSwitch
  <2>1. TypeOK' /\ buffer' = buffer /\ closed' = closed
    BY <1>1, <1>2, <1>3, <1>8 DEF SetKillSwitch, TypeOK
  <2>2. AfterStart' /\ Phases'
    BY <1>1, <1>2, <1>3, <2>1 DEF AfterStart, Phases
  <2>3. QED
    BY <1>3, <1>4, <2>1, <2>2 DEF SessionInv
<1>9. QED
  BY <1>5, <1>6, <1>7, <1>8 DEF Environment

\* The end of the process loses the open transaction: every row left is of the
\* committed ones, which precede those lost.
LEMMA StopInv ==
  ASSUME SessionInv, NEW why \in Failure, Stop(why), stops' \in 0..MaxStops
  PROVE  SessionInv'
<1> USE DEF exchange, database, transaction, memory
<1>1. TypeOK /\ CandlesOrdered /\ EventsOfCandles /\ AfterStart /\ Phases
      /\ ReportedIsRecoverable
  BY DEF SessionInv
<1>2. /\ pc' = "down" /\ conn' = "down" /\ buffer' = <<>> /\ history' = <<>>
      /\ candles' = candles /\ events' = events
      /\ newCandles' = {} /\ newEvents' = {}
      /\ UNCHANGED <<closed, killSwitch, reported, anchor>>
      /\ lastRest' = FALSE /\ ownKill' = FALSE /\ failure' = why
  BY DEF Stop, RollBack
<1>3. VisibleCandles' = candles /\ VisibleEvents' = events
  BY <1>2 DEF VisibleCandles, VisibleEvents
<1>4. TypeOK'
  <2>1. buffer' \in Seq(Candle) /\ history' \in Seq(Candle)
    BY <1>2
  <2>2. QED
    BY <1>1, <1>2, <1>3, <2>1 DEF TypeOK
<1>5. CandlesOrdered'
  BY <1>1, <1>2, <1>3 DEF CandlesOrdered
<1>6. EventsOfCandles'
  <2>1. candles' = {e.candle : e \in events'}
    BY <1>1, <1>2 DEF EventsOfCandles
  <2>2. \A e, f \in VisibleEvents' : e.candle = f.candle => e = f
    BY <1>1, <1>3 DEF EventsOfCandles, VisibleEvents
  <2>3. ASSUME NEW e \in events PROVE e.after = {k \in candles : k < e.candle}
    <3>1. e.candle \in candles /\ e.candle \in Int
      BY <2>1, <1>1, <1>2, CandlesAreNumbers DEF TypeOK
    <3>2. e.after = {k \in VisibleCandles : k < e.candle}
      BY <1>1 DEF EventsOfCandles, EventsReplay, VisibleEvents
    <3>3. \A k \in newCandles : k \in Int /\ e.candle < k
      BY <1>1, <3>1, CandlesAreNumbers DEF CandlesOrdered, TypeOK
    <3>4. \A k \in newCandles : ~(k < e.candle)
      BY <3>1, <3>3
    <3>5. QED
      BY <3>2, <3>4 DEF VisibleCandles
  <2>4. EventsReplay'
    BY <1>3, <2>3 DEF EventsReplay
  <2>5. QED
    BY <1>3, <2>1, <2>2, <2>4, <1>2 DEF EventsOfCandles
<1>7. AfterStart'
  <2>1. Len(buffer') = 0
    BY <1>2
  <2>2. QED
    BY <1>1, <1>2, <1>3, <2>1 DEF AfterStart, VisibleCandles
<1>8. Phases' /\ ReportedIsRecoverable'
  BY <1>1, <1>2 DEF Phases, ReportedIsRecoverable
<1>9. QED
  BY <1>4, <1>5, <1>6, <1>7, <1>8 DEF SessionInv

\* A restart restores the engine from the journal.
LEMMA RestoreInv ==
  ASSUME SessionInv, Restore
  PROVE  SessionInv'
<1> USE DEF exchange, database, transaction
<1> DEFINE s == InOrder(candles)
<1>1. TypeOK /\ CandlesOrdered /\ EventsOfCandles /\ AfterStart /\ Phases
      /\ ReportedIsRecoverable
  BY DEF SessionInv
<1>2. /\ pc = "down"
      /\ UNCHANGED <<closed, conn, buffer, killSwitch, candles, events, newCandles, newEvents,
                     reported, stops>>
      /\ anchor' = IF anchor = -1 THEN closed ELSE anchor
      /\ failure' \in Failure
      /\ \/ pc' = "down" /\ UNCHANGED <<history, lastRest, ownKill>>
         \/ pc' = "restored" /\ history' = s /\ lastRest' = FALSE /\ ownKill' = killSwitch
  BY DEF Restore, memory, Failure
<1>3. newCandles = {} /\ newEvents = {} /\ VisibleCandles = candles
  BY <1>1, <1>2 DEF Phases, VisibleCandles
<1>4. VisibleCandles' = candles /\ VisibleEvents' = VisibleEvents
  BY <1>2, <1>3 DEF VisibleCandles, VisibleEvents
<1>5. Ordered(s, candles)
  <2>1. PICK q : Ordered(q, candles)
    BY <1>1 DEF CandlesOrdered
  <2>2. \A k \in candles : k \in Int
    BY <1>1, CandlesAreNumbers DEF TypeOK
  <2>3. QED
    BY <2>1, <2>2, InOrderIs
<1> HIDE DEF s
<1>6. CandlesOrdered'
  BY <1>1, <1>2, <1>3, <1>4, <1>5 DEF CandlesOrdered
<1>7. EventsOfCandles'
  BY <1>1, <1>2, <1>3, <1>4 DEF EventsOfCandles, EventsReplay
<1>8. s \in Seq(Candle)
  <2>1. Len(s) \in Nat /\ s \in [1..Len(s) -> candles] /\ candles \subseteq Candle
    BY <1>1, <1>5 DEF Ordered, TypeOK
  <2>2. s \in [1..Len(s) -> Candle]
    BY <2>1
  <2>3. QED
    BY <2>1, <2>2
<1>9. anchor' \in -1..MaxCandles /\ anchor' <= closed /\ anchor' # -1
  BY <1>1, <1>2, SessionAssumption DEF TypeOK, AfterStart
<1>10. TypeOK'
  BY <1>1, <1>2, <1>4, <1>8, <1>9 DEF TypeOK
<1>11. AfterStart'
  <2>1. Len(buffer') = 0
    BY <1>1, <1>2 DEF Phases
  <2>2. \A k \in candles : anchor' < k /\ k <= closed
    BY <1>1, <1>2, <1>3 DEF AfterStart
  <2>3. QED
    BY <1>2, <1>4, <1>9, <2>1, <2>2 DEF AfterStart
<1>12. Phases' /\ ReportedIsRecoverable'
  BY <1>1, <1>2, <1>3 DEF Phases, ReportedIsRecoverable
<1>13. QED
  BY <1>6, <1>7, <1>10, <1>11, <1>12 DEF SessionInv

\* A new connection has delivered nothing yet.
LEMMA ConnectInv ==
  ASSUME SessionInv, Connect, pc # "down",
         pc' \in {"subscribed", "running"}, pc \in {"backfilled", "running"}
  PROVE  SessionInv'
<1> USE DEF exchange, database, transaction, memory
<1>1. TypeOK /\ CandlesOrdered /\ EventsOfCandles /\ AfterStart /\ Phases
      /\ ReportedIsRecoverable
  BY DEF SessionInv
<1>2. /\ conn' = "sent" /\ buffer' = <<>>
      /\ UNCHANGED <<closed, killSwitch, candles, events, newCandles, newEvents,
                     history, lastRest, ownKill, reported, failure, stops, anchor>>
  BY DEF Connect
<1>3. VisibleCandles' = VisibleCandles /\ VisibleEvents' = VisibleEvents
  BY <1>2 DEF VisibleCandles, VisibleEvents
<1>4. buffer' \in Seq(Candle) /\ Len(buffer') = 0
  BY <1>2
<1>5. TypeOK'
  BY <1>1, <1>2, <1>3, <1>4 DEF TypeOK
<1>6. CandlesOrdered' /\ EventsOfCandles'
  BY <1>1, <1>2, <1>3 DEF CandlesOrdered, EventsOfCandles, EventsReplay
<1>7. AfterStart' /\ Phases' /\ ReportedIsRecoverable'
  BY <1>1, <1>2, <1>3, <1>4 DEF AfterStart, Phases, ReportedIsRecoverable
<1>8. QED
  BY <1>5, <1>6, <1>7 DEF SessionInv

\* The journal commits what the engine did.
LEMMA CommitInv ==
  ASSUME SessionInv, Commit
  PROVE  SessionInv'
<1> USE DEF exchange, memory
<1>1. TypeOK /\ CandlesOrdered /\ EventsOfCandles /\ AfterStart /\ Phases
      /\ ReportedIsRecoverable
  BY DEF SessionInv
<1>2. /\ pc = "committing" /\ pc' = "running"
      /\ candles' = VisibleCandles /\ events' = VisibleEvents
      /\ newCandles' = {} /\ newEvents' = {}
      /\ UNCHANGED <<closed, conn, buffer, killSwitch, history, lastRest, ownKill,
                     reported, failure, stops, anchor>>
  BY DEF Commit, CommitRows
<1>3. VisibleCandles' = VisibleCandles /\ VisibleEvents' = VisibleEvents
  BY <1>2 DEF VisibleCandles, VisibleEvents
<1>4. TypeOK'
  <2>1. VisibleCandles \subseteq Candle /\ VisibleEvents \subseteq Event
    BY <1>1 DEF TypeOK, VisibleCandles, VisibleEvents
  <2>2. QED
    BY <1>1, <1>2, <1>3, <2>1 DEF TypeOK
<1>5. CandlesOrdered' /\ EventsOfCandles'
  BY <1>1, <1>2, <1>3 DEF CandlesOrdered, EventsOfCandles, EventsReplay
<1>6. AfterStart' /\ Phases' /\ ReportedIsRecoverable'
  BY <1>1, <1>2, <1>3 DEF AfterStart, Phases, ReportedIsRecoverable
<1>7. QED
  BY <1>4, <1>5, <1>6 DEF SessionInv

\* A report counts rows that may still be lost, but only the newest.
LEMMA ReportInv ==
  ASSUME SessionInv, Report
  PROVE  SessionInv'
<1> USE DEF exchange, database, transaction, memory
<1>1. TypeOK /\ CandlesOrdered /\ EventsOfCandles /\ AfterStart /\ Phases
  BY DEF SessionInv
<1>2. /\ pc = "running" /\ reported' = VisibleCandles
      /\ UNCHANGED <<closed, conn, buffer, killSwitch, candles, events, newCandles, newEvents,
                     pc, history, lastRest, ownKill, failure, stops, anchor>>
  BY <1>1 DEF Report, EventsOfCandles
<1>3. VisibleCandles' = VisibleCandles /\ VisibleEvents' = VisibleEvents
  BY <1>2 DEF VisibleCandles, VisibleEvents
<1>4. TypeOK'
  BY <1>1, <1>2, <1>3 DEF TypeOK, VisibleCandles
<1>5. CandlesOrdered' /\ EventsOfCandles' /\ AfterStart' /\ Phases'
  BY <1>1, <1>2, <1>3 DEF CandlesOrdered, EventsOfCandles, EventsReplay, AfterStart, Phases
<1>6. ReportedIsRecoverable'
  <2>1. ASSUME NEW k \in newCandles PROVE candles # {} /\ k > Newest(candles)
    <3>1. candles # {}
      BY <1>1, <1>2 DEF Phases
    <3>2. Newest(candles) \in candles
      BY <1>1, <3>1, NewestCommitted
    <3>3. Newest(candles) < k /\ Newest(candles) \in Int /\ k \in Int
      BY <1>1, <3>2, CandlesAreNumbers DEF CandlesOrdered, TypeOK
    <3>4. QED
      BY <3>1, <3>3
  <2>2. candles' = candles
    BY <1>2
  <2>3. QED
    BY <1>2, <2>1, <2>2 DEF ReportedIsRecoverable, VisibleCandles
<1>7. QED
  BY <1>4, <1>5, <1>6 DEF SessionInv

\* A backfill feeds the candles that are missing, in order.
LEMMA BackfillInv ==
  ASSUME SessionInv, FirstBackfill \/ SecondBackfill
  PROVE  SessionInv'
<1> USE CandlesAreNumbers DEF exchange, database
<1>1. TypeOK /\ CandlesOrdered /\ EventsOfCandles /\ AfterStart /\ Phases
      /\ ReportedIsRecoverable
  BY DEF SessionInv
<1>2. /\ pc \in {"restored", "subscribed"} /\ pc' \in {"backfilled", "running"}
      /\ pc # "down" /\ pc # "committing" /\ Process(Missing, TRUE)
      /\ UNCHANGED <<closed, conn, buffer, killSwitch, candles, events, reported,
                     failure, stops, anchor>>
  BY DEF FirstBackfill, SecondBackfill, Backfill
<1> DEFINE s == Missing
           V == VisibleCandles
           T == IF V = {} THEN {} ELSE (Newest(V) + 1)..closed
<1>3. Ordered(s, T)
  BY <1>1, <1>2, MissingIs
<1>4. /\ closed \in Nat /\ closed \in 0..MaxCandles /\ V \subseteq Candle
      /\ V # {} => /\ Newest(V) \in Candle /\ Newest(V) \in Nat /\ Newest(V) \in V
                   /\ \A k \in V : k <= Newest(V)
  <2>1. closed \in Nat /\ closed \in 0..MaxCandles
    BY <1>1, SessionAssumption DEF TypeOK
  <2>2. /\ V \subseteq Candle
        /\ V # {} => Newest(V) \in V /\ \A k \in V : k <= Newest(V)
    BY <1>1, <1>2, NewestVisible
  <2> HIDE DEF V
  <2>3. QED
    BY <2>1, <2>2
<1>5. T \subseteq Candle /\ \A j \in V, k \in T : j < k
  BY <1>4, SessionAssumption DEF Candle
<1>6. \A k \in T : anchor < k /\ k <= closed
  BY <1>1, <1>4 DEF AfterStart, TypeOK
<1>7. \A k \in reported : k \in V \cup T
  <2>1. ASSUME NEW k \in reported, pc = "restored" PROVE k \in V \cup T
    <3>1. V = candles /\ k \in Int /\ k <= closed
      BY <1>1, <2>1 DEF Phases, VisibleCandles, TypeOK
    <3>2. k \in candles \/ (candles # {} /\ k > Newest(candles))
      BY <1>1 DEF ReportedIsRecoverable
    <3>3. QED
      BY <1>4, <3>1, <3>2
  <2>2. QED
    BY <1>1, <1>2, <2>1 DEF Phases
<1>8. V = {} => T = {}
  OBVIOUS
<1> HIDE DEF T, s
<1>9. Process(s, TRUE)
  BY <1>2 DEF s
<1>10. /\ newCandles' = newCandles \cup T
       /\ VisibleCandles' = VisibleCandles \cup T
       /\ Ordered(history', VisibleCandles')
       /\ history' \in Seq(Candle) /\ lastRest' \in BOOLEAN
       /\ newEvents' \subseteq Event
       /\ {e.candle : e \in VisibleEvents'} = VisibleCandles'
       /\ \A e, f \in VisibleEvents' : e.candle = f.candle => e = f
       /\ EventsReplay'
  BY <1>1, <1>2, <1>3, <1>5, <1>9, ProcessKeeps
<1>11. TypeOK'
  <2>1. ownKill' = ownKill
    BY <1>2 DEF Process
  <2>2. QED
    BY <1>1, <1>2, <1>5, <1>10, <2>1 DEF TypeOK
<1>12. CandlesOrdered'
  BY <1>1, <1>2, <1>5, <1>10 DEF CandlesOrdered, VisibleCandles
<1>13. EventsOfCandles'
  BY <1>1, <1>2, <1>10 DEF EventsOfCandles
<1>14. AfterStart'
  BY <1>1, <1>2, <1>6, <1>10 DEF AfterStart
<1>15. Phases' /\ ReportedIsRecoverable'
  BY <1>1, <1>2, <1>7, <1>8, <1>10 DEF Phases, ReportedIsRecoverable, VisibleCandles
<1>16. QED
  BY <1>11, <1>12, <1>13, <1>14, <1>15 DEF SessionInv

\* handle_candle on the stream processes only what is ahead of its memory.
LEMMA ReceiveInv ==
  ASSUME SessionInv, Receive
  PROVE  SessionInv'
<1> USE CandlesAreNumbers DEF exchange, database, transaction, memory
<1> DEFINE k == Head(buffer)
           s == <<k>>
           T == {k}
<1>1. TypeOK /\ CandlesOrdered /\ EventsOfCandles /\ AfterStart /\ Phases
      /\ ReportedIsRecoverable
  BY DEF SessionInv
<1>2. /\ pc = "running" /\ buffer # <<>> /\ buffer' = Tail(buffer)
      /\ UNCHANGED <<closed, conn, killSwitch, candles, events, reported, failure, stops, anchor>>
  BY DEF Receive
<1>3. buffer \in Seq(Candle) /\ 1 \in 1..Len(buffer) /\ k = buffer[1] /\ k \in Candle
  BY <1>1, <1>2 DEF TypeOK
<1>4. /\ buffer' \in Seq(Candle)
      /\ \A n \in 1..Len(buffer') : n + 1 \in 1..Len(buffer) /\ buffer'[n] = buffer[n + 1]
  BY <1>2, <1>3
<1>5. \A n \in 1..Len(buffer') : anchor < buffer'[n] /\ buffer'[n] <= closed
  BY <1>1, <1>4 DEF AfterStart
<1>6. CASE UNCHANGED <<pc, history, lastRest, ownKill, newCandles, newEvents>>
  <2>1. CandlesOrdered' /\ EventsOfCandles'
        /\ VisibleCandles' = VisibleCandles /\ VisibleEvents' = VisibleEvents
    BY <1>2, <1>6, RowsKept
  <2>2. TypeOK'
    BY <1>1, <1>2, <1>4, <1>6, <2>1 DEF TypeOK
  <2>3. AfterStart' /\ Phases' /\ ReportedIsRecoverable'
    BY <1>1, <1>2, <1>5, <1>6, <2>1 DEF AfterStart, Phases, ReportedIsRecoverable
  <2>4. QED
    BY <2>1, <2>2, <2>3 DEF SessionInv
<1>7. CASE k # Last0(history) /\ Process(s, FALSE) /\ pc' = "committing"
  <2>1. ~(k < Last0(history))
    BY DEF Receive, Fails
  <2>2. \A j \in VisibleCandles : j < k
    <3>1. ASSUME NEW j \in VisibleCandles PROVE j < k
      <4> DEFINE V == VisibleCandles
      <4>1. V \subseteq Candle /\ Newest(V) \in V /\ history # <<>>
            /\ Newest(V) = history[Len(history)] /\ \A i \in V : i <= Newest(V)
        BY <1>1, <1>2, NewestVisible
      <4>2. Last0(history) = Newest(V)
        BY <4>1 DEF Last0
      <4>3. j \in V
        OBVIOUS
      <4> HIDE DEF V
      <4>4. Newest(V) \in Int /\ j \in Int /\ k \in Int /\ j <= Newest(V)
        BY <1>3, <4>1, <4>3
      <4>5. k # Newest(V) /\ ~(k < Newest(V))
        BY <1>7, <2>1, <4>2
      <4>6. QED
        BY <4>4, <4>5
    <3>2. QED
      BY <3>1
  <2>3. Ordered(s, T)
    BY DEF Ordered
  <2>4. T \subseteq Candle /\ \A j \in VisibleCandles, i \in T : j < i
    BY <1>3, <2>2
  <2>5. \A i \in T : anchor < i /\ i <= closed
    BY <1>1, <1>3 DEF AfterStart
  <2> HIDE DEF s, T
  <2>6. /\ newCandles' = newCandles \cup T
        /\ VisibleCandles' = VisibleCandles \cup T
        /\ Ordered(history', VisibleCandles')
        /\ history' \in Seq(Candle) /\ lastRest' \in BOOLEAN
        /\ newEvents' \subseteq Event
        /\ {e.candle : e \in VisibleEvents'} = VisibleCandles'
        /\ \A e, f \in VisibleEvents' : e.candle = f.candle => e = f
        /\ EventsReplay'
    BY <1>1, <1>2, <1>7, <2>3, <2>4, ProcessKeeps
  <2>7. TypeOK'
    <3>1. ownKill' = ownKill
      BY <1>7 DEF Process
    <3>2. QED
      BY <1>1, <1>2, <1>4, <1>7, <2>4, <2>6, <3>1 DEF TypeOK
  <2>8. CandlesOrdered'
    BY <1>1, <1>2, <2>4, <2>6 DEF CandlesOrdered, VisibleCandles
  <2>9. EventsOfCandles'
    BY <1>1, <1>2, <2>6 DEF EventsOfCandles
  <2>10. AfterStart'
    BY <1>1, <1>2, <1>5, <2>5, <2>6 DEF AfterStart
  <2>11. Phases' /\ ReportedIsRecoverable'
    BY <1>1, <1>2, <1>7, <2>6 DEF Phases, ReportedIsRecoverable
  <2>12. QED
    BY <2>7, <2>8, <2>9, <2>10, <2>11 DEF SessionInv
<1>8. QED
  BY <1>6, <1>7 DEF Receive

-----------------------------------------------------------------------------

\* The session starts with an empty journal.
LEMMA InitInv == Init => SessionInv
<1> SUFFICES ASSUME Init PROVE SessionInv
  OBVIOUS
<1>1. TypeOK
  <2>1. MaxCandles \in Nat /\ MaxStops \in Nat
    BY SessionAssumption
  <2>2. closed \in 0..MaxCandles /\ stops \in 0..MaxStops /\ anchor \in -1..MaxCandles
    BY <2>1 DEF Init
  <2>3. buffer \in Seq(Candle) /\ history \in Seq(Candle)
    BY DEF Init
  <2>4. QED
    BY <2>2, <2>3 DEF Init, TypeOK, Failure, VisibleEvents
<1>2. CandlesOrdered
  <2>1. Ordered(<<>>, {})
    BY DEF Ordered
  <2>2. QED
    BY <2>1 DEF Init, CandlesOrdered
<1>3. EventsOfCandles /\ AfterStart /\ Phases /\ ReportedIsRecoverable
  <2>1. /\ VisibleCandles = {} /\ VisibleEvents = {} /\ Len(buffer) = 0
        /\ candles = {} /\ events = {} /\ newCandles = {} /\ newEvents = {} /\ reported = {}
        /\ pc = "down" /\ anchor = -1 /\ closed = 0 /\ buffer = <<>>
    BY DEF Init, VisibleCandles, VisibleEvents
  <2>2. EventsOfCandles
    BY <2>1 DEF EventsOfCandles, EventsReplay
  <2>3. AfterStart /\ Phases /\ ReportedIsRecoverable
    BY <2>1 DEF AfterStart, Phases, ReportedIsRecoverable
  <2>4. QED
    BY <2>2, <2>3
<1>4. QED
  BY <1>1, <1>2, <1>3 DEF SessionInv

\* Every step keeps the invariant.
LEMMA NextInv == SessionInv /\ [Next]_vars => SessionInv'
<1> SUFFICES ASSUME SessionInv, [Next]_vars PROVE SessionInv'
  OBVIOUS
<1>1. CASE Environment
  BY <1>1, EnvironmentInv
<1>2. CASE Restore
  BY <1>2, RestoreInv
<1>3. CASE FirstBackfill \/ SecondBackfill
  BY <1>3, BackfillInv
<1>4. CASE Subscribe \/ Reconnect
  BY <1>4, ConnectInv DEF Subscribe, Reconnect
<1>5. CASE Receive
  BY <1>5, ReceiveInv
<1>6. CASE ReceiveFails
  <2>1. Fails(Head(buffer)) \in Failure /\ stops' \in 0..MaxStops
    BY <1>6 DEF ReceiveFails, Fails, Failure, SessionInv, TypeOK
  <2>2. QED
    BY <1>6, <2>1, StopInv DEF ReceiveFails
<1>7. CASE Crash
  <2>1. "crash" \in Failure /\ stops' \in 0..MaxStops
    BY <1>7, SessionAssumption DEF Crash, Failure, SessionInv, TypeOK
  <2>2. QED
    BY <1>7, <2>1, StopInv DEF Crash
<1>8. CASE Commit
  BY <1>8, CommitInv
<1>9. CASE Report
  BY <1>9, ReportInv
<1>10. CASE UNCHANGED vars
  BY <1>10 DEF vars, exchange, database, transaction, memory, SessionInv, TypeOK,
       CandlesOrdered, EventsOfCandles, EventsReplay, AfterStart, Phases,
       ReportedIsRecoverable, VisibleCandles, VisibleEvents
<1>11. QED
  BY <1>1, <1>2, <1>3, <1>4, <1>5, <1>6, <1>7, <1>8, <1>9, <1>10 DEF Next, Step

\* Every reachable state satisfies it.
LEMMA SessionInvariant == Spec => []SessionInv
BY InitInv, NextInv, PTL DEF Spec

\* A map from events to the candles they are about that never maps two to one.
LEMMA EventsCounted ==
  ASSUME NEW E, NEW C, IsFiniteSet(C), C = {e.candle : e \in E},
         \A e, f \in E : e.candle = f.candle => e = f
  PROVE  Cardinality(E) = Cardinality(C)
<1> DEFINE event == [k \in C |-> CHOOSE e \in E : e.candle = k]
<1>1. \A k \in C : event[k] \in E /\ event[k].candle = k
  OBVIOUS
<1>2. \A e \in E : e.candle \in C /\ event[e.candle] = e
  BY <1>1
<1>3. event \in [C -> E]
  BY <1>1
<1> HIDE DEF event
<1>4. event \in Bijection(C, E)
  BY <1>1, <1>2, <1>3 DEF Bijection, Injection, Surjection, IsInjective
<1>5. ExistsBijection(C, E)
  BY <1>4 DEF ExistsBijection
<1>6. QED
  BY <1>5, FS_Bijection

\* Memory, open transaction and database of the paper runner tell one story,
\* whatever crashes, reconnections and toggles of the kill switch come in
\* between: the restored or running memory is what restore_runner would rebuild
\* from the rows, there is exactly one event per candle (no RecoveryGapError),
\* computed from exactly the candles before it, and a report counts nothing that
\* cannot be computed again.
THEOREM RunnerIsReplayable == Spec => []SessionIsReplayable
<1>1. SessionInv => SessionIsReplayable
  <2> SUFFICES ASSUME SessionInv PROVE SessionIsReplayable
    OBVIOUS
  <2>1. TypeOK /\ CandlesOrdered /\ EventsOfCandles /\ ReportedIsRecoverable /\ Phases
    BY DEF SessionInv
  <2>2. \A k \in VisibleCandles : k \in Int
    BY <2>1, CandlesAreNumbers DEF TypeOK, VisibleCandles
  <2>3. MemoryIsReplayable
    BY <2>1, <2>2, InOrderIs DEF MemoryIsReplayable, CandlesOrdered
  <2>4. IsFiniteSet(VisibleCandles)
    <3>1. PICK s : Ordered(s, VisibleCandles)
      BY <2>1 DEF CandlesOrdered, Phases, VisibleCandles
    <3>2. QED
      BY <2>2, <3>1, OrderedSize
  <2>5. EventPerCandle
    BY <2>1, <2>4, EventsCounted DEF EventsOfCandles, EventPerCandle
  <2>6. QED
    BY <2>1, <2>3, <2>5 DEF SessionIsReplayable, EventsOfCandles
<1>2. QED
  BY <1>1, SessionInvariant, PTL

\* Fresh session bootstrap (backfill.py:48-51): no candle that had closed before
\* the session first started enters it, through backfill, stream or restart.
THEOREM EvidenceStartsWithSession == Spec => []NoEvidenceBeforeStart
<1>1. SessionInv => NoEvidenceBeforeStart
  <2> SUFFICES ASSUME SessionInv, NEW k \in VisibleCandles PROVE k > anchor
    BY DEF NoEvidenceBeforeStart
  <2>1. anchor \in Int /\ k \in Int /\ anchor < k
    BY CandlesAreNumbers, SessionAssumption DEF SessionInv, TypeOK, AfterStart, VisibleCandles
  <2>2. QED
    BY <2>1
<1>2. QED
  BY <1>1, SessionInvariant, PTL

\* Implementation of DecisionJournal: the committed events only grow, by commits
\* alone; those a commit adds come after all that were there, and replaying the
\* journal reproduces each.
THEOREM SessionKeepsJournal == Spec => ImplementsDecisionJournal
<1>1. Init => Journal!Init
  BY DEF Init, Journal!Init
<1>2. SessionInv /\ [Next]_vars => [Journal!Append]_events
  <2> SUFFICES ASSUME SessionInv, [Next]_vars, events' # events
               PROVE  Journal!Append
    OBVIOUS
  <2>1. events' = VisibleEvents
    BY DEF Next, Environment, Step, vars, exchange, database, CandleCloses,
           ServeSubscription, Disconnect, SetKillSwitch, Restore, FirstBackfill,
           SecondBackfill, Backfill, Subscribe, Reconnect, Connect, Receive,
           ReceiveFails, Stop, Commit, CommitRows, Report, Crash
  <2>2. TypeOK /\ CandlesOrdered /\ EventsOfCandles
    BY DEF SessionInv
  <2>3. \A e, f \in VisibleEvents : e.candle = f.candle => e = f
    BY <2>2 DEF EventsOfCandles
  <2>4. ASSUME NEW e \in VisibleEvents \ events
        PROVE  /\ \A f \in events : f.candle < e.candle
               /\ e.after = {k \in Journal!CandlesOf(VisibleEvents) : k < e.candle}
    <3>1. e.candle \in VisibleCandles /\ candles = {f.candle : f \in events}
      BY <2>2 DEF EventsOfCandles
    <3>2. e.candle \notin candles
      BY <2>3, <3>1 DEF VisibleEvents
    <3>3. \A f \in events : f.candle < e.candle
      BY <2>2, <3>1, <3>2 DEF CandlesOrdered, VisibleCandles
    <3>4. Journal!CandlesOf(VisibleEvents) = VisibleCandles
      BY <2>2 DEF EventsOfCandles, Journal!CandlesOf
    <3>5. e.after = {k \in VisibleCandles : k < e.candle}
      BY <2>2 DEF EventsOfCandles, EventsReplay
    <3>6. QED
      BY <3>3, <3>4, <3>5
  <2>5. events \subseteq VisibleEvents
    BY DEF VisibleEvents
  <2>6. QED
    BY <2>1, <2>3, <2>4, <2>5 DEF Journal!Append
<1>3. QED
  BY <1>1, <1>2, SessionInvariant, PTL DEF Spec, ImplementsDecisionJournal, Journal!Spec

-----------------------------------------------------------------------------
(* Without lost messages and without an operator at the kill switch: what  *)
(* the stream still holds continues what the memory has processed.         *)

KillsOff ==
  /\ killSwitch = FALSE /\ ownKill = FALSE
  /\ \A e \in VisibleEvents : e.kill = FALSE
  /\ failure # "recovery_divergence"

StreamContinues ==
  /\ pc \in {"down", "restored", "backfilled"} <=> conn = "down"
  /\ conn # "serving" => buffer = <<>>
  /\ \A n \in 1..Len(buffer) : buffer[n] = closed - Len(buffer) + n
  /\ pc \in {"running", "committing"} /\ VisibleCandles # {} =>
       \E k \in VisibleCandles : closed - Len(buffer) <= k

NoGap(S) == \A k \in S : \A j \in S : \A i \in j..k : i \in S

SeamlessInv == SessionInv /\ NoSkippedCandle /\ KillsOff /\ StreamContinues

\* The candles that follow the newest one without a gap leave none.
LEMMA NoGapExtended ==
  ASSUME NEW S, \A k \in S : k \in Int, NoGap(S),
         NEW v \in S, \A k \in S : k <= v, NEW c \in Int
  PROVE  NoGap(S \cup ((v + 1)..c))
<1> DEFINE T == (v + 1)..c
<1> SUFFICES ASSUME NEW k \in S \cup T, NEW j \in S \cup T, NEW i \in j..k
             PROVE  i \in S \cup T
  BY DEF NoGap
<1>1. v \in Int /\ k \in Int /\ j \in Int /\ i \in Int /\ j <= i /\ i <= k
  OBVIOUS
<1>2. CASE i <= v
  <2>1. j \in S
    BY <1>1, <1>2
  <2>2. i \in j..v
    BY <1>1, <1>2
  <2>3. QED
    BY <2>1, <2>2 DEF NoGap
<1>3. CASE i > v
  <2>1. k \notin S
    BY <1>1, <1>3
  <2>2. i \in T
    BY <1>1, <1>3, <2>1
  <2>3. QED
    BY <2>2
<1>4. QED
  BY <1>1, <1>2, <1>3

\* Market, exchange and operator, under the three hypotheses.
LEMMA SeamlessEnvironment ==
  ASSUME ~LateAck, ~Disconnects, ~KillToggles, SeamlessInv, Environment
  PROVE  NoSkippedCandle' /\ KillsOff' /\ StreamContinues'
<1> USE DEF exchange, database, transaction, memory
<1>1. SessionInv /\ TypeOK /\ NoSkippedCandle /\ KillsOff /\ StreamContinues
  BY DEF SeamlessInv, SessionInv
<1>2. /\ CandleCloses \/ ServeSubscription
      /\ UNCHANGED <<killSwitch, database, transaction, pc, memory, failure>>
  BY DEF Environment, CandleCloses, ServeSubscription, Disconnect, SetKillSwitch
<1>3. VisibleCandles' = VisibleCandles /\ VisibleEvents' = VisibleEvents
  BY <1>2 DEF VisibleCandles, VisibleEvents
<1>4. NoSkippedCandle' /\ KillsOff'
  BY <1>1, <1>2, <1>3 DEF NoSkippedCandle, KillsOff
<1>5. CASE ServeSubscription
  <2>1. /\ conn = "sent" /\ conn' = "serving"
        /\ buffer' = buffer /\ closed' = closed /\ pc' = pc
    BY <1>2, <1>5 DEF ServeSubscription
  <2>2. StreamContinues'
    BY <1>1, <1>3, <2>1 DEF StreamContinues
  <2>3. QED
    BY <1>4, <2>2
<1>6. CASE CandleCloses
  <2>1. /\ conn # "sent" /\ conn' = conn /\ closed' = closed + 1 /\ closed \in Int
        /\ buffer \in Seq(Candle) /\ Len(buffer) \in Nat
    BY <1>1, <1>6, SessionAssumption DEF CandleCloses, TypeOK
  <2>2. CASE conn = "serving"
    <3>1. /\ buffer' = Append(buffer, closed + 1)
          /\ \A n \in 1..Len(buffer) : buffer[n] = closed - Len(buffer) + n
      BY <1>1, <1>6, <2>2 DEF CandleCloses, StreamContinues
    <3>2. /\ Len(buffer') = Len(buffer) + 1
          /\ closed' - Len(buffer') = closed - Len(buffer)
      BY <2>1, <3>1
    <3>3. ASSUME NEW n \in 1..Len(buffer') PROVE buffer'[n] = closed' - Len(buffer') + n
      <4>1. CASE n = Len(buffer')
        BY <2>1, <3>1, <3>2, <4>1
      <4>2. CASE n \in 1..Len(buffer)
        <5>1. buffer'[n] = buffer[n]
          BY <2>1, <3>1, <4>2
        <5>2. QED
          BY <3>1, <3>2, <4>2, <5>1
      <4>3. QED
        BY <2>1, <3>2, <4>1, <4>2
    <3>4. QED
      BY <1>1, <1>2, <1>3, <1>4, <2>1, <2>2, <3>2, <3>3 DEF StreamContinues
  <2>3. CASE conn = "down"
    <3>1. buffer' = <<>> /\ Len(buffer') = 0 /\ pc \notin {"running", "committing"}
      BY <1>1, <1>6, <2>3 DEF CandleCloses, StreamContinues
    <3>2. QED
      BY <1>1, <1>2, <1>3, <1>4, <2>1, <2>3, <3>1 DEF StreamContinues
  <2>4. QED
    BY <1>1, <2>1, <2>2, <2>3 DEF TypeOK
<1>7. QED
  BY <1>2, <1>4, <1>5, <1>6

\* A session that stops leaves what it has replayed.
LEMMA SeamlessStop ==
  ASSUME SeamlessInv, NEW why, why # "recovery_divergence", Stop(why)
  PROVE  NoSkippedCandle' /\ KillsOff' /\ StreamContinues'
<1> USE DEF exchange, database, transaction, memory
<1>1. TypeOK /\ CandlesOrdered /\ NoSkippedCandle /\ KillsOff
  BY DEF SeamlessInv, SessionInv
<1>2. /\ pc' = "down" /\ conn' = "down" /\ buffer' = <<>> /\ Len(buffer') = 0
      /\ killSwitch' = killSwitch /\ ownKill' = FALSE /\ failure' = why
      /\ VisibleCandles' = candles /\ VisibleEvents' = events
  BY DEF Stop, RollBack, VisibleCandles, VisibleEvents
<1>3. ASSUME NEW k \in candles, NEW j \in candles, NEW i \in j..k PROVE i \in candles
  <2>1. i \in VisibleCandles
    BY <1>1 DEF NoSkippedCandle, VisibleCandles
  <2>2. i \in newCandles => k < i
    BY <1>1 DEF CandlesOrdered
  <2>3. i <= k /\ i \in Int /\ k \in Int
    BY <1>1, CandlesAreNumbers DEF TypeOK
  <2>4. QED
    BY <2>1, <2>2, <2>3 DEF VisibleCandles
<1>4. NoSkippedCandle'
  BY <1>2, <1>3 DEF NoSkippedCandle
<1>5. KillsOff'
  BY <1>1, <1>2 DEF KillsOff, VisibleEvents
<1>6. StreamContinues'
  BY <1>2 DEF StreamContinues
<1>7. QED
  BY <1>4, <1>5, <1>6

\* The persisted events are what replay computes: every restart is accepted.
LEMMA SeamlessRestore ==
  ASSUME SeamlessInv, Restore
  PROVE  NoSkippedCandle' /\ KillsOff' /\ StreamContinues'
<1> USE DEF exchange, database, transaction, memory
<1> DEFINE s == InOrder(candles)
<1>1. TypeOK /\ CandlesOrdered /\ EventsOfCandles /\ Phases
      /\ NoSkippedCandle /\ KillsOff /\ StreamContinues
  BY DEF SeamlessInv, SessionInv
<1>2. pc = "down" /\ newCandles = {} /\ newEvents = {} /\ VisibleCandles = candles
      /\ VisibleEvents = events
  BY <1>1 DEF Restore, Phases, VisibleCandles, VisibleEvents
<1>3. Ordered(s, candles) /\ \A k \in candles : k \in Int
  <2>1. PICK q : Ordered(q, candles)
    BY <1>1 DEF CandlesOrdered
  <2>2. \A k \in candles : k \in Int
    BY <1>1, CandlesAreNumbers DEF TypeOK
  <2>3. QED
    BY <2>1, <2>2, InOrderIs
<1>4. DOMAIN s = 1..Len(s) /\ \A n \in 1..Len(s) : s[n] \in candles
  BY <1>3 DEF Ordered
<1> HIDE DEF s
<1>5. ASSUME NEW n \in 1..Len(s)
      PROVE  EventOf(s[n], SubSeq(s, 1, n - 1), killSwitch) \in events
  <2> DEFINE h == SubSeq(s, 1, n - 1)
             B == {k \in candles : k < s[n]}
  <2>1. Ordered(h, B)
    BY <1>3, OrderedPrefix
  <2> HIDE DEF B
  <2>2. ToSet(h) = B
    BY <2>1, OrderedToSet
  <2>3. PICK e \in events : e.candle = s[n]
    BY <1>1, <1>4 DEF EventsOfCandles
  <2>4. e.after = B
    BY <1>1, <1>2, <2>3 DEF EventsOfCandles, EventsReplay, B
  <2>5. e.kill = killSwitch
    BY <1>1, <1>2 DEF KillsOff
  <2>6. e = [candle |-> e.candle, after |-> e.after, kill |-> e.kill]
    BY <1>1 DEF TypeOK, Event
  <2>7. EventOf(s[n], h, killSwitch) = e
    BY <2>2, <2>3, <2>4, <2>5, <2>6 DEF EventOf
  <2>8. QED
    BY <2>7
<1>6. ReplayedEvents(s) \subseteq events
  BY <1>4, <1>5 DEF ReplayedEvents
<1>7. /\ pc' \in {"down", "restored"} /\ failure' # "recovery_divergence"
      /\ ownKill' \in {ownKill, killSwitch} /\ killSwitch' = killSwitch
      /\ UNCHANGED <<closed, conn, buffer, candles, events, newCandles, newEvents>>
  BY <1>2, <1>6 DEF Restore, s
<1>8. VisibleCandles' = VisibleCandles /\ VisibleEvents' = VisibleEvents
  BY <1>7 DEF VisibleCandles, VisibleEvents
<1>9. NoSkippedCandle' /\ KillsOff'
  BY <1>1, <1>7, <1>8 DEF NoSkippedCandle, KillsOff
<1>10. StreamContinues'
  BY <1>1, <1>2, <1>7, <1>8 DEF StreamContinues
<1>11. QED
  BY <1>9, <1>10

\* A backfill begins right after the newest candle of the engine.
LEMMA SeamlessBackfill ==
  ASSUME SeamlessInv, FirstBackfill \/ SecondBackfill
  PROVE  NoSkippedCandle' /\ KillsOff' /\ StreamContinues'
<1> USE CandlesAreNumbers DEF exchange, database
<1>1. TypeOK /\ CandlesOrdered /\ EventsOfCandles /\ AfterStart
      /\ NoSkippedCandle /\ KillsOff /\ StreamContinues
  BY DEF SeamlessInv, SessionInv
<1>2. /\ pc # "down" /\ Process(Missing, TRUE)
      /\ \/ pc = "restored" /\ pc' = "backfilled"
         \/ pc = "subscribed" /\ pc' = "running"
      /\ UNCHANGED <<closed, conn, buffer, killSwitch, candles, events, failure>>
  BY DEF FirstBackfill, SecondBackfill, Backfill
<1> DEFINE s == Missing
           V == VisibleCandles
           T == IF V = {} THEN {} ELSE (Newest(V) + 1)..closed
<1>3. Ordered(s, T)
  BY <1>1, <1>2, MissingIs
<1>4. closed \in Nat /\ closed \in 0..MaxCandles /\ MaxCandles \in Nat
  BY <1>1, SessionAssumption DEF TypeOK
<1>5. /\ V \subseteq Candle /\ \A k \in V : k \in Int /\ k <= closed
      /\ V # {} => Newest(V) \in V /\ \A k \in V : k <= Newest(V)
  BY <1>1, <1>2, NewestVisible DEF AfterStart
<1>6. T \subseteq Candle /\ \A j \in V, k \in T : j < k
  <2> HIDE DEF V
  <2>1. V # {} => Newest(V) \in Nat /\ \A k \in V : k \in Int /\ k <= Newest(V)
    BY <1>5
  <2>2. QED
    BY <1>4, <2>1 DEF Candle
<1>7. NoGap(V \cup T)
  <2>1. NoGap(V)
    BY <1>1 DEF NoSkippedCandle, NoGap
  <2>2. CASE V = {}
    BY <2>1, <2>2
  <2>3. CASE V # {}
    <3> DEFINE v == Newest(V)
    <3>1. v \in V /\ \A k \in V : k <= v
      BY <1>5, <2>3
    <3>2. T = (v + 1)..closed /\ \A k \in V : k \in Int
      BY <1>5, <2>3
    <3> HIDE DEF V, T, v
    <3>3. NoGap(V \cup ((v + 1)..closed))
      BY <1>4, <2>1, <3>1, <3>2, NoGapExtended
    <3>4. QED
      BY <3>2, <3>3
  <2>4. QED
    BY <2>2, <2>3
<1>8. V \cup T # {} => \E k \in V \cup T : closed - Len(buffer) <= k
  <2>1. SUFFICES ASSUME V # {} PROVE \E k \in V \cup T : closed <= k
    BY <1>1, <1>4, <1>5, <1>6 DEF TypeOK
  <2>2. Newest(V) \in V /\ Newest(V) \in Int /\ Newest(V) <= closed
    BY <1>5, <2>1
  <2>3. CASE Newest(V) = closed
    BY <2>2, <2>3
  <2>4. CASE Newest(V) < closed
    BY <1>4, <2>1, <2>2, <2>4
  <2>5. QED
    BY <1>4, <2>2, <2>3, <2>4
<1> HIDE DEF T, s
<1>9. Process(s, TRUE)
  BY <1>2 DEF s
<1>10. /\ VisibleCandles' = V \cup T
       /\ \A e \in newEvents' : e \in newEvents \/ e.kill = ownKill
  BY <1>1, <1>2, <1>3, <1>6, <1>9, ProcessKeeps
<1>11. NoSkippedCandle'
  BY <1>7, <1>10 DEF NoSkippedCandle, NoGap
<1>12. KillsOff'
  <2>1. ownKill' = ownKill
    BY <1>2 DEF Process
  <2>2. QED
    BY <1>1, <1>2, <1>10, <2>1 DEF KillsOff, VisibleEvents
<1>13. StreamContinues'
  <2>1. VisibleCandles' # {} => \E k \in VisibleCandles' : closed - Len(buffer) <= k
    BY <1>8, <1>10
  <2>2. QED
    BY <1>1, <1>2, <2>1 DEF StreamContinues
<1>14. QED
  BY <1>11, <1>12, <1>13

\* What the stream delivers is the candle after the last, or that one again.
LEMMA SeamlessReceive ==
  ASSUME SeamlessInv, Receive
  PROVE  NoSkippedCandle' /\ KillsOff' /\ StreamContinues'
<1> USE CandlesAreNumbers DEF exchange, database, transaction, memory
<1> DEFINE k == Head(buffer)
           V == VisibleCandles
           T == {k}
           s == <<k>>
<1>1. TypeOK /\ CandlesOrdered /\ EventsOfCandles
      /\ NoSkippedCandle /\ KillsOff /\ StreamContinues
  BY DEF SeamlessInv, SessionInv
<1>2. /\ pc = "running" /\ buffer # <<>> /\ buffer' = Tail(buffer)
      /\ pc' \in {"running", "committing"}
      /\ UNCHANGED <<closed, conn, killSwitch, candles, events, failure>>
  BY DEF Receive
<1>3. /\ buffer \in Seq(Candle) /\ 1 \in 1..Len(buffer) /\ k = buffer[1] /\ k \in Candle
      /\ Len(buffer) \in Nat /\ closed \in Nat /\ k \in Int
  <2>1. buffer \in Seq(Candle) /\ closed \in Nat
    BY <1>1, SessionAssumption DEF TypeOK
  <2>2. Len(buffer) \in Nat /\ 1 \in 1..Len(buffer) /\ k = buffer[1]
    BY <1>2, <2>1
  <2>3. k \in Candle
    BY <2>1, <2>2
  <2>4. QED
    BY <2>1, <2>2, <2>3
<1>4. k = closed - Len(buffer) + 1
  BY <1>1, <1>3 DEF StreamContinues
<1>5. /\ Len(buffer') = Len(buffer) - 1
      /\ \A n \in 1..Len(buffer') : n + 1 \in 1..Len(buffer) /\ buffer'[n] = buffer[n + 1]
  BY <1>2, <1>3
<1>6. \A n \in 1..Len(buffer') : buffer'[n] = closed' - Len(buffer') + n
  BY <1>1, <1>2, <1>3, <1>5 DEF StreamContinues
<1>7. closed' - Len(buffer') = k
  BY <1>2, <1>3, <1>4, <1>5
<1>8. /\ V \subseteq Candle
      /\ V = {} => history = <<>>
      /\ V # {} => /\ Newest(V) \in V /\ \A j \in V : j <= Newest(V)
                   /\ Last0(history) = Newest(V)
  <2>1. /\ V \subseteq Candle
        /\ V = {} => history = <<>>
        /\ V # {} => /\ Newest(V) \in V /\ \A j \in V : j <= Newest(V)
                     /\ history # <<>> /\ Newest(V) = history[Len(history)]
    BY <1>1, <1>2, NewestVisible
  <2> HIDE DEF V
  <2>2. QED
    BY <2>1 DEF Last0
<1>9. CASE UNCHANGED <<pc, history, ownKill, newCandles, newEvents>> /\ k = Last0(history)
  <2>1. VisibleCandles' = V /\ VisibleEvents' = VisibleEvents
    BY <1>2, <1>9 DEF VisibleCandles, VisibleEvents
  <2>2. V # {} => k \in V
    BY <1>8, <1>9
  <2>3. NoSkippedCandle' /\ KillsOff'
    BY <1>1, <1>2, <1>9, <2>1 DEF NoSkippedCandle, KillsOff
  <2>4. StreamContinues'
    <3>1. VisibleCandles' # {} => \E j \in VisibleCandles' : closed' - Len(buffer') <= j
      BY <1>3, <1>7, <2>1, <2>2
    <3>2. QED
      BY <1>1, <1>2, <1>6, <1>9, <3>1 DEF StreamContinues
  <2>5. QED
    BY <2>3, <2>4
<1>10. CASE k # Last0(history) /\ Process(s, FALSE) /\ pc' = "committing"
  <2>1. ~(k < Last0(history))
    BY DEF Receive, Fails
  <2>2. \A j \in V : j < k
    <3> HIDE DEF V
    <3>1. ASSUME NEW j \in V PROVE j < k
      <4>1. j <= Newest(V) /\ Newest(V) \in Int /\ j \in Int
        BY <1>8
      <4>2. k # Newest(V) /\ ~(k < Newest(V))
        BY <1>8, <1>10, <2>1
      <4>3. QED
        BY <1>3, <4>1, <4>2
    <3>2. QED
      BY <3>1
  <2>3. Ordered(s, T)
    BY DEF Ordered
  <2>4. T \subseteq Candle /\ \A j \in V, i \in T : j < i
    BY <1>3, <2>2
  <2>5. NoGap(V \cup T)
    <3>1. NoGap(V) /\ \A j \in V : j \in Int
      BY <1>1, <1>8 DEF NoSkippedCandle, NoGap
    <3>2. CASE V = {}
      <4>1. V \cup T = {k}
        BY <3>2
      <4>2. \A i \in k..k : i = k
        BY <1>3
      <4>3. QED
        BY <4>1, <4>2 DEF NoGap
    <3>3. CASE V # {}
      <4> DEFINE v == k - 1
      <4>1. PICK j \in V : closed - Len(buffer) <= j
        BY <1>1, <1>2, <3>3 DEF StreamContinues
      <4>2. v \in V /\ \A i \in V : i <= v
        BY <1>3, <1>4, <2>2, <3>1, <4>1
      <4>3. T = (v + 1)..k
        BY <1>3
      <4> HIDE DEF V, T, v, k
      <4>4. NoGap(V \cup ((v + 1)..k))
        BY <1>3, <3>1, <4>2, NoGapExtended
      <4>5. QED
        BY <4>3, <4>4
    <3>4. QED
      BY <3>2, <3>3
  <2>6. k \in T
    OBVIOUS
  <2> HIDE DEF s, T
  <2>7. /\ VisibleCandles' = V \cup T
        /\ \A e \in newEvents' : e \in newEvents \/ e.kill = ownKill
    BY <1>1, <1>2, <1>10, <2>3, <2>4, ProcessKeeps
  <2>8. NoSkippedCandle'
    BY <2>5, <2>7 DEF NoSkippedCandle, NoGap
  <2>9. KillsOff'
    <3>1. ownKill' = ownKill
      BY <1>10 DEF Process
    <3>2. QED
      BY <1>1, <1>2, <2>7, <3>1 DEF KillsOff, VisibleEvents
  <2>10. StreamContinues'
    <3>1. \E j \in VisibleCandles' : closed' - Len(buffer') <= j
      BY <1>3, <1>7, <2>6, <2>7
    <3>2. conn # "down" /\ conn # "sent"
      BY <1>1, <1>2 DEF StreamContinues, TypeOK
    <3>3. QED
      BY <1>1, <1>2, <1>6, <1>10, <3>1, <3>2 DEF StreamContinues
  <2>11. QED
    BY <2>8, <2>9, <2>10
<1>11. QED
  BY <1>9, <1>10 DEF Receive

\* The stream continues where the backfill ended.
LEMMA SeamlessOther ==
  ASSUME ~Disconnects, SeamlessInv, Subscribe \/ Reconnect \/ Commit \/ Report
  PROVE  NoSkippedCandle' /\ KillsOff' /\ StreamContinues'
<1> USE DEF exchange, database, transaction, memory
<1>1. TypeOK /\ NoSkippedCandle /\ KillsOff /\ StreamContinues
  BY DEF SeamlessInv, SessionInv
<1>2. VisibleCandles' = VisibleCandles /\ VisibleEvents' = VisibleEvents
      /\ UNCHANGED <<killSwitch, ownKill, failure, closed>>
  BY DEF Subscribe, Reconnect, Connect, Commit, CommitRows, Report, VisibleCandles, VisibleEvents
<1>3. NoSkippedCandle' /\ KillsOff'
  BY <1>1, <1>2 DEF NoSkippedCandle, KillsOff
<1>4. ~Reconnect
  BY <1>1 DEF Reconnect, StreamContinues
<1>5. CASE Subscribe
  <2>1. /\ pc' = "subscribed" /\ conn' = "sent" /\ buffer' = <<>> /\ Len(buffer') = 0
    BY <1>5 DEF Subscribe, Connect
  <2>2. QED
    BY <1>1, <1>3, <2>1 DEF StreamContinues
<1>6. CASE Commit \/ Report
  <2>1. /\ pc \in {"running", "committing"} /\ pc' = "running"
        /\ conn' = conn /\ buffer' = buffer /\ closed' = closed
    BY <1>6 DEF Commit, Report
  <2>2. QED
    BY <1>1, <1>2, <1>3, <2>1 DEF StreamContinues
<1>7. QED
  BY <1>4, <1>5, <1>6

\* The handoff of recover_and_handoff (backfill, subscribe, backfill) has no loss
\* window and a restart reproduces the session, for any number of candles and of
\* crashes: no candle is missing between the first and the last of a session and
\* no replay ever diverges.  The three hypotheses are the code's two known gaps,
\* taken away: the acknowledgement of subscribe that is not awaited, messages
\* lost with a broken connection, which the loop does not backfill, and the kill
\* switch, which events record and replay reads as it is now.
THEOREM SessionSurvivesRestarts ==
  ASSUME ~LateAck, ~Disconnects, ~KillToggles
  PROVE  Spec => []RestartIsSeamless
<1>1. Init => NoSkippedCandle /\ KillsOff /\ StreamContinues
  <2> SUFFICES ASSUME Init PROVE NoSkippedCandle /\ KillsOff /\ StreamContinues
    OBVIOUS
  <2>1. VisibleCandles = {} /\ VisibleEvents = {} /\ Len(buffer) = 0
    BY DEF Init, VisibleCandles, VisibleEvents
  <2>2. QED
    BY <2>1 DEF Init, NoSkippedCandle, KillsOff, StreamContinues
<1>2. SeamlessInv /\ [Next]_vars => NoSkippedCandle' /\ KillsOff' /\ StreamContinues'
  <2> SUFFICES ASSUME SeamlessInv, [Next]_vars
               PROVE  NoSkippedCandle' /\ KillsOff' /\ StreamContinues'
    OBVIOUS
  <2>1. CASE Environment
    BY <2>1, SeamlessEnvironment
  <2>2. CASE Restore
    BY <2>2, SeamlessRestore
  <2>3. CASE FirstBackfill \/ SecondBackfill
    BY <2>3, SeamlessBackfill
  <2>4. CASE Subscribe \/ Reconnect \/ Commit \/ Report
    BY <2>4, SeamlessOther
  <2>5. CASE Receive
    BY <2>5, SeamlessReceive
  <2>6. CASE ReceiveFails
    BY <2>6, SeamlessStop DEF ReceiveFails, Fails
  <2>7. CASE Crash
    BY <2>7, SeamlessStop DEF Crash
  <2>8. CASE UNCHANGED vars
    BY <2>8 DEF vars, exchange, database, transaction, memory, SeamlessInv,
         NoSkippedCandle, KillsOff, StreamContinues, VisibleCandles, VisibleEvents
  <2>9. QED
    BY <2>1, <2>2, <2>3, <2>4, <2>5, <2>6, <2>7, <2>8 DEF Next, Step
<1>3. Init => SeamlessInv
  BY <1>1, InitInv DEF SeamlessInv
<1>4. SeamlessInv /\ [Next]_vars => SeamlessInv'
  BY <1>2, NextInv DEF SeamlessInv
<1>5. SeamlessInv => RestartIsSeamless
  BY DEF SeamlessInv, KillsOff, RestartIsSeamless, RestartReproduces
<1>6. QED
  BY <1>3, <1>4, <1>5, PTL DEF Spec

=============================================================================
