---------------------------- MODULE TaskPoolProof ----------------------------
(***************************************************************************)
(* The task pool keeps its timers in order, loses no wake-up, runs each    *)
(* task at most once and drains itself, for any sets of tasks and workers. *)
(* The proofs assume that delay() is not called, as the host never does:   *)
(* delay() does not keep the timers in order (task_pool.h:178).            *)
(***************************************************************************)
EXTENDS TaskPool, SequenceTheorems, TLAPS

-----------------------------------------------------------------------------
(* Sequences *)

\* A new element goes to place i, those from i on move one up.
LEMMA InsertAtElements ==
  ASSUME NEW S, NEW s \in Seq(S), NEW i \in 1..Len(s) + 1, NEW e \in S
  PROVE  /\ InsertAt(s, i, e) \in Seq(S)
         /\ Len(InsertAt(s, i, e)) = Len(s) + 1
         /\ \A j \in 1..Len(s) + 1 : InsertAt(s, i, e)[j] =
              IF j < i THEN s[j] ELSE IF j = i THEN e ELSE s[j - 1]
  <1> DEFINE a == SubSeq(s, 1, i - 1)
             b == SubSeq(s, i, Len(s))
  <1>1. a \in Seq(S) /\ Len(a) = i - 1 /\ \A j \in 1..i - 1 : a[j] = s[j]
    <2>1. \A j \in 1..i - 1 : s[j] \in S
      BY ElementOfSeq, LenProperties
    <2>2. QED
      BY <2>1, LenProperties, SubSeqProperties
  <1>2. b \in Seq(S) /\ Len(b) = Len(s) - i + 1
        /\ \A j \in 1..Len(s) - i + 1 : b[j] = s[i + j - 1]
    <2>1. \A j \in i..Len(s) : s[j] \in S
      BY ElementOfSeq, LenProperties
    <2>2. QED
      BY <2>1, LenProperties, SubSeqProperties
  <1>3. <<e>> \in Seq(S) /\ Len(<<e>>) = 1 /\ <<e>>[1] = e
    OBVIOUS
  <1> HIDE DEF a, b
  <1>4. /\ a \o <<e>> \in Seq(S) /\ Len(a \o <<e>>) = i
        /\ \A j \in 1..i : (a \o <<e>>)[j] = IF j < i THEN s[j] ELSE e
    BY <1>1, <1>3, ConcatProperties, LenProperties
  <1> DEFINE c == a \o <<e>>
  <1>5. InsertAt(s, i, e) = c \o b
    BY DEF InsertAt, a, b
  <1>6. /\ c \in Seq(S) /\ Len(c) = i
        /\ \A j \in 1..i : c[j] = IF j < i THEN s[j] ELSE e
    BY <1>4
  <1> HIDE DEF c
  <1>7. Len(s) \in Nat
    BY LenProperties
  <1>8. /\ c \o b \in Seq(S)
        /\ Len(c \o b) = Len(s) + 1
        /\ \A j \in 1..Len(s) + 1 : (c \o b)[j] = IF j <= i THEN c[j] ELSE b[j - i]
    <2>1. Len(c) + Len(b) = Len(s) + 1
      BY <1>2, <1>6, <1>7
    <2>2. /\ c \o b \in Seq(S)
          /\ Len(c \o b) = Len(c) + Len(b)
          /\ \A j \in 1..Len(c) + Len(b) :
               (c \o b)[j] = IF j <= Len(c) THEN c[j] ELSE b[j - Len(c)]
      <3>1. c \in Seq(S) /\ b \in Seq(S)
        BY <1>2, <1>6
      <3>2. QED
        BY <3>1, ConcatProperties
    <2>3. Len(c) = i
      BY <1>6
    <2>4. QED
      BY <2>1, <2>2, <2>3
  <1>9. \A j \in 1..Len(s) + 1 : (c \o b)[j] =
              IF j < i THEN s[j] ELSE IF j = i THEN e ELSE s[j - 1]
    BY <1>2, <1>6, <1>7, <1>8
  <1>10. QED
    BY <1>5, <1>8, <1>9

\* The element at place i goes, those behind it move one down.
LEMMA RemoveAtElements ==
  ASSUME NEW S, NEW s \in Seq(S), NEW i \in 1..Len(s)
  PROVE  /\ RemoveAt(s, i) \in Seq(S)
         /\ Len(RemoveAt(s, i)) = Len(s) - 1
         /\ \A j \in 1..Len(s) - 1 :
              RemoveAt(s, i)[j] = IF j < i THEN s[j] ELSE s[j + 1]
  <1> DEFINE a == SubSeq(s, 1, i - 1)
             b == SubSeq(s, i + 1, Len(s))
  <1>1. a \in Seq(S) /\ Len(a) = i - 1 /\ \A j \in 1..i - 1 : a[j] = s[j]
    <2>1. \A j \in 1..i - 1 : s[j] \in S
      BY ElementOfSeq, LenProperties
    <2>2. QED
      BY <2>1, LenProperties, SubSeqProperties
  <1>2. b \in Seq(S) /\ Len(b) = Len(s) - i
        /\ \A j \in 1..Len(s) - i : b[j] = s[i + j]
    <2>1. \A j \in i + 1..Len(s) : s[j] \in S
      BY ElementOfSeq, LenProperties
    <2>2. QED
      BY <2>1, LenProperties, SubSeqProperties
  <1> HIDE DEF a, b
  <1>3. Len(s) \in Nat /\ Len(a) + Len(b) = Len(s) - 1
    BY <1>1, <1>2, LenProperties
  <1>4. /\ a \o b \in Seq(S)
        /\ Len(a \o b) = Len(a) + Len(b)
        /\ \A j \in 1..Len(a) + Len(b) :
             (a \o b)[j] = IF j <= Len(a) THEN a[j] ELSE b[j - Len(a)]
    <2>1. a \in Seq(S) /\ b \in Seq(S)
      BY <1>1, <1>2
    <2>2. QED
      BY <2>1, ConcatProperties
  <1>5. \A j \in 1..Len(s) - 1 : (a \o b)[j] = IF j < i THEN s[j] ELSE s[j + 1]
    BY <1>1, <1>2, <1>3, <1>4
  <1>6. RemoveAt(s, i) = a \o b
    BY DEF RemoveAt, a, b
  <1>7. QED
    BY <1>3, <1>4, <1>5, <1>6

\* The last element goes.
LEMMA FrontElements ==
  ASSUME NEW S, NEW s \in Seq(S), s # <<>>
  PROVE  /\ Front(s) \in Seq(S) /\ Len(Front(s)) = Len(s) - 1
         /\ \A j \in 1..Len(s) - 1 : Front(s)[j] = s[j]
         /\ Len(s) \in 1..Len(s) /\ Last(s) = s[Len(s)]
  <1>1. Len(s) \in Nat \ {0}
    BY EmptySeq
  <1>2. \A j \in 1..Len(s) - 1 : s[j] \in S
    BY <1>1, ElementOfSeq
  <1> DEFINE n == Len(s) - 1
  <1>3. n \in Nat /\ n \in Int /\ 1 \in Int
    BY <1>1
  <1>4. \A j \in 1..n : s[j] \in S
    BY <1>2
  <1> HIDE DEF n
  <1>5. /\ SubSeq(s, 1, n) \in Seq(S)
        /\ Len(SubSeq(s, 1, n)) = IF 1 <= n THEN n - 1 + 1 ELSE 0
        /\ \A j \in 1..n - 1 + 1 : SubSeq(s, 1, n)[j] = s[1 + j - 1]
    BY <1>3, <1>4, SubSeqProperties
  <1>6. /\ Front(s) \in Seq(S) /\ Len(Front(s)) = n
        /\ \A j \in 1..n : Front(s)[j] = s[j]
    <2>1. Front(s) = SubSeq(s, 1, n)
      BY DEF Front, n
    <2>2. QED
      BY <1>3, <1>5, <2>1
  <1>7. QED
    BY <1>1, <1>6 DEF Last, n

\* The elements of a sequence, by their places.
LEMMA RangeElements ==
  ASSUME NEW S, NEW s \in Seq(S)
  PROVE  /\ DOMAIN s = 1..Len(s) /\ Len(s) \in Nat
         /\ \A x : x \in Range(s) <=> \E i \in 1..Len(s) : s[i] = x
         /\ Range(s) \subseteq S
         /\ IsInjective(s) <=> \A i, j \in 1..Len(s) : s[i] = s[j] => i = j
  <1>1. DOMAIN s = 1..Len(s) /\ Len(s) \in Nat
    BY LenProperties
  <1>2. \A x : x \in Range(s) <=> \E i \in 1..Len(s) : s[i] = x
    BY <1>1 DEF Range
  <1>3. Range(s) \subseteq S
    BY RangeOfSeq
  <1>4. QED
    BY <1>1, <1>2, <1>3 DEF IsInjective

\* push() adds one element.
LEMMA AppendRange ==
  ASSUME NEW S, NEW s \in Seq(S), NEW e \in S
  PROVE  /\ Append(s, e) \in Seq(S)
         /\ Range(Append(s, e)) = Range(s) \union {e}
         /\ IsInjective(s) /\ e \notin Range(s) => IsInjective(Append(s, e))
  <1> DEFINE r == Append(s, e)
  <1>1. /\ r \in Seq(S) /\ Len(r) = Len(s) + 1 /\ Len(s) \in Nat
        /\ \A i \in 1..Len(s) : r[i] = s[i]
        /\ r[Len(s) + 1] = e
    BY AppendProperties, LenProperties
  <1> HIDE DEF r
  <1>2. \A x : x \in Range(r) <=> x \in Range(s) \union {e}
    BY <1>1, RangeElements
  <1>3. IsInjective(s) /\ e \notin Range(s) => IsInjective(r)
    <2>1. SUFFICES ASSUME IsInjective(s), e \notin Range(s),
                          NEW i \in 1..Len(r), NEW j \in 1..Len(r), r[i] = r[j]
                   PROVE  i = j
      BY <1>1, RangeElements
    <2>2. CASE i <= Len(s) /\ j <= Len(s)
      BY <1>1, <2>1, <2>2, RangeElements
    <2>3. CASE i = Len(s) + 1 \/ j = Len(s) + 1
      BY <1>1, <2>1, <2>3, RangeElements
    <2>4. QED
      BY <1>1, <2>2, <2>3
  <1>4. QED
    BY <1>1, <1>2, <1>3 DEF r

\* pop() of a task takes one element.
LEMMA TailRange ==
  ASSUME NEW S, NEW s \in Seq(S), s # <<>>, IsInjective(s)
  PROVE  /\ Tail(s) \in Seq(S) /\ Head(s) \in Range(s)
         /\ Range(Tail(s)) = Range(s) \ {Head(s)}
         /\ IsInjective(Tail(s))
  <1> DEFINE r == Tail(s)
  <1>1. /\ r \in Seq(S) /\ Len(r) = Len(s) - 1 /\ Len(s) \in Nat \ {0}
        /\ \A i \in 1..Len(r) : r[i] = s[i + 1]
        /\ Head(s) = s[1]
    BY HeadTailProperties, EmptySeq
  <1> HIDE DEF r
  <1>2. \A i, j \in 1..Len(s) : s[i] = s[j] => i = j
    BY RangeElements
  <1>3. Head(s) \in Range(s)
    BY <1>1, RangeElements
  <1>4. ASSUME NEW x \in Range(r) PROVE x \in Range(s) \ {Head(s)}
    <2>1. PICK i \in 1..Len(r) : r[i] = x
      BY <1>1, RangeElements
    <2>2. s[i + 1] = x /\ i + 1 \in 1..Len(s) /\ i + 1 # 1 /\ 1 \in 1..Len(s)
      BY <1>1, <2>1
    <2>3. QED
      BY <1>1, <1>2, <2>2, RangeElements
  <1>5. ASSUME NEW x \in Range(s), x # Head(s) PROVE x \in Range(r)
    <2>1. PICK i \in 1..Len(s) : s[i] = x
      BY RangeElements
    <2>2. i - 1 \in 1..Len(r) /\ r[i - 1] = x
      BY <1>1, <1>5, <2>1
    <2>3. QED
      BY <1>1, <2>2, RangeElements
  <1>6. IsInjective(r)
    <2>1. SUFFICES ASSUME NEW i \in 1..Len(r), NEW j \in 1..Len(r), r[i] = r[j]
                   PROVE  i = j
      BY <1>1, RangeElements
    <2>2. s[i + 1] = s[j + 1] /\ i + 1 \in 1..Len(s) /\ j + 1 \in 1..Len(s)
      BY <1>1, <2>1
    <2>3. i + 1 = j + 1
      BY <1>2, <2>2
    <2>4. QED
      BY <2>3, <1>1
  <1>7. QED
    BY <1>1, <1>3, <1>4, <1>5, <1>6 DEF r

\* pushDelayed() adds one element.
LEMMA InsertRange ==
  ASSUME NEW S, NEW s \in Seq(S), NEW i \in 1..Len(s) + 1, NEW e \in S
  PROVE  /\ InsertAt(s, i, e) \in Seq(S)
         /\ Range(InsertAt(s, i, e)) = Range(s) \union {e}
         /\ IsInjective(s) /\ e \notin Range(s) => IsInjective(InsertAt(s, i, e))
  <1> DEFINE r == InsertAt(s, i, e)
  <1>1. /\ r \in Seq(S) /\ Len(r) = Len(s) + 1 /\ Len(s) \in Nat
        /\ \A j \in 1..Len(s) + 1 :
             r[j] = IF j < i THEN s[j] ELSE IF j = i THEN e ELSE s[j - 1]
    BY InsertAtElements, LenProperties
  <1> HIDE DEF r
  <1>2. ASSUME NEW x \in Range(r) PROVE x \in Range(s) \union {e}
    <2>1. PICK j \in 1..Len(r) : r[j] = x
      BY <1>1, RangeElements
    <2>2. x = e \/ (j \in 1..Len(s) /\ s[j] = x) \/ (j - 1 \in 1..Len(s) /\ s[j - 1] = x)
      BY <1>1, <2>1
    <2>3. QED
      BY <2>2, RangeElements
  <1>3. ASSUME NEW x \in Range(s) \union {e} PROVE x \in Range(r)
    <2>1. CASE x = e
      <3>1. r[i] = e /\ i \in 1..Len(r)
        BY <1>1
      <3>2. QED
        BY <1>1, <2>1, <3>1, RangeElements
    <2>2. CASE x \in Range(s)
      <3>1. PICK j \in 1..Len(s) : s[j] = x
        BY <2>2, RangeElements
      <3>2. \/ j \in 1..Len(r) /\ r[j] = x
            \/ j + 1 \in 1..Len(r) /\ r[j + 1] = x
        BY <1>1, <3>1
      <3>3. QED
        BY <1>1, <3>2, RangeElements
    <2>3. QED
      BY <2>1, <2>2
  <1>4. IsInjective(s) /\ e \notin Range(s) => IsInjective(r)
    <2>1. SUFFICES ASSUME IsInjective(s), e \notin Range(s),
                          NEW j \in 1..Len(r), NEW k \in 1..Len(r), r[j] = r[k]
                   PROVE  j = k
      BY <1>1, RangeElements
    <2>2. /\ \A m, n \in 1..Len(s) : s[m] = s[n] => m = n
          /\ \A m \in 1..Len(s) : s[m] # e
      BY <2>1, RangeElements
    <2> DEFINE old(m) == IF m < i THEN m ELSE m - 1
    <2>3. \A m \in 1..Len(r) : m # i => old(m) \in 1..Len(s) /\ r[m] = s[old(m)]
      BY <1>1
    <2>4. r[i] = e
      BY <1>1
    <2>5. \A m, n \in 1..Len(r) : m # i /\ n # i /\ old(m) = old(n) => m = n
      BY <1>1
    <2> HIDE DEF old
    <2>6. CASE j = i \/ k = i
      BY <2>1, <2>2, <2>3, <2>4, <2>6
    <2>7. CASE j # i /\ k # i
      BY <2>1, <2>2, <2>3, <2>5, <2>7
    <2>8. QED
      BY <2>6, <2>7
  <1>5. QED
    BY <1>1, <1>2, <1>3, <1>4 DEF r

\* cancel() takes the element it found.
LEMMA RemoveRange ==
  ASSUME NEW S, NEW s \in Seq(S), NEW i \in 1..Len(s), IsInjective(s)
  PROVE  /\ RemoveAt(s, i) \in Seq(S)
         /\ Range(RemoveAt(s, i)) = Range(s) \ {s[i]}
         /\ IsInjective(RemoveAt(s, i))
  <1> DEFINE r == RemoveAt(s, i)
  <1>1. /\ r \in Seq(S) /\ Len(r) = Len(s) - 1 /\ Len(s) \in Nat
        /\ \A j \in 1..Len(s) - 1 : r[j] = IF j < i THEN s[j] ELSE s[j + 1]
    BY RemoveAtElements, LenProperties
  <1> HIDE DEF r
  <1>2. \A m, n \in 1..Len(s) : s[m] = s[n] => m = n
    BY RangeElements
  <1>3. ASSUME NEW x \in Range(r) PROVE x \in Range(s) \ {s[i]}
    <2>1. PICK j \in 1..Len(r) : r[j] = x
      BY <1>1, RangeElements
    <2>2. PICK k \in 1..Len(s) : k # i /\ s[k] = x
      BY <1>1, <2>1
    <2>3. QED
      BY <1>2, <2>2, RangeElements
  <1>4. ASSUME NEW x \in Range(s), x # s[i] PROVE x \in Range(r)
    <2>1. PICK j \in 1..Len(s) : s[j] = x
      BY RangeElements
    <2>2. \/ j \in 1..Len(r) /\ r[j] = x
          \/ j - 1 \in 1..Len(r) /\ r[j - 1] = x
      BY <1>1, <1>4, <2>1
    <2>3. QED
      BY <1>1, <2>2, RangeElements
  <1>5. IsInjective(r)
    <2>1. SUFFICES ASSUME NEW j \in 1..Len(r), NEW k \in 1..Len(r), r[j] = r[k]
                   PROVE  j = k
      BY <1>1, RangeElements
    <2> DEFINE old(m) == IF m < i THEN m ELSE m + 1
    <2>2. \A m \in 1..Len(r) : old(m) \in 1..Len(s) /\ r[m] = s[old(m)]
      BY <1>1
    <2>3. \A m, n \in 1..Len(r) : old(m) = old(n) => m = n
      BY <1>1
    <2> HIDE DEF old
    <2>4. QED
      BY <1>2, <2>1, <2>2, <2>3
  <1>6. QED
    BY <1>1, <1>3, <1>4, <1>5 DEF r

\* pop() of a timer takes the last element.
LEMMA FrontRange ==
  ASSUME NEW S, NEW s \in Seq(S), s # <<>>, IsInjective(s)
  PROVE  /\ Front(s) \in Seq(S) /\ Last(s) \in Range(s)
         /\ Range(Front(s)) = Range(s) \ {Last(s)}
         /\ IsInjective(Front(s))
  <1> DEFINE r == Front(s)
             n == Len(s)
  <1>1. /\ r \in Seq(S) /\ Len(r) = n - 1 /\ n \in Nat /\ n \in 1..n
        /\ \A j \in 1..n - 1 : r[j] = s[j]
        /\ Last(s) = s[n]
    BY FrontElements, LenProperties
  <1>2. \A j, k \in 1..n : s[j] = s[k] => j = k
    BY RangeElements
  <1> HIDE DEF r
  <1>3. ASSUME NEW x \in Range(r) PROVE x \in Range(s) \ {Last(s)}
    <2>1. PICK j \in 1..Len(r) : r[j] = x
      BY <1>1, RangeElements
    <2>2. j \in 1..n /\ j # n /\ s[j] = x
      BY <1>1, <2>1
    <2>3. QED
      BY <1>1, <1>2, <2>2, RangeElements
  <1>4. ASSUME NEW x \in Range(s), x # Last(s) PROVE x \in Range(r)
    <2>1. PICK j \in 1..n : s[j] = x
      BY RangeElements
    <2>2. j \in 1..Len(r) /\ r[j] = x
      BY <1>1, <1>4, <2>1
    <2>3. QED
      BY <1>1, <2>2, RangeElements
  <1>5. IsInjective(r)
    <2>1. SUFFICES ASSUME NEW j \in 1..Len(r), NEW k \in 1..Len(r), r[j] = r[k]
                   PROVE  j = k
      BY <1>1, RangeElements
    <2>2. s[j] = s[k] /\ j \in 1..n /\ k \in 1..n
      BY <1>1, <2>1
    <2>3. QED
      BY <1>2, <2>2
  <1>6. Last(s) \in Range(s)
    BY <1>1, RangeElements
  <1>7. QED
    BY <1>1, <1>3, <1>4, <1>5, <1>6 DEF r

-----------------------------------------------------------------------------
(* The inductive invariant *)

\* ThreadPool::_lock is held from the second look at the lists to the wait.
LockHeld == \A w \in Worker : pc[w] \in {"ready", "next"} <=> lock = w

\* A worker about to sleep has seen an empty deque and a pool that goes on:
\* nobody can push or stop before it waits.
AboutToSleep == \A w \in Worker : pc[w] = "next" => tasks = <<>> /\ continue

\* Who waits will wake for the soonest timer: pushDelayed() and stop() wake all.
Sleepers == \A w \in Worker : pc[w] = "wait" =>
              continue /\ \A i \in 1..Len(timers) : wake[w] <= at[timers[i]]

\* With a task in the deque somebody is awake: push() wakes one.
SomeoneAwake == Waiting = Worker => tasks = <<>>

\* Only a stopped pool lets its workers go.
Leaving == \A w \in Worker : pc[w] \in {"drain", "drainRun", "exited"} => ~continue

\* What is queued or runs was submitted.
Known == /\ Range(tasks) \union Range(timers) \subseteq submitted
         /\ \A w \in Worker : cur[w] \in submitted \union {NoTask}

\* A worker has a task exactly while it runs it.
RunsOne == \A w \in Worker : pc[w] \in {"run", "drainRun"} <=> cur[w] # NoTask

\* What is in the deque may run; what was not submitted has no time yet.
InTime == /\ \A t \in Range(tasks) : at[t] <= now
          /\ \A t \in Task \ submitted : at[t] = 0

WorkersOK == LockHeld /\ AboutToSleep /\ Sleepers /\ SomeoneAwake /\ Leaving
             /\ DrainedAtExit

TasksOK == OneCopy /\ Known /\ RunsOne /\ InTime

IInv == TypeOK /\ Sorted /\ WorkersOK /\ TasksOK

\* The pool of start(n) satisfies the inductive invariant.
LEMMA InitIInv == Init => IInv
  <1> SUFFICES ASSUME Init PROVE IInv
    OBVIOUS
  <1> USE PoolAssumption DEF Init
  <1>1. /\ Range(tasks) = {} /\ Range(timers) = {}
        /\ IsInjective(tasks) /\ IsInjective(timers)
        /\ tasks \in Seq(Task) /\ timers \in Seq(Task) /\ Len(timers) = 0
    BY DEF Range, IsInjective
  <1>2. TypeOK
    BY <1>1 DEF TypeOK, Time, Forever, WorkerPC
  <1>3. Sorted
    BY <1>1 DEF Sorted
  <1>4. WorkersOK
    BY <1>1 DEF WorkersOK, LockHeld, AboutToSleep, Sleepers, SomeoneAwake, Leaving,
                DrainedAtExit
  <1>5. TasksOK
    BY <1>1 DEF TasksOK, OneCopy, Known, RunsOne, InTime
  <1>6. QED
    BY <1>2, <1>3, <1>4, <1>5 DEF IInv

-----------------------------------------------------------------------------
(* What the steps do *)

\* notify_one() and notify_all() only move waiting workers to "woken".
LEMMA NotifyMoves ==
  ASSUME TypeOK, NotifyOne \/ NotifyAll
  PROVE  /\ pc' \in [Worker -> WorkerPC]
         /\ \A w \in Worker : pc'[w] = pc[w] \/ (pc[w] = "wait" /\ pc'[w] = "woken")
  BY DEF TypeOK, NotifyOne, NotifyAll, Waiting, WorkerPC

\* Goto moves one worker.
LEMMA GotoMoves ==
  ASSUME TypeOK, NEW w \in Worker, NEW label \in WorkerPC, Goto(w, label)
  PROVE  /\ pc' \in [Worker -> WorkerPC] /\ pc'[w] = label
         /\ \A v \in Worker \ {w} : pc'[v] = pc[v]
  BY DEF TypeOK, Goto

\* pop() takes one element out of one of the lists, and a timer only when due.
LEMMA PopEffect ==
  ASSUME TypeOK, OneCopy, NEW t \in Task, Pop(t)
  PROVE  /\ tasks' \in Seq(Task) /\ timers' \in Seq(Task)
         /\ IsInjective(tasks') /\ IsInjective(timers')
         /\ t \in Range(tasks) \union Range(timers)
         /\ Range(tasks') = Range(tasks) \ {t}
         /\ Range(timers') = Range(timers) \ {t}
         /\ t \in Range(timers) => at[t] <= now
         /\ timers' = timers \/ (timers # <<>> /\ timers' = Front(timers))
         /\ tasks = <<>> => tasks' = <<>>
  <1> USE DEF TypeOK, OneCopy, Pop, TimerDue
  <1>1. CASE tasks # <<>>
    <2>1. t = Head(tasks) /\ tasks' = Tail(tasks) /\ timers' = timers
      BY <1>1
    <2>2. /\ Tail(tasks) \in Seq(Task) /\ Head(tasks) \in Range(tasks)
          /\ Range(Tail(tasks)) = Range(tasks) \ {Head(tasks)}
          /\ IsInjective(Tail(tasks))
      BY <1>1, TailRange
    <2>3. QED
      BY <1>1, <2>1, <2>2
  <1>2. CASE tasks = <<>>
    <2>1. t = Last(timers) /\ timers # <<>> /\ timers' = Front(timers) /\ tasks' = tasks
      BY <1>2
    <2>2. /\ Front(timers) \in Seq(Task) /\ Last(timers) \in Range(timers)
          /\ Range(Front(timers)) = Range(timers) \ {Last(timers)}
          /\ IsInjective(Front(timers))
      BY <2>1, FrontRange
    <2>3. at[t] <= now
      BY <1>2
    <2>4. QED
      BY <1>2, <2>1, <2>2, <2>3
  <1>3. QED
    BY <1>1, <1>2

\* The lists change in five ways when delay() is not called.
LEMMA ListSteps ==
  ASSUME ~MayDelay, [Next]_vars, pc \in [Worker -> WorkerPC]
  PROVE  \/ \E t \in Task : Push(t)
         \/ \E t \in Task, time \in Time : PushDelayed(t, time)
         \/ \E i \in 1..Len(timers) : Cancel(i)
         \/ \E w \in Worker, t \in Task :
              Pop(t) /\ cur' = [cur EXCEPT ![w] = t] /\ UNCHANGED <<at, submitted, late, now>>
              /\ pc[w] \in {"pop", "drain"} /\ pc'[w] \in {"run", "drainRun"}
         \/ UNCHANGED lists
  <1>1. ASSUME NEW w \in Worker, NEW from \in {"pop", "drain"},
               NEW to \in {"run", "drainRun"}, Take(w, from, to), pc \in [Worker -> WorkerPC]
        PROVE  \E t \in Task :
                 /\ Pop(t) /\ cur' = [cur EXCEPT ![w] = t]
                 /\ UNCHANGED <<at, submitted, late, now>>
                 /\ pc[w] \in {"pop", "drain"} /\ pc'[w] \in {"run", "drainRun"}
    BY <1>1 DEF Take, Goto
  <1>2. ASSUME NEW w \in Worker, WorkerStep(w) \/ Spurious(w)
        PROVE  Take(w, "pop", "run") \/ Take(w, "drain", "drainRun") \/ UNCHANGED lists
    BY <1>2 DEF WorkerStep, Spurious, Top, Lock, Check, Sleep, TimeOut, Resume, FindNone, RunTask,
                lists
  <1>3. ASSUME UNCHANGED vars PROVE UNCHANGED lists
    BY <1>3 DEF vars, lists
  <1>4. ASSUME Stop \/ Tick PROVE UNCHANGED lists
    BY <1>4 DEF Stop, Tick, lists
  <1>5. QED
    BY <1>1, <1>2, <1>3, <1>4 DEF Next, Delay

\* The lists keep their types.
LEMMA NextListTypes ==
  ASSUME IInv, [Next]_vars, ~MayDelay
  PROVE  /\ tasks' \in Seq(Task) /\ timers' \in Seq(Task)
         /\ at' \in [Task -> Time]
         /\ submitted' \subseteq Task /\ late' \subseteq Task
  <1> USE DEF IInv, TypeOK, TasksOK
  <1>1. ASSUME NEW t \in Task, Push(t) PROVE tasks' \in Seq(Task) /\ UNCHANGED timers
    BY <1>1, AppendRange DEF Push
  <1>2. ASSUME NEW t \in Task, NEW time \in Time, PushDelayed(t, time)
        PROVE  timers' \in Seq(Task) /\ UNCHANGED tasks
    BY <1>2, InsertRange DEF PushDelayed
  <1>3. ASSUME NEW i \in 1..Len(timers), Cancel(i)
        PROVE  timers' \in Seq(Task) /\ UNCHANGED tasks
    BY <1>3, RemoveRange DEF Cancel, OneCopy
  <1>4. ASSUME NEW t \in Task, Pop(t)
        PROVE  tasks' \in Seq(Task) /\ timers' \in Seq(Task)
    BY <1>4, PopEffect
  <1>5. tasks' \in Seq(Task) /\ timers' \in Seq(Task)
    BY <1>1, <1>2, <1>3, <1>4, ListSteps DEF lists
  <1>6. at' \in [Task -> Time] /\ submitted' \subseteq Task /\ late' \subseteq Task
    BY SMTT(30), ListSteps DEF lists, Push, PushDelayed, Cancel
  <1>7. QED
    BY <1>5, <1>6

\* The worker's variables keep their types.
LEMMA NextWorkerTypes ==
  ASSUME IInv, [Next]_vars, ~MayDelay
  PROVE  /\ now' \in Time /\ continue' \in BOOLEAN
         /\ lock' \in Worker \union {NoOne}
         /\ pc' \in [Worker -> WorkerPC]
         /\ wake' \in [Worker -> Time \union {Forever}]
         /\ cur' \in [Worker -> Task \union {NoTask}]
  <1> USE DEF IInv, TypeOK, WorkerPC
  <1>1. ASSUME NEW t \in Task, Push(t) PROVE pc' \in [Worker -> WorkerPC]
    BY <1>1, NotifyMoves DEF Push
  <1>2. ASSUME NEW t \in Task, NEW time \in Time, PushDelayed(t, time)
        PROVE  pc' \in [Worker -> WorkerPC]
    BY <1>2, NotifyMoves DEF PushDelayed
  <1>3. ASSUME Stop PROVE pc' \in [Worker -> WorkerPC]
    BY <1>3, NotifyMoves DEF Stop
  <1>4. ASSUME NEW w \in Worker, WorkerStep(w) \/ Spurious(w)
        PROVE  pc' \in [Worker -> WorkerPC]
    BY <1>4 DEF WorkerStep, Spurious, Goto, Top, Lock, Check, Sleep, TimeOut, Resume, Take,
                FindNone, RunTask
  <1>5. pc' \in [Worker -> WorkerPC]
    BY <1>1, <1>2, <1>3, <1>4 DEF Next, vars, workers, Cancel, Delay, Tick
  <1>6a. now' \in Time
    BY PoolAssumption DEF Next, vars, Time, Push, PushDelayed, Cancel, Delay, Stop, Tick,
       Spurious, WorkerStep, Top, Lock, Check, Sleep, TimeOut, Resume, Take, FindNone, RunTask
  <1>6b. continue' \in BOOLEAN
    BY DEF Next, vars, Push, PushDelayed, Cancel, Delay, Stop, Tick,
       Spurious, WorkerStep, Top, Lock, Check, Sleep, TimeOut, Resume, Take, FindNone, RunTask
  <1>7. lock' \in Worker \union {NoOne}
    BY DEF Next, vars, workers, Push, PushDelayed, Cancel, Delay, Stop, Tick, Spurious,
       WorkerStep, Top, Lock, Check, Sleep, TimeOut, Resume, Take, FindNone, RunTask
  <1>8. cur' \in [Worker -> Task \union {NoTask}]
    BY DEF Next, vars, workers, Push, PushDelayed, Cancel, Delay, Stop, Tick, Spurious,
       WorkerStep, Top, Lock, Check, Sleep, TimeOut, Resume, Take, FindNone, RunTask
  <1>9. ASSUME NEW w \in Worker, Sleep(w)
        PROVE  wake' \in [Worker -> Time \union {Forever}]
    <2>1. timers # <<>> => Last(timers) \in Task
      BY FrontElements, ElementOfSeq
    <2>2. QED
      BY <1>9, <2>1 DEF Sleep
  <1>10. wake' \in [Worker -> Time \union {Forever}]
    BY <1>9 DEF Next, vars, workers, Push, PushDelayed, Cancel, Delay, Stop, Tick, Spurious,
       WorkerStep, Top, Lock, Check, TimeOut, Resume, Take, FindNone, RunTask
  <1>11. QED
    BY <1>5, <1>6a, <1>6b, <1>7, <1>8, <1>10

\* The soonest timer stays at the back.
LEMMA NextSorted ==
  ASSUME IInv, [Next]_vars, ~MayDelay
  PROVE  Sorted'
  <1> USE DEF IInv, TypeOK
  <1> DEFINE n == Len(timers)
  <1>0. n \in Nat /\ \A j \in 1..n : timers[j] \in Task /\ at[timers[j]] \in Int
    BY LenProperties, ElementOfSeq DEF Time
  <1>1. ASSUME NEW t \in Task, NEW time \in Time, PushDelayed(t, time) PROVE Sorted'
    <2>1. PICK i \in 1..n + 1 : IsPlace(i, time) /\ timers' = InsertAt(timers, i, t)
      BY <1>1 DEF PushDelayed
    <2>2. /\ Len(timers') = n + 1
          /\ \A j \in 1..n + 1 : timers'[j] =
               IF j < i THEN timers[j] ELSE IF j = i THEN t ELSE timers[j - 1]
      <3> DEFINE r == InsertAt(timers, i, t)
      <3>1. timers \in Seq(Task) /\ i \in 1..Len(timers) + 1 /\ t \in Task
        BY <2>1
      <3>2. /\ Len(r) = Len(timers) + 1
            /\ \A j \in 1..Len(timers) + 1 : r[j] =
                 IF j < i THEN timers[j] ELSE IF j = i THEN t ELSE timers[j - 1]
        BY ONLY <3>1, InsertAtElements
      <3>3. timers' = r
        BY <2>1
      <3> HIDE DEF r
      <3>4. QED
        BY ONLY <3>2, <3>3
    <2>3. \A j \in 1..n : timers[j] # t
      BY <1>1, RangeElements DEF PushDelayed, TasksOK, Known
    <2>4. at'[t] = time /\ \A j \in 1..n : at'[timers[j]] = at[timers[j]]
      BY <1>0, <1>1, <2>3 DEF PushDelayed
    <2>5. /\ \A j \in 1..n : j < i => at[timers[j]] >= time
          /\ \A j \in 1..n : j >= i => at[timers[j]] <= time
      <3>1. \A j \in 1..i - 1 : at[timers[j]] >= time
        BY <2>1 DEF IsPlace
      <3>2. i <= n => at[timers[i]] < time
        BY <2>1 DEF IsPlace
      <3>3. time \in Int
        BY DEF Time
      <3>4. ASSUME NEW j \in 1..n, j >= i PROVE at[timers[j]] <= time
        <4>1. i \in 1..n
          BY <1>0, <3>4
        <4>2. at[timers[i]] >= at[timers[j]]
          <5>1. CASE i = j
            BY <1>0, <5>1
          <5>2. CASE i < j
            BY <4>1, <5>2 DEF Sorted
          <5>3. QED
            BY <1>0, <3>4, <4>1, <5>1, <5>2
        <4>3. QED
          BY <1>0, <3>2, <3>3, <4>1, <4>2
      <3>5. QED
        BY <1>0, <3>1, <3>4
    <2> DEFINE v == [j \in 1..n |-> at[timers[j]]]
               u == [j \in 1..n + 1 |-> at'[timers'[j]]]
    <2>6. \A j \in 1..n : v[j] = at[timers[j]] /\ v[j] \in Int
      BY <1>0
    <2>7. \A j, k \in 1..n : j < k => v[j] >= v[k]
      BY <2>6 DEF Sorted
    <2>8. \A j \in 1..n : (j < i => v[j] >= time) /\ (j >= i => v[j] <= time)
      BY <2>5, <2>6
    <2>9. \A j \in 1..n + 1 : u[j] = at'[timers'[j]]
      OBVIOUS
    <2> HIDE DEF v, u
    <2>10. ASSUME NEW j \in 1..n + 1
           PROVE  u[j] = IF j < i THEN v[j] ELSE IF j = i THEN time ELSE v[j - 1]
      <3>1. CASE j < i
        <4>1. j \in 1..n /\ timers'[j] = timers[j]
          BY <1>0, <2>2, <3>1
        <4>2. QED
          BY <2>4, <2>6, <2>9, <3>1, <4>1
      <3>2. CASE j = i
        BY <1>0, <2>2, <2>4, <2>9, <3>2
      <3>3. CASE j > i
        <4> DEFINE h == j - 1
        <4>1. h \in 1..n /\ timers'[j] = timers[h] /\ ~(j < i) /\ j # i
          BY <1>0, <2>2, <3>3
        <4> HIDE DEF h
        <4>2. u[j] = v[h]
          BY <2>4, <2>6, <2>9, <4>1
        <4>3. QED
          BY <4>1, <4>2 DEF h
      <3>4. QED
        BY <1>0, <3>1, <3>2, <3>3
    <2>11. time \in Int
      BY DEF Time
    <2> HIDE DEF n
    <2>12. ASSUME NEW j \in 1..n + 1, NEW k \in 1..n + 1, j < k
           PROVE  u[j] >= u[k]
      <3>1. CASE k < i
        <4>1. u[j] = v[j] /\ u[k] = v[k] /\ j \in 1..n /\ k \in 1..n
          BY <1>0, <2>10, <2>12, <3>1
        <4>2. QED
          BY <2>7, <2>12, <4>1
      <3>2. CASE k = i
        <4>1. u[j] = v[j] /\ u[k] = time /\ j \in 1..n /\ j < i
          BY <1>0, <2>10, <2>12, <3>2
        <4>2. QED
          BY <2>8, <4>1
      <3>3. CASE k > i
        <4> DEFINE h == k - 1
        <4>1. u[k] = v[k - 1] /\ h \in 1..n /\ h >= i /\ h >= j
          BY <1>0, <2>10, <2>12, <3>3
        <4>2. u[k] = v[h]
          BY <4>1
        <4> HIDE DEF h
        <4>3. CASE j < i
          <5>1. u[j] = v[j] /\ j \in 1..n
            BY <1>0, <2>10, <4>3
          <5>2. v[j] >= time /\ v[h] <= time /\ v[j] \in Int /\ v[h] \in Int
            BY <2>6, <2>8, <4>1, <4>3, <5>1
          <5>3. QED
            BY <2>11, <4>2, <5>1, <5>2
        <4>4. CASE j = i
          BY <2>8, <2>10, <2>11, <2>6, <4>1, <4>2, <4>4
        <4>5. CASE j > i
          <5> DEFINE g == j - 1
          <5>1. u[j] = v[j - 1] /\ g \in 1..n /\ g < h
            BY <1>0, <2>10, <4>1, <4>5
          <5>2. u[j] = v[g]
            BY <5>1
          <5> HIDE DEF g
          <5>3. QED
            BY <2>7, <4>1, <4>2, <5>1, <5>2
        <4>6. QED
          BY <1>0, <4>3, <4>4, <4>5
      <3>4. QED
        BY <1>0, <3>1, <3>2, <3>3
    <2>13. QED
      BY SMTT(30), <2>2, <2>9, <2>12 DEF Sorted
  <1>2. ASSUME NEW i \in 1..n, Cancel(i) PROVE Sorted'
    <2>1. /\ Len(timers') = n - 1 /\ at' = at
          /\ \A j \in 1..n - 1 : timers'[j] = IF j < i THEN timers[j] ELSE timers[j + 1]
      BY <1>2, RemoveAtElements DEF Cancel
    <2> DEFINE old(j) == IF j < i THEN j ELSE j + 1
    <2>2. \A j \in 1..n - 1 : timers'[j] = timers[old(j)] /\ old(j) \in 1..n
      BY <1>0, <2>1
    <2>3. \A j, k \in 1..n - 1 : j < k => old(j) < old(k)
      BY <1>0
    <2> HIDE DEF old
    <2>4. QED
      BY SMTT(30), <1>0, <2>1, <2>2, <2>3 DEF Sorted
  <1>3. ASSUME NEW t \in Task, Pop(t), at' = at PROVE Sorted'
    <2>1. CASE timers' = timers
      BY <1>3, <2>1 DEF Sorted
    <2>2. CASE timers # <<>> /\ timers' = Front(timers)
      <3>1. /\ Len(timers') = n - 1
            /\ \A j \in 1..n - 1 : timers'[j] = timers[j]
        BY <2>2, FrontElements
      <3>2. QED
        BY SMTT(30), <1>0, <1>3, <3>1 DEF Sorted
    <2>3. QED
      BY <1>3, <2>1, <2>2, PopEffect DEF TasksOK
  <1>4. ASSUME UNCHANGED <<timers, at>> PROVE Sorted'
    BY <1>4 DEF Sorted
  <1>5. QED
    BY <1>1, <1>2, <1>3, <1>4, ListSteps DEF lists, Push

\* _lock is passed on correctly.
LEMMA NextLockHeld ==
  ASSUME IInv, [Next]_vars, ~MayDelay
  PROVE  LockHeld'
  <1> USE PoolAssumption DEF IInv, WorkersOK, LockHeld, TypeOK, WorkerPC
  <1>1. ASSUME NEW t \in Task, Push(t) PROVE LockHeld'
    BY <1>1, NotifyMoves DEF Push
  <1>2. ASSUME NEW t \in Task, NEW time \in Time, PushDelayed(t, time) PROVE LockHeld'
    BY <1>2, NotifyMoves DEF PushDelayed
  <1>3. ASSUME Stop PROVE LockHeld'
    BY <1>3, NotifyMoves DEF Stop
  <1>4. ASSUME NEW w \in Worker, WorkerStep(w) \/ Spurious(w) PROVE LockHeld'
    <2>1. CASE Lock(w)
      BY <2>1 DEF Lock, Goto
    <2>2. CASE Check(w)
      BY <2>2 DEF Check, Goto
    <2>3. CASE Sleep(w)
      BY <2>3 DEF Sleep, Goto
    <2>4. CASE Top(w) \/ TimeOut(w) \/ Spurious(w) \/ Resume(w)
      BY <2>4 DEF Top, TimeOut, Spurious, Resume, Goto
    <2>5. CASE Take(w, "pop", "run") \/ Take(w, "drain", "drainRun")
      BY <2>5 DEF Take, Goto
    <2>6. CASE \/ FindNone(w, "pop", "empty") \/ FindNone(w, "drain", "exited")
               \/ RunTask(w, "run", "top") \/ RunTask(w, "drainRun", "drain")
      BY <2>6 DEF FindNone, RunTask, Goto
    <2>7. QED
      BY <1>4, <2>1, <2>2, <2>3, <2>4, <2>5, <2>6 DEF WorkerStep
  <1>5. ASSUME UNCHANGED workers PROVE LockHeld'
    BY <1>5 DEF workers
  <1>6. QED
    BY <1>1, <1>2, <1>3, <1>4, <1>5 DEF Next, Cancel, Delay, Tick, vars

\* A timer that is left in the list was in it, at the same time.
TimersShrink == at' = at /\ \A i \in 1..Len(timers') :
                              \E j \in 1..Len(timers) : timers'[i] = timers[j]

\* cancel() and pop() only shorten the list of timers.
LEMMA CancelShrinks ==
  ASSUME IInv, NEW i \in 1..Len(timers), Cancel(i)
  PROVE  TimersShrink
  <1>1. /\ Len(timers') = Len(timers) - 1 /\ Len(timers) \in Nat
        /\ \A j \in 1..Len(timers) - 1 :
             timers'[j] = IF j < i THEN timers[j] ELSE timers[j + 1]
    BY RemoveAtElements, LenProperties DEF Cancel, IInv, TypeOK
  <1>2. at' = at
    BY DEF Cancel
  <1>3. ASSUME NEW j \in 1..Len(timers')
        PROVE  \E k \in 1..Len(timers) : timers'[j] = timers[k]
    BY <1>1
  <1>4. QED
    BY <1>2, <1>3 DEF TimersShrink

LEMMA PopShrinks ==
  ASSUME IInv, NEW t \in Task, Pop(t), at' = at
  PROVE  TimersShrink
  <1>1. CASE timers' = timers
    BY <1>1 DEF TimersShrink
  <1>2. CASE timers # <<>> /\ timers' = Front(timers)
    <2>1. /\ Len(timers') = Len(timers) - 1 /\ Len(timers) \in Nat
          /\ \A j \in 1..Len(timers) - 1 : timers'[j] = timers[j]
      BY <1>2, FrontElements, LenProperties DEF IInv, TypeOK
    <2>2. QED
      BY <2>1 DEF TimersShrink
  <1>3. QED
    BY <1>1, <1>2, PopEffect DEF IInv, TasksOK

\* No wake-up is lost.
LEMMA NextAwake ==
  ASSUME IInv, [Next]_vars, ~MayDelay
  PROVE  AboutToSleep' /\ Sleepers' /\ SomeoneAwake'
  <1> DEFINE Goal == AboutToSleep' /\ Sleepers' /\ SomeoneAwake'
  <1> USE PoolAssumption
  <1>t. /\ pc \in [Worker -> WorkerPC] /\ TypeOK
        /\ LockHeld /\ AboutToSleep /\ Sleepers /\ SomeoneAwake /\ Sorted
    BY DEF IInv, WorkersOK, TypeOK
  <1>1. ASSUME NEW t \in Task, Push(t) PROVE Goal
    <2>1. \A w \in Worker : pc'[w] # "next"
      BY <1>1, <1>t, NotifyMoves DEF Push, LockHeld
    <2>2. Waiting' # Worker
      BY <1>1, <1>t DEF Push, NotifyOne, Waiting
    <2>3. Sleepers'
      BY <1>1, <1>t, NotifyMoves DEF Push, Sleepers
    <2>4. QED
      BY <2>1, <2>2, <2>3 DEF AboutToSleep, SomeoneAwake
  <1>2. ASSUME NotifyAll, lock = NoOne PROVE Goal
    <2>1. \A w \in Worker : pc'[w] # "next" /\ pc'[w] # "wait"
      BY <1>2, <1>t DEF NotifyAll, LockHeld
    <2>2. QED
      BY <2>1 DEF AboutToSleep, Sleepers, SomeoneAwake, Waiting
  <1>3. ASSUME NEW i \in 1..Len(timers), Cancel(i) PROVE Goal
    <2>1. TimersShrink
      BY <1>3, CancelShrinks
    <2>2. UNCHANGED <<tasks, continue, pc, wake>>
      BY <1>3 DEF Cancel, workers
    <2>3. QED
      BY <1>t, <2>1, <2>2 DEF TimersShrink, AboutToSleep, Sleepers, SomeoneAwake, Waiting
  <1>4. ASSUME NEW w \in Worker, NEW from \in WorkerPC, NEW to \in WorkerPC,
               to \notin {"next", "wait"}, Take(w, from, to)
        PROVE  Goal
    <2>1. PICK t \in Task : Pop(t)
      BY <1>4 DEF Take
    <2>2. TimersShrink
      BY <1>4, <2>1, PopShrinks DEF Take
    <2>3. tasks = <<>> => tasks' = <<>>
      BY <2>1 DEF Pop
    <2>4. /\ pc'[w] \notin {"next", "wait"}
          /\ \A v \in Worker \ {w} : pc'[v] = pc[v]
          /\ UNCHANGED <<continue, wake>>
      BY <1>4, <1>t DEF Take, Goto
    <2>5. QED
      BY <1>t, <2>2, <2>3, <2>4
         DEF TimersShrink, AboutToSleep, Sleepers, SomeoneAwake, Waiting
  <1>5. ASSUME NEW w \in Worker, Check(w) PROVE Goal
    <2>1. CASE Goto(w, "next") /\ tasks = <<>> /\ continue
      <3>1. pc'[w] = "next" /\ \A v \in Worker \ {w} : pc'[v] = pc[v]
        BY <1>t, <2>1 DEF Goto
      <3>2. UNCHANGED <<tasks, timers, at, continue, wake>>
        BY <1>5 DEF Check, lists
      <3>3. QED
        BY <1>t, <2>1, <3>1, <3>2 DEF AboutToSleep, Sleepers, SomeoneAwake, Waiting
    <2>2. CASE Goto(w, "top") \/ Goto(w, "drain")
      <3>1. pc'[w] \in {"top", "drain"} /\ \A v \in Worker \ {w} : pc'[v] = pc[v]
        BY <1>t, <2>2 DEF Goto
      <3>2. UNCHANGED <<tasks, timers, at, continue, wake>>
        BY <1>5 DEF Check, lists
      <3>3. QED
        BY <1>t, <3>1, <3>2 DEF AboutToSleep, Sleepers, SomeoneAwake, Waiting
    <2>3. QED
      BY <1>5, <2>1, <2>2 DEF Check, Ready
  <1>6. ASSUME NEW w \in Worker, Sleep(w) PROVE Goal
    <2>1. tasks = <<>> /\ continue
      BY <1>6, <1>t DEF Sleep, AboutToSleep
    <2>2. /\ pc'[w] = "wait" /\ \A v \in Worker \ {w} : pc'[v] = pc[v]
          /\ UNCHANGED <<tasks, timers, at, continue>>
          /\ \A v \in Worker \ {w} : wake'[v] = wake[v]
          /\ timers # <<>> => wake'[w] = at[Last(timers)]
      BY <1>6, <1>t DEF Sleep, Goto, lists, TypeOK
    <2>3. \A i \in 1..Len(timers) : wake'[w] <= at[timers[i]]
      <3>1. SUFFICES ASSUME NEW i \in 1..Len(timers) PROVE wake'[w] <= at[timers[i]]
        OBVIOUS
      <3>2. timers \in Seq(Task) /\ Len(timers) \in Nat /\ timers # <<>>
        BY <1>t, <3>1, LenProperties DEF TypeOK
      <3>3. Last(timers) = timers[Len(timers)] /\ Len(timers) \in 1..Len(timers)
        BY <3>2, FrontElements
      <3>4. at[timers[i]] >= at[timers[Len(timers)]]
        <4>1. CASE i < Len(timers)
          BY <1>t, <3>3, <4>1 DEF Sorted
        <4>2. CASE i = Len(timers)
          <5>1. timers[i] \in Task
            BY <3>2, ElementOfSeq
          <5>2. at[timers[i]] \in Int
            BY <1>t, <5>1 DEF TypeOK, Time
          <5>3. QED
            BY <4>2, <5>2
        <4>3. QED
          BY <3>2, <4>1, <4>2
      <3>5. at[timers[i]] \in Int /\ at[timers[Len(timers)]] \in Int
        <4>1. timers[i] \in Task /\ timers[Len(timers)] \in Task
          BY <3>2, <3>3, ElementOfSeq
        <4>2. QED
          BY <1>t, <4>1 DEF TypeOK, Time
      <3>6. QED
        BY <2>2, <3>2, <3>3, <3>4, <3>5
    <2>4. QED
      BY <1>t, <2>1, <2>2, <2>3 DEF AboutToSleep, Sleepers, SomeoneAwake, Waiting
  <1>7. ASSUME NEW w \in Worker,
               \/ Top(w) \/ Lock(w) \/ TimeOut(w) \/ Spurious(w) \/ Resume(w)
               \/ FindNone(w, "pop", "empty") \/ FindNone(w, "drain", "exited")
               \/ RunTask(w, "run", "top") \/ RunTask(w, "drainRun", "drain")
        PROVE  Goal
    <2>1. /\ pc'[w] \notin {"next", "wait"}
          /\ \A v \in Worker \ {w} : pc'[v] = pc[v]
          /\ UNCHANGED <<tasks, timers, at, continue, wake>>
      BY <1>7, <1>t DEF Top, Lock, TimeOut, Spurious, Resume, FindNone, RunTask, Goto, lists
    <2>2. QED
      BY <1>t, <2>1 DEF AboutToSleep, Sleepers, SomeoneAwake, Waiting
  <1>8. ASSUME UNCHANGED <<tasks, timers, at, continue, pc, wake>> PROVE Goal
    BY <1>8, <1>t DEF AboutToSleep, Sleepers, SomeoneAwake, Waiting
  <1>9. {"pop", "run", "drain", "drainRun"} \subseteq WorkerPC
    BY DEF WorkerPC
  <1> HIDE DEF Goal
  <1>10. CASE Next
    <2>1. ASSUME NEW w \in Worker, WorkerStep(w) \/ Spurious(w) PROVE Goal
      <3>1. CASE Take(w, "pop", "run")
        BY <1>4, <1>9, <3>1
      <3>2. CASE Take(w, "drain", "drainRun")
        BY <1>4, <1>9, <3>2
      <3>3. QED
        BY <1>5, <1>6, <1>7, <2>1, <3>1, <3>2 DEF WorkerStep
    <2>2. ASSUME Stop PROVE Goal
      BY <1>2, <2>2 DEF Stop
    <2>3. ASSUME NEW t \in Task, NEW time \in Time, PushDelayed(t, time) PROVE Goal
      BY <1>2, <2>3 DEF PushDelayed
    <2>4. ASSUME Tick PROVE Goal
      BY <1>8, <2>4 DEF Tick, lists, workers
    <2>5. ASSUME NEW i \in 1..Len(timers),
                 Cancel(i) \/ \E time \in Time : Delay(i, time)
          PROVE  Goal
      BY <1>3, <2>5 DEF Delay
    <2>6. ASSUME NEW t \in Task, Push(t) \/ \E time \in Time : PushDelayed(t, time)
          PROVE  Goal
      BY <1>1, <2>3, <2>6
    <2>7. QED
      BY <1>10, <2>1, <2>2, <2>4, <2>5, <2>6 DEF Next, Goal
  <1>11. QED
    BY <1>8, <1>10 DEF vars, lists, workers, Goal

\* Workers go only after stop(), and leave nothing that was pushed before it.
LEMMA NextLeaving ==
  ASSUME IInv, [Next]_vars, ~MayDelay
  PROVE  Leaving' /\ DrainedAtExit'
  <1> USE PoolAssumption
  <1>t. TypeOK /\ pc \in [Worker -> WorkerPC] /\ Leaving /\ DrainedAtExit
    BY DEF IInv, WorkersOK, TypeOK
  <1> DEFINE Quiet == /\ \A w \in Worker : pc'[w] \in {"drain", "drainRun", "exited"}
                                        => pc[w] \in {"drain", "drainRun", "exited"}
                      /\ \A w \in Worker : pc'[w] = "exited" => pc[w] = "exited"
                      /\ continue' = continue \/ ~continue'
             Goal == Leaving' /\ DrainedAtExit'
  <1>1. ASSUME Quiet, UNCHANGED <<tasks, late>> PROVE Goal
    BY <1>1, <1>t DEF Leaving, DrainedAtExit
  <1>2. ASSUME NEW t \in Task, Push(t) PROVE Goal
    <2>1. Quiet
      BY <1>2, <1>t, NotifyMoves DEF Push
    <2>2. Range(tasks') = Range(tasks) \union {t}
      BY <1>2, <1>t, AppendRange DEF Push, TypeOK
    <2>3. CASE continue
      <3>1. \E w \in Worker : pc[w] # "exited"
        BY <1>t, <2>3 DEF Leaving
      <3>2. QED
        BY <1>2, <1>t, <2>1, <3>1 DEF Leaving, DrainedAtExit, Push
    <2>4. CASE ~continue
      BY <1>2, <1>t, <2>1, <2>2, <2>4 DEF Leaving, DrainedAtExit, Push
    <2>5. QED
      BY <2>3, <2>4
  <1>3. ASSUME NEW t \in Task, NEW time \in Time, PushDelayed(t, time) PROVE Goal
    <2>1. Quiet /\ tasks' = tasks /\ late \subseteq late'
      BY <1>3, <1>t, NotifyMoves DEF PushDelayed
    <2>2. QED
      BY <1>t, <2>1 DEF Leaving, DrainedAtExit
  <1>4. ASSUME Stop PROVE Goal
    <2>1. Quiet /\ UNCHANGED <<tasks, late>>
      BY <1>4, <1>t, NotifyMoves DEF Stop, lists
    <2>2. QED
      BY <1>1, <2>1
  <1>5. ASSUME NEW w \in Worker, WorkerStep(w) \/ Spurious(w) PROVE Goal
    <2>1. CASE Take(w, "pop", "run") \/ Take(w, "drain", "drainRun")
      <3>1. /\ pc'[w] # "exited" /\ \A v \in Worker \ {w} : pc'[v] = pc[v]
            /\ pc'[w] = "drainRun" => pc[w] = "drain"
            /\ pc'[w] \notin {"drain", "exited"} /\ continue' = continue
        BY <1>t, <2>1 DEF Take, Goto
      <3>2. QED
        BY <1>t, <3>1 DEF Leaving, DrainedAtExit
    <2>2. CASE FindNone(w, "drain", "exited")
      <3>1. tasks = <<>> /\ tasks' = tasks
        BY <2>2 DEF FindNone, Ready, lists
      <3>2. Range(tasks') = {}
        BY <3>1 DEF Range
      <3>3. /\ pc[w] = "drain" /\ \A v \in Worker \ {w} : pc'[v] = pc[v]
            /\ continue' = continue
        BY <1>t, <2>2 DEF FindNone, Goto
      <3>4. QED
        BY <1>t, <3>2, <3>3 DEF Leaving, DrainedAtExit
    <2>3. CASE (Top(w) \/ Check(w)) /\ ~continue
      <3>1. /\ pc'[w] # "exited" /\ \A v \in Worker \ {w} : pc'[v] = pc[v]
            /\ ~continue'
        BY <1>t, <2>3 DEF Top, Check, Goto
      <3>2. QED
        BY <1>t, <3>1 DEF Leaving, DrainedAtExit
    <2>4. CASE (Top(w) \/ Check(w)) /\ continue
      <3>1. Quiet /\ UNCHANGED <<tasks, late>>
        BY <1>t, <2>4 DEF Top, Check, Goto, lists
      <3>2. QED
        BY <1>1, <3>1
    <2>5. CASE \/ Lock(w) \/ Sleep(w) \/ TimeOut(w) \/ Resume(w) \/ Spurious(w)
               \/ FindNone(w, "pop", "empty")
               \/ RunTask(w, "run", "top") \/ RunTask(w, "drainRun", "drain")
      <3>1. Quiet /\ UNCHANGED <<tasks, late>>
        BY <1>t, <2>5 DEF Lock, Sleep, TimeOut, Resume, Spurious, FindNone, RunTask, Goto, lists
      <3>2. QED
        BY <1>1, <3>1
    <2>6. QED
      BY <1>5, <2>1, <2>2, <2>3, <2>4, <2>5 DEF WorkerStep
  <1>6. ASSUME UNCHANGED <<tasks, late, continue, pc>> PROVE Goal
    BY <1>1, <1>6
  <1>7. ASSUME NEW i \in 1..Len(timers), Cancel(i) PROVE Goal
    BY <1>6, <1>7 DEF Cancel, workers
  <1>8. ASSUME Tick \/ UNCHANGED vars PROVE Goal
    BY <1>6, <1>8 DEF Tick, vars, lists, workers
  <1> HIDE DEF Goal
  <1>9. Goal
    BY <1>2, <1>3, <1>4, <1>5, <1>7, <1>8 DEF Next, Delay
  <1>10. QED
    BY <1>9 DEF Goal

\* What the tasks' bookkeeping sees of a step that moves no task.
LEMMA QuietSteps ==
  ASSUME IInv, [Next]_vars, ~MayDelay
  PROVE  \/ \E t \in Task : Push(t)
         \/ \E t \in Task, time \in Time : PushDelayed(t, time)
         \/ \E i \in 1..Len(timers) : Cancel(i)
         \/ \E w \in Worker : Take(w, "pop", "run") \/ Take(w, "drain", "drainRun")
         \/ \E w \in Worker : RunTask(w, "run", "top") \/ RunTask(w, "drainRun", "drain")
         \/ Tick
         \/ /\ UNCHANGED <<now, tasks, timers, at, submitted, cur>>
            /\ \A w \in Worker : pc'[w] \in {"run", "drainRun"} <=> pc[w] \in {"run", "drainRun"}
  <1> DEFINE Quiet == /\ UNCHANGED <<now, tasks, timers, at, submitted, cur>>
                      /\ \A w \in Worker :
                           pc'[w] \in {"run", "drainRun"} <=> pc[w] \in {"run", "drainRun"}
  <1>t. TypeOK /\ pc \in [Worker -> WorkerPC]
    BY DEF IInv, TypeOK
  <1>1. ASSUME Stop PROVE Quiet
    BY <1>1, <1>t, NotifyMoves DEF Stop, lists
  <1>2. ASSUME NEW w \in Worker,
               \/ Top(w) \/ Lock(w) \/ Check(w) \/ Sleep(w) \/ TimeOut(w) \/ Resume(w)
               \/ Spurious(w) \/ FindNone(w, "pop", "empty") \/ FindNone(w, "drain", "exited")
        PROVE  Quiet
    BY <1>2, <1>t DEF Top, Lock, Check, Sleep, TimeOut, Resume, Spurious, FindNone, Goto, lists
  <1>3. ASSUME UNCHANGED vars PROVE Quiet
    BY <1>3 DEF vars, lists, workers
  <1> HIDE DEF Quiet
  <1>4. ASSUME NEW w \in Worker, WorkerStep(w) \/ Spurious(w)
        PROVE  \/ Take(w, "pop", "run") \/ Take(w, "drain", "drainRun")
               \/ RunTask(w, "run", "top") \/ RunTask(w, "drainRun", "drain")
               \/ Quiet
    BY <1>2, <1>4 DEF WorkerStep
  <1>5. CASE Next
    BY <1>1, <1>4, <1>5 DEF Next, Delay, Quiet
  <1>6. QED
    BY <1>3, <1>5 DEF Quiet

\* No task is queued or run twice.
LEMMA NextTasks ==
  ASSUME IInv, [Next]_vars, ~MayDelay
  PROVE  TasksOK'
  <1> USE PoolAssumption
  <1> DEFINE queued == Range(tasks) \union Range(timers)
  <1>t. /\ OneCopy /\ Known /\ RunsOne /\ InTime
        /\ tasks \in Seq(Task) /\ timers \in Seq(Task)
        /\ pc \in [Worker -> WorkerPC] /\ cur \in [Worker -> Task \union {NoTask}]
        /\ at \in [Task -> Time] /\ now \in Nat /\ submitted \subseteq Task
        /\ TypeOK
    BY DEF IInv, TasksOK, TypeOK, Time
  <1>r. Range(tasks) \subseteq Task /\ Range(timers) \subseteq Task
    BY <1>t, RangeElements
  <1>1. ASSUME NEW t \in Task, Push(t) PROVE TasksOK'
    <2>1. t \notin queued /\ \A w \in Worker : cur[w] # t
      BY <1>1, <1>t DEF Push, Known
    <2>2. Range(tasks') = Range(tasks) \union {t} /\ IsInjective(tasks')
      BY <1>1, <1>t, <2>1, AppendRange DEF Push, OneCopy
    <2>3. UNCHANGED <<now, timers, at, cur>> /\ submitted' = submitted \union {t}
      BY <1>1 DEF Push
    <2>4. OneCopy'
      BY <1>t, <2>1, <2>2, <2>3 DEF OneCopy
    <2>5. Known'
      BY <1>t, <2>2, <2>3 DEF Known
    <2>6. RunsOne'
      <3>1. \A w \in Worker : pc'[w] = pc[w] \/ (pc[w] = "wait" /\ pc'[w] = "woken")
        BY <1>1, <1>t, NotifyMoves DEF Push
      <3>2. QED
        BY <1>t, <2>3, <3>1 DEF RunsOne
    <2>7. InTime'
      BY <1>1, <1>t, <2>2, <2>3 DEF InTime, Push
    <2>8. QED
      BY <2>4, <2>5, <2>6, <2>7 DEF TasksOK
  <1>2. ASSUME NEW t \in Task, NEW time \in Time, PushDelayed(t, time) PROVE TasksOK'
    <2>1. t \notin queued /\ \A w \in Worker : cur[w] # t
      BY <1>2, <1>t DEF PushDelayed, Known
    <2>2. Range(timers') = Range(timers) \union {t} /\ IsInjective(timers')
      <3>1. PICK i \in 1..Len(timers) + 1 : timers' = InsertAt(timers, i, t)
        BY <1>2 DEF PushDelayed
      <3>2. QED
        BY <1>t, <2>1, <3>1, InsertRange DEF OneCopy
    <2>3. /\ UNCHANGED <<now, tasks, cur>> /\ submitted' = submitted \union {t}
          /\ \A u \in Task \ {t} : at'[u] = at[u]
      BY <1>2, <1>t DEF PushDelayed
    <2>4. OneCopy'
      BY <1>t, <2>1, <2>2, <2>3 DEF OneCopy
    <2>5. Known'
      BY <1>t, <2>2, <2>3 DEF Known
    <2>6. RunsOne'
      <3>1. \A w \in Worker : pc'[w] = pc[w] \/ (pc[w] = "wait" /\ pc'[w] = "woken")
        BY <1>2, <1>t, NotifyMoves DEF PushDelayed
      <3>2. QED
        BY <1>t, <2>3, <3>1 DEF RunsOne
    <2>7. InTime'
      BY <1>t, <1>r, <2>1, <2>3 DEF InTime
    <2>8. QED
      BY <2>4, <2>5, <2>6, <2>7 DEF TasksOK
  <1>3. ASSUME NEW i \in 1..Len(timers), Cancel(i) PROVE TasksOK'
    <2>1. Range(timers') = Range(timers) \ {timers[i]} /\ IsInjective(timers')
      BY <1>3, <1>t, RemoveRange DEF Cancel, OneCopy
    <2>2. UNCHANGED <<now, tasks, at, submitted, cur, pc>>
      BY <1>3 DEF Cancel, workers
    <2>3. OneCopy'
      BY <1>t, <2>1, <2>2 DEF OneCopy
    <2>4. Known' /\ RunsOne' /\ InTime'
      BY <1>t, <2>1, <2>2 DEF Known, RunsOne, InTime
    <2>5. QED
      BY <2>3, <2>4 DEF TasksOK
  <1>4. ASSUME NEW w \in Worker, Take(w, "pop", "run") \/ Take(w, "drain", "drainRun")
        PROVE  TasksOK'
    <2>1. PICK t \in Task : Pop(t) /\ cur' = [cur EXCEPT ![w] = t]
      BY <1>4 DEF Take
    <2>2. /\ IsInjective(tasks') /\ IsInjective(timers') /\ t \in queued
          /\ Range(tasks') = Range(tasks) \ {t} /\ Range(timers') = Range(timers) \ {t}
      BY <1>t, <2>1, PopEffect
    <2>3. /\ cur'[w] = t /\ \A v \in Worker \ {w} : cur'[v] = cur[v]
          /\ pc'[w] \in {"run", "drainRun"} /\ \A v \in Worker \ {w} : pc'[v] = pc[v]
          /\ UNCHANGED <<now, at, submitted>>
      BY <1>4, <1>t, <2>1 DEF Take, Goto
    <2>4. t # NoTask /\ \A v \in Worker : cur[v] # t
      BY <1>t, <2>2 DEF OneCopy
    <2>5. OneCopy'
      BY <1>t, <2>2, <2>3, <2>4 DEF OneCopy
    <2>6. Known' /\ InTime'
      BY <1>t, <2>2, <2>3 DEF Known, InTime
    <2>7. RunsOne'
      BY <1>t, <2>3, <2>4 DEF RunsOne
    <2>8. QED
      BY <2>5, <2>6, <2>7 DEF TasksOK
  <1>5. ASSUME NEW w \in Worker, RunTask(w, "run", "top") \/ RunTask(w, "drainRun", "drain")
        PROVE  TasksOK'
    <2>1. /\ cur'[w] = NoTask /\ \A v \in Worker \ {w} : cur'[v] = cur[v]
          /\ pc'[w] \in {"top", "drain"} /\ \A v \in Worker \ {w} : pc'[v] = pc[v]
          /\ UNCHANGED <<now, tasks, timers, at, submitted>>
      BY <1>5, <1>t DEF RunTask, Goto, lists
    <2>2. OneCopy'
      BY <1>t, <1>r, <2>1 DEF OneCopy
    <2>3. Known' /\ InTime'
      BY <1>t, <2>1 DEF Known, InTime
    <2>4. RunsOne'
      BY <1>t, <2>1 DEF RunsOne
    <2>5. QED
      BY <2>2, <2>3, <2>4 DEF TasksOK
  <1>6. ASSUME Tick PROVE TasksOK'
    <2>1. now' = now + 1 /\ UNCHANGED <<tasks, timers, at, submitted, cur, pc>>
      BY <1>6 DEF Tick, lists, workers
    <2>2. \A u \in Task : at[u] \in Int
      BY <1>t DEF Time
    <2>3. InTime'
      BY <1>t, <1>r, <2>1, <2>2 DEF InTime
    <2>4. OneCopy' /\ Known' /\ RunsOne'
      BY <1>t, <2>1 DEF OneCopy, Known, RunsOne
    <2>5. QED
      BY <2>3, <2>4 DEF TasksOK
  <1>7. ASSUME UNCHANGED <<now, tasks, timers, at, submitted, cur>>,
               \A w \in Worker : pc'[w] \in {"run", "drainRun"} <=> pc[w] \in {"run", "drainRun"}
        PROVE  TasksOK'
    BY <1>7, <1>t DEF TasksOK, OneCopy, Known, RunsOne, InTime
  <1>8. QED
    BY <1>1, <1>2, <1>3, <1>4, <1>5, <1>6, <1>7, QuietSteps

\* Every step keeps the inductive invariant.
LEMMA NextIInv ==
  ASSUME IInv, [Next]_vars, ~MayDelay
  PROVE  IInv'
  <1>1. TypeOK'
    BY NextListTypes, NextWorkerTypes DEF TypeOK, Time
  <1>2. WorkersOK'
    BY NextLockHeld, NextAwake, NextLeaving DEF WorkersOK
  <1>3. QED
    BY <1>1, <1>2, NextSorted, NextTasks DEF IInv

LEMMA AlwaysIInv ==
  ASSUME ~MayDelay
  PROVE  Spec => []IInv
  <1>1. IInv /\ [Next]_vars => IInv'
    BY NextIInv
  <1>2. QED
    BY InitIInv, <1>1, PTL DEF Spec

-----------------------------------------------------------------------------
(* The theorems *)

\* The variables of the pool keep their types.
THEOREM Typing == ASSUME ~MayDelay PROVE Spec => []TypeOK
  <1>1. IInv => TypeOK
    BY DEF IInv
  <1>2. QED
    BY <1>1, AlwaysIInv, PTL

\* pushDelayed(), cancel() and pop() keep the soonest timer at the back, where
\* ready(), next() and pop() look for it.
THEOREM Ordered == ASSUME ~MayDelay PROVE Spec => []Sorted
  <1>1. IInv => Sorted
    BY DEF IInv
  <1>2. QED
    BY <1>1, AlwaysIInv, PTL

\* A task is queued or run in one place only: it is never run twice.
THEOREM Once == ASSUME ~MayDelay PROVE Spec => []OneCopy
  <1>1. IInv => OneCopy
    BY DEF IInv, TasksOK
  <1>2. QED
    BY <1>1, AlwaysIInv, PTL

\* When all workers sleep there is nothing to run, and all wake in time for
\* the soonest timer, although push() wakes one and _main() looks at the lists
\* in three separate calls.
THEOREM NoLostWakeup == ASSUME ~MayDelay PROVE Spec => []NoOversleep
  <1>1. IInv => NoOversleep
    <2>1. SUFFICES ASSUME IInv, Waiting = Worker PROVE NoOversleep
      BY DEF NoOversleep
    <2>2. PICK w \in Worker : pc[w] = "wait"
      BY <2>1, PoolAssumption DEF Waiting
    <2>3. tasks = <<>>
      BY <2>1 DEF IInv, WorkersOK, SomeoneAwake
    <2>4. continue /\ \A i \in 1..Len(timers) : wake[w] <= at[timers[i]]
      BY <2>1, <2>2 DEF IInv, WorkersOK, Sleepers
    <2>5. QED
      BY <2>3, <2>4 DEF NoOversleep
  <1>2. QED
    BY <1>1, AlwaysIInv, PTL

\* join() returns with no task left that was pushed before stop().
THEOREM Drained == ASSUME ~MayDelay PROVE Spec => []DrainedAtExit
  <1>1. IInv => DrainedAtExit
    BY DEF IInv, WorkersOK
  <1>2. QED
    BY <1>1, AlwaysIInv, PTL

\* Start states are start states of the board.
LEMMA BoardInit == Init => Board!Init
  BY DEF Init, Board!Init, Range

\* The board sees every step of the pool as one of its own, or as none.
LEMMA BoardNext ==
  ASSUME IInv, [Next]_vars, ~MayDelay
  PROVE  [Board!Next]_(Board!vars)
  <1> DEFINE P == Range(tasks) \union Range(timers)
             R == {cur[w] : w \in Worker} \ {NoTask}
  <1> USE PoolAssumption
  <1>t. /\ OneCopy /\ Known /\ RunsOne /\ InTime /\ TypeOK
        /\ tasks \in Seq(Task) /\ timers \in Seq(Task)
        /\ cur \in [Worker -> Task \union {NoTask}]
        /\ at \in [Task -> 0..MaxTime]
    BY DEF IInv, TasksOK, TypeOK, Time
  <1>1. ASSUME NEW t \in Task, Push(t) PROVE Board!Next
    <2>1. Range(tasks') = Range(tasks) \union {t}
      BY <1>1, <1>t, AppendRange DEF Push
    <2>2. P' = P \union {t} /\ R' = R
      BY <1>1, <2>1 DEF Push
    <2>3. at' = [at EXCEPT ![t] = at[t]] /\ at[t] \in 0..MaxTime
      BY <1>1, <1>t DEF Push
    <2>4. Board!Submit(t, at[t])
      BY <1>1, <2>2, <2>3 DEF Push, Board!Submit
    <2>5. QED
      BY <2>3, <2>4 DEF Board!Next
  <1>2. ASSUME NEW t \in Task, NEW time \in Time, PushDelayed(t, time) PROVE Board!Next
    <2>1. PICK i \in 1..Len(timers) + 1 : timers' = InsertAt(timers, i, t)
      BY <1>2 DEF PushDelayed
    <2>2. Range(timers') = Range(timers) \union {t}
      BY <1>t, <2>1, InsertRange
    <2>3. P' = P \union {t} /\ R' = R
      BY <1>2, <2>2 DEF PushDelayed
    <2>4. Board!Submit(t, time)
      BY <1>2, <2>3 DEF PushDelayed, Board!Submit
    <2>5. QED
      BY <2>4 DEF Board!Next, Time
  <1>3. ASSUME NEW i \in 1..Len(timers), Cancel(i) PROVE Board!Next
    <2>1. /\ Range(timers') = Range(timers) \ {timers[i]}
          /\ timers[i] \in Range(timers) /\ timers[i] \in Task
      BY <1>3, <1>t, RemoveRange, RangeElements, ElementOfSeq DEF Cancel, OneCopy
    <2>2. timers[i] \notin Range(tasks)
      BY <1>t, <2>1 DEF OneCopy
    <2>3. P' = P \ {timers[i]} /\ R' = R
      BY <1>3, <2>1, <2>2 DEF Cancel, workers
    <2>4. Board!Cancel(timers[i])
      BY <1>3, <2>1, <2>3 DEF Cancel, Board!Cancel
    <2>5. QED
      BY <2>1, <2>4 DEF Board!Next
  <1>4. ASSUME NEW w \in Worker, Take(w, "pop", "run") \/ Take(w, "drain", "drainRun")
        PROVE  Board!Next
    <2>1. PICK t \in Task : Pop(t) /\ cur' = [cur EXCEPT ![w] = t]
      BY <1>4 DEF Take
    <2>2. /\ t \in P /\ Range(tasks') = Range(tasks) \ {t}
          /\ Range(timers') = Range(timers) \ {t}
          /\ t \in Range(timers) => at[t] <= now
      BY <1>t, <2>1, PopEffect
    <2>3. at[t] <= now
      BY <1>t, <2>2 DEF InTime
    <2>4. cur[w] = NoTask /\ UNCHANGED <<now, at, submitted>>
      BY <1>4, <1>t DEF Take, RunsOne
    <2>5. P' = P \ {t}
      BY <2>2
    <2>6. R' = R \union {t}
      BY <1>t, <2>1, <2>4
    <2>7. Board!Start(t)
      BY <2>2, <2>3, <2>4, <2>5, <2>6 DEF Board!Start
    <2>8. QED
      BY <2>7 DEF Board!Next
  <1>5. ASSUME NEW w \in Worker, RunTask(w, "run", "top") \/ RunTask(w, "drainRun", "drain")
        PROVE  Board!Next
    <2>1. PICK t \in Task : cur[w] = t
      BY <1>5, <1>t DEF RunTask, RunsOne
    <2>2. /\ cur' = [cur EXCEPT ![w] = NoTask]
          /\ UNCHANGED <<now, tasks, timers, at, submitted>>
      BY <1>5 DEF RunTask, lists
    <2>3. P' = P
      BY <2>2
    <2>4. R' = R \ {t} /\ t \in R
      BY <1>t, <2>1, <2>2 DEF OneCopy
    <2>5. Board!Finish(t)
      BY <2>2, <2>3, <2>4 DEF Board!Finish
    <2>6. QED
      BY <2>5 DEF Board!Next
  <1>6. ASSUME Tick PROVE Board!Next
    BY <1>6 DEF Tick, lists, workers, Board!Next, Board!Tick
  <1>7. ASSUME UNCHANGED <<now, tasks, timers, at, submitted, cur>>
        PROVE  UNCHANGED Board!vars
    BY <1>7 DEF Board!vars
  <1>8. QED
    BY <1>1, <1>2, <1>3, <1>4, <1>5, <1>6, <1>7, QuietSteps

\* The two lists, two mutexes and the condition variable keep the promise of
\* TaskBoard: a task runs once, when due, unless it was cancelled before.
THEOREM Implements == ASSUME ~MayDelay PROVE Spec => ImplementsBoard
  <1>1. IInv /\ [Next]_vars => [Board!Next]_(Board!vars)
    BY BoardNext
  <1>2. QED
    BY BoardInit, <1>1, AlwaysIInv, PTL DEF Spec, ImplementsBoard, Board!Spec
=============================================================================
