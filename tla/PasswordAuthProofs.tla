-------------------------- MODULE PasswordAuthProofs --------------------------
(***************************************************************************)
(* Proofs about PasswordAuth for any number of requests, cookies and       *)
(* tokens and any size of the pool.                                        *)
(***************************************************************************)
EXTENDS PasswordAuth, FiniteSetTheorems, SequenceTheorems, TLAPS

-------------------------------------------------------------------------------
(***************************************************************************)
(* Queues: what their elements are, and that none is there twice.          *)
(***************************************************************************)

Elements(q) == {q[i] : i \in 1..Len(q)}
Distinct(q) == \A i, j \in 1..Len(q) : q[i] = q[j] => i = j

\* Whoever is new to a queue joins it without doubling anyone.
LEMMA Joining ==
  ASSUME NEW S, NEW q \in Seq(S), Distinct(q), NEW e \in S, e \notin Elements(q)
  PROVE  /\ Append(q, e) \in Seq(S) /\ Len(Append(q, e)) = Len(q) + 1
         /\ Elements(Append(q, e)) = Elements(q) \cup {e}
         /\ Distinct(Append(q, e))
<1> DEFINE a == Append(q, e)
<1>1. /\ a \in Seq(S) /\ Len(a) = Len(q) + 1
      /\ \A i \in 1..Len(q) : a[i] = q[i]
      /\ a[Len(q) + 1] = e /\ Len(q) \in Nat
  BY AppendProperties, LenProperties
<1> HIDE DEF a
<1>2. Elements(a) = Elements(q) \cup {e}
  <2>1. ASSUME NEW x \in Elements(a) PROVE x \in Elements(q) \cup {e}
    BY <1>1 DEF Elements
  <2>2. ASSUME NEW x \in Elements(q) PROVE x \in Elements(a)
    BY <1>1 DEF Elements
  <2>3. e \in Elements(a)
    BY <1>1 DEF Elements
  <2> QED
    BY <2>1, <2>2, <2>3
<1>3. Distinct(a)
  BY <1>1 DEF Distinct, Elements
<1> QED
  BY <1>1, <1>2, <1>3 DEF a

\* What a stretch of a sequence is.
LEMMA Cut ==
  ASSUME NEW S, NEW q \in Seq(S), NEW m \in Nat, NEW n \in Nat, m >= 1, n <= Len(q), m <= n + 1
  PROVE  /\ SubSeq(q, m, n) \in Seq(S)
         /\ Len(SubSeq(q, m, n)) = n - m + 1
         /\ \A j \in 1..n - m + 1 : SubSeq(q, m, n)[j] = q[m + j - 1]
<1>1. \A j \in m..n : q[j] \in S
  OBVIOUS
<1>2. SubSeq(q, m, n) \in Seq(S)
  BY <1>1
<1>3. Len(SubSeq(q, m, n)) = n - m + 1
  BY <1>1
<1>4. \A j \in 1..n - m + 1 : SubSeq(q, m, n)[j] = q[m + j - 1]
  BY <1>1
<1> QED
  BY <1>2, <1>3, <1>4

\* What two sequences make together.
LEMMA Glue ==
  ASSUME NEW S, NEW b \in Seq(S), NEW c \in Seq(S)
  PROVE  /\ b \o c \in Seq(S) /\ Len(b \o c) = Len(b) + Len(c)
         /\ \A j \in 1..Len(b) : (b \o c)[j] = b[j]
         /\ \A j \in 1..Len(c) : (b \o c)[j + Len(b)] = c[j]
OBVIOUS

\* Whoever leaves a queue from place i leaves the others in it.
LEMMA Leaving ==
  ASSUME NEW S, NEW q \in Seq(S), Distinct(q), NEW i \in 1..Len(q)
  PROVE  LET a == SubSeq(q, 1, i - 1) \o SubSeq(q, i + 1, Len(q))
         IN /\ a \in Seq(S) /\ Len(a) = Len(q) - 1
            /\ Elements(a) = Elements(q) \ {q[i]}
            /\ Distinct(a)
<1> DEFINE before == SubSeq(q, 1, i - 1)
           after == SubSeq(q, i + 1, Len(q))
           a == before \o after
<1>1. Len(q) \in Nat /\ i \in Nat /\ i >= 1 /\ i <= Len(q)
  BY LenProperties
<1>2. /\ before \in Seq(S) /\ Len(before) = i - 1
      /\ \A j \in 1..(i - 1) : before[j] = q[j]
  <2>1. i - 1 \in Nat /\ 1 \in Nat /\ 1 >= 1 /\ i - 1 <= Len(q) /\ 1 <= i - 1 + 1 /\ (i - 1) - 1 + 1 = i - 1
    BY <1>1
  <2>2. /\ before \in Seq(S) /\ Len(before) = i - 1 - 1 + 1
        /\ \A j \in 1..i - 1 - 1 + 1 : before[j] = q[1 + j - 1]
    BY <2>1, Cut
  <2> QED
    BY <1>1, <2>1, <2>2
<1>3. /\ after \in Seq(S) /\ Len(after) = Len(q) - i
      /\ \A j \in 1..(Len(q) - i) : after[j] = q[i + j]
  <2>1. i + 1 \in Nat /\ i + 1 >= 1 /\ Len(q) <= Len(q) /\ i + 1 <= Len(q) + 1
    BY <1>1
  <2>2. /\ after \in Seq(S) /\ Len(after) = Len(q) - (i + 1) + 1
        /\ \A j \in 1..Len(q) - (i + 1) + 1 : after[j] = q[(i + 1) + j - 1]
    BY <1>1, <2>1, Cut
  <2> QED
    BY <1>1, <2>2
<1> HIDE DEF before, after
<1>4. /\ a \in Seq(S) /\ Len(a) = Len(before) + Len(after)
      /\ \A j \in 1..Len(before) : a[j] = before[j]
      /\ \A j \in 1..Len(after) : a[j + Len(before)] = after[j]
  <2>1. before \in Seq(S) /\ after \in Seq(S)
    BY <1>2, <1>3
  <2> QED
    BY <2>1, Glue
<1> HIDE DEF a
<1>5. /\ a \in Seq(S) /\ Len(a) = Len(q) - 1
      /\ \A j \in 1..(i - 1) : a[j] = q[j]
      /\ \A j \in i..(Len(q) - 1) : a[j] = q[j + 1]
  <2>1. a \in Seq(S) /\ Len(a) = Len(q) - 1 /\ \A j \in 1..(i - 1) : a[j] = q[j]
    BY <1>1, <1>2, <1>3, <1>4
  <2>2. ASSUME NEW j \in i..(Len(q) - 1) PROVE a[j] = q[j + 1]
    <3> DEFINE k == j - (i - 1)
    <3>1. Len(before) = i - 1 /\ Len(after) = Len(q) - i
      BY <1>2, <1>3
    <3>2. k \in 1..(Len(q) - i) /\ k + (i - 1) = j /\ i + k = j + 1
      BY <1>1
    <3> HIDE DEF k
    <3>3. a[k + (i - 1)] = after[k] /\ after[k] = q[i + k]
      BY <1>3, <1>4, <3>1, <3>2
    <3> QED
      BY <3>2, <3>3
  <2> QED
    BY <2>1, <2>2
<1>6. Elements(a) = Elements(q) \ {q[i]}
  <2>1. ASSUME NEW j \in 1..Len(a) PROVE a[j] \in Elements(q) \ {q[i]}
    <3>1. CASE j < i
      BY <1>1, <1>5, <3>1 DEF Distinct, Elements
    <3>2. CASE j >= i
      <4>1. j \in i..(Len(q) - 1) /\ j + 1 \in 1..Len(q) /\ j + 1 # i
        BY <1>1, <1>5, <3>2
      <4> QED
        BY <1>1, <1>5, <4>1 DEF Distinct, Elements
    <3> QED
      BY <1>1, <1>5, <3>1, <3>2
  <2>2. ASSUME NEW j \in 1..Len(q), j # i PROVE q[j] \in Elements(a)
    <3>1. CASE j < i
      BY <1>1, <1>5, <3>1 DEF Elements
    <3>2. CASE j > i
      <4>1. j - 1 \in i..(Len(q) - 1) /\ j - 1 \in 1..Len(a) /\ (j - 1) + 1 = j
        BY <1>1, <1>5, <3>2
      <4> QED
        BY <1>5, <4>1 DEF Elements
    <3> QED
      BY <1>1, <2>2, <3>1, <3>2
  <2> QED
    BY <2>1, <2>2 DEF Elements
<1>7. Distinct(a)
  <2> SUFFICES ASSUME NEW j \in 1..Len(a), NEW k \in 1..Len(a), a[j] = a[k] PROVE j = k
    BY DEF Distinct
  <2> DEFINE Old(n) == IF n < i THEN n ELSE n + 1
  <2>1. \A n \in 1..Len(a) : Old(n) \in 1..Len(q) /\ a[n] = q[Old(n)]
    BY <1>1, <1>5
  <2>2. Old(j) = Old(k)
    <3> HIDE DEF Old
    <3> QED
      BY <2>1 DEF Distinct
  <2> QED
    BY <1>1, <1>5, <2>2
<1> QED
  BY <1>5, <1>6, <1>7 DEF a, before, after

\* The head of a queue is the one that a single place sets free.
LEMMA Starting ==
  ASSUME NEW S, NEW q \in Seq(S), Distinct(q), q # <<>>
  PROVE  LET a == SubSeq(q, 2, Len(q))
         IN /\ a \in Seq(S) /\ Len(a) = Len(q) - 1
            /\ Elements(a) = Elements(q) \ {q[1]}
            /\ Distinct(a)
<1> DEFINE a == SubSeq(q, 2, Len(q))
<1>1. Len(q) \in Nat /\ Len(q) >= 1
  BY EmptySeq
<1>2. /\ a \in Seq(S) /\ Len(a) = Len(q) - 1
      /\ \A j \in 1..(Len(q) - 1) : a[j] = q[j + 1]
  BY HeadTailProperties, TailIsSubSeq
<1> HIDE DEF a
<1>3. Elements(a) = Elements(q) \ {q[1]}
  <2>1. ASSUME NEW j \in 1..Len(a) PROVE a[j] \in Elements(q) \ {q[1]}
    <3>1. j + 1 \in 1..Len(q) /\ 1 \in 1..Len(q) /\ j + 1 # 1 /\ a[j] = q[j + 1]
      BY <1>1, <1>2
    <3> QED
      BY <3>1 DEF Distinct, Elements
  <2>2. ASSUME NEW j \in 1..Len(q), j # 1 PROVE q[j] \in Elements(a)
    <3>1. j - 1 \in 1..(Len(q) - 1) /\ (j - 1) + 1 = j
      BY <1>1, <2>2
    <3> QED
      BY <1>2, <3>1 DEF Elements
  <2> QED
    BY <2>1, <2>2 DEF Elements
<1>4. Distinct(a)
  BY <1>1, <1>2 DEF Distinct
<1> QED
  BY <1>2, <1>3, <1>4 DEF a
-------------------------------------------------------------------------------
(***************************************************************************)
(* The pool.                                                               *)
(***************************************************************************)

PoolTypes == active \in Nat /\ queue \in Seq(Requests) /\ stage \in [Requests -> Stages]
PoolSound == PoolTypes /\ PoolIsExact /\ PoolIsBounded

\* The pool's books in the terms of this module.
LEMMA Books ==
  PoolIsExact <=> /\ active = Cardinality(Staged("running"))
                  /\ Elements(queue) = Staged("queued")
                  /\ Distinct(queue)
BY DEF PoolIsExact, Elements, Distinct

\* The limits are numbers, and the requests at a stage can be counted.
LEMMA Limits ==
  /\ MaxConcurrent \in Nat /\ MaxConcurrent >= 1 /\ MaxQueue \in Nat
  /\ \A s : IsFiniteSet(Staged(s)) /\ Cardinality(Staged(s)) \in Nat
<1>1. \A s : Staged(s) \in SUBSET Requests
  BY DEF Staged
<1>2. IsFiniteSet(Requests) /\ MaxConcurrent \in Nat /\ MaxConcurrent >= 1 /\ MaxQueue \in Nat
  BY PasswordAssumption DEF PasswordAssumption
<1> QED
  BY <1>1, <1>2, FS_Subset, FS_CardinalityType

\* A request that enters the pool takes a slot, takes the last place of the queue, or is
\* turned away.
LEMMA EntersPool ==
  ASSUME PoolSound, NEW r \in Requests, stage[r] = "unsent", NEW j, Enters(r, j)
  PROVE  PoolSound'
<1> DEFINE s == Entry(active, queue)
<1> USE DEF PoolSound, PoolTypes
<1>1. /\ active \in Nat /\ queue \in Seq(Requests) /\ Len(queue) \in Nat
      /\ active = Cardinality(Staged("running")) /\ Elements(queue) = Staged("queued")
      /\ Distinct(queue) /\ active <= MaxConcurrent /\ Len(queue) <= MaxQueue
      /\ queue # <<>> => active = MaxConcurrent
  BY Books, LenProperties DEF PoolIsBounded
<1>2. /\ active' = Taken(active, s) /\ queue' = Joined(queue, r, s)
      /\ stage' = [stage EXCEPT ![r] = s]
  BY DEF Enters
<1>3. CASE active < MaxConcurrent
  <2>1. s = "running" /\ active' = active + 1 /\ queue' = queue /\ queue = <<>>
    BY <1>1, <1>2, <1>3, Limits DEF Entry, Taken, Joined
  <2>2. Staged("running")' = Staged("running") \cup {r} /\ Staged("queued")' = Staged("queued")
        /\ r \notin Staged("running") /\ stage' \in [Requests -> Stages]
    BY <1>2, <2>1 DEF Staged, Stages, Waiting
  <2>3. active' = Cardinality(Staged("running")')
    BY <1>1, <2>1, <2>2, Limits, FS_AddElement
  <2>4. active' \in Nat /\ active' <= MaxConcurrent
    BY <1>1, <1>3, <2>1, Limits
  <2>5. PoolIsExact'
    BY <1>1, <2>1, <2>2, <2>3 DEF PoolIsExact, Elements, Distinct
  <2> QED
    BY <1>1, <2>1, <2>2, <2>4, <2>5 DEF PoolIsBounded
<1>4. CASE ~(active < MaxConcurrent) /\ Len(queue) < MaxQueue
  <2>1. s = "queued" /\ active' = active /\ queue' = Append(queue, r) /\ active = MaxConcurrent
    BY <1>1, <1>2, <1>4, Limits DEF Entry, Taken, Joined
  <2>2. Staged("running")' = Staged("running") /\ Staged("queued")' = Staged("queued") \cup {r}
        /\ r \notin Staged("queued") /\ stage' \in [Requests -> Stages]
    BY <1>2, <2>1 DEF Staged, Stages, Waiting
  <2>3. /\ queue' \in Seq(Requests) /\ Len(queue') = Len(queue) + 1
        /\ Elements(queue') = Staged("queued")' /\ Distinct(queue')
    <3>1. r \notin Elements(queue) /\ queue \in Seq(Requests) /\ Distinct(queue)
      BY <1>1, <2>2
    <3>2. LET q == Append(queue, r)
          IN  /\ q \in Seq(Requests) /\ Len(q) = Len(queue) + 1
              /\ Elements(q) = Elements(queue) \cup {r} /\ Distinct(q)
      BY <3>1, Joining
    <3> QED
      BY <1>1, <2>1, <2>2, <3>2
  <2>4. PoolIsExact'
    BY <1>1, <2>1, <2>2, <2>3 DEF PoolIsExact, Elements, Distinct
  <2>5. Len(queue') <= MaxQueue
    BY <1>1, <1>4, <2>3, Limits
  <2> QED
    BY <1>1, <2>1, <2>2, <2>3, <2>4, <2>5 DEF PoolIsBounded
<1>5. CASE ~(active < MaxConcurrent) /\ ~(Len(queue) < MaxQueue)
  <2>1. s = "refused" /\ active' = active /\ queue' = queue
    BY <1>1, <1>2, <1>5, Limits DEF Entry, Taken, Joined
  <2>2. Staged("running")' = Staged("running") /\ Staged("queued")' = Staged("queued")
        /\ stage' \in [Requests -> Stages]
    BY <1>2, <2>1 DEF Staged, Stages, Answers
  <2> QED
    BY <1>1, <2>1, <2>2 DEF PoolIsExact, PoolIsBounded, Elements, Distinct
<1> QED
  BY <1>3, <1>4, <1>5

\* A request that gives up waiting leaves the queue as it was without it.
LEMMA TimesOutPool ==
  ASSUME PoolSound, NEW r \in Requests, TimesOut(r)
  PROVE  PoolSound' /\ stage[r] = "queued"
<1> USE DEF PoolSound, PoolTypes
<1>1. PICK i \in 1..Len(queue) :
        /\ queue[i] = r
        /\ queue' = SubSeq(queue, 1, i - 1) \o SubSeq(queue, i + 1, Len(queue))
        /\ stage' = [stage EXCEPT ![r] = "refused"] /\ active' = active
  BY DEF TimesOut
<1>2. /\ active = Cardinality(Staged("running")) /\ Elements(queue) = Staged("queued")
      /\ Distinct(queue) /\ Len(queue) \in Nat
      /\ active <= MaxConcurrent /\ Len(queue) <= MaxQueue
      /\ queue # <<>> => active = MaxConcurrent
  BY Books, LenProperties DEF PoolIsBounded
<1>3. /\ queue' \in Seq(Requests) /\ Len(queue') = Len(queue) - 1
      /\ Elements(queue') = Elements(queue) \ {r} /\ Distinct(queue')
  BY <1>1, <1>2, Leaving
<1>4. stage[r] = "queued"
  BY <1>1, <1>2 DEF Elements, Staged
<1>5. Staged("running")' = Staged("running") /\ Staged("queued")' = Staged("queued") \ {r}
      /\ stage' \in [Requests -> Stages]
  BY <1>1, <1>4 DEF Staged, Stages, Answers
<1>6. PoolIsExact'
  BY <1>1, <1>2, <1>3, <1>5 DEF PoolIsExact, Elements, Distinct
<1>7. queue # <<>> /\ Len(queue') <= MaxQueue
  <2>1. Len(queue) > 0
    BY <1>2
  <2>2. queue # <<>>
    BY <2>1
  <2> QED
    BY <1>2, <1>3, <2>2, Limits
<1> QED
  BY <1>1, <1>2, <1>3, <1>4, <1>5, <1>6, <1>7 DEF PoolIsBounded

\* A request that is answered at the gate, and one that the pool does not know of.
LEMMA AnswerPool ==
  ASSUME PoolSound, NEW r \in Requests, stage[r] = "deciding", NEW a \in Answers,
         stage' = [stage EXCEPT ![r] = a], UNCHANGED <<active, queue>>
  PROVE  PoolSound'
<1>1. Staged("running")' = Staged("running") /\ Staged("queued")' = Staged("queued")
      /\ stage' \in [Requests -> Stages]
  BY DEF Staged, Stages, Answers, PoolSound, PoolTypes
<1> QED
  BY <1>1 DEF PoolSound, PoolTypes, PoolIsExact, PoolIsBounded
\* The slot of a request whose work ends goes to the head of the queue, if there is one.
LEMMA HandOn ==
  ASSUME PoolSound, NEW r \in Requests, stage[r] = "running"
  PROVE  LET k == Starts(active - 1)
             m == active - 1 + k
             rest == SubSeq(queue, k + 1, Len(queue))
             started == {queue[i] : i \in 1..k}
             run == (Staged("running") \ {r}) \cup started
         IN  /\ m \in Nat /\ m <= MaxConcurrent
             /\ rest \in Seq(Requests) /\ Len(rest) <= MaxQueue /\ Distinct(rest)
             /\ rest # <<>> => m = MaxConcurrent
             /\ started \subseteq Staged("queued")
             /\ Elements(rest) = Staged("queued") \ started
             /\ IsFiniteSet(run) /\ Cardinality(run) = m
<1> USE DEF PoolSound, PoolTypes
<1>1. /\ active \in Nat /\ queue \in Seq(Requests) /\ Len(queue) \in Nat
      /\ active = Cardinality(Staged("running")) /\ Elements(queue) = Staged("queued")
      /\ Distinct(queue) /\ active <= MaxConcurrent /\ Len(queue) <= MaxQueue
      /\ queue # <<>> => active = MaxConcurrent
  BY Books, LenProperties DEF PoolIsBounded
<1>2. r \in Staged("running") /\ r \notin Staged("queued")
  BY DEF Staged
<1> DEFINE k == Starts(active - 1)
           rest == SubSeq(queue, k + 1, Len(queue))
           started == {queue[i] : i \in 1..k}
           others == Staged("running") \ {r}
<1>3. IsFiniteSet(others) /\ Cardinality(others) = active - 1 /\ Cardinality(others) \in Nat
  BY <1>1, <1>2, Limits, FS_RemoveElement, FS_CardinalityType
<1>4. active >= 1 /\ active - 1 \in Nat
  BY <1>1, <1>3
<1>5. CASE queue = <<>>
  <2>1. Len(queue) = 0
    BY <1>5
  <2>2. k = 0
    BY <1>1, <1>4, <2>1, Limits DEF Starts
  <2> HIDE DEF k
  <2>3. started = {} /\ rest = <<>>
    <3>1. started = {}
      BY <2>2
    <3>2. SubSeq(queue, 1, Len(queue)) = <<>>
      BY <2>1, SubSeqEmpty
    <3>3. k + 1 = 1
      BY <2>2
    <3> QED
      BY <3>1, <3>2, <3>3
  <2>4. Elements(rest) = {} /\ Distinct(rest) /\ Len(rest) = 0 /\ rest \in Seq(Requests)
    <3> HIDE DEF rest
    <3> QED
      BY <2>3 DEF Elements, Distinct
  <2>5. Staged("queued") = {}
    BY <1>1, <2>1 DEF Elements
  <2>6. active - 1 + k = active - 1 /\ active - 1 + k <= MaxConcurrent
    BY <1>1, <2>2, Limits
  <2>7. others \cup started = others
    BY <2>3
  <2>8. Len(rest) <= MaxQueue
    BY <2>4, Limits
  <2> QED
    BY <1>3, <1>4, <2>3, <2>4, <2>5, <2>6, <2>7, <2>8 DEF k
<1>6. CASE queue # <<>>
  <2>1. Len(queue) >= 1 /\ active = MaxConcurrent
    <3>1. Len(queue) \in Nat \ {0}
      BY <1>1, <1>6, EmptySeq
    <3> QED
      BY <1>1, <1>6, <3>1
  <2>2. k = 1
    <3>1. MaxConcurrent - (active - 1) = 1
      BY <2>1, Limits
    <3>2. k = IF 1 < Len(queue) THEN 1 ELSE Len(queue)
      BY <3>1 DEF Starts
    <3>3. Len(queue) \in Nat /\ Len(queue) >= 1
      BY <1>1, <2>1
    <3>4. \A n \in Nat : n >= 1 => 1 < n \/ n = 1
      OBVIOUS
    <3>5. 1 < Len(queue) \/ Len(queue) = 1
      BY <3>3, <3>4, Zenon
    <3> QED
      BY <3>2, <3>5
  <2> HIDE DEF k
  <2>3. started = {queue[1]} /\ rest = SubSeq(queue, 2, Len(queue))
    <3>1. k + 1 = 2 /\ 1..k = {1}
      BY <2>2
    <3> QED
      BY <3>1
  <2>4. /\ rest \in Seq(Requests) /\ Len(rest) = Len(queue) - 1
        /\ Elements(rest) = Elements(queue) \ {queue[1]} /\ Distinct(rest)
    BY <1>1, <1>6, <2>3, Starting
  <2>5. queue[1] \in Staged("queued") /\ queue[1] \notin others
    <3>1. queue[1] \in Elements(queue)
      BY <1>1, <2>1 DEF Elements
    <3> QED
      BY <1>1, <3>1 DEF Staged
  <2>6. /\ IsFiniteSet(others \cup started)
        /\ Cardinality(others \cup started) = Cardinality(others) + 1
    <3>1. /\ IsFiniteSet(others \cup {queue[1]})
          /\ Cardinality(others \cup {queue[1]}) = Cardinality(others) + 1
      BY <1>3, <2>5, FS_AddElement
    <3> QED
      BY <2>3, <3>1
  <2>7. active - 1 + k = active /\ Cardinality(others) + 1 = active
    BY <1>1, <1>3, <2>2
  <2>8. Len(rest) <= MaxQueue
    BY <1>1, <2>4, Limits
  <2> QED
    BY <1>1, <1>3, <2>1, <2>3, <2>4, <2>5, <2>6, <2>7, <2>8 DEF k
<1> QED
  BY <1>5, <1>6

LEMMA WorkEndsPool ==
  ASSUME PoolSound, NEW r \in Requests, WorkEnds(r)
  PROVE  PoolSound'
<1> USE DEF PoolSound, PoolTypes
<1> DEFINE k == Starts(active - 1)
           m == active - 1 + k
           rest == SubSeq(queue, k + 1, Len(queue))
           started == {queue[i] : i \in 1..k}
           run == (Staged("running") \ {r}) \cup started
           wait == Staged("queued") \ started
<1>1. /\ m \in Nat /\ m <= MaxConcurrent
      /\ rest \in Seq(Requests) /\ Len(rest) <= MaxQueue /\ Distinct(rest)
      /\ rest # <<>> => m = MaxConcurrent
      /\ started \subseteq Staged("queued") /\ Elements(rest) = wait
      /\ IsFiniteSet(run) /\ Cardinality(run) = m
  BY HandOn DEF WorkEnds
<1>2. PICK s \in {Next1(r, m, rest), "refused"} :
        /\ active' = Taken(m, s) /\ queue' = Joined(rest, r, s)
        /\ stage' = [q \in Requests |->
                       IF q = r THEN s ELSE IF q \in started THEN "running" ELSE stage[q]]
  BY DEF WorkEnds
<1>3. stage[r] = "running" /\ r \notin started /\ r \notin wait /\ r \notin run
  BY <1>1 DEF WorkEnds, Staged
<1> HIDE DEF k, m, rest, started
<1>4. Len(rest) \in Nat
  BY <1>1, LenProperties
<1>5. /\ s \in {"running", "queued", "refused", "deciding"}
      /\ s = "running" => m < MaxConcurrent
      /\ s = "queued" => m >= MaxConcurrent /\ Len(rest) < MaxQueue
  BY <1>1, <1>2, <1>4, Limits DEF Next1, Entry
<1>6. stage' \in [Requests -> Stages]
  BY <1>2, <1>5 DEF Stages, Waiting, Answers
<1>7. /\ Staged("running")' = IF s = "running" THEN run \cup {r} ELSE run
      /\ Staged("queued")' = IF s = "queued" THEN wait \cup {r} ELSE wait
  BY <1>1, <1>2, <1>3, <1>5 DEF Staged
<1>8. CASE s = "running"
  <2>1. active' = m + 1 /\ queue' = rest /\ m < MaxConcurrent /\ rest = <<>>
    BY <1>1, <1>2, <1>5, <1>8, Limits DEF Taken, Joined
  <2>2. Cardinality(Staged("running")') = m + 1
    BY <1>1, <1>3, <1>7, <1>8, FS_AddElement
  <2>3. active' \in Nat /\ active' <= MaxConcurrent
    BY <1>1, <2>1, Limits
  <2>4. PoolIsExact'
    BY <1>1, <1>7, <1>8, <2>1, <2>2 DEF PoolIsExact, Elements, Distinct
  <2> QED
    BY <1>1, <1>6, <2>1, <2>3, <2>4 DEF PoolIsBounded
<1>9. CASE s = "queued"
  <2>1. active' = m /\ queue' = Append(rest, r) /\ m = MaxConcurrent
    BY <1>1, <1>2, <1>5, <1>9, Limits DEF Taken, Joined
  <2>2. r \notin Elements(rest)
    BY <1>1, <1>3
  <2>3. LET q == Append(rest, r)
        IN  /\ q \in Seq(Requests) /\ Len(q) = Len(rest) + 1
            /\ Elements(q) = Elements(rest) \cup {r} /\ Distinct(q)
    BY <1>1, <2>2, Joining
  <2>4. Elements(queue') = Staged("queued")'
    BY <1>1, <1>7, <1>9, <2>1, <2>3
  <2>5. PoolIsExact'
    BY <1>1, <1>7, <1>9, <2>1, <2>3, <2>4 DEF PoolIsExact, Elements, Distinct
  <2>6. Len(queue') <= MaxQueue
    BY <1>4, <1>5, <1>9, <2>1, <2>3, Limits
  <2> QED
    BY <1>1, <1>6, <2>1, <2>3, <2>5, <2>6 DEF PoolIsBounded
<1>10. CASE s \notin {"running", "queued"}
  <2>1. active' = m /\ queue' = rest
    BY <1>2, <1>10 DEF Taken, Joined
  <2>2. Staged("running")' = run /\ Staged("queued")' = wait
    BY <1>7, <1>10
  <2> HIDE DEF run, wait
  <2>3. PoolIsExact'
    <3>1. active' = Cardinality(Staged("running")') /\ Elements(queue') = Staged("queued")'
      BY <1>1, <2>1, <2>2
    <3>2. Distinct(queue')
      BY <1>1, <2>1
    <3> QED
      BY <3>1, <3>2 DEF PoolIsExact, Elements, Distinct
  <2> QED
    BY <1>1, <1>6, <2>1, <2>3 DEF PoolIsBounded
<1> QED
  BY <1>8, <1>9, <1>10
\* What the gate and the pool have in common: a phase answers a request that was waiting for
\* the gate and knows nothing of the pool.
LEMMA DecideAnswers ==
  ASSUME NEW r \in Requests, Decide(r)
  PROVE  /\ stage[r] = "deciding" /\ UNCHANGED <<active, queue, admin>>
         /\ \E a \in Answers : Answer(r, a)
BY DEF Decide, Refused, FinishLogin, FinishInvite, FinishChange, FinishReset, ResetUnchecked, Decides, Answers

\* The requests that need no password work.
Beside == UpgradeCookie \/ ConfirmUpgrade \/ Logout \/ SessionExpires
            \/ IssueReset \/ Disable \/ Enable \/ RequireReset

LEMMA BesideThePool == Beside => UNCHANGED Others
BY DEF Beside, UpgradeCookie, ConfirmUpgrade, Logout, SessionExpires, IssueReset, Disable, Enable, RequireReset, Others

\* What a request holds while it waits: the password it was shown is one, a login expects the
\* very password it verified, and a reset knows its token.
Fits(j) ==
  /\ j \in Jobs
  /\ j.kind # "reset" => j.verified \in Passwords
  /\ j.kind = "login" => j.verified = j.expected
  /\ j.kind = "reset" => j.key \in Tokens

JobsFit == \A r \in Requests : stage[r] \in Waiting => Fits(job[r])

DataTypes ==
  /\ job \in [Requests -> Jobs \cup {Unused}]
  /\ user \in [hash : Passwords, disabled : BOOLEAN, resetRequired : BOOLEAN]
  /\ sessions \subseteq Sessions
  /\ tokens \in [Tokens -> [state : {"unissued", "usable", "used"}, uses : Nat]]
  /\ invite \in [accepted : BOOLEAN, uses : Nat]
  /\ admin \in 0..MaxAdmin

Arriving(r) == Login(r) \/ AcceptInvite(r) \/ ChangePassword(r) \/ ConfirmReset(r)

\* A request comes in once, with a job that fits.
LEMMA ArrivesFitting ==
  ASSUME DataTypes, NEW r \in Requests, Arriving(r)
  PROVE  stage[r] = "unsent" /\ \E j : Fits(j) /\ Enters(r, j)
<1> USE DEF DataTypes, Fits, Jobs, Kinds
<1>1. CASE Login(r)
  BY <1>1 DEF Login, Arrives, Verify, Passwords
<1>2. CASE AcceptInvite(r)
  BY <1>2 DEF AcceptInvite, Arrives, Verify, Passwords
<1>3. CASE ChangePassword(r)
  <2>1. PICK s \in sessions : Enters(r, Verify("change", s.id))
    BY <1>3 DEF ChangePassword
  <2>2. s.id \in SessionIds
    BY DEF Sessions
  <2>3. Fits(Verify("change", s.id))
    BY <2>2 DEF Verify, Passwords
  <2> QED
    BY <1>3, <2>1, <2>3 DEF ChangePassword, Arrives
<1>4. CASE ConfirmReset(r)
  <2> DEFINE j(t) == [kind |-> "reset", work |-> "hash", verified |-> None, expected |-> None, key |-> t]
  <2>1. PICK t \in Tokens : Enters(r, j(t))
    BY <1>4 DEF ConfirmReset
  <2>2. Fits(j(t))
    OBVIOUS
  <2> HIDE DEF j
  <2> QED
    BY <1>4, <2>1, <2>2 DEF ConfirmReset, Arrives
<1> QED
  BY <1>1, <1>2, <1>3, <1>4 DEF Arriving

\* Every step is one of these.
LEMMA Steps ==
  ASSUME Next
  PROVE  \/ \E r \in Requests : Arriving(r) \/ WorkEnds(r) \/ TimesOut(r) \/ Decide(r)
         \/ Beside
BY DEF Next, Arriving, Beside

LEMMA PoolStep ==
  ASSUME PoolSound, DataTypes, [Next]_vars
  PROVE  PoolSound'
<1>1. ASSUME NEW r \in Requests, Arriving(r) PROVE PoolSound'
  BY <1>1, ArrivesFitting, EntersPool
<1>2. ASSUME NEW r \in Requests, WorkEnds(r) PROVE PoolSound'
  BY <1>2, WorkEndsPool
<1>3. ASSUME NEW r \in Requests, TimesOut(r) PROVE PoolSound'
  BY <1>3, TimesOutPool
<1>4. ASSUME NEW r \in Requests, Decide(r) PROVE PoolSound'
  BY <1>4, DecideAnswers, AnswerPool DEF Answer
<1>5. CASE Beside \/ UNCHANGED vars
  <2>1. UNCHANGED <<active, queue, stage>>
    BY <1>5, BesideThePool DEF Others, vars
  <2> QED
    BY <2>1 DEF PoolSound, PoolTypes, PoolIsExact, PoolIsBounded, Staged
<1> QED
  BY <1>1, <1>2, <1>3, <1>4, <1>5, Steps

\* What a request holds goes on fitting.
LEMMA CarriesFitting ==
  ASSUME DataTypes, NEW r \in Requests, Fits(job[r])
  PROVE  Fits(Carries(r))
<1> USE DEF DataTypes, Fits, Jobs
<1>1. CASE job[r].kind = "change"
  BY <1>1 DEF Carries
<1>2. CASE job[r].kind = "invite"
  BY <1>2 DEF Carries
<1>3. CASE job[r].kind \notin {"change", "invite"}
  BY <1>3 DEF Carries
<1> QED
  BY <1>1, <1>2, <1>3

LEMMA JobsStep ==
  ASSUME PoolSound, DataTypes, JobsFit, [Next]_vars
  PROVE  JobsFit' /\ job' \in [Requests -> Jobs \cup {Unused}]
<1> USE DEF JobsFit, DataTypes
<1>0. stage \in [Requests -> Stages] /\ \A j : Fits(j) => j \in Jobs
  BY DEF PoolSound, PoolTypes, Fits
<1>1. ASSUME NEW r \in Requests, Arriving(r)
      PROVE JobsFit' /\ job' \in [Requests -> Jobs \cup {Unused}]
  <2>1. PICK j : Fits(j) /\ Enters(r, j)
    BY <1>1, ArrivesFitting
  <2>2. PICK s \in {"running", "refused", "queued"} :
          /\ stage' = [stage EXCEPT ![r] = s]
          /\ job' = [job EXCEPT ![r] = IF s = "refused" THEN Unused ELSE j]
    BY <2>1 DEF Enters, Entry
  <2>3. "refused" \notin Waiting
    BY DEF Waiting
  <2> QED
    BY <1>0, <2>1, <2>2, <2>3
<1>2. ASSUME NEW r \in Requests, WorkEnds(r)
      PROVE JobsFit' /\ job' \in [Requests -> Jobs \cup {Unused}]
  <2> DEFINE k == Starts(active - 1)
             started == {queue[i] : i \in 1..k}
  <2>1. PICK s : /\ stage' = [q \in Requests |->
                                IF q = r THEN s ELSE IF q \in started THEN "running" ELSE stage[q]]
                 /\ job' = [job EXCEPT ![r] = IF s \in Waiting THEN Carries(r) ELSE Unused]
    BY <1>2 DEF WorkEnds
  <2>2. started \subseteq Staged("queued") /\ stage[r] = "running"
    BY <1>2, HandOn DEF WorkEnds
  <2> HIDE DEF started
  <2>3. Fits(Carries(r))
    BY <2>2, CarriesFitting DEF Waiting
  <2>4. \A q \in started : stage[q] \in Waiting
    BY <2>2 DEF Staged, Waiting
  <2> QED
    BY <1>0, <2>1, <2>3, <2>4
<1>3. ASSUME NEW r \in Requests, TimesOut(r)
      PROVE JobsFit' /\ job' \in [Requests -> Jobs \cup {Unused}]
  BY <1>0, <1>3 DEF TimesOut, Waiting
<1>4. ASSUME NEW r \in Requests, Decide(r)
      PROVE JobsFit' /\ job' \in [Requests -> Jobs \cup {Unused}]
  BY <1>0, <1>4, DecideAnswers DEF Answer, Answers, Waiting
<1>5. CASE Beside \/ UNCHANGED vars
  BY <1>5, BesideThePool DEF Others, vars
<1> QED
  BY <1>1, <1>2, <1>3, <1>4, <1>5, Steps
-------------------------------------------------------------------------------
(***************************************************************************)
(* The account: its types, and the sessions that it has.                   *)
(***************************************************************************)

\* A session that is opened is one.
LEMMA NewSession ==
  ASSUME NEW id \in SessionIds, NEW proof \in Passwords, NEW via \in Kinds
  PROVE  Session(id, proof, via) \in Sessions
BY DEF Session, Sessions

\* A request's id is a password and a session.
LEMMA Ids == \A r \in Requests : r \in Passwords /\ r \in SessionIds
BY DEF Passwords, SessionIds

\* The sessions that the steps outside the phases leave: fewer of the same, a sibling, or the
\* sibling that took the place of its family.
Shrinks == sessions' \subseteq sessions
Upgrades == \E s \in sessions, c \in Cookies :
              /\ s.parent = None /\ ~s.confirmed
              /\ sessions' = sessions \cup {[s EXCEPT !.id = c, !.parent = s.id]}
Confirms == \E s \in sessions :
              /\ \E p \in sessions : p.id = s.parent
              /\ sessions' = (sessions \ Family(s.parent))
                               \cup {[s EXCEPT !.parent = None, !.confirmed = TRUE]}

LEMMA BesideTheAccount ==
  ASSUME DataTypes, Beside
  PROVE  /\ Shrinks \/ Upgrades \/ Confirms
         /\ user'.hash = user.hash
         /\ user'.disabled => user.disabled \/ sessions' = {}
         /\ UNCHANGED invite
         /\ \A t \in Tokens : tokens'[t].uses = tokens[t].uses
         /\ \A t \in Tokens : tokens[t].state = "used" => tokens'[t].state = "used"
<1> USE DEF DataTypes
<1>1. CASE UpgradeCookie
  BY <1>1 DEF UpgradeCookie, Upgrades
<1>2. CASE ConfirmUpgrade
  BY <1>2 DEF ConfirmUpgrade, Confirms
<1>3. CASE Logout \/ SessionExpires
  BY <1>3 DEF Logout, SessionExpires, Shrinks
<1>4. CASE IssueReset
  BY <1>4 DEF IssueReset, Shrinks
<1>5. CASE Disable
  BY <1>5 DEF Disable, Shrinks
<1>6. CASE Enable
  BY <1>6 DEF Enable, Shrinks
<1>7. CASE RequireReset
  BY <1>7 DEF RequireReset, Shrinks
<1> QED
  BY <1>1, <1>2, <1>3, <1>4, <1>5, <1>6, <1>7 DEF Beside

\* Only the phases and the steps beside them touch the account.
LEMMA OutsideTheAccount ==
  ASSUME DataTypes, NEW r \in Requests, Arriving(r) \/ WorkEnds(r) \/ TimesOut(r)
  PROVE  UNCHANGED <<user, sessions, tokens, invite, admin>>
<1>1. CASE Arriving(r)
  BY <1>1, ArrivesFitting DEF Enters
<1>2. CASE WorkEnds(r)
  BY <1>2 DEF WorkEnds
<1>3. CASE TimesOut(r)
  BY <1>3 DEF TimesOut
<1> QED
  BY <1>1, <1>2, <1>3

LEMMA DataStep ==
  ASSUME PoolSound, DataTypes, JobsFit, [Next]_vars
  PROVE  DataTypes'
<1> USE DEF DataTypes
<1>0. job' \in [Requests -> Jobs \cup {Unused}]
  BY JobsStep
<1>1. ASSUME NEW r \in Requests, Decide(r) PROVE DataTypes'
  <2>1. UNCHANGED admin /\ Fits(job[r])
    BY <1>1, DecideAnswers DEF JobsFit, Waiting
  <2>2. CASE Refused(r)
    BY <1>0, <2>2 DEF Refused
  <2>3. CASE FinishLogin(r)
    <3>1. Session(r, job[r].verified, "login") \in Sessions
      BY <2>1, <2>3, NewSession, Ids DEF FinishLogin, Decides, Fits, Kinds
    <3> QED
      BY <1>0, <2>1, <2>3, <3>1 DEF FinishLogin
  <2>4. CASE FinishInvite(r)
    <3>1. Session(r, job[r].verified, "invite") \in Sessions
      BY <2>1, <2>4, NewSession, Ids DEF FinishInvite, Decides, Fits, Kinds
    <3> QED
      BY <1>0, <2>1, <2>4, <3>1 DEF FinishInvite
  <2>5. CASE FinishChange(r)
    <3>1. Session(r, r, "change") \in Sessions
      BY NewSession, Ids DEF Kinds
    <3> QED
      BY <1>0, <2>1, <2>5, <3>1, Ids DEF FinishChange, SetPassword
  <2>6. CASE FinishReset(r)
    <3>1. Session(r, r, "reset") \in Sessions
      BY NewSession, Ids DEF Kinds
    <3>2. tokens' \in [Tokens -> [state : {"unissued", "usable", "used"}, uses : Nat]]
      BY <2>1, <2>6 DEF FinishReset, ResetUnchecked, Decides, Fits
    <3> QED
      BY <1>0, <2>1, <2>6, <3>1, <3>2, Ids DEF FinishReset, ResetUnchecked, SetPassword
  <2> QED
    BY <1>1, <2>2, <2>3, <2>4, <2>5, <2>6 DEF Decide
<1>2. CASE Beside
  <2>1. sessions' \subseteq Sessions
    <3>1. CASE Shrinks
      BY <3>1 DEF Shrinks
    <3>2. CASE Upgrades
      <4>1. PICK s \in sessions, c \in Cookies :
              sessions' = sessions \cup {[s EXCEPT !.id = c, !.parent = s.id]}
        BY <3>2 DEF Upgrades
      <4>2. [s EXCEPT !.id = c, !.parent = s.id] \in Sessions
        BY DEF Sessions, SessionIds
      <4> QED
        BY <4>1, <4>2
    <3>3. CASE Confirms
      <4>1. PICK s \in sessions :
              sessions' = (sessions \ Family(s.parent))
                            \cup {[s EXCEPT !.parent = None, !.confirmed = TRUE]}
        BY <3>3 DEF Confirms
      <4>2. [s EXCEPT !.parent = None, !.confirmed = TRUE] \in Sessions
        BY DEF Sessions
      <4> QED
        BY <4>1, <4>2
    <3> QED
      BY <1>2, <3>1, <3>2, <3>3, BesideTheAccount
  <2>2. user' \in [hash : Passwords, disabled : BOOLEAN, resetRequired : BOOLEAN]
    BY <1>2 DEF Beside, UpgradeCookie, ConfirmUpgrade, Logout, SessionExpires, IssueReset, Disable, Enable, RequireReset
  <2>3. tokens' \in [Tokens -> [state : {"unissued", "usable", "used"}, uses : Nat]]
    BY <1>2 DEF Beside, UpgradeCookie, ConfirmUpgrade, Logout, SessionExpires, IssueReset, Disable, Enable, RequireReset
  <2>4. UNCHANGED invite
    BY <1>2, BesideTheAccount
  <2>5. admin' \in 0..MaxAdmin
    <3>1. MaxAdmin \in Nat
      BY PasswordAssumption DEF PasswordAssumption
    <3>2. AdminActs \/ admin' = admin
      BY <1>2 DEF Beside, UpgradeCookie, ConfirmUpgrade, Logout, SessionExpires, IssueReset, Disable, Enable, RequireReset
    <3> QED
      BY <3>1, <3>2 DEF AdminActs
  <2> QED
    BY <1>0, <2>1, <2>2, <2>3, <2>4, <2>5
<1>3. ASSUME NEW r \in Requests, Arriving(r) \/ WorkEnds(r) \/ TimesOut(r) PROVE DataTypes'
  BY <1>0, <1>3, OutsideTheAccount
<1>4. CASE UNCHANGED vars
  BY <1>4 DEF vars
<1> QED
  BY <1>1, <1>2, <1>3, <1>4, Steps
-------------------------------------------------------------------------------
(***************************************************************************)
(* What holds of every state, and the theorems.                            *)
(***************************************************************************)

Sound == PoolSound /\ DataTypes /\ JobsFit

LEMMA SoundInit == Init => Sound
<1> SUFFICES ASSUME Init PROVE Sound
  OBVIOUS
<1> USE DEF Init
<1>1. PoolSound
  <2>1. Staged("running") = {} /\ Staged("queued") = {}
    BY DEF Staged
  <2>2. active = Cardinality(Staged("running"))
    BY <2>1, FS_EmptySet
  <2>3. PoolTypes
    BY DEF PoolTypes, Stages
  <2>4. Len(queue) = 0
    OBVIOUS
  <2> QED
    BY <2>1, <2>2, <2>3, <2>4, Limits DEF PoolSound, PoolIsExact, PoolIsBounded
<1>2. DataTypes
  <2>1. Session(Original, Original, "login") \in Sessions
    BY NewSession DEF SessionIds, Passwords, Kinds
  <2>2. 0 \in 0..MaxAdmin
    BY PasswordAssumption DEF PasswordAssumption
  <2> QED
    BY <2>1, <2>2 DEF DataTypes, Passwords
<1>3. JobsFit
  BY DEF JobsFit, Waiting
<1> QED
  BY <1>1, <1>2, <1>3 DEF Sound

LEMMA SoundStep == Sound /\ [Next]_vars => Sound'
BY PoolStep, DataStep, JobsStep DEF Sound

LEMMA SoundAlways == Spec => []Sound
BY SoundInit, SoundStep, PTL DEF Spec

\* The pool's counter is the number of hashes that run, its queue holds each waiting request
\* once, and both stay within their limits without a free slot beside a waiting request
\* (BoundedPasswordVerifier).
THEOREM PoolIsSound == Spec => []PoolInv
<1>1. Sound => PoolInv
  BY DEF Sound, PoolSound, PoolTypes, DataTypes, PoolInv, TypeOK
<1> QED
  BY <1>1, SoundAlways, PTL

\* A disabled account has no session (setUserDisabled).
LEMMA SignedOutStep == Sound /\ DisabledMeansSignedOut /\ [Next]_vars => DisabledMeansSignedOut'
<1> SUFFICES ASSUME Sound, DisabledMeansSignedOut, [Next]_vars, user'.disabled PROVE sessions' = {}
  BY DEF DisabledMeansSignedOut
<1> USE DEF Sound, DataTypes, DisabledMeansSignedOut
<1>1. ASSUME NEW r \in Requests, Decide(r) PROVE sessions' = {}
  <2>1. CASE Refused(r)
    BY <2>1 DEF Refused
  <2>2. (~user.disabled /\ user'.disabled = user.disabled) \/ Refused(r)
    BY <1>1 DEF Decide, FinishLogin, FinishInvite, FinishChange, FinishReset, ResetUnchecked, SetPassword, MayEnter
  <2> QED
    BY <2>1, <2>2
<1>2. CASE Beside
  <2>1. CASE user.disabled
    <3>1. sessions = {}
      BY <2>1
    <3> QED
      BY <1>2, <3>1, BesideTheAccount DEF Shrinks, Upgrades, Confirms
  <2>2. CASE ~user.disabled
    BY <1>2, <2>2, BesideTheAccount
  <2> QED
    BY <2>1, <2>2
<1>3. ASSUME NEW r \in Requests, Arriving(r) \/ WorkEnds(r) \/ TimesOut(r) PROVE sessions' = {}
  BY <1>3, OutsideTheAccount
<1>4. CASE UNCHANGED vars
  BY <1>4 DEF vars
<1> QED
  BY <1>1, <1>2, <1>3, <1>4, Steps

\* No sign-in that was under way when an administrator disabled the account leaves a session
\* behind, however many were and wherever they stood.
THEOREM DisabledIsSignedOut == Spec => []DisabledMeansSignedOut
<1>1. Init => DisabledMeansSignedOut
  BY DEF Init, DisabledMeansSignedOut
<1> QED
  BY <1>1, SoundAlways, SignedOutStep, PTL DEF Spec

\* A session shows the password that the account has, unless an invite opened it.
LEMMA PasswordStep == Sound /\ SessionsShowThePassword /\ [Next]_vars => SessionsShowThePassword'
<1> SUFFICES ASSUME Sound, SessionsShowThePassword, [Next]_vars,
                    NEW s \in sessions', s.via # "invite"
             PROVE  s.proof = user'.hash
  BY DEF SessionsShowThePassword
<1> USE DEF Sound, DataTypes, SessionsShowThePassword
<1>1. ASSUME NEW r \in Requests, Decide(r) PROVE s.proof = user'.hash
  <2>1. Fits(job[r])
    BY <1>1, DecideAnswers DEF JobsFit, Waiting
  <2>2. CASE Refused(r)
    BY <2>2 DEF Refused
  <2>3. CASE FinishLogin(r)
    BY <2>1, <2>3 DEF FinishLogin, MayEnter, Decides, Fits, Session
  <2>4. CASE FinishInvite(r)
    BY <2>4 DEF FinishInvite, Session
  <2>5. CASE FinishChange(r)
    BY <2>5 DEF FinishChange, SetPassword, Session
  <2>6. CASE FinishReset(r)
    BY <2>6 DEF FinishReset, ResetUnchecked, SetPassword, Session
  <2> QED
    BY <1>1, <2>2, <2>3, <2>4, <2>5, <2>6 DEF Decide
<1>2. CASE Beside
  <2>1. user'.hash = user.hash
    BY <1>2, BesideTheAccount
  <2>2. \E t \in sessions : t.via = s.via /\ t.proof = s.proof
    <3>1. CASE Shrinks
      BY <3>1 DEF Shrinks
    <3>2. CASE Upgrades
      <4>1. PICK t \in sessions, c \in Cookies :
              sessions' = sessions \cup {[t EXCEPT !.id = c, !.parent = t.id]}
        BY <3>2 DEF Upgrades
      <4>2. LET u == [t EXCEPT !.id = c, !.parent = t.id]
            IN u.via = t.via /\ u.proof = t.proof
        BY DEF Sessions
      <4> QED
        BY <4>1, <4>2
    <3>3. CASE Confirms
      <4>1. PICK t \in sessions :
              sessions' = (sessions \ Family(t.parent))
                            \cup {[t EXCEPT !.parent = None, !.confirmed = TRUE]}
        BY <3>3 DEF Confirms
      <4>2. LET u == [t EXCEPT !.parent = None, !.confirmed = TRUE]
            IN u.via = t.via /\ u.proof = t.proof
        BY DEF Sessions
      <4> QED
        BY <4>1, <4>2
    <3> QED
      BY <1>2, <3>1, <3>2, <3>3, BesideTheAccount
  <2> QED
    BY <2>1, <2>2
<1>3. ASSUME NEW r \in Requests, Arriving(r) \/ WorkEnds(r) \/ TimesOut(r)
      PROVE s.proof = user'.hash
  BY <1>3, OutsideTheAccount
<1>4. CASE UNCHANGED vars
  BY <1>4 DEF vars
<1> QED
  BY <1>1, <1>2, <1>3, <1>4, Steps

\* No login, change, reset or cookie upgrade outlives the password it was shown: the recheck of
\* the hash after the verification leaves no order of requests in which one does.
THEOREM NoSessionOutlivesItsPassword == Spec => []SessionsShowThePassword
<1>1. Init => SessionsShowThePassword
  BY DEF Init, SessionsShowThePassword, Session
<1> QED
  BY <1>1, SoundAlways, PasswordStep, PTL DEF Spec
\* The counts behind single use: what was not used yet has set nothing.
SingleUse ==
  /\ invite.uses <= 1 /\ (~invite.accepted => invite.uses = 0)
  /\ \A t \in Tokens : tokens[t].uses <= 1 /\ (tokens[t].state # "used" => tokens[t].uses = 0)

LEMMA SingleUseStep == Sound /\ SingleUse /\ [Next]_vars => SingleUse'
<1> SUFFICES ASSUME Sound, SingleUse, [Next]_vars PROVE SingleUse'
  OBVIOUS
<1> USE DEF Sound, DataTypes, SingleUse
<1>1. ASSUME NEW r \in Requests, Decide(r) PROVE SingleUse'
  <2>1. CASE UNCHANGED <<invite, tokens>>
    BY <2>1
  <2>2. CASE FinishInvite(r)
    BY <2>2 DEF FinishInvite
  <2>3. CASE FinishReset(r)
    <3>1. Fits(job[r]) /\ job[r].kind = "reset"
      BY <2>3 DEF FinishReset, JobsFit, Waiting, Decides
    <3>2. PICK k \in Tokens :
            /\ tokens[k].state = "usable"
            /\ tokens' = [tokens EXCEPT ![k] = [state |-> "used", uses |-> tokens[k].uses + 1]]
            /\ UNCHANGED invite
      BY <2>3, <3>1 DEF FinishReset, ResetUnchecked, Fits
    <3>3. ASSUME NEW t \in Tokens
          PROVE tokens'[t].uses <= 1 /\ (tokens'[t].state # "used" => tokens'[t].uses = 0)
      BY <3>2
    <3> QED
      BY <3>2, <3>3
  <2> QED
    BY <1>1, <2>1, <2>2, <2>3 DEF Decide, Refused, FinishLogin, FinishChange
<1>2. CASE Beside
  BY <1>2, BesideTheAccount
<1>3. ASSUME NEW r \in Requests, Arriving(r) \/ WorkEnds(r) \/ TimesOut(r) PROVE SingleUse'
  BY <1>3, OutsideTheAccount
<1>4. CASE UNCHANGED vars
  BY <1>4 DEF vars
<1> QED
  BY <1>1, <1>2, <1>3, <1>4, Steps

\* However many requests hold one reset token or one invite while their password work runs, one
\* of them uses it (confirmPasswordReset, POST /invites/accept).
THEOREM TokensAreUsedOnce == Spec => []UsedOnce
<1>1. Init => SingleUse
  BY DEF Init, SingleUse
<1>2. SingleUse => UsedOnce
  BY DEF SingleUse, UsedOnce
<1> QED
  BY <1>1, <1>2, SoundAlways, SingleUseStep, PTL DEF Spec

\* A request that was answered stays answered.
LEMMA DoneStays ==
  ASSUME Sound, [Next]_vars, NEW r \in Requests, stage[r] = "done"
  PROVE  stage'[r] = "done"
<1> USE DEF Sound, PoolSound, PoolTypes
<1>1. ASSUME NEW q \in Requests, Arriving(q) PROVE stage'[r] = "done"
  <2>1. q # r /\ \E s : stage' = [stage EXCEPT ![q] = s]
    BY <1>1, ArrivesFitting DEF Enters
  <2> QED
    BY <2>1
<1>2. ASSUME NEW q \in Requests, WorkEnds(q) PROVE stage'[r] = "done"
  <2> DEFINE k == Starts(active - 1)
             started == {queue[i] : i \in 1..k}
  <2>1. PICK s : stage' = [p \in Requests |->
                            IF p = q THEN s ELSE IF p \in started THEN "running" ELSE stage[p]]
    BY <1>2 DEF WorkEnds
  <2>2. started \subseteq Staged("queued") /\ stage[q] = "running"
    BY <1>2, HandOn DEF WorkEnds
  <2> HIDE DEF started
  <2> QED
    BY <2>1, <2>2 DEF Staged
<1>3. ASSUME NEW q \in Requests, TimesOut(q) PROVE stage'[r] = "done"
  <2>1. stage[q] = "queued"
    BY <1>3, TimesOutPool
  <2> QED
    BY <1>3, <2>1 DEF TimesOut
<1>4. ASSUME NEW q \in Requests, Decide(q) PROVE stage'[r] = "done"
  BY <1>4, DecideAnswers DEF Answer
<1>5. CASE Beside \/ UNCHANGED vars
  BY <1>5, BesideThePool DEF Others, vars
<1> QED
  BY <1>1, <1>2, <1>3, <1>4, <1>5, Steps

\* How a family is known: its root by its id, its siblings by their parent, and a confirmed
\* sibling, which has neither, by being alone.  A request that opened one was answered.
Known(s) ==
  /\ s.parent = None /\ ~s.confirmed => s.id = s.family
  /\ s.parent # None => s.parent = s.family /\ ~s.confirmed

Families ==
  /\ \A s \in sessions : Known(s) /\ (s.family \in Requests => stage[s.family] = "done")
  /\ UpgradeTakesThePlace

LEMMA FamiliesStep == Sound /\ Families /\ [Next]_vars => Families'
<1> SUFFICES ASSUME Sound, Families, [Next]_vars PROVE Families'
  OBVIOUS
<1> USE DEF Sound, DataTypes
<1>1. \A s \in sessions : s.family \in Requests => stage'[s.family] = "done"
  BY DoneStays DEF Families
<1>2. ASSUME Shrinks PROVE Families'
  BY <1>1, <1>2 DEF Families, Shrinks, UpgradeTakesThePlace, Known
<1>3. ASSUME NEW r \in Requests, NEW proof, NEW via, stage[r] = "deciding", stage'[r] = "done",
             \/ sessions' = sessions \cup {Session(r, proof, via)}
             \/ sessions' = {Session(r, proof, via)}
      PROVE  Families'
  <2> DEFINE n == Session(r, proof, via)
  <2>1. n.family = r /\ n.id = r /\ n.parent = None /\ n.confirmed = FALSE
    BY DEF Session
  <2>2. \A s \in sessions : s.family # r
    BY <1>3 DEF Families
  <2>3. \A s \in sessions' : s \in sessions \/ s = n
    BY <1>3
  <2> HIDE DEF n
  <2>4. \A s \in sessions' : Known(s) /\ (s.family \in Requests => stage'[s.family] = "done")
    BY <1>1, <1>3, <2>1, <2>3 DEF Families, Known
  <2>5. ASSUME NEW s \in sessions', s.confirmed, NEW t \in sessions' \ {s} PROVE t.family # s.family
    <3>1. s \in sessions
      BY <2>1, <2>3, <2>5
    <3> QED
      BY <2>1, <2>2, <2>3, <2>5, <3>1 DEF Families, UpgradeTakesThePlace
  <2> QED
    BY <2>4, <2>5 DEF Families, UpgradeTakesThePlace, Known
<1>4. ASSUME Upgrades PROVE Families'
  <2>1. PICK s \in sessions, c \in Cookies :
          /\ s.parent = None /\ ~s.confirmed
          /\ sessions' = sessions \cup {[s EXCEPT !.id = c, !.parent = s.id]}
    BY <1>4 DEF Upgrades
  <2> DEFINE n == [s EXCEPT !.id = c, !.parent = s.id]
  <2>2. n.family = s.family /\ n.parent = s.id /\ ~n.confirmed /\ s.id = s.family
    BY <2>1 DEF Families, Known, Sessions
  <2>3. \A t \in sessions' : t \in sessions \/ t = n
    BY <2>1
  <2>8. s.id # None
    BY PasswordAssumption DEF PasswordAssumption, Sessions, SessionIds
  <2> HIDE DEF n
  <2>4. \A t \in sessions' : Known(t) /\ (t.family \in Requests => stage'[t.family] = "done")
    BY <1>1, <2>2, <2>3, <2>8 DEF Families, Known
  <2>5. ASSUME NEW t \in sessions', t.confirmed, NEW u \in sessions' \ {t} PROVE u.family # t.family
    <3>1. t \in sessions /\ t # s
      BY <2>1, <2>2, <2>3, <2>5
    <3>2. s.family # t.family
      BY <2>5, <3>1 DEF Families, UpgradeTakesThePlace
    <3>3. CASE u = n
      BY <2>2, <3>2, <3>3
    <3>4. CASE u \in sessions
      BY <2>5, <3>1, <3>4 DEF Families, UpgradeTakesThePlace
    <3> QED
      BY <2>3, <3>3, <3>4
  <2> QED
    BY <2>4, <2>5 DEF Families, UpgradeTakesThePlace, Known
<1>5. ASSUME Confirms PROVE Families'
  <2>1. PICK s \in sessions :
          /\ \E p \in sessions : p.id = s.parent
          /\ sessions' = (sessions \ Family(s.parent))
                           \cup {[s EXCEPT !.parent = None, !.confirmed = TRUE]}
    BY <1>5 DEF Confirms
  <2> DEFINE n == [s EXCEPT !.parent = None, !.confirmed = TRUE]
             left == sessions \ Family(s.parent)
  <2>2. s.parent # None
    BY <2>1, PasswordAssumption DEF PasswordAssumption, Sessions, SessionIds
  <2>3. s.parent = s.family /\ ~s.confirmed
    BY <2>2 DEF Families, Known
  <2>4. n.family = s.family /\ n.parent = None /\ n.confirmed
    BY DEF Sessions
  <2>5. \A t \in left : t.family # s.family
    <3>1. SUFFICES ASSUME NEW t \in sessions, t.family = s.family PROVE t \in Family(s.parent)
      OBVIOUS
    <3>2. Known(t)
      BY DEF Families
    <3>3. ~t.confirmed
      BY <2>3, <3>1 DEF Families, UpgradeTakesThePlace
    <3> QED
      BY <2>3, <3>1, <3>2, <3>3 DEF Known, Family
  <2>6. \A t \in sessions' : t \in left \/ t = n
    BY <2>1
  <2> HIDE DEF n
  <2>7. \A t \in left : t \in sessions
    OBVIOUS
  <2> HIDE DEF left
  <2>8. \A t \in sessions' : Known(t) /\ (t.family \in Requests => stage'[t.family] = "done")
    BY <1>1, <2>4, <2>6, <2>7 DEF Families, Known
  <2>9. ASSUME NEW t \in sessions', t.confirmed, NEW u \in sessions' \ {t} PROVE u.family # t.family
    <3>1. CASE t = n \/ u = n
      BY <2>4, <2>5, <2>6, <2>9, <3>1
    <3>2. CASE t \in left /\ u \in left
      BY <2>7, <2>9, <3>2 DEF Families, UpgradeTakesThePlace
    <3> QED
      BY <2>6, <3>1, <3>2
  <2> QED
    BY <2>8, <2>9 DEF Families, UpgradeTakesThePlace, Known
<1>6. ASSUME NEW r \in Requests, Decide(r) PROVE Families'
  <2>1. stage[r] = "deciding"
    BY <1>6, DecideAnswers
  <2>2. CASE Refused(r)
    BY <1>2, <2>2 DEF Refused, Shrinks
  <2>3. CASE ~Refused(r)
    <3>1. stage'[r] = "done"
      BY <1>6, <2>3 DEF Decide, FinishLogin, FinishInvite, FinishChange, FinishReset, ResetUnchecked,
                        Answer, PoolSound, PoolTypes
    <3>2. \E proof, via : \/ sessions' = sessions \cup {Session(r, proof, via)}
                          \/ sessions' = {Session(r, proof, via)}
      BY <1>6, <2>3 DEF Decide, FinishLogin, FinishInvite, FinishChange, FinishReset, ResetUnchecked, SetPassword
    <3> QED
      BY <1>3, <2>1, <3>1, <3>2
  <2> QED
    BY <2>2, <2>3
<1>7. CASE Beside
  BY <1>2, <1>4, <1>5, <1>7, BesideTheAccount
<1>8. ASSUME NEW r \in Requests, Arriving(r) \/ WorkEnds(r) \/ TimesOut(r) PROVE Families'
  BY <1>2, <1>8, OutsideTheAccount DEF Shrinks
<1>9. CASE UNCHANGED vars
  BY <1>2, <1>9 DEF vars, Shrinks
<1> QED
  BY <1>6, <1>7, <1>8, <1>9, Steps

\* Once an upgrade is confirmed it is the only session of its sign-in, whatever was upgraded,
\* confirmed, revoked or expired before (POST /auth/session/upgrade-cookie/confirm).
THEOREM ConfirmedIsAlone == Spec => []UpgradeTakesThePlace
<1>1. Init => Families
  BY PasswordAssumption DEF PasswordAssumption, Init, Families, Known, Session, UpgradeTakesThePlace
<1>2. Families => UpgradeTakesThePlace
  BY DEF Families
<1> QED
  BY <1>1, <1>2, SoundAlways, FamiliesStep, PTL DEF Spec
===============================================================================
