------------------------ MODULE WebhookDispatchProofs ------------------------
(***************************************************************************)
(* Proofs about WebhookDispatch, for any subscriptions, limits, number of  *)
(* events and of tests, retries, edits, failed flushes and kills.          *)
(***************************************************************************)
EXTENDS WebhookDispatch, FiniteSetTheorems, FunctionTheorems, TLAPS

-------------------------------------------------------------------------------
(***************************************************************************)
(* Counting up, and counting.                                              *)
(***************************************************************************)

\* A set of numbers that is not empty has a least one.
LEMMA LeastNumber ==
  ASSUME NEW T, T \subseteq Nat, T # {}
  PROVE  \E n \in T : \A m \in T : n <= m
<1>1. DEFINE R == {s \in Nat \X Nat : s[1] < s[2]}
<1>2. IsWellFoundedOn(R, Nat)
  BY NatLessThanWellFounded DEF OpToRel
<1> HIDE DEF R
<1>3. PICK n \in T : \A m \in T : ~(<<m, n>> \in R)
  BY <1>2, WFMin
<1>4. \A m \in T : n <= m
  <2> TAKE m \in T
  <2>1. m \in Nat /\ n \in Nat /\ <<m, n>> \in Nat \X Nat /\ <<m, n>>[1] = m /\ <<m, n>>[2] = n
    OBVIOUS
  <2>2. ~(m < n)
    BY <1>3, <2>1 DEF R
  <2> QED
    BY <2>1, <2>2
<1> QED
  BY <1>4

\* A set that has 0 and, with each number, the next one up to n, has n.
LEMMA CountUp ==
  ASSUME NEW n \in Nat, NEW S, 0 \in S, \A i \in 1..n : i - 1 \in S => i \in S
  PROVE  n \in S
<1> SUFFICES ASSUME n \notin S PROVE FALSE
  OBVIOUS
<1>1. PICK i \in 0..n \ S : \A m \in 0..n \ S : i <= m
  <2>1. (0..n) \ S \subseteq Nat /\ (0..n) \ S # {}
    OBVIOUS
  <2> QED
    BY <2>1, LeastNumber
<1>2. i \in 1..n /\ i - 1 \in 0..n /\ i - 1 < i
  BY <1>1
<1> QED
  BY <1>1, <1>2

\* A function on 0..n that starts with s and goes on as G says.
Steps(f, D, s, n, G) ==
  f \in [0..n -> D] /\ f[0] = s /\ \A i \in 1..n : f[i] = G[<<f[i - 1], i>>]

\* What is defined step by step exists.
LEMMA StepsExist ==
  ASSUME NEW D, NEW s \in D, NEW n \in Nat, NEW G \in [D \X (1..n) -> D]
  PROVE  \E f : Steps(f, D, s, n, G)
<1> DEFINE S == {m \in 0..n : \E f : Steps(f, D, s, m, G)}
<1>1. 0 \in S
  <2>1. Steps([i \in 0..0 |-> s], D, s, 0, G)
    BY DEF Steps
  <2> QED
    BY <2>1
<1>2. ASSUME NEW m \in 1..n, m - 1 \in S
      PROVE  m \in S
  <2>1. PICK f : Steps(f, D, s, m - 1, G)
    BY <1>2
  <2> DEFINE g == [i \in 0..m |-> IF i = m THEN G[<<f[m - 1], m>>] ELSE f[i]]
  <2>2. m \in Nat /\ m - 1 \in 0..(m - 1) /\ f[m - 1] \in D /\ m # 0
    BY <2>1 DEF Steps
  <2>3. G[<<f[m - 1], m>>] \in D
    BY <2>2
  <2>4. \A i \in 0..(m - 1) : i \in 0..m /\ i # m /\ g[i] = f[i] /\ f[i] \in D
    BY <2>1, <2>2 DEF Steps
  <2>5. g \in [0..m -> D] /\ g[0] = s /\ g[m] = G[<<f[m - 1], m>>]
    <3>1. \A i \in 0..m : i = m \/ i \in 0..(m - 1)
      BY <2>2
    <3>2. \A i \in 0..m : g[i] \in D
      BY <2>3, <2>4, <3>1
    <3>3. 0 \in 0..(m - 1) /\ m \in 0..m
      BY <2>2
    <3> QED
      BY <2>1, <2>4, <3>2, <3>3 DEF Steps
  <2>6. ASSUME NEW i \in 1..m
        PROVE  g[i] = G[<<g[i - 1], i>>]
    <3>1. i - 1 \in 0..(m - 1)
      OBVIOUS
    <3>2. CASE i = m
      BY <2>4, <2>5, <3>1, <3>2
    <3>3. CASE i # m
      <4>1. i \in 1..(m - 1) /\ i \in 0..(m - 1)
        BY <3>3
      <4> QED
        BY <2>1, <2>4, <3>1, <4>1 DEF Steps
    <3> QED
      BY <3>2, <3>3
  <2> HIDE DEF g
  <2>7. Steps(g, D, s, m, G) /\ m \in 0..n
    BY <2>5, <2>6 DEF Steps
  <2> QED
    BY <2>7
<1> HIDE DEF S
<1>3. n \in S
  BY <1>1, <1>2, CountUp
<1> QED
  BY <1>3 DEF S

\* A finite set of numbers that is not empty has a greatest one.
LEMMA MaxType ==
  ASSUME NEW S, S \subseteq Nat, IsFiniteSet(S), S # {}
  PROVE  Max(S) \in S
<1> DEFINE n == Cardinality(S)
<1>1. n \in Nat /\ \E f : f \in Bijection(1..n, S)
  BY FS_CardinalityType DEF ExistsBijection
<1>2. PICK f : f \in Bijection(1..n, S)
  BY <1>1
<1>3. f \in [1..n -> S] /\ \A x \in S : \E i \in 1..n : f[i] = x
  BY <1>2 DEF Bijection, Surjection
<1> HIDE DEF n
<1> DEFINE M == {m \in 0..n : \E x \in S : \A i \in 1..m : f[i] <= x}
<1>4. 0 \in M
  <2>1. PICK x \in S : TRUE
    OBVIOUS
  <2>2. 0 \in 0..n /\ \A i \in 1..0 : f[i] <= x
    BY <1>1
  <2> QED
    BY <2>2
<1>5. ASSUME NEW m \in 1..n, m - 1 \in M
      PROVE  m \in M
  <2>1. PICK x \in S : \A i \in 1..(m - 1) : f[i] <= x
    BY <1>5
  <2> HIDE DEF M
  <2>2. f[m] \in S /\ m \in 0..n
    BY <1>1, <1>3
  <2>3. \A i \in 1..m : i = m \/ i \in 1..(m - 1)
    BY <1>1
  <2>4. \A i \in 1..m : f[i] \in Nat
    <3>1. \A i \in 1..m : i \in 1..n
      BY <1>1
    <3>2. \A i \in 1..n : f[i] \in S
      BY <1>3
    <3> QED
      BY <3>1, <3>2
  <2>5. CASE f[m] <= x
    <3>1. \A i \in 1..m : f[i] <= x
      BY <2>1, <2>2, <2>3, <2>5
    <3> QED
      BY <2>2, <3>1 DEF M
  <2>6. CASE ~(f[m] <= x)
    <3>1. \A i \in 1..m : f[i] <= f[m]
      BY <2>1, <2>2, <2>3, <2>4, <2>6
    <3>2. \E y \in S : \A i \in 1..m : f[i] <= y
      BY <2>2, <3>1
    <3> QED
      BY <2>2, <3>2 DEF M
  <2> QED
    BY <2>5, <2>6
<1> HIDE DEF M
<1>6. n \in M
  BY <1>1, <1>4, <1>5, CountUp
<1>7. PICK x \in S : \A i \in 1..n : f[i] <= x
  BY <1>6 DEF M
<1>8. \A y \in S : x >= y
  BY <1>3, <1>7
<1> QED
  BY <1>8 DEF Max

\* A sequence without repetition has as many elements as places.
LEMMA ImageCount ==
  ASSUME NEW n \in Nat, NEW f, NEW T, DOMAIN f = 1..n, T = {f[i] : i \in 1..n},
         \A i, k \in 1..n : f[i] = f[k] => i = k
  PROVE  IsFiniteSet(T) /\ Cardinality(T) = n
<1> DEFINE g == [i \in 1..n |-> f[i]]
<1>1. g \in Bijection(1..n, T)
  BY DEF Bijection, Injection, Surjection, IsInjective
<1>2. IsFiniteSet(1..n) /\ Cardinality(1..n) = n
  BY FS_Interval
<1> QED
  BY <1>1, <1>2, FS_Bijection DEF ExistsBijection

-------------------------------------------------------------------------------
(***************************************************************************)
(* The ledger: what is pruned was settled, and each operation changes what *)
(* it says and keeps what still waits.                                     *)
(***************************************************************************)
Ledgers == {S \in SUBSET CampaignWebhookDelivery : IsFiniteSet(S)}
Single(S) == \A d, e \in S : d.id = e.id => d = e

\* What waits is retained.
LEMMA RetainedKeeps ==
  ASSUME NEW S, NEW limit
  PROVE  Retained(S, limit) \subseteq S /\ Queued(S) \subseteq Retained(S, limit)
<1>1. Queued(S) \subseteq S
  BY DEF Queued
<1> QED
  BY <1>1, Zenon DEF Retained

\* What waits is not pruned.
LEMMA PruneKeeps ==
  ASSUME NEW S, NEW w
  PROVE  Prune(S, w) \subseteq S /\ Queued(S) \subseteq Prune(S, w)
<1> DEFINE R == Retained(Own(S, w), PerWebhook)
           T == (S \ Own(S, w)) \cup R
<1>1. R \subseteq Own(S, w) /\ Queued(Own(S, w)) \subseteq R /\ Own(S, w) \subseteq S
  BY RetainedKeeps DEF Own
<1>2. Prune(S, w) \subseteq T /\ Queued(T) \subseteq Prune(S, w)
  BY RetainedKeeps DEF Prune
<1>3. T \subseteq S /\ Queued(S) \subseteq Queued(T)
  BY <1>1 DEF Queued, Own
<1> QED
  BY <1>2, <1>3

\* What is pruned of a ledger is a ledger.
LEMMA LedgerPart ==
  ASSUME NEW S \in Ledgers, NEW T, T \subseteq S
  PROVE  T \in Ledgers
BY FS_Subset DEF Ledgers

\* An attempt has a number.
LEMMA AttemptType ==
  ASSUME NEW S \in Ledgers, NEW w, NEW e
  PROVE  NextAttempt(S, w, e) \in Ids
<1> DEFINE C == {c \in Own(S, w) : c.event = e}
           A == {d.attempt : d \in C}
           f == [d \in C |-> d.attempt]
<1>1. C \subseteq S /\ IsFiniteSet(C)
  BY FS_Subset DEF Ledgers, Own
<1>2. f \in Surjection(C, A)
  BY DEF Surjection
<1>3. IsFiniteSet(A)
  BY <1>1, <1>2, FS_Surjection
<1>4. A \subseteq Nat
  BY <1>1 DEF Ledgers, CampaignWebhookDelivery, Ids
<1> HIDE DEF A
<1>5. IsFiniteSet(A \cup {0}) /\ A \cup {0} \subseteq Nat /\ A \cup {0} # {}
  BY <1>3, <1>4, FS_AddElement
<1>6. Max(A \cup {0}) \in Nat
  BY <1>5, MaxType
<1>7. NextAttempt(S, w, e) = Max(A \cup {0}) + 1
  BY DEF NextAttempt, A
<1> QED
  BY <1>6, <1>7 DEF Ids

\* A delivery is created: it waits, and so does what waited.
LEMMA CreateWell ==
  ASSUME NEW S \in Ledgers, NEW id \in Ids, NEW w \in Webhooks, NEW e \in Events,
         NEW of \in Ids \cup {None}
  PROVE  LET T == CreateDelivery(S, id, w, e, of)
         IN /\ T \in Ledgers /\ Queued(S) \subseteq T
            /\ \E n \in T : n.id = id /\ n.status = "queued" /\ T \subseteq S \cup {n}
<1> DEFINE T == CreateDelivery(S, id, w, e, of)
           n == [id |-> id, webhook |-> w, event |-> e, attempt |-> NextAttempt(S, w, e),
                 status |-> "queued", retryOf |-> of]
           U == S \cup {n}
<1>1. n \in CampaignWebhookDelivery /\ n.id = id /\ n.status = "queued"
  BY AttemptType DEF CampaignWebhookDelivery
<1>2. T = Prune(U, w)
  BY DEF CreateDelivery
<1> HIDE DEF n, T
<1>3. U \in Ledgers
  BY <1>1, FS_AddElement DEF Ledgers
<1>4. T \subseteq U /\ Queued(U) \subseteq T
  BY <1>2, PruneKeeps
<1>5. T \in Ledgers
  BY <1>3, <1>4, LedgerPart
<1>6. n \in T /\ Queued(S) \subseteq T
  BY <1>1, <1>4 DEF Queued
<1> QED
  BY <1>1, <1>4, <1>5, <1>6 DEF T

\* T is S where what waited under the ids I has its outcome.
Settles(S, T, I) ==
  /\ T \in Ledgers /\ Single(T)
  /\ \A e \in T : e \in S \/ (e.status # "queued" /\ \E d \in Queued(S) : d.id = e.id)
  /\ \A e \in Queued(T) : e.id \notin I
  /\ \A d \in Queued(S) : d.id \in I \/ d \in T

\* An outcome is given to one delivery at most, which waited.
LEMMA SettledWell ==
  ASSUME NEW S \in Ledgers, Single(S), NEW id, NEW status \in {"delivered", "failed"}
  PROVE  Settles(S, Settled(S, id, status), {id})
<1> DEFINE T == Settled(S, id, status)
           d == CHOOSE d \in CurrentQueued(S, id) : TRUE
           f == [d EXCEPT !.status = status]
           U == (S \ {d}) \cup {f}
<1>1. CASE CurrentQueued(S, id) = {}
  <2>1. T = S
    BY <1>1, Zenon DEF Settled
  <2> HIDE DEF T
  <2>2. \A e \in Queued(S) : e.id # id
    BY <1>1 DEF CurrentQueued, Queued
  <2>3. Queued(S) \subseteq S
    BY DEF Queued
  <2> QED
    BY <2>1, <2>2, <2>3 DEF Settles, T
<1>2. CASE CurrentQueued(S, id) # {}
  <2>1. d \in S /\ d.id = id /\ d.status = "queued" /\ T = Prune(U, d.webhook)
    <3>1. d \in CurrentQueued(S, id)
      BY <1>2
    <3>2. T = Prune(U, d.webhook)
      BY <1>2, Zenon DEF Settled
    <3> QED
      BY <3>1, <3>2 DEF CurrentQueued
  <2>2. d \in CampaignWebhookDelivery
    BY <2>1 DEF Ledgers
  <2> HIDE DEF d, T
  <2>3. f \in CampaignWebhookDelivery /\ f.id = id /\ f.status = status /\ status # "queued"
    BY <2>1, <2>2 DEF CampaignWebhookDelivery
  <2> HIDE DEF f
  <2>4. U \in Ledgers
    <3>1. IsFiniteSet(S \ {d})
      BY FS_RemoveElement DEF Ledgers
    <3> QED
      BY <2>3, <3>1, FS_AddElement DEF Ledgers
  <2>5. T \subseteq U /\ Queued(U) \subseteq T
    BY <2>1, PruneKeeps
  <2>6. T \in Ledgers
    BY <2>4, <2>5, LedgerPart
  <2>7. \A e \in S : e.id = id => e = d
    BY <2>1 DEF Single
  <2>8. Single(T)
    BY <2>3, <2>5, <2>7 DEF Single
  <2>9. \A e \in T : e \in S \/ (e.status # "queued" /\ \E c \in Queued(S) : c.id = e.id)
    BY <2>1, <2>3, <2>5 DEF Queued
  <2>10. \A e \in Queued(T) : e.id # id
    BY <2>3, <2>5, <2>7 DEF Queued
  <2>11. \A c \in Queued(S) : c.id = id \/ c \in T
    BY <2>1, <2>5 DEF Queued
  <2> QED
    BY <2>6, <2>8, <2>9, <2>10, <2>11 DEF Settles, T
<1> QED
  BY <1>1, <1>2

\* One after the other.
LEMMA SettlesTwice ==
  ASSUME NEW S, NEW T, NEW U, NEW I, NEW J, Settles(S, T, I), Settles(T, U, J)
  PROVE  Settles(S, U, I \cup J)
<1>1. Queued(T) \subseteq Queued(S)
  BY DEF Settles, Queued
<1>2. Queued(U) \subseteq Queued(T)
  BY DEF Settles, Queued
<1>3. \A e \in U : e \in S \/ (e.status # "queued" /\ \E d \in Queued(S) : d.id = e.id)
  BY <1>1 DEF Settles
<1>4. \A d \in Queued(S) : d.id \in I \/ d \in Queued(T)
  BY DEF Settles, Queued
<1> QED
  BY <1>2, <1>3, <1>4 DEF Settles

\* A ledger that stays as it is.
LEMMA SettlesNone ==
  ASSUME NEW S \in Ledgers, Single(S)
  PROVE  Settles(S, S, {})
BY DEF Settles, Queued

\* The catch clause's loop, as a function of how far it has come.
Failing(f, W) ==
  f = [i \in 0..Len(W) |-> IF i = 0 THEN deliveries ELSE Settled(f[i - 1], W[i].id, "failed")]

\* The loop's function exists, and its values are ledgers.
LEMMA FailingExists ==
  ASSUME deliveries \in Ledgers, Single(deliveries), NEW W, Len(W) \in Nat
  PROVE  \E f : Failing(f, W) /\ \A i \in 0..Len(W) : f[i] \in Ledgers /\ Single(f[i])
<1> DEFINE n == Len(W)
           D == {S \in Ledgers : Single(S)}
           G == [x \in D \X (1..n) |-> Settled(x[1], W[x[2]].id, "failed")]
<1>1. G \in [D \X (1..n) -> D] /\ deliveries \in D
  <2>1. ASSUME NEW x \in D \X (1..n)
        PROVE  Settled(x[1], W[x[2]].id, "failed") \in D
    <3>1. x[1] \in Ledgers /\ Single(x[1])
      BY <2>1
    <3>2. Settles(x[1], Settled(x[1], W[x[2]].id, "failed"), {W[x[2]].id})
      BY <3>1, SettledWell
    <3> QED
      BY <3>2 DEF Settles
  <2> QED
    BY <2>1
<1>2. \A S \in D, i \in 1..n : G[<<S, i>>] = Settled(S, W[i].id, "failed")
  OBVIOUS
<1> HIDE DEF G
<1>3. PICK f : Steps(f, D, deliveries, n, G)
  BY <1>1, StepsExist
<1>4. f \in [0..n -> D] /\ f[0] = deliveries
  BY <1>3 DEF Steps
<1>5. \A i \in 1..n : i - 1 \in 0..n /\ f[i - 1] \in D
  BY <1>4
<1>6. \A i \in 1..n : f[i] = Settled(f[i - 1], W[i].id, "failed")
  BY <1>2, <1>3, <1>5 DEF Steps
<1>7. \A i \in 0..n : f[i] = IF i = 0 THEN deliveries ELSE Settled(f[i - 1], W[i].id, "failed")
  <2>1. \A i \in 0..n : i = 0 \/ i \in 1..n
    OBVIOUS
  <2> QED
    BY <1>4, <1>6, <2>1
<1>8. f = [i \in 0..n |-> f[i]]
  BY <1>4
<1>9. Failing(f, W)
  BY <1>7, <1>8 DEF Failing
<1> QED
  BY <1>4, <1>9

\* The catch clause gives what waits of a dispatch its outcome, and nothing else.
LEMMA AllFailedWell ==
  ASSUME deliveries \in Ledgers, Single(deliveries), Len(Work) \in Nat, AllFailed
  PROVE  Settles(deliveries, deliveries', {Work[j].id : j \in 1..Len(Work)}) /\ webhooks' = webhooks
<1> DEFINE n == Len(Work)
           after == CHOOSE f : Failing(f, Work)
           Upto(i) == {Work[j].id : j \in 1..i}
           S == {i \in 0..n : Settles(deliveries, after[i], Upto(i))}
<1>1. deliveries' = after[n] /\ webhooks' = webhooks
  BY DEF AllFailed, Failing
<1>2. Failing(after, Work)
  BY FailingExists
<1> HIDE DEF after
<1>3. after[0] = deliveries /\ \A i \in 1..n : after[i] = Settled(after[i - 1], Work[i].id, "failed")
  BY <1>2 DEF Failing
<1>4. 0 \in S
  <2>1. Upto(0) = {} /\ 0 \in 0..n
    OBVIOUS
  <2> HIDE DEF Upto
  <2>2. Settles(deliveries, after[0], Upto(0))
    BY <1>3, <2>1, SettlesNone
  <2> QED
    BY <2>1, <2>2
<1>5. ASSUME NEW i \in 1..n, i - 1 \in S
      PROVE  i \in S
  <2>1. Settles(deliveries, after[i - 1], Upto(i - 1))
    BY <1>5
  <2>2. after[i - 1] \in Ledgers /\ Single(after[i - 1])
    BY <2>1 DEF Settles
  <2>3. Settles(after[i - 1], after[i], {Work[i].id})
    BY <1>3, <2>2, SettledWell
  <2>4. Upto(i - 1) \cup {Work[i].id} = Upto(i)
    <3>1. \A j \in 1..i : j = i \/ j \in 1..(i - 1)
      OBVIOUS
    <3>2. \A j \in 1..(i - 1) : j \in 1..i
      OBVIOUS
    <3> QED
      BY <3>1, <3>2
  <2> HIDE DEF Upto
  <2>5. Settles(deliveries, after[i], Upto(i))
    BY <2>1, <2>3, <2>4, SettlesTwice
  <2> QED
    BY <2>5
<1> HIDE DEF S
<1>6. n \in S
  BY <1>4, <1>5, CountUp
<1> QED
  BY <1>1, <1>6 DEF S

\* T is S and new deliveries that wait, under the ids I.
Adds(S, T, I) ==
  /\ T \in Ledgers /\ Single(T)
  /\ \A e \in T : e \in S \/ (e.id \in I /\ e.status = "queued")
  /\ Queued(S) \subseteq T /\ I \subseteq QueuedIds(T)

\* Creating the deliveries of a dispatch, as a function of how far it has come.
Making(f, to) ==
  f = [i \in 0..Len(to) |->
         IF i = 0 THEN deliveries ELSE CreateDelivery(f[i - 1], lastId + i, to[i], lastEvent + 1, None)]
NewIds(n) == (lastId + 1)..(lastId + n)

\* The function exists, and its values are ledgers.
LEMMA MakingExists ==
  ASSUME deliveries \in Ledgers, lastId \in Nat, lastEvent \in Nat, NEW to \in Seq(Webhooks)
  PROVE  \E f : Making(f, to) /\ \A i \in 0..Len(to) : f[i] \in Ledgers
<1> DEFINE n == Len(to)
           G == [x \in Ledgers \X (1..n) |->
                   CreateDelivery(x[1], lastId + x[2], to[x[2]], lastEvent + 1, None)]
<1>1. G \in [Ledgers \X (1..n) -> Ledgers] /\ n \in Nat
  <2>1. ASSUME NEW x \in Ledgers \X (1..n)
        PROVE  CreateDelivery(x[1], lastId + x[2], to[x[2]], lastEvent + 1, None) \in Ledgers
    <3>1. x[1] \in Ledgers /\ lastId + x[2] \in Ids /\ to[x[2]] \in Webhooks /\ lastEvent + 1 \in Events
      BY <2>1 DEF Ids, Events
    <3> QED
      BY <3>1, CreateWell
  <2> QED
    BY <2>1
<1>2. \A S \in Ledgers, i \in 1..n :
        G[<<S, i>>] = CreateDelivery(S, lastId + i, to[i], lastEvent + 1, None)
  OBVIOUS
<1> HIDE DEF G
<1>3. PICK f : Steps(f, Ledgers, deliveries, n, G)
  BY <1>1, StepsExist
<1>4. f \in [0..n -> Ledgers] /\ f[0] = deliveries
  BY <1>3 DEF Steps
<1>5. \A i \in 1..n : i - 1 \in 0..n /\ f[i - 1] \in Ledgers
  BY <1>4
<1>6. \A i \in 1..n : f[i] = CreateDelivery(f[i - 1], lastId + i, to[i], lastEvent + 1, None)
  BY <1>2, <1>3, <1>5 DEF Steps
<1>7. \A i \in 0..n :
        f[i] = IF i = 0 THEN deliveries
               ELSE CreateDelivery(f[i - 1], lastId + i, to[i], lastEvent + 1, None)
  <2>1. \A i \in 0..n : i = 0 \/ i \in 1..n
    OBVIOUS
  <2> QED
    BY <1>4, <1>6, <2>1
<1>8. f = [i \in 0..n |-> f[i]]
  BY <1>4
<1>9. Making(f, to)
  BY <1>7, <1>8 DEF Making
<1> QED
  BY <1>4, <1>9

\* A broadcast's deliveries are new and wait.
LEMMA PreparedWell ==
  ASSUME deliveries \in Ledgers, Single(deliveries), lastId \in Nat, lastEvent \in Nat,
         \A d \in deliveries : d.id <= lastId, NEW to \in Seq(Webhooks)
  PROVE  Adds(deliveries, WithPrepared(to), NewIds(Len(to)))
<1> DEFINE n == Len(to)
           made == CHOOSE f : Making(f, to)
           S == {i \in 0..n : Adds(deliveries, made[i], NewIds(i))}
<1>1. WithPrepared(to) = made[n] /\ n \in Nat
  BY DEF WithPrepared, Making
<1>2. Making(made, to)
  BY MakingExists
<1> HIDE DEF made
<1>3. /\ made[0] = deliveries
      /\ \A i \in 1..n : made[i] = CreateDelivery(made[i - 1], lastId + i, to[i], lastEvent + 1, None)
  <2>1. n \in Nat
    OBVIOUS
  <2> HIDE DEF n
  <2>2. made = [i \in 0..n |->
                 IF i = 0 THEN deliveries
                 ELSE CreateDelivery(made[i - 1], lastId + i, to[i], lastEvent + 1, None)]
    BY <1>2 DEF Making, n
  <2>3. \A i \in 0..n :
          made[i] = IF i = 0 THEN deliveries
                    ELSE CreateDelivery(made[i - 1], lastId + i, to[i], lastEvent + 1, None)
    BY <2>2, Zenon
  <2>4. 0 \in 0..n /\ \A i \in 1..n : i \in 0..n /\ i # 0
    BY <2>1
  <2> QED
    BY <2>3, <2>4
<1>4. 0 \in S
  <2>1. NewIds(0) = {} /\ 0 \in 0..n
    BY <1>1 DEF NewIds
  <2>2. Adds(deliveries, made[0], NewIds(0))
    BY <1>3, <2>1 DEF Adds, Queued
  <2> QED
    BY <2>1, <2>2
<1>5. ASSUME NEW i \in 1..n, i - 1 \in S
      PROVE  i \in S
  <2> DEFINE A == made[i - 1]
             B == made[i]
             k == lastId + i
  <2>1. Adds(deliveries, A, NewIds(i - 1)) /\ i \in 0..n
    BY <1>5
  <2>2. A \in Ledgers /\ k \in Ids /\ to[i] \in Webhooks /\ lastEvent + 1 \in Events
    BY <2>1 DEF Adds, Ids, Events
  <2>3. B = CreateDelivery(A, k, to[i], lastEvent + 1, None)
    BY <1>3
  <2> HIDE DEF A, B, S
  <2>4. /\ B \in Ledgers /\ Queued(A) \subseteq B
        /\ \E m \in B : m.id = k /\ m.status = "queued" /\ B \subseteq A \cup {m}
    BY <2>2, <2>3, CreateWell
  <2>5. PICK m \in B : m.id = k /\ m.status = "queued" /\ B \subseteq A \cup {m}
    BY <2>4
  <2>6. NewIds(i) = NewIds(i - 1) \cup {k} /\ k \notin NewIds(i - 1)
    BY DEF NewIds
  <2>7. \A e \in A : e.id # k
    <3>1. \A e \in deliveries : e.id \in Nat /\ e.id <= lastId
      BY DEF Ledgers, CampaignWebhookDelivery, Ids
    <3>2. \A e \in deliveries : e.id # k
      BY <3>1
    <3> QED
      BY <2>1, <2>6, <3>2 DEF Adds
  <2>8. Single(B)
    BY <2>1, <2>5, <2>7 DEF Adds, Single
  <2>9. \A e \in B : e \in deliveries \/ (e.id \in NewIds(i) /\ e.status = "queued")
    BY <2>1, <2>5, <2>6 DEF Adds
  <2>10. Queued(deliveries) \subseteq B
    BY <2>1, <2>4 DEF Adds, Queued
  <2>11. NewIds(i) \subseteq QueuedIds(B)
    <3>1. NewIds(i - 1) \subseteq QueuedIds(B)
      BY <2>1, <2>4 DEF Adds, QueuedIds, Queued
    <3>2. k \in QueuedIds(B)
      BY <2>5 DEF QueuedIds, Queued
    <3> QED
      BY <2>6, <3>1, <3>2
  <2>12. Adds(deliveries, B, NewIds(i))
    BY <2>4, <2>8, <2>9, <2>10, <2>11 DEF Adds
  <2> QED
    BY <2>1, <2>12 DEF S, B
<1> HIDE DEF S
<1>6. n \in S
  BY <1>1, <1>4, <1>5, CountUp
<1> QED
  BY <1>1, <1>6 DEF S

\* A test or a retry creates one.
LEMMA StagedWell ==
  ASSUME deliveries \in Ledgers, Single(deliveries), lastId \in Nat, \A d \in deliveries : d.id <= lastId,
         NEW w \in Webhooks, NEW e \in Events, NEW of \in Ids \cup {None}
  PROVE  Adds(deliveries, CreateDelivery(deliveries, lastId + 1, w, e, of), {lastId + 1})
<1> DEFINE T == CreateDelivery(deliveries, lastId + 1, w, e, of)
<1>1. lastId + 1 \in Ids
  BY DEF Ids
<1>2. /\ T \in Ledgers /\ Queued(deliveries) \subseteq T
      /\ \E n \in T : n.id = lastId + 1 /\ n.status = "queued" /\ T \subseteq deliveries \cup {n}
  BY <1>1, CreateWell
<1> HIDE DEF T
<1>3. PICK n \in T : n.id = lastId + 1 /\ n.status = "queued" /\ T \subseteq deliveries \cup {n}
  BY <1>2
<1>4. \A d \in deliveries : d.id # lastId + 1
  <2>1. \A d \in deliveries : d.id \in Nat /\ d.id <= lastId
    BY DEF Ledgers, CampaignWebhookDelivery, Ids
  <2> QED
    BY <2>1
<1>5. Single(T)
  BY <1>3, <1>4 DEF Single
<1>6. lastId + 1 \in QueuedIds(T)
  BY <1>3 DEF QueuedIds, Queued
<1> QED
  BY <1>2, <1>3, <1>5, <1>6 DEF Adds, T

\* Recovery settles all that waits.
LEMMA InterruptedWell ==
  ASSUME NEW S \in Ledgers, Single(S)
  PROVE  Settles(S, Interrupted(S), QueuedIds(S))
<1> DEFINE fail(d) == [d EXCEPT !.status = IF @ = "queued" THEN "failed" ELSE @]
           failed == {fail(d) : d \in S}
           affected == {d.webhook : d \in Queued(S)}
           kept == {d \in failed : d.webhook \in affected => d \in Retained(Own(failed, d.webhook), PerWebhook)}
           T == Interrupted(S)
<1>1. \A d \in S : d \in CampaignWebhookDelivery
  BY DEF Ledgers
<1>2. ASSUME NEW d \in S
      PROVE  /\ fail(d) \in CampaignWebhookDelivery /\ fail(d).id = d.id
             /\ d.status = "queued" => fail(d).status = "failed"
             /\ d.status # "queued" => fail(d) = d
  BY <1>1 DEF CampaignWebhookDelivery
<1>3. T = IF affected = {} THEN S ELSE Retained(kept, PerCampaign)
  BY DEF Interrupted
<1> HIDE DEF fail, T
<1>4. IsFiniteSet(failed)
  <2> DEFINE f == [d \in S |-> fail(d)]
  <2>1. f \in Surjection(S, failed)
    BY DEF Surjection
  <2> QED
    BY <2>1, FS_Surjection DEF Ledgers
<1>5. failed \in Ledgers
  BY <1>2, <1>4 DEF Ledgers
<1>6. CASE affected = {}
  <2>1. Queued(S) = {} /\ T = S
    BY <1>3, <1>6
  <2> QED
    BY <2>1 DEF Settles, QueuedIds, T
<1>7. CASE affected # {}
  <2>1. T \subseteq failed
    <3>1. T \subseteq kept /\ kept \subseteq failed
      BY <1>3, <1>7, RetainedKeeps
    <3> QED
      BY <3>1
  <2>2. T \in Ledgers
    BY <1>5, <2>1, LedgerPart
  <2>3. \A e \in T : \E d \in S : e = fail(d)
    BY <2>1
  <2>4. Single(T)
    BY <1>2, <2>3 DEF Single
  <2>5. \A e \in T : e \in S \/ (e.status # "queued" /\ \E d \in Queued(S) : d.id = e.id)
    BY <1>2, <2>3 DEF Queued
  <2>6. Queued(T) = {}
    BY <1>2, <2>3 DEF Queued
  <2>7. \A d \in Queued(S) : d.id \in QueuedIds(S)
    BY DEF QueuedIds
  <2> QED
    BY <2>2, <2>4, <2>5, <2>6, <2>7 DEF Settles, T
<1> QED
  BY <1>6, <1>7

-------------------------------------------------------------------------------
(***************************************************************************)
(* The invariant.                                                          *)
(***************************************************************************)

\* No delivery is in a ledger twice, none has an id yet to be given, and what is
\* durable was in memory before: an outcome on disk is the one in memory.
Ahead == \A d \in saved.deliveries, e \in deliveries : d.id = e.id => d.status \in {"queued", e.status}
LedgerWell(S) == S \in Ledgers /\ Single(S) /\ \A d \in S : d.id <= lastId
LedgersWell == LedgerWell(deliveries) /\ LedgerWell(saved.deliveries) /\ Ahead

\* Every place in the line is a delivery's own.
Distinct(dispatch) ==
  \A j, l \in DOMAIN dispatch.work : dispatch.work[j].id = dispatch.work[l].id => j = l
Places ==
  /\ \A i \in DOMAIN queue : Distinct(queue[i])
  /\ \A i, k \in DOMAIN queue : i # k => IdsOf(queue[i]) \cap IdsOf(queue[k]) = {}
  /\ staged = <<>> \/ (Len(staged) = 1 /\ Len(staged[1].work) = 1)
  /\ Staged \cap Owned = {} /\ IsFiniteSet(Owned)
  /\ \A n \in Owned \cup Staged : n <= lastId

\* A delivery whose turn is to come waits, in memory and on disk; one whose turn
\* has passed does not, in either.
ToCome(i, j) == i > 1 \/ j > at \/ (j = at /\ step # "catch")
Waiting(S) ==
  \A i \in DOMAIN queue : \A j \in DOMAIN queue[i].work :
    ToCome(i, j) => queue[i].work[j].id \in QueuedIds(S)
Past ==
  queue # <<>> =>
    \A j \in DOMAIN Work :
      j < at => Work[j].id \notin QueuedIds(deliveries) \cup QueuedIds(saved.deliveries)
Turns ==
  /\ Waiting(deliveries) /\ Waiting(saved.deliveries) /\ Past
  /\ Staged \subseteq QueuedIds(deliveries)
  /\ queue = <<>> => at = 1 /\ step = "check"

\* No change of a subscription is rolled back, and each is a revision of its own.
Configured == webhooks = saved.webhooks /\ \A w \in Webhooks : webhooks[w].rev <= turns
\* No request left after a change yet to come, and none was stale under the
\* revision that the check has just found.
Sent ==
  /\ \A s \in sends : s.now <= webhooks[s.webhook].rev
  /\ queue # <<>> /\ step = "resolve" =>
       \A s \in sends : s.webhook = Turn.webhook /\ s.rev = Turn.rev => s.now <= s.rev
  /\ AtMostOneStaleSend

WebhookInv ==
  /\ TypeOK /\ LedgersWell /\ Places /\ PendingIsReserved
  /\ Turns /\ QueuedIsOwned /\ Configured /\ Sent

\* At the start there is nothing in the ledger, in the line or on the wire.
LEMMA InitHolds == Init => WebhookInv
<1> SUFFICES ASSUME Init PROVE WebhookInv
  OBVIOUS
<1>1. /\ deliveries = {} /\ saved = [webhooks |-> webhooks, deliveries |-> {}]
      /\ pending = 0 /\ staged = <<>> /\ queue = <<>> /\ at = 1 /\ step = "check"
      /\ lastId = 0 /\ lastEvent = 0 /\ sends = {} /\ stranded = {} /\ turns = 0
  BY DEF Init
<1>2. /\ webhooks \in [Webhooks -> CampaignWebhookSubscription]
      /\ \A w \in Webhooks : webhooks[w].rev = 0
  <2>1. PICK present \in SUBSET Webhooks :
          webhooks = [w \in Webhooks |-> [life |-> IF w \in present THEN "present" ELSE "absent",
                                          enabled |-> w \in present, rev |-> 0]]
    BY DEF Init
  <2>2. 0 \in Revisions
    BY WebhookAssumption DEF Revisions
  <2> QED
    BY <2>1, <2>2 DEF CampaignWebhookSubscription
<1>3. Owned = {} /\ Staged = {} /\ QueuedIds(deliveries) = {}
  BY <1>1 DEF Owned, Staged, QueuedIds, Queued
<1>4. IsFiniteSet({}) /\ Cardinality({}) = 0
  BY FS_EmptySet
<1>5. TypeOK
  BY <1>1, <1>2, WebhookAssumption DEF TypeOK
<1>6. LedgersWell
  BY <1>1, <1>4 DEF LedgersWell, LedgerWell, Ledgers, Single, Ahead
<1>7. Places /\ PendingIsReserved
  BY <1>1, <1>3, <1>4, WebhookAssumption DEF Places, PendingIsReserved
<1>8. Turns /\ QueuedIsOwned
  BY <1>1, <1>3 DEF Turns, Waiting, Past, QueuedIsOwned
<1>9. Configured /\ Sent
  BY <1>1, <1>2 DEF Configured, Sent, AtMostOneStaleSend
<1> QED
  BY <1>5, <1>6, <1>7, <1>8, <1>9 DEF WebhookInv

-------------------------------------------------------------------------------
(***************************************************************************)
(* What the kinds of steps make of each part.                              *)
(***************************************************************************)

\* The state is written, or it is not.
Written == UNCHANGED saved \/ Save

\* Ids and flags of a well-formed ledger.
LEMMA LedgerTypes ==
  ASSUME NEW S \in Ledgers
  PROVE  \A d \in S : d \in CampaignWebhookDelivery /\ d.id \in Nat /\ d.webhook \in Webhooks
BY DEF Ledgers, CampaignWebhookDelivery, Ids

\* Memory keeps the outcomes that are on disk.
Onward == \A d \in saved.deliveries, e \in deliveries' : d.id = e.id => d.status \in {"queued", e.status}

\* ... when deliveries get their outcome,
LEMMA OnwardSettle ==
  ASSUME LedgersWell, NEW I, Settles(deliveries, deliveries', I)
  PROVE  Onward
<1>1. \A e \in deliveries' : \E d \in deliveries : d.id = e.id /\ d.status \in {"queued", e.status}
  BY DEF Settles, Queued
<1> QED
  BY <1>1 DEF LedgersWell, Ahead, Onward

\* ... and when new ones are added.
LEMMA OnwardAdd ==
  ASSUME LedgersWell, lastId \in Nat, NEW n \in Nat, Adds(deliveries, deliveries', NewIds(n))
  PROVE  Onward
<1>1. \A e \in deliveries' : e \in deliveries \/ (e.id > lastId /\ e.id <= lastId + n)
  BY DEF Adds, NewIds
<1>2. \A d \in saved.deliveries : d.id \in Nat /\ d.id <= lastId
  BY LedgerTypes DEF LedgersWell, LedgerWell
<1> QED
  BY <1>1, <1>2 DEF LedgersWell, Ahead, Onward

\* The ledgers stay in order when deliveries get their outcome, flushed or not,
LEMMA LedgersSettle ==
  ASSUME LedgersWell, lastId \in Nat, UNCHANGED lastId, Written,
         NEW I, Settles(deliveries, deliveries', I)
  PROVE  LedgersWell'
<1>1. \A e \in deliveries' : \E d \in deliveries : d.id = e.id /\ d.status \in {"queued", e.status}
  BY DEF Settles, Queued
<1>2. LedgerWell(deliveries)'
  BY <1>1 DEF Settles, LedgersWell, LedgerWell
<1>3. Onward
  BY OnwardSettle
<1>4. CASE UNCHANGED saved
  BY <1>2, <1>3, <1>4 DEF Onward, LedgersWell, LedgerWell, Ahead
<1>5. CASE Save
  <2>1. saved'.deliveries = deliveries'
    BY <1>5 DEF Save
  <2> QED
    BY <1>2, <2>1 DEF LedgersWell, LedgerWell, Ahead, Single
<1> QED
  BY <1>4, <1>5 DEF Written

\* ... and when new deliveries are added.
LEMMA LedgersAdd ==
  ASSUME LedgersWell, lastId \in Nat, NEW n \in Nat, lastId' = lastId + n, Written,
         Adds(deliveries, deliveries', NewIds(n))
  PROVE  LedgersWell'
<1>1. \A e \in deliveries' : e \in deliveries \/ (e.id > lastId /\ e.id <= lastId')
  BY DEF Adds, NewIds
<1>2. LedgerWell(deliveries)'
  <2>1. \A e \in deliveries : e.id \in Nat /\ e.id <= lastId
    BY LedgerTypes DEF LedgersWell, LedgerWell
  <2> QED
    BY <1>1, <2>1 DEF Adds, LedgerWell
<1>3. Onward
  BY OnwardAdd
<1>4. \A d \in saved.deliveries : d.id <= lastId'
  BY LedgerTypes DEF LedgersWell, LedgerWell
<1>5. CASE UNCHANGED saved
  BY <1>2, <1>4, <1>3, <1>5 DEF Onward, LedgersWell, LedgerWell, Ahead
<1>6. CASE Save
  <2>1. saved'.deliveries = deliveries'
    BY <1>6 DEF Save
  <2> QED
    BY <1>2, <2>1 DEF LedgersWell, LedgerWell, Ahead, Single
<1> QED
  BY <1>5, <1>6 DEF Written

\* Memory becomes what is on disk, or stays.
LEMMA LedgersReturn ==
  ASSUME LedgersWell, lastId \in Nat, lastId' \in Nat, lastId <= lastId',
         \/ UNCHANGED saved /\ deliveries' \in {deliveries, saved.deliveries}
         \/ Save /\ deliveries' = deliveries
  PROVE  LedgersWell'
<1>1. /\ \A d \in deliveries : d.id \in Nat /\ d.id <= lastId'
      /\ \A d \in saved.deliveries : d.id \in Nat /\ d.id <= lastId'
  BY LedgerTypes DEF LedgersWell, LedgerWell
<1>2. LedgerWell(deliveries)' /\ LedgerWell(saved.deliveries)'
  BY <1>1 DEF LedgersWell, LedgerWell, Save
<1>3. Ahead'
  BY DEF LedgersWell, LedgerWell, Ahead, Single, Save
<1> QED
  BY <1>2, <1>3 DEF LedgersWell

\* The line of dispatches grows at its end.
LEMMA PlacesAppend ==
  ASSUME queue \in Seq(Dispatches), Places, NEW d \in Dispatches, queue' = Append(queue, d),
         Distinct(d), IdsOf(d) \cap Owned = {}
  PROVE  /\ \A i \in DOMAIN queue' : Distinct(queue'[i])
         /\ \A i, k \in DOMAIN queue' : i # k => IdsOf(queue'[i]) \cap IdsOf(queue'[k]) = {}
         /\ Owned' = Owned \cup IdsOf(d)
<1> DEFINE n == Len(queue)
<1>1. /\ n \in Nat /\ DOMAIN queue = 1..n /\ DOMAIN queue' = 1..(n + 1)
      /\ queue'[n + 1] = d /\ \A i \in 1..n : queue'[i] = queue[i]
  OBVIOUS
<1>2. \A i \in 1..(n + 1) : i = n + 1 \/ i \in 1..n
  BY <1>1
<1>3. \A i \in 1..n : IdsOf(queue[i]) \cap IdsOf(d) = {}
  BY <1>1 DEF Owned
<1> HIDE DEF n
<1>4. \A i \in 1..(n + 1) : Distinct(queue'[i])
  BY <1>1, <1>2 DEF Places
<1>5. ASSUME NEW i \in 1..(n + 1), NEW k \in 1..(n + 1), i # k
      PROVE  IdsOf(queue'[i]) \cap IdsOf(queue'[k]) = {}
  <2>1. CASE i \in 1..n /\ k \in 1..n
    BY <1>1, <1>5, <2>1 DEF Places
  <2>2. CASE i = n + 1 /\ k \in 1..n
    BY <1>1, <1>3, <2>2
  <2>3. CASE k = n + 1 /\ i \in 1..n
    BY <1>1, <1>3, <2>3
  <2> QED
    BY <1>2, <1>5, <2>1, <2>2, <2>3
<1>6. Owned' = Owned \cup IdsOf(d)
  <2>1. Owned' = UNION {IdsOf(queue'[i]) : i \in 1..(n + 1)}
    BY <1>1 DEF Owned, IdsOf
  <2>2. Owned = UNION {IdsOf(queue[i]) : i \in 1..n}
    BY <1>1 DEF Owned
  <2>3. n + 1 \in 1..(n + 1) /\ \A i \in 1..n : i \in 1..(n + 1)
    BY <1>1
  <2> QED
    BY <1>1, <1>2, <2>1, <2>2, <2>3
<1> QED
  BY <1>1, <1>4, <1>5, <1>6

\* The first dispatch leaves the line.
LEMMA PlacesTail ==
  ASSUME queue \in Seq(Dispatches), queue # <<>>, Places, queue' = Tail(queue)
  PROVE  /\ \A i \in DOMAIN queue' : i + 1 \in DOMAIN queue /\ queue'[i] = queue[i + 1]
         /\ \A i \in DOMAIN queue' : Distinct(queue'[i])
         /\ \A i, k \in DOMAIN queue' : i # k => IdsOf(queue'[i]) \cap IdsOf(queue'[k]) = {}
         /\ Owned' = Owned \ IdsOf(queue[1]) /\ IdsOf(queue[1]) \subseteq Owned /\ queue[1] \in Dispatches
<1> DEFINE n == Len(queue)
<1>1. /\ n \in Nat \ {0} /\ DOMAIN queue = 1..n /\ DOMAIN queue' = 1..(n - 1)
      /\ \A i \in 1..(n - 1) : queue'[i] = queue[i + 1]
  OBVIOUS
<1> HIDE DEF n
<1>2. /\ 1 \in 1..n /\ \A i \in 1..(n - 1) : i + 1 \in 1..n /\ i + 1 # 1
      /\ \A i \in 1..n : i = 1 \/ (i - 1 \in 1..(n - 1) /\ (i - 1) + 1 = i)
  BY <1>1
<1>3. \A i \in 1..n : i # 1 => IdsOf(queue[i]) \cap IdsOf(queue[1]) = {}
  BY <1>1, <1>2 DEF Places
<1>4. \A i \in 1..(n - 1) : Distinct(queue'[i])
  BY <1>1, <1>2 DEF Places
<1>5. ASSUME NEW i \in 1..(n - 1), NEW k \in 1..(n - 1), i # k
      PROVE  IdsOf(queue'[i]) \cap IdsOf(queue'[k]) = {}
  <2>1. i + 1 # k + 1
    BY <1>1, <1>5
  <2> QED
    BY <1>1, <1>2, <2>1 DEF Places
<1>6. Owned' = UNION {IdsOf(queue'[i]) : i \in 1..(n - 1)}
  BY <1>1 DEF Owned, IdsOf
<1>7. Owned = UNION {IdsOf(queue[i]) : i \in 1..n}
  BY <1>1 DEF Owned
<1>8. ASSUME NEW x
      PROVE  x \in Owned' <=> x \in Owned \ IdsOf(queue[1])
  <2>1. ASSUME x \in Owned'
        PROVE  x \in Owned \ IdsOf(queue[1])
    <3>1. PICK i \in 1..(n - 1) : x \in IdsOf(queue'[i])
      BY <1>6, <2>1
    <3>2. x \in IdsOf(queue[i + 1]) /\ i + 1 \in 1..n /\ i + 1 # 1
      BY <1>1, <1>2, <3>1
    <3> QED
      BY <1>3, <1>7, <3>2
  <2>2. ASSUME x \in Owned, x \notin IdsOf(queue[1])
        PROVE  x \in Owned'
    <3>1. PICK i \in 1..n : x \in IdsOf(queue[i])
      BY <1>7, <2>2
    <3>2. i - 1 \in 1..(n - 1) /\ queue'[i - 1] = queue[i]
      BY <1>1, <1>2, <2>2, <3>1
    <3> QED
      BY <1>6, <3>1, <3>2
  <2> QED
    BY <2>1, <2>2
<1>9. Owned' = Owned \ IdsOf(queue[1]) /\ IdsOf(queue[1]) \subseteq Owned /\ queue[1] \in Dispatches
  BY <1>1, <1>2, <1>7, <1>8
<1> QED
  BY <1>1, <1>2, <1>4, <1>5, <1>9

\* The types, one by one.
LEMMA Types ==
  ASSUME TypeOK
  PROVE  /\ webhooks \in [Webhooks -> CampaignWebhookSubscription]
         /\ pending \in Nat /\ staged \in Seq(Dispatches) /\ queue \in Seq(Dispatches)
         /\ at \in Nat \ {0} /\ lastId \in Nat /\ lastEvent \in Nat /\ turns \in Nat
         /\ sends \subseteq [id : Ids, webhook : Webhooks, rev : Revisions, now : Revisions]
<1>1. pending \in 0..MaxPending /\ lastEvent \in 0..MaxEvents /\ turns \in 0..MaxTurns
  BY DEF TypeOK
<1>2. pending \in Nat /\ lastEvent \in Nat /\ turns \in Nat
  BY <1>1, WebhookAssumption
<1> QED
  BY <1>2 DEF TypeOK

\* Revisions are numbers.
LEMMA RevisionTypes ==
  ASSUME TypeOK
  PROVE  /\ \A w \in Webhooks : webhooks[w].rev \in Nat /\ webhooks[w].rev \in Revisions
         /\ \A s \in sends : s.now \in Nat /\ s.rev \in Nat /\ s.webhook \in Webhooks
<1>1. Revisions \subseteq Nat
  BY WebhookAssumption DEF Revisions
<1>2. \A w \in Webhooks : webhooks[w] \in CampaignWebhookSubscription
  BY Types
<1>3. \A s \in sends : s \in [id : Ids, webhook : Webhooks, rev : Revisions, now : Revisions]
  BY Types
<1> QED
  BY <1>1, <1>2, <1>3 DEF CampaignWebhookSubscription

\* A dispatch is a sequence of places.
LEMMA DispatchType ==
  ASSUME NEW d \in Dispatches
  PROVE  /\ Len(d.work) \in Nat /\ DOMAIN d.work = 1..Len(d.work)
         /\ \A j \in DOMAIN d.work :
              /\ d.work[j].id \in Nat /\ d.work[j].id \in Ids /\ d.work[j].id \in IdsOf(d)
              /\ d.work[j].webhook \in Webhooks /\ d.work[j].rev \in Revisions
<1> DEFINE R == [webhook : Webhooks, rev : Revisions, id : Ids]
<1>1. d.work \in Seq(R)
  BY DEF Dispatches
<1> HIDE DEF R
<1>2. Len(d.work) \in Nat /\ DOMAIN d.work = 1..Len(d.work)
  BY <1>1
<1>3. \A j \in DOMAIN d.work : d.work[j] \in R
  BY <1>1
<1> QED
  BY <1>2, <1>3 DEF R, Ids, IdsOf

\* The dispatch that runs.
LEMMA FirstType ==
  ASSUME TypeOK, queue # <<>>
  PROVE  /\ 1 \in DOMAIN queue /\ Work = queue[1].work /\ Head(queue) = queue[1]
         /\ queue[1] \in Dispatches /\ IdsOf(queue[1]) \subseteq Owned
<1>1. 1 \in DOMAIN queue /\ Head(queue) = queue[1] /\ queue[1] \in Dispatches
  BY Types
<1> QED
  BY <1>1 DEF Work, Owned

\* An id in the line is an old one.
LEMMA OldIds ==
  ASSUME TypeOK, Places, NEW n \in Owned \cup Staged
  PROVE  n \in Nat /\ n <= lastId /\ lastId \in Nat
<1>1. lastId \in Nat /\ n <= lastId
  BY Types DEF Places
<1>2. \E d \in Dispatches : n \in IdsOf(d)
  BY Types DEF Owned, Staged
<1>3. n \in Nat
  BY <1>2, DispatchType DEF IdsOf
<1> QED
  BY <1>1, <1>3

\* What waits in both copies of the ledger goes on to wait, and what waits is old or new.
Between ==
  /\ QueuedIds(deliveries) \cap QueuedIds(saved.deliveries)
       \subseteq QueuedIds(deliveries') \cap QueuedIds(saved'.deliveries)
  /\ \A n \in QueuedIds(deliveries') \cup QueuedIds(saved'.deliveries) :
       n \in QueuedIds(deliveries) \cup QueuedIds(saved.deliveries) \/ n > lastId

\* The turns to come and past stay as they are.
LEMMA TurnsStay ==
  ASSUME TypeOK, Places, Turns, Between, UNCHANGED dispatcher
  PROVE  Waiting(deliveries)' /\ Waiting(saved.deliveries)' /\ Past'
<1>1. UNCHANGED <<queue, at, step>>
  BY DEF dispatcher
<1>2. Waiting(deliveries)' /\ Waiting(saved.deliveries)'
  <2>1. ASSUME NEW i \in DOMAIN queue, NEW j \in DOMAIN queue[i].work, ToCome(i, j)
        PROVE  queue[i].work[j].id \in QueuedIds(deliveries') \cap QueuedIds(saved'.deliveries)
    BY <2>1 DEF Turns, Waiting, Between
  <2> QED
    BY <1>1, <2>1 DEF Waiting, ToCome, QueuedIds, Queued
<1>3. Past'
  <2>1. ASSUME queue # <<>>, NEW j \in DOMAIN Work, j < at
        PROVE  Work[j].id \notin QueuedIds(deliveries') \cup QueuedIds(saved'.deliveries)
    <3>1. Work[j].id \notin QueuedIds(deliveries) \cup QueuedIds(saved.deliveries)
      BY <2>1 DEF Turns, Past
    <3>2. Work[j].id \in Owned /\ Work[j].id \in Nat /\ Work[j].id <= lastId /\ lastId \in Nat
      <4>1. Work[j].id \in Owned
        BY <2>1, FirstType, DispatchType
      <4> QED
        BY <4>1, OldIds
    <3>3. ~(Work[j].id > lastId)
      BY <3>2
    <3> QED
      BY <3>1, <3>3 DEF Between
  <2> QED
    BY <1>1, <2>1 DEF Past, Work, QueuedIds, Queued
<1> QED
  BY <1>2, <1>3

\* A dispatch that waits in both copies joins the line.
LEMMA TurnsAppend ==
  ASSUME TypeOK, Places, Turns, Between, NEW d \in Dispatches, queue' = Append(queue, d),
         UNCHANGED <<at, step>>,
         IdsOf(d) \subseteq QueuedIds(deliveries') \cap QueuedIds(saved'.deliveries)
  PROVE  Waiting(deliveries)' /\ Waiting(saved.deliveries)' /\ Past' /\ queue' # <<>>
<1> DEFINE n == Len(queue)
<1>1. queue \in Seq(Dispatches)
  BY DEF TypeOK
<1>2. /\ n \in Nat /\ DOMAIN queue = 1..n /\ DOMAIN queue' = 1..(n + 1)
      /\ queue'[n + 1] = d /\ \A i \in 1..n : queue'[i] = queue[i]
  BY <1>1
<1>3. queue' # <<>>
  BY <1>1
<1> HIDE DEF n
<1>4. ASSUME NEW i \in DOMAIN queue', NEW j \in DOMAIN queue'[i].work, ToCome(i, j)
      PROVE  queue'[i].work[j].id \in QueuedIds(deliveries') \cap QueuedIds(saved'.deliveries)
  <2>1. CASE i = n + 1
    BY <1>2, <1>4, <2>1 DEF IdsOf
  <2>2. CASE i \in 1..n
    BY <1>2, <1>4, <2>2 DEF Turns, Waiting, Between
  <2> QED
    BY <1>2, <1>4, <2>1, <2>2
<1>5. Waiting(deliveries)' /\ Waiting(saved.deliveries)'
  BY <1>4 DEF Waiting, ToCome, QueuedIds, Queued
<1>6. Past'
  <2>1. CASE queue = <<>>
    <3>1. at' = 1
      BY <2>1 DEF Turns
    <3>2. DOMAIN queue'[1].work \subseteq Nat \ {0}
      BY <1>1, <2>1 DEF Dispatches
    <3> QED
      BY <3>1, <3>2 DEF Past, Work
  <2>2. CASE queue # <<>>
    <3>1. Work' = Work /\ 1 \in 1..n /\ Work = queue[1].work /\ queue[1] \in Dispatches
      BY <1>1, <1>2, <2>2 DEF Work
    <3>2. ASSUME NEW j \in DOMAIN Work, j < at
          PROVE  Work[j].id \notin QueuedIds(deliveries') \cup QueuedIds(saved'.deliveries)
      <4>1. Work[j].id \notin QueuedIds(deliveries) \cup QueuedIds(saved.deliveries)
        BY <2>2, <3>2 DEF Turns, Past
      <4>2. Work[j].id \in Owned
        BY <2>2, <3>2, FirstType, DispatchType
      <4>3. ~(Work[j].id > lastId)
        BY <4>2, OldIds
      <4> QED
        BY <4>1, <4>3 DEF Between
    <3> QED
      BY <3>1, <3>2 DEF Past, QueuedIds, Queued
  <2> QED
    BY <2>1, <2>2
<1> QED
  BY <1>3, <1>5, <1>6

\* Nothing leaves, and the subscriptions only get newer.
LEMMA SentStays ==
  ASSUME TypeOK, TypeOK', Sent, UNCHANGED sends, \A w \in Webhooks : webhooks[w].rev <= webhooks'[w].rev,
         step' = "resolve" => queue # <<>> /\ step = "resolve" /\ Turn' = Turn
  PROVE  Sent'
<1>1. \A s \in sends : s.now \in Nat /\ s.webhook \in Webhooks
  BY RevisionTypes
<1>2. \A w \in Webhooks : webhooks[w].rev \in Nat /\ webhooks'[w].rev \in Nat
  <2>1. \A w \in Webhooks : webhooks[w].rev \in Nat
    BY RevisionTypes
  <2>2. webhooks' \in [Webhooks -> CampaignWebhookSubscription]
    BY DEF TypeOK
  <2>3. Revisions \subseteq Nat
    BY WebhookAssumption DEF Revisions
  <2> QED
    BY <2>1, <2>2, <2>3 DEF CampaignWebhookSubscription
<1>3. \A s \in sends : s.now <= webhooks'[s.webhook].rev
  BY <1>1, <1>2 DEF Sent
<1>4. AtMostOneStaleSend'
  BY DEF Sent, AtMostOneStaleSend
<1>5. queue' # <<>> /\ step' = "resolve" =>
        \A s \in sends : s.webhook = Turn'.webhook /\ s.rev = Turn'.rev => s.now <= s.rev
  BY DEF Sent
<1> QED
  BY <1>3, <1>4, <1>5 DEF Sent

\* The places of n new deliveries are taken.
LEMMA TakePlaces ==
  ASSUME TypeOK, Places, PendingIsReserved, NEW n \in Nat, pending' = pending + n,
         pending + n <= MaxPending, IsFiniteSet(Owned'),
         Owned' \cup Staged' = (Owned \cup Staged) \cup NewIds(n), IsFiniteSet(Staged)
  PROVE  PendingIsReserved'
<1> DEFINE L == Owned \cup Staged
<1>1. IsFiniteSet(L)
  BY FS_Union DEF Places
<1>2. IsFiniteSet(NewIds(n)) /\ Cardinality(NewIds(n)) = n
  <2>1. lastId \in Int /\ lastId + 1 \in Int /\ lastId + n \in Int
    BY Types
  <2>2. IsFiniteSet((lastId + 1)..(lastId + n))
    BY <2>1, FS_Interval
  <2>3. Cardinality((lastId + 1)..(lastId + n)) =
          IF lastId + 1 > lastId + n THEN 0 ELSE (lastId + n) - (lastId + 1) + 1
    BY <2>1, FS_Interval
  <2> QED
    BY <2>1, <2>2, <2>3 DEF NewIds
<1>3. L \cap NewIds(n) = {}
  BY OldIds DEF NewIds
<1>4. Cardinality(L \cup NewIds(n)) = Cardinality(L) + n
  <2>1. Cardinality(L \cap NewIds(n)) = 0
    BY <1>3, FS_EmptySet
  <2>2. Cardinality(L) \in Nat
    BY <1>1, FS_CardinalityType
  <2>3. Cardinality(L \cup NewIds(n)) = Cardinality(L) + Cardinality(NewIds(n)) - Cardinality(L \cap NewIds(n))
    BY <1>1, <1>2, FS_Union
  <2> QED
    BY <1>2, <2>1, <2>2, <2>3
<1> QED
  BY <1>4 DEF PendingIsReserved

\* The places of some deliveries are given back.
LEMMA ReturnPlaces ==
  ASSUME TypeOK, Places, PendingIsReserved, IsFiniteSet(Staged), NEW I, I \subseteq Owned \cup Staged,
         Owned' \cup Staged' = (Owned \cup Staged) \ I, NEW n, Cardinality(I) = n, pending' = Without(n)
  PROVE  PendingIsReserved' /\ pending' \in 0..MaxPending /\ n <= pending
<1> DEFINE L == Owned \cup Staged
<1>1. IsFiniteSet(L)
  BY FS_Union DEF Places
<1>2. IsFiniteSet(I) /\ Cardinality(I) <= Cardinality(L) /\ L \cap I = I
  BY <1>1, FS_Subset
<1>3. Cardinality(L \ I) = Cardinality(L) - n
  <2>1. Cardinality(L \ I) = Cardinality(L) - Cardinality(L \cap I)
    BY <1>1, FS_Difference
  <2> QED
    BY <1>2, <2>1
<1>4. n \in Nat /\ Cardinality(L) \in Nat
  BY <1>1, <1>2, FS_CardinalityType
<1>5. pending = Cardinality(L) /\ pending <= MaxPending /\ MaxPending \in Nat
  BY WebhookAssumption DEF PendingIsReserved
<1>6. pending' = pending - n /\ n <= pending
  BY <1>2, <1>4, <1>5 DEF Without
<1>7. pending' = Cardinality(Owned' \cup Staged')
  BY <1>3, <1>5, <1>6
<1>8. pending' <= MaxPending /\ pending' \in Nat
  BY <1>4, <1>5, <1>6
<1> QED
  BY <1>5, <1>6, <1>7, <1>8 DEF PendingIsReserved

\* The one who may be staged.
LEMMA StagedType ==
  ASSUME TypeOK, Places
  PROVE  /\ IsFiniteSet(Staged)
         /\ staged = <<>> => Staged = {}
         /\ staged # <<>> =>
              /\ staged[1] \in Dispatches /\ staged = <<staged[1]>> /\ Distinct(staged[1])
              /\ Staged = IdsOf(staged[1]) /\ \E id \in Ids : IdsOf(staged[1]) = {id}
<1>1. CASE staged = <<>>
  <2>1. Staged = {}
    BY <1>1 DEF Staged
  <2> QED
    BY <1>1, <2>1, FS_EmptySet
<1>2. CASE staged # <<>>
  <2>1. Len(staged) = 1 /\ Len(staged[1].work) = 1 /\ staged \in Seq(Dispatches)
    BY <1>2, Types DEF Places
  <2>2. staged[1] \in Dispatches /\ DOMAIN staged = {1}
    <3>1. DOMAIN staged = 1..1 /\ 1..1 = {1}
      BY <2>1
    <3>2. 1 \in 1..Len(staged)
      BY <2>1
    <3>3. staged[1] \in Dispatches
      <4>1. staged \in Seq(Dispatches)
        BY Types
      <4> QED
        BY <3>2, <4>1
    <3> QED
      BY <3>1, <3>3
  <2>3. staged = <<staged[1]>>
    BY <2>1
  <2>4. DOMAIN staged[1].work = {1} /\ staged[1].work[1].id \in Ids
    BY <2>1, <2>2, DispatchType
  <2>5. Staged = IdsOf(staged[1])
    BY <2>2 DEF Staged
  <2>6. IdsOf(staged[1]) = {staged[1].work[1].id}
    BY <2>4 DEF IdsOf
  <2>7. Distinct(staged[1])
    BY <2>4 DEF Distinct
  <2>8. IsFiniteSet(Staged)
    BY <2>5, <2>6, FS_Singleton
  <2> QED
    BY <1>2, <2>2, <2>4, <2>5, <2>6, <2>7, <2>3, <2>8
<1> QED
  BY <1>1, <1>2

\* What waits has an id.
LEMMA QueuedTypes ==
  ASSUME NEW S \in Ledgers
  PROVE  QueuedIds(S) \subseteq Ids
BY DEF Ledgers, CampaignWebhookDelivery, QueuedIds, Queued

\* What waits once deliveries were added,
LEMMA AddsQueued ==
  ASSUME NEW S, NEW T, NEW I, Adds(S, T, I)
  PROVE  QueuedIds(T) = QueuedIds(S) \cup I
<1>1. \A e \in Queued(T) : e \in Queued(S) \/ e.id \in I
  BY DEF Adds, Queued
<1>2. Queued(S) \subseteq Queued(T)
  BY DEF Adds, Queued
<1> QED
  BY <1>1, <1>2 DEF Adds, QueuedIds

\* ... and once some were settled.
LEMMA SettlesQueued ==
  ASSUME NEW S, NEW T, NEW I, Settles(S, T, I)
  PROVE  QueuedIds(T) = QueuedIds(S) \ I
<1>1. \A e \in Queued(T) : e \in Queued(S) /\ e.id \notin I
  BY DEF Settles, Queued
<1>2. \A d \in Queued(S) : d.id \in I \/ d \in Queued(T)
  BY DEF Settles, Queued
<1> QED
  BY <1>1, <1>2 DEF QueuedIds

\* A bounded step is counted.
LEMMA TurnTakenType ==
  ASSUME TypeOK, TurnTaken
  PROVE  turns' \in 0..MaxTurns /\ turns' = turns + 1 /\ turns \in Nat
BY Types, WebhookAssumption DEF TurnTaken

\* The same line has the same ids.
LEMMA SameLine ==
  /\ UNCHANGED queue => Owned' = Owned
  /\ UNCHANGED staged => Staged' = Staged
  /\ UNCHANGED saved => QueuedIds(saved'.deliveries) = QueuedIds(saved.deliveries)
BY DEF Owned, Staged, IdsOf

\* The recipients fit into the room that is left.
LEMMA RecipientsType ==
  ASSUME TypeOK, PendingIsReserved, NEW to \in Recipients
  PROVE  to \in Seq(Webhooks) /\ Len(to) \in Nat /\ pending + Len(to) <= MaxPending
<1> DEFINE fit == IF Cardinality(Enabled) <= Room THEN Cardinality(Enabled) ELSE Room
<1>1. IsFiniteSet(Enabled) /\ Enabled \subseteq Webhooks
  BY WebhookAssumption, FS_Subset DEF Enabled
<1>2. Cardinality(Enabled) \in Nat
  BY <1>1, FS_CardinalityType
<1>3. pending \in Nat /\ MaxPending \in Nat /\ pending <= MaxPending
  BY Types, WebhookAssumption DEF PendingIsReserved
<1>4. Room \in Nat /\ pending + Room <= MaxPending
  BY <1>3 DEF Room
<1>5. fit \in Nat /\ pending + fit <= MaxPending
  BY <1>2, <1>3, <1>4
<1>6. to \in [1..fit -> Enabled]
  BY DEF Recipients
<1> HIDE DEF fit
<1>7. to \in [1..fit -> Webhooks]
  BY <1>1, <1>6
<1> QED
  BY <1>5, <1>7

\* A broadcast's dispatch has the new ids, one for each place.
LEMMA PreparedType ==
  ASSUME TypeOK, Places, NEW to \in Seq(Webhooks)
  PROVE  /\ Prepared(to) \in Dispatches /\ Distinct(Prepared(to))
         /\ IdsOf(Prepared(to)) = NewIds(Len(to)) /\ NewIds(Len(to)) \cap (Owned \cup Staged) = {}
         /\ NewIds(Len(to)) \subseteq Ids
<1> DEFINE n == Len(to)
           R == [webhook : Webhooks, rev : Revisions, id : Ids]
           work == [i \in 1..n |-> [webhook |-> to[i], rev |-> webhooks[to[i]].rev, id |-> lastId + i]]
<1>1. n \in Nat /\ lastId \in Nat
  BY Types
<1>2. ASSUME NEW i \in 1..n
      PROVE  work[i] \in R /\ work[i].id = lastId + i
  <2>1. to[i] \in Webhooks /\ lastId + i \in Ids
    BY <1>1 DEF Ids
  <2>2. webhooks[to[i]].rev \in Revisions
    BY <2>1, RevisionTypes
  <2> QED
    BY <2>1, <2>2
<1>3. Prepared(to) = [automatic |-> TRUE, work |-> work]
  BY DEF Prepared
<1>4. work \in [1..n -> R]
  <2> HIDE DEF R
  <2> QED
    BY <1>2
<1> HIDE DEF work, n, R
<1>5. DOMAIN work = 1..n /\ work \in Seq(R)
  BY <1>1, <1>4
<1>6. Prepared(to) \in Dispatches
  BY <1>3, <1>5 DEF Dispatches, R
<1>7. Distinct(Prepared(to))
  BY <1>1, <1>2, <1>3, <1>5 DEF Distinct
<1>8. IdsOf(Prepared(to)) = NewIds(n)
  <2>1. IdsOf(Prepared(to)) = {lastId + i : i \in 1..n}
    BY <1>2, <1>3, <1>5 DEF IdsOf
  <2>2. {lastId + i : i \in 1..n} \subseteq NewIds(n)
    BY <1>1 DEF NewIds
  <2>3. ASSUME NEW k \in NewIds(n)
        PROVE  \E i \in 1..n : k = lastId + i
    <3>1. k - lastId \in 1..n /\ k = lastId + (k - lastId)
      BY <1>1 DEF NewIds
    <3> QED
      BY <3>1
  <2> QED
    BY <2>1, <2>2, <2>3
<1>9. NewIds(n) \cap (Owned \cup Staged) = {}
  BY OldIds DEF NewIds
<1>10. NewIds(n) \subseteq Ids
  BY <1>1 DEF NewIds, Ids
<1> QED
  BY <1>6, <1>7, <1>8, <1>9, <1>10 DEF n

-------------------------------------------------------------------------------
(***************************************************************************)
(* Publishing.                                                             *)
(***************************************************************************)

\* A broadcast that is flushed: the new deliveries wait in both ledgers and join the line.
LEMMA PublishStep ==
  ASSUME WebhookInv, NEW gated \in BOOLEAN, NEW to \in Recipients, Publish(gated, to)
  PROVE  WebhookInv'
<1> DEFINE n == Len(to)
<1> USE DEF WebhookInv
<1>1. to \in Seq(Webhooks) /\ n \in Nat /\ pending + n <= MaxPending
  BY RecipientsType
<1>2. /\ lastId' = lastId + n /\ lastId \in Nat /\ lastEvent \in Nat /\ lastEvent' = lastEvent + 1
      /\ lastEvent < MaxEvents /\ deliveries' = WithPrepared(to) /\ pending' = pending + n
      /\ UNCHANGED <<webhooks, staged, at, step, sends, stranded, turns>> /\ Save
      /\ queue' = IF to = <<>> THEN queue ELSE Append(queue, Prepared(to))
  BY Types DEF Publish, Published
<1>3. Adds(deliveries, deliveries', NewIds(n))
  BY <1>1, <1>2, PreparedWell DEF LedgersWell, LedgerWell
<1> HIDE DEF n
<1>4. /\ saved'.deliveries = deliveries' /\ saved'.webhooks = webhooks' /\ Written
      /\ QueuedIds(deliveries') = QueuedIds(deliveries) \cup NewIds(n)
  BY <1>2, <1>3, AddsQueued DEF Save, Written
<1>5. LedgersWell'
  BY <1>1, <1>2, <1>3, <1>4, LedgersAdd
<1>6. Between
  BY <1>2, <1>4 DEF Between, NewIds
<1>7. /\ Prepared(to) \in Dispatches /\ Distinct(Prepared(to))
      /\ IdsOf(Prepared(to)) = NewIds(n) /\ NewIds(n) \cap (Owned \cup Staged) = {}
  BY <1>1, PreparedType DEF n
<1>8. Staged' = Staged /\ IsFiniteSet(Staged)
  BY <1>2, SameLine, StagedType
<1>9. /\ queue' \in Seq(Dispatches)
      /\ \A i \in DOMAIN queue' : Distinct(queue'[i])
      /\ \A i, k \in DOMAIN queue' : i # k => IdsOf(queue'[i]) \cap IdsOf(queue'[k]) = {}
      /\ Owned' = Owned \cup NewIds(n)
  <2>1. CASE to = <<>>
    <3>1. n = 0 /\ NewIds(n) = {} /\ queue' = queue
      BY <1>2, <2>1 DEF n, NewIds
    <3>2. Owned' = Owned
      BY <3>1, SameLine
    <3> QED
      BY <3>1, <3>2, Types DEF Places
  <2>2. CASE to # <<>>
    <3>1. queue' = Append(queue, Prepared(to)) /\ queue \in Seq(Dispatches)
      BY <1>2, <2>2, Types
    <3> QED
      BY <1>7, <3>1, PlacesAppend
  <2> QED
    BY <2>1, <2>2
<1>10. IsFiniteSet(Owned')
  <2>1. IsFiniteSet(NewIds(n))
    BY <1>1, <1>2, FS_Interval DEF NewIds
  <2> QED
    BY <1>9, <2>1, FS_Union DEF Places
<1>11. Places'
  <2>1. \A k \in NewIds(n) : k <= lastId'
    BY <1>2 DEF NewIds
  <2>2. \A k \in Owned \cup Staged : k <= lastId'
    BY <1>1, <1>2, OldIds
  <2> QED
    BY <1>2, <1>7, <1>8, <1>9, <1>10, <2>1, <2>2 DEF Places
<1>12. PendingIsReserved'
  BY <1>1, <1>2, <1>8, <1>9, <1>10, TakePlaces
<1>13. Turns'
  <2>1. Waiting(deliveries)' /\ Waiting(saved.deliveries)' /\ Past'
    <3>1. CASE to = <<>>
      BY <1>2, <1>6, <3>1, TurnsStay DEF dispatcher
    <3>2. CASE to # <<>>
      <4>1. IdsOf(Prepared(to)) \subseteq QueuedIds(deliveries') \cap QueuedIds(saved'.deliveries)
        BY <1>4, <1>7
      <4> QED
        BY <1>2, <1>6, <1>7, <3>2, <4>1, TurnsAppend
    <3> QED
      BY <3>1, <3>2
  <2>2. queue' = <<>> => queue = <<>>
    BY <1>2, Types
  <2>3. Staged' \subseteq QueuedIds(deliveries')
    BY <1>4, <1>8 DEF Turns
  <2> QED
    BY <1>2, <2>1, <2>2, <2>3 DEF Turns, QueuedIds, Queued
<1>14. QueuedIsOwned'
  BY <1>2, <1>4, <1>8, <1>9 DEF QueuedIsOwned, QueuedIds, Queued
<1>15. Configured'
  BY <1>2, <1>4 DEF Configured
<1>16. TypeOK'
  <2>1. deliveries' \subseteq CampaignWebhookDelivery
    BY <1>3 DEF Adds, Ledgers
  <2>2. pending' \in 0..MaxPending /\ lastId' \in Nat /\ lastEvent' \in 0..MaxEvents
    BY <1>1, <1>2, Types, WebhookAssumption
  <2> QED
    BY <1>2, <1>4, <1>9, <2>1, <2>2 DEF TypeOK
<1>17. Sent'
  <2>1. step' = "resolve" => queue # <<>> /\ step = "resolve" /\ Turn' = Turn
    <3>1. ASSUME queue # <<>>
          PROVE  Turn' = Turn
      <4>1. Head(queue') = Head(queue)
        BY <1>2, <3>1, Types
      <4> QED
        BY <1>2, <4>1 DEF Turn, Work
    <3> QED
      BY <1>2, <3>1 DEF Turns
  <2>2. \A w \in Webhooks : webhooks[w].rev <= webhooks'[w].rev
    BY <1>2, RevisionTypes
  <2> QED
    BY <1>2, <1>16, <2>1, <2>2, SentStays
<1> QED
  BY <1>5, <1>11, <1>12, <1>13, <1>14, <1>15, <1>16, <1>17

-------------------------------------------------------------------------------
(***************************************************************************)
(* The requests: what runs while the dispatcher stands still.              *)
(***************************************************************************)

\* A request that leaves the line alone has only these facts to show.
LEMMA SameDispatcher ==
  ASSUME WebhookInv, TypeOK', LedgersWell', Between, UNCHANGED <<queue, at, step, sends>>,
         PendingIsReserved', Configured', \A w \in Webhooks : webhooks[w].rev <= webhooks'[w].rev,
         lastId <= lastId', \A n \in Staged' : n <= lastId' /\ n \notin Owned,
         staged' = <<>> \/ (Len(staged') = 1 /\ Len(staged'[1].work) = 1),
         Staged' \subseteq QueuedIds(deliveries'),
         QueuedIds(deliveries') \subseteq Owned \cup Staged' \cup stranded'
  PROVE  WebhookInv'
<1> USE DEF WebhookInv
<1>1. Owned' = Owned
  BY SameLine
<1>2. Places'
  <2>1. lastId' \in Nat /\ \A n \in Owned : n \in Nat /\ n <= lastId'
    <3>1. lastId' \in Nat
      BY DEF TypeOK
    <3> QED
      BY <3>1, OldIds
  <2>2. /\ \A i \in DOMAIN queue' : Distinct(queue'[i])
        /\ \A i, k \in DOMAIN queue' : i # k => IdsOf(queue'[i]) \cap IdsOf(queue'[k]) = {}
    BY DEF Places
  <2> QED
    BY <1>1, <2>1, <2>2 DEF Places
<1>3. Turns'
  <2>1. Waiting(deliveries)' /\ Waiting(saved.deliveries)' /\ Past'
    BY TurnsStay DEF dispatcher
  <2> QED
    BY <2>1 DEF Turns, QueuedIds, Queued
<1>4. QueuedIsOwned'
  BY <1>1 DEF QueuedIsOwned, QueuedIds, Queued
<1>5. Sent'
  <2>1. step' = "resolve" => queue # <<>> /\ step = "resolve" /\ Turn' = Turn
    BY DEF Turns, Turn, Work
  <2> QED
    BY <2>1, SentStays
<1> QED
  BY <1>2, <1>3, <1>4, <1>5

\* The same cap, the same places.
LEMMA SamePlaces ==
  ASSUME PendingIsReserved, pending' = pending, Owned' = Owned, Staged' = Staged
  PROVE  PendingIsReserved'
BY DEF PendingIsReserved

\* A broadcast whose flush fails: gated, it leaves no trace; ungated, its deliveries are stranded.
LEMMA PublishFailsStep ==
  ASSUME WebhookInv, NEW gated \in BOOLEAN, NEW to \in Recipients, PublishFails(gated, to)
  PROVE  WebhookInv'
<1> DEFINE n == Len(to)
<1> USE DEF WebhookInv
<1>1. to \in Seq(Webhooks) /\ n \in Nat
  BY RecipientsType
<1>2. /\ lastId' = lastId + n /\ lastId \in Nat /\ lastEvent \in Nat /\ lastEvent' = lastEvent + 1
      /\ lastEvent < MaxEvents
      /\ UNCHANGED <<saved, pending, staged, queue, at, step, sends>>
      /\ gated => staged = <<>>
  BY Types DEF PublishFails, Published, dispatcher
<1>3. Adds(deliveries, WithPrepared(to), NewIds(n))
  BY <1>1, <1>2, PreparedWell DEF LedgersWell, LedgerWell
<1>4. IdsOf(Prepared(to)) = NewIds(n) /\ NewIds(n) \subseteq Ids
  BY <1>1, PreparedType
<1> HIDE DEF n
<1>5. turns' \in 0..MaxTurns /\ turns' = turns + 1 /\ turns \in Nat
  BY TurnTakenType DEF PublishFails
<1>6. Owned' = Owned /\ Staged' = Staged /\ QueuedIds(saved'.deliveries) = QueuedIds(saved.deliveries)
  BY <1>2, SameLine
<1>7. PendingIsReserved'
  BY <1>2, <1>6, SamePlaces
<1>8. UNCHANGED webhooks
  BY DEF PublishFails, Rollback, Configured
<1>9. Configured' /\ \A w \in Webhooks : webhooks[w].rev <= webhooks'[w].rev
  <2>1. \A w \in Webhooks : webhooks[w].rev \in Nat
    BY RevisionTypes
  <2> QED
    BY <1>2, <1>5, <1>8, <2>1 DEF Configured
<1>10. lastId <= lastId' /\ lastId' \in Nat /\ lastEvent' \in 0..MaxEvents
  BY <1>1, <1>2, WebhookAssumption
<1>11. \A k \in Staged' : k <= lastId' /\ k \notin Owned
  <2>1. \A k \in Staged : k <= lastId'
    BY <1>10, OldIds
  <2> QED
    BY <1>6, <2>1 DEF Places
<1>12. staged' = <<>> \/ (Len(staged') = 1 /\ Len(staged'[1].work) = 1)
  BY <1>2 DEF Places
<1>13. CASE gated /\ Rollback
  <2>1. deliveries' = saved.deliveries /\ stranded' = stranded \cup (QueuedIds(saved.deliveries) \ Owned)
    BY <1>13 DEF Rollback
  <2>2. LedgersWell'
    BY <1>2, <1>10, <2>1, LedgersReturn
  <2>3. Between
    BY <1>6, <2>1 DEF Between
  <2>4. Staged' = {}
    BY <1>2, <1>6, <1>13, StagedType
  <2>5. stranded' \subseteq Ids /\ deliveries' \subseteq CampaignWebhookDelivery
    <3>1. QueuedIds(saved.deliveries) \subseteq Ids
      BY QueuedTypes DEF LedgersWell, LedgerWell
    <3> QED
      BY <2>1, <3>1 DEF TypeOK
  <2>6. TypeOK'
    BY <1>2, <1>5, <1>8, <1>10, <2>5 DEF TypeOK
  <2>7. QueuedIds(deliveries') \subseteq Owned \cup Staged' \cup stranded'
    BY <2>1
  <2> QED
    BY <1>2, <1>7, <1>9, <1>10, <1>11, <1>12, <2>2, <2>3, <2>4, <2>6, <2>7, SameDispatcher
<1>14. CASE /\ ~gated /\ deliveries' = WithPrepared(to)
            /\ stranded' = stranded \cup IdsOf(Prepared(to))
  <2>1. QueuedIds(deliveries') = QueuedIds(deliveries) \cup NewIds(n)
    BY <1>3, <1>14, AddsQueued
  <2>2. LedgersWell'
    BY <1>1, <1>2, <1>3, <1>14, LedgersAdd DEF Written
  <2>3. Between
    BY <1>2, <1>6, <2>1 DEF Between, NewIds
  <2>4. Staged' \subseteq QueuedIds(deliveries')
    BY <1>6, <2>1 DEF Turns
  <2>5. deliveries' \subseteq CampaignWebhookDelivery
    BY <1>3, <1>14 DEF Adds, Ledgers
  <2>6. TypeOK'
    <3>1. stranded' \subseteq Ids
      BY <1>4, <1>14 DEF TypeOK
    <3> QED
      BY <1>2, <1>5, <1>8, <1>10, <2>5, <3>1 DEF TypeOK
  <2>7. QueuedIds(deliveries') \subseteq Owned \cup Staged' \cup stranded'
    BY <1>4, <1>6, <1>14, <2>1 DEF QueuedIsOwned
  <2> QED
    BY <1>2, <1>7, <1>9, <1>10, <1>11, <1>12, <2>2, <2>3, <2>4, <2>6, <2>7, SameDispatcher
<1> QED
  BY <1>13, <1>14 DEF PublishFails

\* A change of one subscription, durable at once.
LEMMA EditStep ==
  ASSUME WebhookInv, NEW w \in Webhooks, NEW change, Edit(w, change),
         change \in [life : {"absent", "present", "deleted"}, enabled : BOOLEAN, rev : Nat],
         change.rev \in {webhooks[w].rev, webhooks[w].rev + 1}
  PROVE  WebhookInv'
<1> USE DEF WebhookInv
<1>1. /\ webhooks' = [webhooks EXCEPT ![w] = change] /\ deliveries' = deliveries /\ Save
      /\ UNCHANGED <<pending, staged, queue, at, step, lastId, lastEvent, sends, stranded>>
      /\ staged = <<>>
  BY DEF Edit, dispatcher, history
<1>2. turns' \in 0..MaxTurns /\ turns' = turns + 1 /\ turns \in Nat
  BY TurnTakenType DEF Edit
<1>3. /\ \A v \in Webhooks : webhooks[v].rev \in Nat /\ webhooks[v].rev <= turns
      /\ webhooks \in [Webhooks -> CampaignWebhookSubscription]
  BY RevisionTypes, Types DEF Configured
<1>4. change.rev <= turns' /\ change.rev >= webhooks[w].rev /\ change.rev \in Revisions
  BY <1>2, <1>3, WebhookAssumption DEF Revisions
<1>5. change \in CampaignWebhookSubscription
  BY <1>4 DEF CampaignWebhookSubscription
<1>6. \A v \in Webhooks : webhooks'[v] = IF v = w THEN change ELSE webhooks[v]
  BY <1>1, <1>3
<1>7. webhooks' \in [Webhooks -> CampaignWebhookSubscription]
  BY <1>1, <1>3, <1>5
<1>8. \A v \in Webhooks : webhooks[v].rev <= webhooks'[v].rev /\ webhooks'[v].rev <= turns'
  BY <1>2, <1>3, <1>4, <1>6
<1>9. /\ saved' = [webhooks |-> webhooks', deliveries |-> deliveries]
      /\ QueuedIds(deliveries') = QueuedIds(deliveries)
      /\ QueuedIds(saved'.deliveries) = QueuedIds(deliveries)
  BY <1>1 DEF Save
<1>10. Configured'
  BY <1>8, <1>9 DEF Configured
<1>11. Owned' = Owned /\ Staged' = Staged /\ Staged = {}
  BY <1>1, SameLine, StagedType
<1>12. LedgersWell'
  BY <1>1, Types, LedgersReturn
<1>13. TypeOK'
  BY <1>1, <1>2, <1>7, <1>9 DEF TypeOK
<1>14. Between
  BY <1>9 DEF Between
<1>15. PendingIsReserved'
  BY <1>1, <1>11, SamePlaces
<1>16. QueuedIds(deliveries') \subseteq Owned \cup Staged' \cup stranded'
  BY <1>1, <1>9, <1>11 DEF QueuedIsOwned
<1> QED
  BY <1>1, <1>8, <1>10, <1>11, <1>12, <1>13, <1>14, <1>15, <1>16, Types, SameDispatcher

\* The changes of a subscription are edits.
LEMMA ManageStep ==
  ASSUME WebhookInv, NEW w \in Webhooks,
         CreateWebhook(w) \/ UpdateWebhook(w) \/ DisableWebhook(w) \/ DeleteWebhook(w)
  PROVE  WebhookInv'
<1> DEFINE C == [life : {"absent", "present", "deleted"}, enabled : BOOLEAN, rev : Nat]
<1>1. webhooks[w] \in C
  <2>1. webhooks[w] \in CampaignWebhookSubscription /\ Revisions \subseteq Nat
    BY Types, WebhookAssumption DEF WebhookInv, Revisions
  <2> QED
    BY <2>1 DEF CampaignWebhookSubscription
<1>2. ASSUME NEW s \in C, NEW on \in BOOLEAN
      PROVE  LET c == [s EXCEPT !.enabled = on, !.rev = @ + 1] IN c \in C /\ c.rev = s.rev + 1
  <2>1. s.rev + 1 \in Nat
    OBVIOUS
  <2>2. ASSUME NEW r \in Nat
        PROVE  LET c == [s EXCEPT !.enabled = on, !.rev = r] IN c \in C /\ c.rev = r
    OBVIOUS
  <2> QED
    BY <2>1, <2>2
<1> HIDE DEF C
<1>3. CASE CreateWebhook(w)
  <2> DEFINE change == [webhooks[w] EXCEPT !.life = "present", !.enabled = TRUE]
  <2>1. Edit(w, change)
    BY <1>3 DEF CreateWebhook
  <2>2. change \in C /\ change.rev = webhooks[w].rev
    BY <1>1 DEF C
  <2> QED
    BY <2>1, <2>2, EditStep DEF C
<1>4. CASE UpdateWebhook(w)
  <2>1. PICK on \in BOOLEAN : Edit(w, [webhooks[w] EXCEPT !.enabled = on, !.rev = @ + 1])
    BY <1>4 DEF UpdateWebhook
  <2> DEFINE change == [webhooks[w] EXCEPT !.enabled = on, !.rev = @ + 1]
  <2>2. change \in C /\ change.rev = webhooks[w].rev + 1
    BY <1>1, <1>2 DEF C
  <2> QED
    BY <2>1, <2>2, EditStep DEF C
<1>5. CASE DisableWebhook(w)
  <2> DEFINE change == [webhooks[w] EXCEPT !.enabled = FALSE, !.rev = @ + 1]
  <2>1. Edit(w, change)
    BY <1>5 DEF DisableWebhook
  <2>2. change \in C /\ change.rev = webhooks[w].rev + 1
    BY <1>1, <1>2 DEF C
  <2> QED
    BY <2>1, <2>2, EditStep DEF C
<1>6. CASE DeleteWebhook(w)
  <2> DEFINE change == [webhooks[w] EXCEPT !.life = "deleted"]
  <2>1. Edit(w, change)
    BY <1>6 DEF DeleteWebhook
  <2>2. change \in C /\ change.rev = webhooks[w].rev
    BY <1>1 DEF C
  <2> QED
    BY <2>1, <2>2, EditStep DEF C
<1> QED
  BY <1>3, <1>4, <1>5, <1>6

\* A test or a retry: its delivery is failed at once if the queue is full, else it has a place.
LEMMA StageStep ==
  ASSUME WebhookInv, NEW w \in Webhooks, NEW e \in Events, NEW of \in Ids \cup {None}, Stage(w, e, of)
  PROVE  WebhookInv'
<1> DEFINE l == lastId + 1
           made == CreateDelivery(deliveries, l, w, e, of)
           one == [automatic |-> FALSE, work |-> <<[webhook |-> w, rev |-> webhooks[w].rev, id |-> l]>>]
<1> USE DEF WebhookInv
<1>1. /\ lastId' = l /\ lastId \in Nat /\ l \in Ids /\ staged = <<>>
      /\ UNCHANGED <<webhooks, queue, at, step, lastEvent, sends, stranded>>
  BY Types DEF Stage, dispatcher, history, Ids
<1>2. turns' \in 0..MaxTurns /\ turns' = turns + 1 /\ turns \in Nat
  BY TurnTakenType DEF Stage
<1>3. \A d \in deliveries : d.id \in Nat /\ d.id <= lastId
  BY LedgerTypes DEF LedgersWell, LedgerWell
<1>4. Adds(deliveries, made, {l})
  BY <1>1, <1>3, StagedWell DEF LedgersWell, LedgerWell
<1>5. QueuedIds(made) = QueuedIds(deliveries) \cup {l} /\ l \notin QueuedIds(deliveries)
  <2>1. l \notin QueuedIds(deliveries)
    BY <1>1, <1>3 DEF QueuedIds, Queued
  <2> QED
    BY <1>4, <2>1, AddsQueued
<1>6. IF pending >= MaxPending
      THEN /\ deliveries' = Settled(made, l, "failed")
           /\ UNCHANGED <<webhooks, pending, staged>> /\ Save
      ELSE /\ deliveries' = made /\ pending' = pending + 1 /\ staged' = <<one>>
           /\ UNCHANGED <<webhooks, saved>>
  BY DEF Stage
<1> HIDE DEF made, one
<1>7. Owned' = Owned /\ Staged = {}
  BY <1>1, SameLine, StagedType
<1>8. \A v \in Webhooks : /\ webhooks[v].rev <= webhooks'[v].rev /\ webhooks'[v].rev <= turns'
                          /\ webhooks[v].rev \in Revisions
  <2>1. \A v \in Webhooks : webhooks[v].rev \in Nat /\ webhooks[v].rev <= turns /\ webhooks[v].rev \in Revisions
    BY RevisionTypes DEF Configured
  <2> QED
    BY <1>1, <1>2, <2>1
<1>9. lastId <= lastId' /\ lastId' \in Nat /\ l \notin Owned
  BY <1>1, OldIds
<1>10. CASE pending >= MaxPending
  <2>1. /\ deliveries' = Settled(made, l, "failed") /\ saved' = [webhooks |-> webhooks, deliveries |-> deliveries']
        /\ UNCHANGED <<webhooks, pending, staged>> /\ Save
    BY <1>6, <1>10 DEF Save
  <2>2. Settles(made, deliveries', {l})
    BY <1>4, <2>1, SettledWell DEF Adds
  <2>3. QueuedIds(deliveries') = QueuedIds(deliveries)
    BY <1>5, <2>2, SettlesQueued
  <2>4. LedgersWell'
    <3>1. \A d \in made : d.id \in Nat /\ d.id <= l
      BY <1>1, <1>3, <1>4 DEF Adds
    <3>2. \A d \in deliveries' : d.id <= l
      BY <2>2, <3>1 DEF Settles, Queued
    <3>3. LedgerWell(deliveries)'
      BY <1>1, <2>2, <3>2 DEF Settles, LedgerWell
    <3> QED
      BY <2>1, <3>3 DEF LedgersWell, LedgerWell, Ahead, Single
  <2>5. Staged' = {}
    BY <1>7, <2>1, SameLine
  <2>6. TypeOK'
    <3>1. deliveries' \subseteq CampaignWebhookDelivery
      BY <2>2 DEF Settles, Ledgers
    <3> QED
      BY <1>1, <1>2, <1>9, <2>1, <3>1 DEF TypeOK
  <2>7. Between
    BY <2>1, <2>3 DEF Between
  <2>8. Configured'
    BY <1>8, <2>1 DEF Configured
  <2>9. PendingIsReserved'
    BY <1>7, <2>1, <2>5, SamePlaces
  <2>10. QueuedIds(deliveries') \subseteq Owned \cup Staged' \cup stranded'
    BY <1>1, <1>7, <2>3 DEF QueuedIsOwned
  <2> QED
    BY <1>1, <1>8, <1>9, <2>1, <2>4, <2>5, <2>6, <2>7, <2>8, <2>9, <2>10, SameDispatcher
<1>11. CASE ~(pending >= MaxPending)
  <2>1. /\ deliveries' = made /\ pending' = pending + 1 /\ staged' = <<one>>
        /\ UNCHANGED <<webhooks, saved>>
    BY <1>6, <1>11
  <2>2. one \in Dispatches /\ Len(one.work) = 1 /\ IdsOf(one) = {l}
    <3> DEFINE R == [webhook : Webhooks, rev : Revisions, id : Ids]
               r == [webhook |-> w, rev |-> webhooks[w].rev, id |-> l]
    <3>1. r \in R /\ r.id = l
      BY <1>1, <1>8
    <3>2. one.work = <<r>> /\ one.automatic = FALSE /\ one = [automatic |-> FALSE, work |-> <<r>>]
      BY DEF one
    <3> HIDE DEF r, R
    <3>3. <<r>> \in Seq(R) /\ Len(<<r>>) = 1 /\ DOMAIN <<r>> = {1} /\ <<r>>[1] = r
      BY <3>1
    <3>4. one \in Dispatches
      BY <3>2, <3>3 DEF Dispatches, R
    <3>5. IdsOf(one) = {l}
      BY <3>1, <3>2, <3>3 DEF IdsOf
    <3> QED
      BY <3>2, <3>3, <3>4, <3>5
  <2>3. staged' \in Seq(Dispatches) /\ Len(staged') = 1 /\ staged'[1] = one /\ DOMAIN staged' = {1}
    BY <2>1, <2>2
  <2>4. Staged' = {l}
    <3>1. Staged' = UNION {IdsOf(staged'[i]) : i \in DOMAIN staged'}
      BY DEF Staged, IdsOf
    <3> QED
      BY <2>2, <2>3, <3>1
  <2>5. NewIds(1) = {l}
    BY <1>1 DEF NewIds
  <2>6. LedgersWell'
    BY <1>1, <1>4, <2>1, <2>5, LedgersAdd DEF Written
  <2>7. Between
    <3>1. QueuedIds(saved'.deliveries) = QueuedIds(saved.deliveries)
      BY <2>1, SameLine
    <3>2. l > lastId
      BY <1>1
    <3> QED
      BY <1>5, <2>1, <3>1, <3>2 DEF Between
  <2>8. pending' \in 0..MaxPending /\ pending + 1 <= MaxPending
    BY <1>11, <2>1, Types, WebhookAssumption
  <2>9. TypeOK'
    <3>1. deliveries' \subseteq CampaignWebhookDelivery
      BY <1>4, <2>1 DEF Adds, Ledgers
    <3> QED
      BY <1>1, <1>2, <1>9, <2>1, <2>3, <2>8, <3>1 DEF TypeOK
  <2>10. Configured'
    BY <1>8, <2>1 DEF Configured
  <2>11. PendingIsReserved'
    <3>1. IsFiniteSet(Owned') /\ IsFiniteSet(Staged)
      BY <1>7, StagedType DEF Places
    <3>2. Owned' \cup Staged' = (Owned \cup Staged) \cup NewIds(1)
      BY <1>7, <2>4, <2>5
    <3> QED
      BY <2>1, <2>8, <3>1, <3>2, TakePlaces
  <2>12. \A k \in Staged' : k <= lastId' /\ k \notin Owned
    BY <1>1, <1>9, <2>4
  <2>13. QueuedIds(deliveries') \subseteq Owned \cup Staged' \cup stranded' /\ Staged' \subseteq QueuedIds(deliveries')
    BY <1>1, <1>5, <1>7, <2>1, <2>4 DEF QueuedIsOwned
  <2>14. Len(staged'[1].work) = 1
    BY <2>2, <2>3
  <2> QED
    BY <1>1, <1>8, <1>9, <2>3, <2>6, <2>7, <2>9, <2>10, <2>11, <2>12, <2>13, <2>14, SameDispatcher
<1> QED
  BY <1>10, <1>11

\* Tests and retries stage a delivery.
LEMMA TestOrRetryStep ==
  ASSUME WebhookInv, \/ \E w \in Webhooks : TestWebhook(w)
                     \/ \E d \in deliveries : RetryDelivery(d)
  PROVE  WebhookInv'
<1>1. ASSUME NEW w \in Webhooks, TestWebhook(w)
      PROVE  WebhookInv'
  <2>1. MaxEvents + lastId + 1 \in Events
    BY Types, WebhookAssumption DEF WebhookInv, Events
  <2> QED
    BY <1>1, <2>1, StageStep DEF TestWebhook
<1>2. ASSUME NEW d \in deliveries, RetryDelivery(d)
      PROVE  WebhookInv'
  <2>1. d.webhook \in Webhooks /\ d.event \in Events /\ d.id \in Ids
    BY DEF WebhookInv, TypeOK, CampaignWebhookDelivery
  <2> QED
    BY <1>2, <2>1, StageStep DEF RetryDelivery
<1> QED
  BY <1>1, <1>2

\* A rollback, of the request that staged a delivery or of another one.
LEMMA RollbackStep ==
  ASSUME WebhookInv, TurnTaken, Rollback, staged' = <<>>,
         UNCHANGED <<saved, queue, at, step, lastId, lastEvent, sends>>,
         \/ staged = <<>> /\ UNCHANGED pending
         \/ staged # <<>> /\ pending' = Without(1)
  PROVE  WebhookInv'
<1> USE DEF WebhookInv
<1>1. turns' \in 0..MaxTurns /\ turns' = turns + 1 /\ turns \in Nat
  BY TurnTakenType
<1>2. /\ deliveries' = saved.deliveries /\ UNCHANGED webhooks
      /\ stranded' = stranded \cup (QueuedIds(saved.deliveries) \ Owned)
  BY DEF Rollback, Configured
<1>3. Owned' = Owned /\ Staged' = {} /\ QueuedIds(saved'.deliveries) = QueuedIds(saved.deliveries)
  <2>1. Staged' = {}
    BY DEF Staged
  <2> QED
    BY <2>1, SameLine
<1>4. PendingIsReserved' /\ pending' \in 0..MaxPending
  <2>1. CASE staged = <<>> /\ UNCHANGED pending
    <3>1. Staged' = Staged
      BY <1>3, <2>1, StagedType
    <3> QED
      BY <1>3, <2>1, <3>1, SamePlaces DEF TypeOK
  <2>2. CASE staged # <<>> /\ pending' = Without(1)
    <3>1. PICK id : Staged = {id}
      BY <2>2, StagedType
    <3>2. Cardinality(Staged) = 1 /\ IsFiniteSet(Staged)
      BY <3>1, FS_Singleton
    <3>3. Owned' \cup Staged' = (Owned \cup Staged) \ Staged
      BY <1>3 DEF Places
    <3> QED
      BY <2>2, <3>2, <3>3, ReturnPlaces
  <2> QED
    BY <2>1, <2>2
<1>5. LedgersWell'
  <2>1. lastId \in Nat /\ lastId <= lastId'
    BY Types
  <2> QED
    BY <1>2, <2>1, LedgersReturn
<1>6. Between
  BY <1>2, <1>3 DEF Between
<1>7. TypeOK'
  <2>1. stranded' \subseteq Ids /\ deliveries' \subseteq CampaignWebhookDelivery
    <3>1. QueuedIds(saved.deliveries) \subseteq Ids
      BY QueuedTypes DEF LedgersWell, LedgerWell
    <3> QED
      BY <1>2, <3>1 DEF TypeOK
  <2>2. staged' \in Seq(Dispatches)
    OBVIOUS
  <2> QED
    BY <1>1, <1>2, <1>4, <2>1, <2>2 DEF TypeOK
<1>8. Configured' /\ \A w \in Webhooks : webhooks[w].rev <= webhooks'[w].rev
  <2>1. \A w \in Webhooks : webhooks[w].rev \in Nat
    BY RevisionTypes
  <2> QED
    BY <1>1, <1>2, <2>1 DEF Configured
<1>9. QueuedIds(deliveries') \subseteq Owned \cup Staged' \cup stranded'
  BY <1>2
<1> QED
  BY <1>3, <1>4, <1>5, <1>6, <1>7, <1>8, <1>9, Types, SameDispatcher

\* A gated request whose flush fails rolls back.
LEMMA RequestFailsStep ==
  ASSUME WebhookInv, CommitManualFails \/ RequestFails
  PROVE  WebhookInv'
<1>1. CASE CommitManualFails
  BY <1>1, RollbackStep DEF CommitManualFails, dispatcher
<1>2. CASE RequestFails
  BY <1>2, RollbackStep DEF RequestFails, dispatcher
<1> QED
  BY <1>1, <1>2

\* The timer makes memory durable.
LEMMA TimerFlushStep ==
  ASSUME WebhookInv, TimerFlush
  PROVE  WebhookInv'
<1> USE DEF WebhookInv
<1>1. /\ saved' = [webhooks |-> webhooks, deliveries |-> deliveries] /\ Save
      /\ UNCHANGED <<webhooks, deliveries, pending, staged, queue, at, step, lastId, lastEvent,
                     sends, stranded, turns>>
  BY DEF TimerFlush, Save, ledger, dispatcher, history
<1>2. Owned' = Owned /\ Staged' = Staged /\ saved'.deliveries = deliveries /\ saved'.webhooks = webhooks
  BY <1>1, SameLine
<1>3. LedgersWell'
  BY <1>1, Types, LedgersReturn
<1>4. Between
  BY <1>1, <1>2 DEF Between
<1>5. TypeOK'
  BY <1>1, <1>2 DEF TypeOK
<1>6. PendingIsReserved'
  BY <1>1, <1>2, SamePlaces
<1>7. Configured' /\ \A w \in Webhooks : webhooks[w].rev <= webhooks'[w].rev
  BY <1>1, <1>2, RevisionTypes DEF Configured
<1>8. \A n \in Staged' : n <= lastId' /\ n \notin Owned
  BY <1>1, <1>2 DEF Places
<1>9. staged' = <<>> \/ (Len(staged') = 1 /\ Len(staged'[1].work) = 1)
  BY <1>1 DEF Places
<1>10. Staged' \subseteq QueuedIds(deliveries') /\ QueuedIds(deliveries') \subseteq Owned \cup Staged' \cup stranded'
  BY <1>1, <1>2 DEF Turns, QueuedIsOwned
<1> QED
  BY <1>1, <1>3, <1>4, <1>5, <1>6, <1>7, <1>8, <1>9, <1>10, Types, SameDispatcher

\* The staged dispatch joins the line.
LEMMA CommitManualStep ==
  ASSUME WebhookInv, CommitManual
  PROVE  WebhookInv'
<1> USE DEF WebhookInv
<1>1. /\ saved' = [webhooks |-> webhooks, deliveries |-> deliveries] /\ Save
      /\ staged # <<>> /\ staged' = <<>> /\ queue' = queue \o staged
      /\ UNCHANGED <<webhooks, deliveries, pending, at, step, lastId, lastEvent, sends, stranded, turns>>
  BY DEF CommitManual, Save, ledger, history
<1>2. PICK d \in Dispatches : staged = <<d>> /\ Distinct(d) /\ Staged = IdsOf(d)
  BY <1>1, StagedType
<1>3. queue \in Seq(Dispatches) /\ queue' = Append(queue, d) /\ queue' \in Seq(Dispatches)
  <2>1. queue \in Seq(Dispatches)
    BY Types
  <2>2. queue \o <<d>> = Append(queue, d)
    BY <2>1
  <2> QED
    BY <1>1, <1>2, <2>1, <2>2
<1>4. IdsOf(d) \cap Owned = {}
  BY <1>2 DEF Places
<1>5. /\ \A i \in DOMAIN queue' : Distinct(queue'[i])
      /\ \A i, k \in DOMAIN queue' : i # k => IdsOf(queue'[i]) \cap IdsOf(queue'[k]) = {}
      /\ Owned' = Owned \cup IdsOf(d)
  BY <1>2, <1>3, <1>4, PlacesAppend
<1>6. Staged' = {} /\ saved'.deliveries = deliveries /\ saved'.webhooks = webhooks
  BY <1>1 DEF Staged
<1>7. Owned' \cup Staged' = Owned \cup Staged
  BY <1>2, <1>5, <1>6
<1>8. PendingIsReserved'
  BY <1>1, <1>7 DEF PendingIsReserved
<1>9. Places'
  <2>1. IsFiniteSet(Owned')
    BY <1>2, <1>5, StagedType, FS_Union DEF Places
  <2>2. \A n \in Owned' : n <= lastId'
    BY <1>1, <1>2, <1>5 DEF Places
  <2> QED
    BY <1>1, <1>5, <1>6, <2>1, <2>2 DEF Places
<1>10. LedgersWell'
  BY <1>1, Types, LedgersReturn
<1>11. Between
  BY <1>1, <1>6 DEF Between
<1>12. Turns'
  <2>1. IdsOf(d) \subseteq QueuedIds(deliveries') \cap QueuedIds(saved'.deliveries)
    BY <1>1, <1>2, <1>6 DEF Turns
  <2>2. Waiting(deliveries)' /\ Waiting(saved.deliveries)' /\ Past' /\ queue' # <<>>
    BY <1>1, <1>3, <1>11, <2>1, TurnsAppend
  <2> QED
    BY <1>6, <2>2 DEF Turns
<1>13. QueuedIsOwned'
  BY <1>1, <1>7 DEF QueuedIsOwned, QueuedIds, Queued
<1>14. Configured'
  BY <1>1, <1>6 DEF Configured
<1>15. TypeOK'
  <2>1. staged' \in Seq(Dispatches)
    BY <1>1
  <2> QED
    BY <1>1, <1>3, <1>6, <2>1 DEF TypeOK
<1>16. Sent'
  <2>1. step' = "resolve" => queue # <<>> /\ step = "resolve" /\ Turn' = Turn
    <3>1. ASSUME queue # <<>>
          PROVE  Turn' = Turn
      <4>1. Head(queue') = Head(queue)
        BY <1>3, <3>1
      <4> QED
        BY <1>1, <4>1 DEF Turn, Work
    <3> QED
      BY <1>1, <3>1 DEF Turns
  <2>2. \A w \in Webhooks : webhooks[w].rev <= webhooks'[w].rev
    BY <1>1, RevisionTypes
  <2> QED
    BY <1>1, <1>15, <2>1, <2>2, SentStays
<1> QED
  BY <1>8, <1>9, <1>10, <1>12, <1>13, <1>14, <1>15, <1>16

-------------------------------------------------------------------------------
(***************************************************************************)
(* The dispatcher.                                                         *)
(***************************************************************************)

\* A step within the first dispatch of the line.
LEMMA SameLineStep ==
  ASSUME WebhookInv, TypeOK', LedgersWell', UNCHANGED <<webhooks, pending, staged, queue, lastId, stranded>>,
         saved'.webhooks = saved.webhooks, turns <= turns', turns' \in Nat,
         QueuedIds(deliveries') \subseteq QueuedIds(deliveries), Staged \subseteq QueuedIds(deliveries'),
         queue # <<>>, Waiting(deliveries)', Waiting(saved.deliveries)', Past', Sent'
  PROVE  WebhookInv'
<1> USE DEF WebhookInv
<1>1. Owned' = Owned /\ Staged' = Staged
  BY SameLine
<1>2. Places'
  <2>1. /\ \A i \in DOMAIN queue' : Distinct(queue'[i])
        /\ \A i, k \in DOMAIN queue' : i # k => IdsOf(queue'[i]) \cap IdsOf(queue'[k]) = {}
    BY DEF Places
  <2>2. staged' = <<>> \/ (Len(staged') = 1 /\ Len(staged'[1].work) = 1)
    BY DEF Places
  <2> QED
    BY <1>1, <2>1, <2>2 DEF Places
<1>3. PendingIsReserved'
  BY <1>1, SamePlaces
<1>4. Turns'
  BY <1>1 DEF Turns, QueuedIds, Queued
<1>5. QueuedIsOwned'
  BY <1>1 DEF QueuedIsOwned, QueuedIds, Queued
<1>6. Configured'
  <2>1. \A w \in Webhooks : webhooks[w].rev \in Nat /\ webhooks[w].rev <= turns
    BY RevisionTypes DEF Configured
  <2> QED
    BY <2>1, Types DEF Configured
<1> QED
  BY <1>2, <1>3, <1>4, <1>5, <1>6

\* Running dispatches have a delivery whose turn it is.
LEMMA RunningType ==
  ASSUME TypeOK, NEW s, Running(s)
  PROVE  queue # <<>> /\ step = s /\ at \in DOMAIN Work
<1> DEFINE n == Len(Work)
<1>1. queue # <<>> /\ step = s /\ at <= n
  BY DEF Running
<1>2. n \in Nat /\ DOMAIN Work = 1..n
  BY <1>1, FirstType, DispatchType
<1>3. at \in Nat \ {0}
  BY Types
<1> HIDE DEF n
<1> QED
  BY <1>1, <1>2, <1>3

\* The delivery whose turn it is waits, and is not the work of another place.
LEMMA TurnWaits ==
  ASSUME WebhookInv, queue # <<>>, at \in DOMAIN Work, step # "catch"
  PROVE  /\ Waits /\ Turn.id \in QueuedIds(deliveries)
         /\ Turn.id \in Ids /\ Turn.webhook \in Webhooks /\ Turn.rev \in Revisions
         /\ Turn.id \in IdsOf(queue[1]) /\ Turn.id \notin Staged
         /\ \A i \in DOMAIN queue : \A j \in DOMAIN queue[i].work :
              queue[i].work[j].id = Turn.id => i = 1 /\ j = at
<1> USE DEF WebhookInv
<1>1. 1 \in DOMAIN queue /\ Work = queue[1].work /\ queue[1] \in Dispatches /\ IdsOf(queue[1]) \subseteq Owned
  BY FirstType
<1>2. /\ Turn = queue[1].work[at] /\ Turn.id \in IdsOf(queue[1])
      /\ Turn.id \in Ids /\ Turn.webhook \in Webhooks /\ Turn.rev \in Revisions
  BY <1>1, DispatchType DEF Turn
<1>3. Turn.id \in QueuedIds(deliveries)
  BY <1>1, <1>2 DEF Turns, Waiting, ToCome
<1>4. Waits
  BY <1>3 DEF Waits, CurrentQueued, QueuedIds, Queued
<1>5. ASSUME NEW i \in DOMAIN queue, NEW j \in DOMAIN queue[i].work, queue[i].work[j].id = Turn.id
      PROVE  i = 1 /\ j = at
  <2>1. Turn.id \in IdsOf(queue[i])
    BY <1>5 DEF IdsOf
  <2>2. i = 1
    BY <1>1, <1>2, <2>1 DEF Places
  <2> QED
    BY <1>1, <1>2, <1>5, <2>2 DEF Places, Distinct
<1> QED
  BY <1>1, <1>2, <1>3, <1>4, <1>5 DEF Places

\* The delivery whose turn it is gets its outcome; then the next turn, or the
\* catch clause.
LEMMA SettleTurn ==
  ASSUME WebhookInv, queue # <<>>, at \in DOMAIN Work, step # "catch",
         NEW status \in {"delivered", "failed"}, Settle(status),
         UNCHANGED <<pending, staged, lastId, lastEvent, sends, stranded>>,
         (Flushes /\ NextTurn) \/ (FlushFails /\ GoTo("catch"))
  PROVE  WebhookInv'
<1> DEFINE t == Turn.id
<1> USE DEF WebhookInv
<1>1. /\ t \in QueuedIds(deliveries) /\ t \notin Staged
      /\ \A i \in DOMAIN queue : \A j \in DOMAIN queue[i].work :
           queue[i].work[j].id = t => i = 1 /\ j = at
  BY TurnWaits
<1>2. deliveries' = Settled(deliveries, t, status) /\ UNCHANGED <<webhooks, queue>>
  BY DEF Settle, NextTurn, GoTo
<1> HIDE DEF t
<1>3. Settles(deliveries, deliveries', {t})
  BY <1>2, SettledWell DEF LedgersWell, LedgerWell
<1>4. QueuedIds(deliveries') = QueuedIds(deliveries) \ {t}
  BY <1>3, SettlesQueued
<1>5. \/ Save /\ turns' = turns /\ at' = at + 1 /\ step' = "check"
      \/ TurnTaken /\ saved' = saved /\ at' = at /\ step' = "catch"
  BY DEF Flushes, FlushFails, NextTurn, GoTo
<1>6. saved' = saved \/ (saved'.deliveries = deliveries' /\ saved'.webhooks = webhooks')
  BY <1>5 DEF Save
<1>7. Written /\ saved'.webhooks = saved.webhooks
  <2>1. Written
    BY <1>5 DEF Written
  <2> QED
    BY <1>2, <1>6, <2>1 DEF Configured
<1>8. LedgersWell'
  BY <1>3, <1>7, Types, LedgersSettle
<1>9. turns <= turns' /\ turns' \in 0..MaxTurns /\ turns' \in Nat
  <2>1. turns \in 0..MaxTurns /\ turns \in Nat
    BY Types DEF TypeOK
  <2>2. CASE TurnTaken
    <3>1. turns' \in 0..MaxTurns /\ turns' = turns + 1 /\ turns \in Nat
      BY <2>2, TurnTakenType
    <3> QED
      BY <3>1
  <2>3. CASE turns' = turns
    BY <2>1, <2>3
  <2> QED
    BY <1>5, <2>2, <2>3
<1>10. at \in Nat \ {0} /\ at' \in Nat \ {0} /\ step' \in {"check", "catch"}
  <2>1. at \in Nat \ {0}
    BY Types
  <2> QED
    BY <1>5, <2>1
<1>11. TypeOK'
  <2>1. deliveries' \subseteq CampaignWebhookDelivery
    BY <1>3 DEF Settles, Ledgers
  <2>2. saved'.deliveries \subseteq CampaignWebhookDelivery
    BY <2>1, <1>6 DEF TypeOK
  <2> QED
    BY <1>2, <1>7, <1>9, <1>10, <2>1, <2>2 DEF TypeOK
<1>12. Sent'
  <2>1. \A w \in Webhooks : webhooks[w].rev <= webhooks'[w].rev
    BY <1>2, RevisionTypes
  <2>2. step' # "resolve"
    BY <1>10
  <2> QED
    BY <1>11, <2>1, <2>2, SentStays
<1>13. QueuedIds(deliveries') \subseteq QueuedIds(deliveries) /\ Staged \subseteq QueuedIds(deliveries')
  BY <1>1, <1>4 DEF Turns
<1>14. ASSUME NEW i \in DOMAIN queue, NEW j \in DOMAIN queue[i].work, ToCome(i, j)'
       PROVE  queue[i].work[j].id \in QueuedIds(deliveries') \cap QueuedIds(saved'.deliveries)
  <2>1. i \in Nat \ {0} /\ j \in Nat \ {0} /\ at \in Nat \ {0}
    <3>1. queue \in Seq(Dispatches) /\ at \in Nat \ {0}
      BY Types
    <3>2. i \in Nat \ {0} /\ queue[i] \in Dispatches
      BY <3>1
    <3>3. j \in 1..Len(queue[i].work) /\ Len(queue[i].work) \in Nat
      BY <3>2, DispatchType
    <3> QED
      BY <3>1, <3>2, <3>3
  <2>2. ToCome(i, j) /\ ~(i = 1 /\ j = at)
    <3>1. i > 1 \/ j > at' \/ (j = at' /\ step' # "catch")
      BY <1>14 DEF ToCome
    <3>2. i > 1 \/ j > at
      BY <1>5, <2>1, <3>1
    <3> QED
      BY <2>1, <3>2 DEF ToCome
  <2>3. queue[i].work[j].id \in QueuedIds(deliveries) \cap QueuedIds(saved.deliveries)
    BY <2>2 DEF Turns, Waiting
  <2>4. queue[i].work[j].id # t
    BY <1>1, <2>2
  <2> QED
    BY <1>4, <1>6, <2>3, <2>4
<1>15. Waiting(deliveries)' /\ Waiting(saved.deliveries)'
  BY <1>2, <1>14 DEF Waiting, QueuedIds, Queued
<1>16. ASSUME NEW j \in DOMAIN Work, j < at'
       PROVE  Work[j].id \notin QueuedIds(deliveries') \cup QueuedIds(saved'.deliveries)
  <2>1. j \in Nat /\ at \in Nat
    <3>1. j \in 1..Len(Work) /\ Len(Work) \in Nat
      BY FirstType, DispatchType
    <3> QED
      BY <3>1, Types
  <2>2. CASE j < at
    <3>1. Work[j].id \notin QueuedIds(deliveries) \cup QueuedIds(saved.deliveries)
      BY <2>2 DEF Turns, Past
    <3> QED
      BY <1>4, <1>6, <3>1
  <2>3. CASE ~(j < at)
    <3>1. at' = at + 1 /\ Save
      BY <1>16, <1>5, <2>3
    <3>2. j = at /\ saved'.deliveries = deliveries' /\ Work[j].id = t
      <4>1. j = at
        BY <1>16, <2>1, <2>3, <3>1
      <4> QED
        BY <3>1, <4>1 DEF Save, Turn, t
    <3> QED
      BY <1>4, <3>2
  <2> QED
    BY <2>2, <2>3
<1>17. Past'
  BY <1>2, <1>16 DEF Past, Work, QueuedIds, Queued
<1> QED
  BY <1>2, <1>7, <1>8, <1>9, <1>11, <1>12, <1>13, <1>15, <1>17, SameLineStep

\* A step of the loop that changes neither copy of the ledger.
LEMMA GoOn ==
  ASSUME WebhookInv, queue # <<>>, at \in DOMAIN Work, step # "catch",
         UNCHANGED <<webhooks, deliveries, saved, pending, staged, queue, at, lastId, lastEvent, stranded, turns>>,
         step' \in {"resolve", "answer"}, Sent',
         sends' \subseteq [id : Ids, webhook : Webhooks, rev : Revisions, now : Revisions]
  PROVE  WebhookInv'
<1> USE DEF WebhookInv
<1>1. TypeOK'
  BY DEF TypeOK
<1>2. LedgersWell'
  <2>1. lastId \in Nat /\ lastId <= lastId' /\ lastId' \in Nat
    BY Types
  <2> QED
    BY <2>1, LedgersReturn
<1>3. Waiting(deliveries)' /\ Waiting(saved.deliveries)' /\ Past'
  BY DEF Turns, Waiting, Past, ToCome, Work, QueuedIds, Queued
<1>4. Staged \subseteq QueuedIds(deliveries)
  BY DEF Turns
<1> QED
  <2>1. turns <= turns' /\ turns' \in Nat
    BY Types
  <2> QED
    BY <1>1, <1>2, <1>3, <1>4, <2>1, SameLineStep

\* The check finds its delivery waiting; an unchanged subscription was not sent anything stale.
LEMMA CheckStep ==
  ASSUME WebhookInv, Check
  PROVE  WebhookInv'
<1> USE DEF WebhookInv
<1>1. queue # <<>> /\ step = "check" /\ at \in DOMAIN Work
  BY RunningType DEF Check
<1>2. Waits /\ Turn.webhook \in Webhooks
  BY <1>1, TurnWaits
<1>3. UNCHANGED <<pending, staged, lastId, lastEvent, sends, stranded>>
  BY DEF Check, history
<1>4. CASE Unchanged(Turn) /\ GoTo("resolve") /\ UNCHANGED <<ledger, saved, turns>>
  <2>1. UNCHANGED <<webhooks, deliveries, saved, turns, queue, at>> /\ step' = "resolve"
    BY <1>4 DEF ledger, GoTo
  <2>2. Turn' = Turn
    BY <2>1 DEF Turn, Work
  <2>3. \A s \in sends : s.webhook = Turn.webhook /\ s.rev = Turn.rev => s.now <= s.rev
    BY <1>2, <1>4 DEF Sent, Unchanged
  <2>4. Sent'
    BY <1>3, <2>1, <2>2, <2>3 DEF Sent, AtMostOneStaleSend
  <2> QED
    BY <1>1, <1>3, <2>1, <2>4, Types, GoOn
<1>5. CASE /\ Settle("failed")
           /\ (Flushes /\ NextTurn) \/ (FlushFails /\ GoTo("catch"))
  BY <1>1, <1>3, <1>5, SettleTurn
<1> QED
  BY <1>2, <1>4, <1>5 DEF Check

\* The request leaves, or does not.
LEMMA TransmitStep ==
  ASSUME WebhookInv, Transmit \/ Unreachable
  PROVE  WebhookInv'
<1> USE DEF WebhookInv
<1>1. queue # <<>> /\ step = "resolve" /\ at \in DOMAIN Work
  BY RunningType DEF Transmit, Unreachable
<1>2. /\ queue # <<>> /\ step = "resolve" /\ at \in DOMAIN Work /\ step' = "answer"
      /\ UNCHANGED <<webhooks, deliveries, saved, pending, staged, queue, at, lastId, lastEvent, stranded, turns>>
  BY <1>1 DEF Transmit, Unreachable, GoTo, ledger, history
<1>3. Turn.id \in Ids /\ Turn.webhook \in Webhooks /\ Turn.rev \in Revisions
  BY <1>2, TurnWaits
<1>4. webhooks[Turn.webhook].rev \in Revisions /\ webhooks[Turn.webhook].rev \in Nat
  BY <1>3, RevisionTypes
<1>5. CASE Transmit
  <2> DEFINE new == [id |-> Turn.id, webhook |-> Turn.webhook, rev |-> Turn.rev,
                     now |-> webhooks[Turn.webhook].rev]
  <2>1. sends' = sends \cup {new}
    BY <1>5 DEF Transmit
  <2>2. new \in [id : Ids, webhook : Webhooks, rev : Revisions, now : Revisions]
    BY <1>3, <1>4
  <2>3. new.webhook = Turn.webhook /\ new.rev = Turn.rev /\ new.now = webhooks[Turn.webhook].rev
    OBVIOUS
  <2> HIDE DEF new
  <2>4. \A s \in sends' : s.now <= webhooks'[s.webhook].rev
    BY <1>2, <1>4, <2>1, <2>3 DEF Sent
  <2>5. \A s \in sends : s.webhook = new.webhook /\ s.rev = new.rev => ~(s.rev < s.now)
    <3>1. \A s \in sends : s.webhook = Turn.webhook /\ s.rev = Turn.rev => s.now <= s.rev
      BY <1>2 DEF Sent
    <3>2. \A s \in sends : s.now \in Nat /\ s.rev \in Nat
      BY RevisionTypes
    <3> QED
      BY <2>3, <3>1, <3>2
  <2>6. AtMostOneStaleSend'
    BY <2>1, <2>5 DEF Sent, AtMostOneStaleSend
  <2>7. Sent'
    BY <1>2, <2>4, <2>6 DEF Sent
  <2> QED
    BY <1>2, <2>1, <2>2, <2>7, Types, GoOn
<1>6. CASE Unreachable
  <2>1. sends' = sends
    BY <1>6 DEF Unreachable, history
  <2>2. Sent'
    BY <1>2, <2>1 DEF Sent, AtMostOneStaleSend
  <2> QED
    BY <1>2, <2>1, <2>2, Types, GoOn
<1> QED
  BY <1>5, <1>6

\* The answer finds its delivery waiting.
LEMMA CompleteStep ==
  ASSUME WebhookInv, NEW status \in {"delivered", "failed"}, Complete(status)
  PROVE  WebhookInv'
<1>1. queue # <<>> /\ step = "answer" /\ at \in DOMAIN Work
  BY RunningType DEF WebhookInv, Complete
<1>2. Waits
  BY <1>1, TurnWaits
<1>3. /\ Settle(status) /\ UNCHANGED <<pending, staged, lastId, lastEvent, sends, stranded>>
      /\ (Flushes /\ NextTurn) \/ (FlushFails /\ GoTo("catch"))
  BY <1>2 DEF Complete, history
<1> QED
  BY <1>1, <1>3, SettleTurn

\* Of two dispatches one is left.
LEMMA TailType ==
  ASSUME NEW S, NEW q \in Seq(S), Len(q) > 1
  PROVE  Tail(q) # <<>>
<1> DEFINE n == Len(q)
<1>1. n \in Nat /\ n > 1 /\ Len(Tail(q)) = n - 1
  OBVIOUS
<1>2. Len(<<>>) = 0
  OBVIOUS
<1> HIDE DEF n
<1>3. n - 1 # 0
  BY <1>1
<1> QED
  BY <1>1, <1>2, <1>3, Zenon

\* A dispatch has as many ids as places.
LEMMA DispatchCount ==
  ASSUME NEW d \in Dispatches, Distinct(d)
  PROVE  Cardinality(IdsOf(d)) = Len(d.work)
<1> DEFINE n == Len(d.work)
           ids == [j \in 1..n |-> d.work[j].id]
<1>1. n \in Nat /\ DOMAIN d.work = 1..n
  BY DispatchType
<1>2. \A j, l \in 1..n : ids[j] = ids[l] => j = l
  BY <1>1 DEF Distinct
<1>3. IdsOf(d) = {ids[j] : j \in 1..n}
  BY <1>1 DEF IdsOf
<1>4. DOMAIN ids = 1..n
  OBVIOUS
<1> HIDE DEF ids, n
<1>5. Cardinality(IdsOf(d)) = n
  BY <1>1, <1>2, <1>3, <1>4, ImageCount
<1> QED
  BY <1>5 DEF n

\* The first dispatch leaves: its places are given back, and what still waited of
\* it has its outcome.
LEMMA NextDispatchStep ==
  ASSUME WebhookInv, queue # <<>>, NEW s \in {"check", "catch"}, NextDispatch(s),
         s = "catch" => Len(queue) > 1,
         UNCHANGED <<webhooks, staged, lastId, lastEvent, sends, stranded>>,
         Written, LedgersWell', turns <= turns', turns' \in 0..MaxTurns,
         QueuedIds(deliveries') = QueuedIds(deliveries) \ IdsOf(queue[1])
  PROVE  WebhookInv'
<1> USE DEF WebhookInv
<1>1. queue' = Tail(queue) /\ at' = 1 /\ step' = s /\ pending' = Without(Len(Work))
  BY DEF NextDispatch, Returned
<1>2. queue \in Seq(Dispatches) /\ queue' \in Seq(Dispatches)
  BY <1>1, Types
<1>3. /\ \A i \in DOMAIN queue' : i + 1 \in DOMAIN queue /\ queue'[i] = queue[i + 1]
      /\ \A i \in DOMAIN queue' : Distinct(queue'[i])
      /\ \A i, k \in DOMAIN queue' : i # k => IdsOf(queue'[i]) \cap IdsOf(queue'[k]) = {}
      /\ Owned' = Owned \ IdsOf(queue[1]) /\ IdsOf(queue[1]) \subseteq Owned
  BY <1>1, <1>2, PlacesTail
<1>4. /\ Staged' = Staged /\ IsFiniteSet(Staged) /\ Staged \cap Owned = {}
      /\ saved' = saved \/ (saved'.deliveries = deliveries' /\ saved'.webhooks = webhooks)
  BY SameLine, StagedType DEF Written, Save, Places
<1>5. saved'.webhooks = webhooks
  BY <1>4 DEF Configured
<1>6. Cardinality(IdsOf(queue[1])) = Len(Work)
  <2>1. Work = queue[1].work /\ queue[1] \in Dispatches /\ 1 \in DOMAIN queue
    BY FirstType
  <2> QED
    BY <2>1, DispatchCount DEF Places
<1>7. PendingIsReserved' /\ pending' \in 0..MaxPending
  <2>1. Owned' \cup Staged' = (Owned \cup Staged) \ IdsOf(queue[1])
    BY <1>3, <1>4
  <2>2. IdsOf(queue[1]) \subseteq Owned \cup Staged
    BY <1>3
  <2> QED
    BY <1>1, <1>4, <1>6, <2>1, <2>2, ReturnPlaces
<1>8. Places'
  <2>1. IsFiniteSet(Owned')
    BY <1>3, FS_Subset DEF Places
  <2>2. staged' = <<>> \/ (Len(staged') = 1 /\ Len(staged'[1].work) = 1)
    BY DEF Places
  <2>3. \A n \in Owned' \cup Staged' : n <= lastId'
    BY <1>3, <1>4 DEF Places
  <2> QED
    BY <1>3, <1>4, <2>1, <2>2, <2>3 DEF Places
<1>9. Turns'
  <2>1. ASSUME NEW i \in DOMAIN queue', NEW j \in DOMAIN queue'[i].work
        PROVE  queue'[i].work[j].id \in QueuedIds(deliveries') \cap QueuedIds(saved'.deliveries)
    <3> DEFINE id == queue[i + 1].work[j].id
    <3>1. /\ i + 1 \in DOMAIN queue /\ i + 1 > 1 /\ queue'[i] = queue[i + 1] /\ 1 \in DOMAIN queue
          /\ i + 1 # 1
      <4>1. i \in 1..Len(queue') /\ Len(queue') \in Nat
        BY <1>2
      <4> QED
        BY <1>3, <4>1, FirstType
    <3>2. ToCome(i + 1, j)
      BY <3>1 DEF ToCome
    <3>3. id \in QueuedIds(deliveries) \cap QueuedIds(saved.deliveries)
      BY <2>1, <3>1, <3>2 DEF Turns, Waiting
    <3>4. id \notin IdsOf(queue[1])
      <4>1. id \in IdsOf(queue[i + 1])
        BY <2>1, <3>1 DEF IdsOf
      <4> QED
        BY <3>1, <4>1 DEF Places
    <3> QED
      BY <1>4, <3>1, <3>3, <3>4
  <2>2. Waiting(deliveries)' /\ Waiting(saved.deliveries)'
    BY <2>1 DEF Waiting, QueuedIds, Queued
  <2>3. Past'
    <3>1. ASSUME queue' # <<>>
          PROVE  \A j \in DOMAIN queue'[1].work : ~(j < 1)
      <4>1. queue'[1] \in Dispatches
        BY <1>2, <3>1
      <4>2. DOMAIN queue'[1].work = 1..Len(queue'[1].work) /\ Len(queue'[1].work) \in Nat
        BY <4>1, DispatchType
      <4> QED
        BY <4>2
    <3>2. queue' # <<>> => Work' = queue'[1].work
      BY <1>2 DEF Work
    <3> QED
      BY <1>1, <3>1, <3>2 DEF Past
  <2>4. Staged' \subseteq QueuedIds(deliveries')
    BY <1>3, <1>4 DEF Turns
  <2>5. queue' = <<>> => step' = "check"
    <3>1. Len(queue) > 1 => queue' # <<>>
      BY <1>1, <1>2, TailType
    <3> QED
      BY <1>1, <3>1
  <2> QED
    BY <1>1, <2>2, <2>3, <2>4, <2>5 DEF Turns, QueuedIds, Queued
<1>10. QueuedIsOwned'
  BY <1>3, <1>4 DEF QueuedIsOwned, QueuedIds, Queued
<1>11. Configured'
  <2>1. \A w \in Webhooks : webhooks[w].rev \in Nat /\ webhooks[w].rev <= turns
    BY RevisionTypes DEF Configured
  <2>2. turns \in Nat /\ turns' \in Nat
    BY Types, WebhookAssumption
  <2> QED
    BY <1>5, <2>1, <2>2 DEF Configured
<1>12. TypeOK'
  <2>1. deliveries' \subseteq CampaignWebhookDelivery /\ saved'.deliveries \subseteq CampaignWebhookDelivery
    BY DEF LedgersWell, LedgerWell, Ledgers
  <2> QED
    BY <1>1, <1>2, <1>5, <1>7, <2>1 DEF TypeOK
<1>13. Sent'
  <2>1. \A w \in Webhooks : webhooks[w].rev <= webhooks'[w].rev
    BY RevisionTypes
  <2> QED
    BY <1>1, <1>12, <2>1, SentStays
<1> QED
  BY <1>7, <1>8, <1>9, <1>10, <1>11, <1>12, <1>13

\* Of a dispatch whose turns have all passed nothing waits.
LEMMA FinishStep ==
  ASSUME WebhookInv, Finish
  PROVE  WebhookInv'
<1> USE DEF WebhookInv
<1>1. /\ queue # <<>> /\ step = "check" /\ at > Len(Work) /\ NextDispatch("check")
      /\ UNCHANGED <<webhooks, deliveries, saved, staged, lastId, lastEvent, sends, stranded, turns>>
  BY DEF Finish, ledger, history
<1>2. QueuedIds(deliveries) \cap IdsOf(queue[1]) = {}
  <2> DEFINE n == Len(Work)
  <2>1. Work = queue[1].work /\ n \in Nat /\ DOMAIN Work = 1..n
    BY <1>1, FirstType, DispatchType
  <2>2. at \in Nat /\ at > n
    BY <1>1, Types
  <2> HIDE DEF n
  <2>3. \A j \in DOMAIN Work : j < at
    BY <2>1, <2>2
  <2> QED
    BY <1>1, <2>1, <2>3 DEF Turns, Past, IdsOf
<1>3. LedgersWell' /\ turns <= turns' /\ turns' \in 0..MaxTurns
  <2>1. lastId \in Nat /\ lastId <= lastId' /\ lastId' \in Nat /\ turns \in Nat /\ turns \in 0..MaxTurns
    BY <1>1, Types DEF TypeOK
  <2> QED
    BY <1>1, <2>1, LedgersReturn
<1>4. QueuedIds(deliveries') = QueuedIds(deliveries) \ IdsOf(queue[1])
  BY <1>1, <1>2
<1> QED
  BY <1>1, <1>3, <1>4, NextDispatchStep DEF Written

\* The catch clause fails what still waits of its dispatch.
LEMMA CatchStep ==
  ASSUME WebhookInv, queue # <<>>, AllFailed, NEW s \in {"check", "catch"}, NextDispatch(s),
         s = "catch" => Len(queue) > 1, UNCHANGED <<staged, lastId, lastEvent, sends, stranded>>,
         Flushes \/ FlushFails
  PROVE  WebhookInv'
<1> USE DEF WebhookInv
<1>1. Work = queue[1].work /\ Len(Work) \in Nat /\ DOMAIN Work = 1..Len(Work)
  BY FirstType, DispatchType
<1>2. /\ Settles(deliveries, deliveries', {Work[j].id : j \in 1..Len(Work)})
      /\ webhooks' = webhooks
  BY <1>1, AllFailedWell DEF LedgersWell, LedgerWell
<1>3. IdsOf(queue[1]) = {Work[j].id : j \in 1..Len(Work)}
  BY <1>1 DEF IdsOf
<1>4. QueuedIds(deliveries') = QueuedIds(deliveries) \ IdsOf(queue[1])
  BY <1>2, <1>3, SettlesQueued
<1>5. Written /\ (turns' = turns \/ TurnTaken)
  BY DEF Flushes, FlushFails, Written
<1>6. LedgersWell'
  BY <1>2, <1>5, Types, LedgersSettle
<1>7. turns <= turns' /\ turns' \in 0..MaxTurns
  <2>1. turns \in 0..MaxTurns /\ turns \in Nat
    BY Types DEF TypeOK
  <2>2. CASE TurnTaken
    <3>1. turns' \in 0..MaxTurns /\ turns' = turns + 1 /\ turns \in Nat
      BY <2>2, TurnTakenType
    <3> QED
      BY <3>1
  <2>3. CASE turns' = turns
    BY <2>1, <2>3
  <2> QED
    BY <1>5, <2>2, <2>3
<1> QED
  BY <1>2, <1>4, <1>5, <1>6, <1>7, NextDispatchStep

\* After a restart nothing waits, and no place is taken.
LEMMA RestartStep ==
  ASSUME WebhookInv, TurnTaken, Restart
  PROVE  WebhookInv'
<1> USE DEF WebhookInv
<1>1. /\ webhooks' = webhooks /\ deliveries' = Interrupted(saved.deliveries) /\ pending' = 0
      /\ staged' = <<>> /\ queue' = <<>> /\ at' = 1 /\ step' = "check"
      /\ UNCHANGED <<saved, lastId, lastEvent, sends, stranded>>
  BY DEF Restart, Configured, history
<1>2. Settles(saved.deliveries, deliveries', QueuedIds(saved.deliveries))
  BY <1>1, InterruptedWell DEF LedgersWell, LedgerWell
<1>3. QueuedIds(deliveries') = {}
  BY <1>2, SettlesQueued
<1>4. turns' \in 0..MaxTurns /\ turns' = turns + 1 /\ turns \in Nat
  BY TurnTakenType
<1>5. Owned' = {} /\ Staged' = {}
  BY <1>1 DEF Owned, Staged
<1>6. IsFiniteSet({}) /\ Cardinality({}) = 0
  BY FS_EmptySet
<1>7. LedgersWell'
  <2>1. \A e \in deliveries' : \E d \in saved.deliveries : d.id = e.id /\ d.status \in {"queued", e.status}
    BY <1>2 DEF Settles, Queued
  <2>2. LedgerWell(deliveries)'
    BY <1>1, <1>2, <2>1 DEF Settles, LedgersWell, LedgerWell
  <2>3. LedgerWell(saved.deliveries)'
    BY <1>1 DEF LedgersWell, LedgerWell
  <2>4. Ahead'
    BY <1>1, <2>1 DEF LedgersWell, LedgerWell, Ahead, Single
  <2> QED
    BY <2>2, <2>3, <2>4 DEF LedgersWell
<1>8. Places' /\ PendingIsReserved'
  <2>1. 0 <= MaxPending
    BY WebhookAssumption
  <2> QED
    BY <1>1, <1>5, <1>6, <2>1 DEF Places, PendingIsReserved
<1>9. Turns' /\ QueuedIsOwned'
  BY <1>1, <1>3, <1>5 DEF Turns, Waiting, Past, QueuedIsOwned, QueuedIds, Queued
<1>10. Configured'
  <2>1. \A w \in Webhooks : webhooks[w].rev \in Nat /\ webhooks[w].rev <= turns
    BY RevisionTypes DEF Configured
  <2> QED
    BY <1>1, <1>4, <2>1 DEF Configured
<1>11. TypeOK'
  <2>1. deliveries' \subseteq CampaignWebhookDelivery
    BY <1>2 DEF Settles, Ledgers
  <2>2. 0 \in 0..MaxPending /\ <<>> \in Seq(Dispatches)
    BY WebhookAssumption
  <2> QED
    BY <1>1, <1>4, <2>1, <2>2 DEF TypeOK
<1>12. Sent'
  <2>1. \A w \in Webhooks : webhooks[w].rev <= webhooks'[w].rev
    BY <1>1, RevisionTypes
  <2> QED
    BY <1>1, <1>11, <2>1, SentStays
<1> QED
  BY <1>7, <1>8, <1>9, <1>10, <1>11, <1>12

\* The catch clause, and the restarts.
LEMMA GiveUpStep ==
  ASSUME WebhookInv, GiveUp \/ GiveUpFails \/ Crash
  PROVE  WebhookInv'
<1>1. CASE GiveUp
  BY <1>1, CatchStep DEF GiveUp, history
<1>2. CASE GiveUpFails
  <2>1. CASE Len(queue) > 1
    BY <1>2, <2>1, CatchStep DEF GiveUpFails, history, FlushFails
  <2>2. CASE ~(Len(queue) > 1)
    BY <1>2, <2>2, RestartStep DEF GiveUpFails
  <2> QED
    BY <2>1, <2>2
<1>3. CASE Crash
  BY <1>3, RestartStep DEF Crash
<1> QED
  BY <1>1, <1>2, <1>3

\* A stutter changes nothing the invariant speaks of.
LEMMA StutterStep ==
  ASSUME WebhookInv, UNCHANGED vars
  PROVE  WebhookInv'
<1>1. UNCHANGED <<webhooks, deliveries, saved, pending, staged, queue, at, step, lastId, lastEvent,
                  sends, stranded, turns>>
  BY DEF vars
<1>2. Owned' = Owned /\ Staged' = Staged
  BY <1>1, SameLine
<1> USE DEF WebhookInv
<1>3. TypeOK' /\ LedgersWell' /\ PendingIsReserved'
  BY <1>1, <1>2 DEF TypeOK, LedgersWell, LedgerWell, Ahead, PendingIsReserved
<1>4. Places'
  <2>1. /\ \A i \in DOMAIN queue' : Distinct(queue'[i])
        /\ \A i, k \in DOMAIN queue' : i # k => IdsOf(queue'[i]) \cap IdsOf(queue'[k]) = {}
    BY <1>1 DEF Places
  <2>2. staged' = <<>> \/ (Len(staged') = 1 /\ Len(staged'[1].work) = 1)
    BY <1>1 DEF Places
  <2> QED
    BY <1>1, <1>2, <2>1, <2>2 DEF Places
<1>5. Turns' /\ QueuedIsOwned'
  BY <1>1, <1>2 DEF Turns, Waiting, Past, ToCome, Work, QueuedIsOwned, QueuedIds, Queued
<1>6. Configured' /\ Sent'
  BY <1>1 DEF Configured, Sent, AtMostOneStaleSend, Turn, Work
<1> QED
  BY <1>3, <1>4, <1>5, <1>6

\* Every step preserves the invariant.
LEMMA WebhookStep ==
  ASSUME WebhookInv, [Next]_vars
  PROVE  WebhookInv'
<1>1. CASE \E gated \in BOOLEAN, to \in Recipients : Publish(gated, to) \/ PublishFails(gated, to)
  BY <1>1, PublishStep, PublishFailsStep
<1>2. CASE Manage
  BY <1>2, ManageStep, TestOrRetryStep DEF Manage
<1>3. CASE \E d \in deliveries : RetryDelivery(d)
  BY <1>3, TestOrRetryStep
<1>4. CASE CommitManual \/ CommitManualFails \/ RequestFails \/ TimerFlush
  BY <1>4, CommitManualStep, RequestFailsStep, TimerFlushStep
<1>5. CASE Dispatch
  BY <1>5, CheckStep, TransmitStep, CompleteStep, FinishStep, GiveUpStep DEF Dispatch
<1>6. CASE GiveUpFails \/ Crash
  BY <1>6, GiveUpStep
<1>7. CASE UNCHANGED vars
  BY <1>7, StutterStep
<1> QED
  BY <1>1, <1>2, <1>3, <1>4, <1>5, <1>6, <1>7 DEF Next

\* What is written keeps the outcomes that are on disk already.
LEMMA OnwardStep ==
  ASSUME WebhookInv, [Next]_vars
  PROVE  UNCHANGED saved \/ (saved'.deliveries = deliveries' /\ Onward)
<1> USE DEF WebhookInv
<1>1. ASSUME UNCHANGED deliveries
      PROVE  Onward
  BY <1>1 DEF LedgersWell, Ahead, Onward
<1>2. ASSUME Save
      PROVE  saved'.deliveries = deliveries'
  BY <1>2 DEF Save
<1>3. ASSUME NEW gated \in BOOLEAN, NEW to \in Recipients, Publish(gated, to)
      PROVE  Onward /\ Save
  <2>1. to \in Seq(Webhooks) /\ Len(to) \in Nat /\ lastId \in Nat /\ lastEvent \in Nat
    BY RecipientsType, Types
  <2>2. Adds(deliveries, deliveries', NewIds(Len(to)))
    BY <1>3, <2>1, PreparedWell DEF Publish, LedgersWell, LedgerWell
  <2> QED
    BY <1>3, <2>1, <2>2, OnwardAdd DEF Publish
<1>4. ASSUME NEW w \in Webhooks, NEW e \in Events, NEW of \in Ids \cup {None}, Stage(w, e, of)
      PROVE  UNCHANGED saved \/ (Onward /\ Save)
  <2> DEFINE l == lastId + 1
             made == CreateDelivery(deliveries, l, w, e, of)
  <2>1. lastId \in Nat
    BY Types
  <2>2. Adds(deliveries, made, {l})
    BY <2>1, StagedWell DEF LedgersWell, LedgerWell
  <2>3. UNCHANGED saved \/ (deliveries' = Settled(made, l, "failed") /\ Save)
    BY <1>4 DEF Stage
  <2> HIDE DEF made
  <2>4. Settles(made, Settled(made, l, "failed"), {l})
    BY <2>2, SettledWell DEF Adds
  <2>5. ASSUME deliveries' = Settled(made, l, "failed")
        PROVE  Onward
    <3>1. \A d \in made : d \in deliveries \/ d.id = l
      BY <2>2 DEF Adds
    <3>2. \A e1 \in deliveries' :
            e1.id = l \/ \E d \in deliveries : d.id = e1.id /\ d.status \in {"queued", e1.status}
      BY <2>4, <2>5, <3>1 DEF Settles, Queued
    <3>3. \A d \in saved.deliveries : d.id # l
      <4>1. \A d \in saved.deliveries : d.id \in Nat /\ d.id <= lastId
        BY LedgerTypes DEF LedgersWell, LedgerWell
      <4> QED
        BY <2>1, <4>1
    <3> QED
      BY <3>2, <3>3 DEF LedgersWell, Ahead, Onward
  <2> QED
    BY <2>3, <2>5
<1>5. ASSUME NEW w \in Webhooks, TestWebhook(w)
      PROVE  UNCHANGED saved \/ (Onward /\ Save)
  <2>1. MaxEvents + lastId + 1 \in Events
    BY Types, WebhookAssumption DEF Events
  <2> QED
    BY <1>4, <1>5, <2>1 DEF TestWebhook
<1>6. ASSUME NEW d \in deliveries, RetryDelivery(d)
      PROVE  UNCHANGED saved \/ (Onward /\ Save)
  <2>1. d.webhook \in Webhooks /\ d.event \in Events /\ d.id \in Ids
    BY DEF TypeOK, CampaignWebhookDelivery
  <2> QED
    BY <1>4, <1>6, <2>1 DEF RetryDelivery
<1>7. ASSUME NEW w \in Webhooks,
             CreateWebhook(w) \/ UpdateWebhook(w) \/ DisableWebhook(w) \/ DeleteWebhook(w)
      PROVE  Save /\ UNCHANGED deliveries
  BY <1>7 DEF CreateWebhook, UpdateWebhook, DisableWebhook, DeleteWebhook, Edit
<1>8. ASSUME NEW status \in {"delivered", "failed"}, Settle(status)
      PROVE  Onward
  <2>1. Settles(deliveries, deliveries', {Turn.id})
    BY <1>8, SettledWell DEF Settle, LedgersWell, LedgerWell
  <2> QED
    BY <2>1, OnwardSettle
<1>9. ASSUME GiveUp
      PROVE  Onward /\ Save
  <2>1. Len(Work) \in Nat
    BY <1>9, FirstType, DispatchType DEF GiveUp
  <2>2. Settles(deliveries, deliveries', {Work[j].id : j \in 1..Len(Work)})
    BY <1>9, <2>1, AllFailedWell DEF GiveUp, LedgersWell, LedgerWell
  <2> QED
    BY <1>9, <2>2, OnwardSettle DEF GiveUp, Flushes
<1>10. ASSUME Check
       PROVE  UNCHANGED saved \/ (Onward /\ Save)
  BY <1>8, <1>10 DEF Check, Flushes, FlushFails
<1>11. ASSUME NEW status \in {"delivered", "failed"}, Complete(status)
       PROVE  UNCHANGED saved \/ (Onward /\ Save)
  BY <1>8, <1>11 DEF Complete, Flushes, FlushFails
<1>12. ASSUME Dispatch
       PROVE  UNCHANGED saved \/ (Onward /\ Save)
  BY <1>9, <1>10, <1>11, <1>12 DEF Dispatch, Transmit, Unreachable, Finish
<1>13. ASSUME CommitManual \/ TimerFlush
       PROVE  Onward /\ Save
  BY <1>1, <1>13 DEF CommitManual, TimerFlush, ledger
<1>14. ASSUME CommitManualFails \/ RequestFails \/ GiveUpFails \/ Crash
       PROVE  UNCHANGED saved
  BY <1>14 DEF CommitManualFails, RequestFails, GiveUpFails, Crash, Restart
<1>15. ASSUME Manage
       PROVE  UNCHANGED saved \/ (Onward /\ Save)
  BY <1>1, <1>5, <1>7, <1>15 DEF Manage
<1>16. UNCHANGED saved \/ (Onward /\ Save)
  BY <1>3, <1>6, <1>12, <1>13, <1>14, <1>15 DEF Next, vars, PublishFails
<1> QED
  BY <1>2, <1>16

-------------------------------------------------------------------------------
(***************************************************************************)
(* The theorems.                                                           *)
(***************************************************************************)

\* The invariant holds in every state: each campaign's ledger, in memory and on
\* disk, agrees with the line of scheduled dispatches, whatever requests publish,
\* edit, test, retry and fail around the dispatcher of app.ts.
THEOREM WebhookSound == Spec => []WebhookInv
<1>1. Init => WebhookInv
  BY InitHolds
<1>2. WebhookInv /\ [Next]_vars => WebhookInv'
  BY WebhookStep
<1> QED
  BY <1>1, <1>2, PTL DEF Spec

\* Every place reserved in the queue of app.ts is that of one delivery, staged
\* or scheduled, and there are never more of them than the cap.
THEOREM PlacesReserved == Spec => []PendingIsReserved
<1>1. WebhookInv => PendingIsReserved
  BY DEF WebhookInv
<1> QED
  BY <1>1, WebhookSound, PTL

\* What waits in the ledger is the work of a dispatch to come, but for what a
\* failed flush stranded; and no delivery whose turn is to come was pruned,
\* rolled back or settled behind the dispatcher's back.
THEOREM LedgerAndQueueMeet == Spec => []LedgerMeetsQueue
<1>1. ASSUME WebhookInv
      PROVE  LedgerMeetsQueue
  <2>1. WorkIsQueued
    BY <1>1 DEF WebhookInv, Turns, Waiting, ToCome, WorkIsQueued
  <2> QED
    BY <1>1, <2>1 DEF WebhookInv, LedgerMeetsQueue
<1> QED
  BY <1>1, WebhookSound, PTL

\* Of the requests signed under one revision of a subscription at most one
\* leaves after the next change: the one whose check was already past.
THEOREM StaleSendIsSingle == Spec => []AtMostOneStaleSend
<1>1. WebhookInv => AtMostOneStaleSend
  BY DEF WebhookInv, Sent
<1> QED
  BY <1>1, WebhookSound, PTL

\* What is on disk as delivered or failed stays so: no late answer, catch
\* clause, retry or restart changes it.
THEOREM OutcomesAreFinal == Spec => DurableOutcomeIsFinal
<1>1. ASSUME WebhookInv, [Next]_vars
      PROVE  [\A d \in saved.deliveries, e \in saved'.deliveries :
                d.id = e.id => d.status \in {"queued", e.status}]_saved
  BY <1>1, OnwardStep DEF Onward
<1> QED
  BY <1>1, WebhookSound, PTL DEF Spec, DurableOutcomeIsFinal
===============================================================================
