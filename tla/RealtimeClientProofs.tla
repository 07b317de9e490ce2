------------------------- MODULE RealtimeClientProofs -------------------------
(***************************************************************************)
(* Proofs about RealtimeClient, for any number of events, dropped sockets  *)
(* and failed snapshots.                                                   *)
(***************************************************************************)
EXTENDS RealtimeClient, FiniteSetTheorems, TLAPS

-------------------------------------------------------------------------------
(***************************************************************************)
(* Counting up.                                                            *)
(***************************************************************************)

\* A set of numbers that is not empty has a least one.
LEMMA LeastNumber ==
  ASSUME NEW T, T \subseteq Nat, T # {}
  PROVE  \E n \in T : \A m \in T : n <= m
<1>0. DEFINE R == {s \in Nat \X Nat : s[1] < s[2]}
<1>1. IsWellFoundedOn(R, Nat)
  BY NatLessThanWellFounded DEF OpToRel
<1> HIDE DEF R
<1>2. PICK n \in T : \A m \in T : ~(<<m, n>> \in R)
  BY <1>1, WFMin
<1>3. \A m \in T : n <= m
  <2> TAKE m \in T
  <2>1. m \in Nat /\ n \in Nat /\ <<m, n>> \in Nat \X Nat /\ <<m, n>>[1] = m /\ <<m, n>>[2] = n
    OBVIOUS
  <2>2. ~(m < n)
    BY <1>2, <2>1 DEF R
  <2> QED
    BY <2>1, <2>2
<1> QED
  BY <1>3

\* A set that has 0 and, with each number, the next one up to n.
LEMMA CountUp ==
  ASSUME NEW n \in Nat, NEW S, 0 \in S, \A i \in 1..n : i - 1 \in S => i \in S
  PROVE  0..n \subseteq S
<1> SUFFICES ASSUME 0..n \ S # {} PROVE FALSE
  OBVIOUS
<1>1. PICK i \in 0..n \ S : \A m \in 0..n \ S : i <= m
  <2>1. (0..n) \ S \subseteq Nat /\ (0..n) \ S # {}
    OBVIOUS
  <2> QED
    BY <2>1, LeastNumber
<1>2. i \in 1..n /\ i - 1 \in 0..n /\ i - 1 < i
  BY <1>1
<1> QED
  BY <1>1, <1>2

\* At most one, if any two are the same.
LEMMA AtMostOne ==
  ASSUME NEW S, \A k, l \in S : k = l
  PROVE  Cardinality(S) <= 1
<1>1. CASE S = {}
  BY <1>1, FS_EmptySet
<1>2. CASE S # {}
  <2>1. PICK k \in S : TRUE
    BY <1>2
  <2>2. S = {k}
    BY <2>1
  <2> QED
    BY <2>2, FS_Singleton
<1> QED
  BY <1>1, <1>2

\* A sequence over a set is one over a larger set.
LEMMA SeqWider ==
  ASSUME NEW S, NEW T, S \subseteq T, NEW s \in Seq(S)
  PROVE  s \in Seq(T)
<1>1. \A i \in 1..Len(s) : s[i] \in T
  OBVIOUS
<1>2. s = [i \in 1..Len(s) |-> s[i]] /\ Len(s) \in Nat
  OBVIOUS
<1> QED
  BY <1>1, <1>2

-------------------------------------------------------------------------------
(***************************************************************************)
(* What the calls make of the browser's state.                             *)
(***************************************************************************)
LogOK == log \in Seq(Kinds) /\ Newest <= MaxEvents

\* One load is the latest and one is awaited by the resync, and there is no other.
LoadsWell(c) ==
  /\ \A k, l \in c.loads : (k.live /\ l.live => k = l) /\ (k.resync /\ l.resync => k = l)
  /\ \A l \in c.loads : (l.live \/ l.resync) /\ l.at <= Newest
\* A load that was read before an event that was applied at once is not to be applied.
NoneStale(c) ==
  \A e \in c.view, l \in c.loads : log[e] = "fast" /\ l.live /\ l.read => e <= l.at
ClientWell(c) == c \in Client /\ LoadsWell(c) /\ NoneStale(c) /\ (c.queued # <<>> => c.resyncing)

\* The event e is in the view, was given up, or a snapshot that will bring it is due.
Comes(c, e) ==
  \/ e \in c.view \cup c.forgone
  \/ c.timer \/ c.retry
  \/ \E l \in c.loads : l.live /\ (l.read => e <= l.at)

\* The log's length is a number.
LEMMA NewestType == LogOK => Newest \in Nat
BY DEF LogOK, Newest

\* A load that the resync awaits may be superseded.
LEMMA KeptWell ==
  ASSUME NEW c, LoadsWell(c), \A l \in c.loads : l \in Loads, NEW S, S \subseteq c.loads, \A l \in S : l.resync
  PROVE  /\ \A l \in {[i EXCEPT !.live = FALSE] : i \in S} :
              l \in Loads /\ ~l.live /\ l.resync /\ l.at <= Newest
         /\ \A k, l \in {[i EXCEPT !.live = FALSE] : i \in S} : k = l
<1> DEFINE kept == {[i EXCEPT !.live = FALSE] : i \in S}
<1>1. ASSUME NEW l \in kept
      PROVE  l \in Loads /\ ~l.live /\ l.resync /\ l.at <= Newest
  <2>1. PICK i \in S : l = [i EXCEPT !.live = FALSE]
    BY <1>1
  <2>2. i \in Loads /\ i.resync /\ i.at <= Newest
    BY DEF LoadsWell
  <2> QED
    BY <2>1, <2>2 DEF Loads
<1>2. ASSUME NEW k \in kept, NEW l \in kept
      PROVE  k = l
  <2>1. PICK i \in S, j \in S : k = [i EXCEPT !.live = FALSE] /\ l = [j EXCEPT !.live = FALSE]
    BY <1>2
  <2>2. i = j
    BY DEF LoadsWell
  <2> QED
    BY <2>1, <2>2
<1> QED
  BY <1>1, <1>2

\* Invalidate discards the load in flight, and gives up what it would have brought.
LEMMA InvalidateWell ==
  ASSUME LogOK, NEW c, ClientWell(c)
  PROVE  LET d == Invalidate(c)
         IN /\ ClientWell(d) /\ d.view = c.view /\ d.cursor = c.cursor /\ d.timer = c.timer
            /\ d.retry = c.retry /\ d.resyncing = c.resyncing /\ d.queued = c.queued /\ d.own = c.own
            /\ ~InFlight(d) /\ \A e \in 1..Newest : Comes(c, e) => Comes(d, e)
            /\ c.loads = {} => d.loads = {}
<1> DEFINE d == Invalidate(c)
           kept == {[l EXCEPT !.live = FALSE] : l \in {k \in c.loads : k.resync}}
<1>1. c \in Client /\ LoadsWell(c) /\ \A l \in c.loads : l \in Loads
  BY DEF ClientWell, Client
<1>2. /\ d.view = c.view /\ d.cursor = c.cursor /\ d.timer = c.timer /\ d.retry = c.retry
      /\ d.resyncing = c.resyncing /\ d.queued = c.queued /\ d.own = c.own /\ d.loads = kept
      /\ d.forgone = IF InFlight(c) THEN c.forgone \cup Missing(c) ELSE c.forgone
  BY <1>1 DEF Invalidate, Client
<1>3. d.forgone \in SUBSET (1..Newest)
  BY <1>1, <1>2 DEF Client, Missing
<1>4. /\ \A l \in kept : l \in Loads /\ ~l.live /\ l.resync /\ l.at <= Newest
      /\ \A k, l \in kept : k = l
  <2> DEFINE S == {k \in c.loads : k.resync}
  <2>1. S \subseteq c.loads /\ \A l \in S : l.resync
    OBVIOUS
  <2> HIDE DEF S
  <2>2. /\ \A l \in {[i EXCEPT !.live = FALSE] : i \in S} :
             l \in Loads /\ ~l.live /\ l.resync /\ l.at <= Newest
        /\ \A k, l \in {[i EXCEPT !.live = FALSE] : i \in S} : k = l
    BY <1>1, <2>1, KeptWell
  <2> QED
    BY <2>2 DEF S
<1>5. d \in Client
  BY <1>1, <1>3, <1>4 DEF Client, Invalidate
<1>6. LoadsWell(d)
  BY <1>2, <1>4 DEF LoadsWell
<1>7. ClientWell(d) /\ ~InFlight(d)
  BY <1>2, <1>4, <1>5, <1>6 DEF ClientWell, NoneStale, InFlight
<1>8. ASSUME NEW e \in 1..Newest, Comes(c, e)
      PROVE  Comes(d, e)
  BY <1>2, <1>8 DEF Comes, InFlight, Missing
<1>9. c.loads = {} => d.loads = {}
  BY <1>2
<1> QED
  BY <1>2, <1>7, <1>8, <1>9

\* A load that was just sent will bring every event there is.
LEMMA StartLoadWell ==
  ASSUME LogOK, NEW c, ClientWell(c), NEW resync \in BOOLEAN
  PROVE  LET d == StartLoad(c, resync)
         IN /\ ClientWell(d) /\ d.view = c.view /\ d.cursor = c.cursor /\ d.timer = c.timer
            /\ d.retry = c.retry /\ d.resyncing = c.resyncing /\ d.queued = c.queued /\ d.own = c.own
            /\ d.forgone = c.forgone /\ \A e : Comes(d, e)
<1> DEFINE d == StartLoad(c, resync)
           kept == {[l EXCEPT !.live = FALSE] : l \in {k \in c.loads : k.resync /\ ~resync}}
           new == [read |-> FALSE, at |-> 0, live |-> TRUE, resync |-> resync]
<1>0. Newest \in Nat /\ Newest <= MaxEvents /\ MaxEvents \in Nat
  BY NewestType, RealtimeAssumption DEF LogOK
<1>1. c \in Client /\ LoadsWell(c) /\ \A l \in c.loads : l \in Loads
  BY DEF ClientWell, Client
<1>2. /\ d.view = c.view /\ d.cursor = c.cursor /\ d.timer = c.timer /\ d.retry = c.retry
      /\ d.resyncing = c.resyncing /\ d.queued = c.queued /\ d.own = c.own /\ d.loads = kept \cup {new}
      /\ d.forgone = c.forgone
  BY <1>1 DEF StartLoad, Client
<1>3. new \in Loads /\ new.live /\ ~new.read /\ new.at = 0 /\ new.resync = resync
  BY <1>0 DEF Loads
<1>4. /\ \A l \in kept : l \in Loads /\ ~l.live /\ l.resync /\ l.at <= Newest /\ ~resync
      /\ \A k, l \in kept : k = l
  <2> DEFINE S == {k \in c.loads : k.resync /\ ~resync}
  <2>1. S \subseteq c.loads /\ (\A l \in S : l.resync) /\ (S # {} => ~resync)
    OBVIOUS
  <2> HIDE DEF S
  <2>2. /\ \A l \in {[i EXCEPT !.live = FALSE] : i \in S} :
             l \in Loads /\ ~l.live /\ l.resync /\ l.at <= Newest
        /\ \A k, l \in {[i EXCEPT !.live = FALSE] : i \in S} : k = l
    BY <1>1, <2>1, KeptWell
  <2>3. {[i EXCEPT !.live = FALSE] : i \in S} # {} => ~resync
    BY <2>1
  <2> QED
    BY <2>2, <2>3 DEF S
<1>5. d \in Client
  BY <1>1, <1>3, <1>4 DEF Client, StartLoad
<1> HIDE DEF new, kept
<1>7. LoadsWell(d)
  BY <1>0, <1>2, <1>3, <1>4 DEF LoadsWell
<1>8. NoneStale(d)
  BY <1>2, <1>3, <1>4 DEF NoneStale
<1>9. \A e : Comes(d, e)
  BY <1>2, <1>3 DEF Comes
<1> QED
  BY <1>2, <1>5, <1>7, <1>8, <1>9 DEF ClientWell

\* A new generation forgets what was queued, the retry, and which load a resync
\* waits for.
LEMMA NewGenerationWell ==
  ASSUME LogOK, NEW c, ClientWell(c)
  PROVE  LET d == NewGeneration(c)
         IN /\ ClientWell(d) /\ d.view = c.view /\ d.cursor = c.cursor /\ d.timer = c.timer
            /\ d.retry = FALSE /\ d.resyncing = c.resyncing /\ d.queued = <<>> /\ d.own = c.own
            /\ d.forgone = c.forgone
            /\ c.loads = {} => d.loads = {}
<1> DEFINE d == NewGeneration(c)
           kept == {[l EXCEPT !.resync = FALSE] : l \in {k \in c.loads : k.live}}
<1>1. c \in Client /\ LoadsWell(c) /\ NoneStale(c) /\ \A l \in c.loads : l \in Loads
  BY DEF ClientWell, Client
<1>2. /\ d.view = c.view /\ d.cursor = c.cursor /\ d.timer = c.timer /\ d.retry = FALSE
      /\ d.resyncing = c.resyncing /\ d.queued = <<>> /\ d.own = c.own /\ d.loads = kept
      /\ d.forgone = c.forgone
  BY <1>1 DEF NewGeneration, Client
<1>3. ASSUME NEW l \in kept
      PROVE  /\ l \in Loads /\ l.live /\ ~l.resync /\ l.at <= Newest
             /\ \E i \in c.loads : i.live /\ l = [i EXCEPT !.resync = FALSE] /\ i.at = l.at /\ i.read = l.read
  <2>1. PICK i \in c.loads : i.live /\ l = [i EXCEPT !.resync = FALSE]
    BY <1>3
  <2>2. i \in Loads /\ i.at <= Newest
    BY <1>1 DEF LoadsWell
  <2> QED
    BY <2>1, <2>2 DEF Loads
<1>4. ASSUME NEW k \in kept, NEW l \in kept
      PROVE  k = l
  <2>1. PICK i \in c.loads, j \in c.loads :
          i.live /\ j.live /\ k = [i EXCEPT !.resync = FALSE] /\ l = [j EXCEPT !.resync = FALSE]
    BY <1>3, <1>4
  <2>2. i = j
    BY <1>1, <2>1 DEF LoadsWell
  <2> QED
    BY <2>1, <2>2
<1>5. d \in Client
  <2>1. <<>> \in Seq(1..Newest) /\ kept \in SUBSET Loads
    BY <1>3
  <2> QED
    BY <1>1, <2>1 DEF Client, NewGeneration
<1>6. LoadsWell(d)
  BY <1>2, <1>3, <1>4 DEF LoadsWell
<1>7. NoneStale(d)
  BY <1>1, <1>2, <1>3 DEF NoneStale
<1>8. c.loads = {} => d.loads = {}
  BY <1>2
<1> QED
  BY <1>2, <1>5, <1>6, <1>7, <1>8 DEF ClientWell

\* A reconnect's load will bring every event there is.
LEMMA RefreshWell ==
  ASSUME LogOK, NEW c, ClientWell(c)
  PROVE  LET d == ReconnectRefresh(c)
         IN /\ ClientWell(d) /\ d.view = c.view /\ d.cursor = c.cursor /\ d.own = c.own
            /\ d.retry = c.retry /\ d.resyncing = c.resyncing /\ d.queued = c.queued
            /\ d.forgone = c.forgone /\ \A e : Comes(d, e)
<1> DEFINE b == [c EXCEPT !.timer = FALSE]
<1>1. /\ ClientWell(b) /\ b.view = c.view /\ b.cursor = c.cursor /\ b.own = c.own /\ b.retry = c.retry
      /\ b.resyncing = c.resyncing /\ b.queued = c.queued /\ b.forgone = c.forgone
  BY DEF ClientWell, Client, LoadsWell, NoneStale
<1> HIDE DEF b
<1> QED
  BY <1>1, StartLoadWell DEF ReconnectRefresh, b

\* A resync starts with nothing queued and a load under way.
LEMMA ResyncWell ==
  ASSUME LogOK, NEW c, ClientWell(c)
  PROVE  LET d == StartAuthoritativeResync(c)
         IN /\ ClientWell(d) /\ d.view = c.view /\ d.cursor = c.cursor /\ d.own = c.own
            /\ d.queued = <<>> /\ d.forgone = c.forgone /\ \A e : Comes(d, e)
<1> DEFINE a == NewGeneration(c)
           b == [a EXCEPT !.resyncing = TRUE]
<1>1. /\ ClientWell(a) /\ a.view = c.view /\ a.cursor = c.cursor /\ a.own = c.own /\ a.queued = <<>>
      /\ a.forgone = c.forgone
  BY NewGenerationWell
<1> HIDE DEF a
<1>2. /\ ClientWell(b) /\ b.view = c.view /\ b.cursor = c.cursor /\ b.own = c.own /\ b.queued = <<>>
      /\ b.forgone = c.forgone
  BY <1>1 DEF ClientWell, Client, LoadsWell, NoneStale
<1> HIDE DEF b
<1> QED
  BY <1>2, RefreshWell DEF StartAuthoritativeResync, a, b

\* Whatever the kind of an event, once it was dispatched the view has it or will.
LEMMA ApplyWell ==
  ASSUME LogOK, NEW c, ClientWell(c), NEW e \in 1..Newest
  PROVE  LET d == Apply(c, e)
         IN /\ ClientWell(d) /\ c.view \subseteq d.view /\ d.cursor = c.cursor /\ d.own = c.own
            /\ d.retry = c.retry /\ d.resyncing = c.resyncing /\ d.queued = c.queued
            /\ \A i \in 1..Newest : Comes(c, i) => Comes(d, i)
            /\ log[e] # "hidden" => Comes(d, e)
<1> DEFINE b == IF log[e] \in Invalidating THEN Invalidate(c) ELSE c
           d == Apply(c, e)
<1>1. /\ ClientWell(b) /\ b.view = c.view /\ b.cursor = c.cursor /\ b.own = c.own /\ b.timer = c.timer
      /\ b.retry = c.retry /\ b.resyncing = c.resyncing /\ b.queued = c.queued
      /\ \A i \in 1..Newest : Comes(c, i) => Comes(b, i)
      /\ log[e] = "fast" => ~InFlight(b)
  BY InvalidateWell DEF Invalidating
<1> HIDE DEF b
<1>2. b \in Client /\ log[e] \in Kinds
  BY <1>1 DEF ClientWell, LogOK, Newest
<1>3. /\ d.view = IF log[e] \in Applied THEN b.view \cup {e} ELSE b.view
      /\ d.timer = (b.timer \/ log[e] \in Reconciled)
      /\ d.cursor = b.cursor /\ d.own = b.own /\ d.retry = b.retry /\ d.resyncing = b.resyncing
      /\ d.queued = b.queued /\ d.loads = b.loads /\ d.forgone = b.forgone
  BY <1>2 DEF Apply, Client, b
<1>4. d \in Client
  <2>1. (IF log[e] \in Applied THEN b.view \cup {e} ELSE b.view) \in SUBSET (1..Newest)
    BY <1>2 DEF Client
  <2>2. d = [b EXCEPT !.view = IF log[e] \in Applied THEN @ \cup {e} ELSE @,
                      !.timer = @ \/ log[e] \in Reconciled]
    BY DEF Apply, b
  <2>3. (b.timer \/ log[e] \in Reconciled) \in BOOLEAN
    OBVIOUS
  <2> QED
    BY <1>2, <2>1, <2>2, <2>3 DEF Client
<1> HIDE DEF d
<1>5. LoadsWell(d)
  BY <1>1, <1>3 DEF ClientWell, LoadsWell
<1>6. NoneStale(d)
  BY <1>1, <1>3 DEF ClientWell, NoneStale, InFlight
<1>7. ASSUME NEW i \in 1..Newest, Comes(c, i)
      PROVE  Comes(d, i)
  BY <1>1, <1>3, <1>7 DEF Comes
<1>8. log[e] # "hidden" => Comes(d, e)
  BY <1>2, <1>3 DEF Comes, Kinds, Applied, Reconciled
<1>9. ClientWell(d)
  BY <1>1, <1>3, <1>4, <1>5, <1>6 DEF ClientWell
<1> QED
  BY <1>1, <1>3, <1>7, <1>8, <1>9 DEF d

\* A message that is dispatched is a duplicate, or the view has its event or will.
LEMMA DispatchWell ==
  ASSUME LogOK, NEW c, ClientWell(c), NEW e \in 1..Newest, NEW recoverGap \in BOOLEAN
  PROVE  LET d == DispatchDomainMessage(c, e, recoverGap)
         IN /\ ClientWell(d) /\ c.view \subseteq d.view /\ d.own = c.own
            /\ d.queued \in {c.queued, <<>>}
            /\ ~recoverGap => d.retry = c.retry /\ d.resyncing = c.resyncing /\ d.queued = c.queued
            /\ \A i \in 1..Newest : Comes(c, i) => Comes(d, i)
            /\ \A i \in 1..Newest : i <= d.cursor => i <= c.cursor \/ i = e
            /\ (recoverGap \/ e <= d.cursor) /\ log[e] # "hidden" => e <= c.cursor \/ Comes(d, e)
<1> DEFINE d == DispatchDomainMessage(c, e, recoverGap)
<1>0. c \in Client /\ c.cursor \in Nat /\ Newest \in Nat
  BY NewestType DEF ClientWell, Client
<1>1. CASE Contiguous(c, e)
  <2> DEFINE b == [c EXCEPT !.cursor = e]
  <2>1. /\ ClientWell(b) /\ b.view = c.view /\ b.cursor = e /\ b.own = c.own /\ b.retry = c.retry
        /\ b.resyncing = c.resyncing /\ b.queued = c.queued
        /\ \A i \in 1..Newest : Comes(c, i) => Comes(b, i)
    BY <1>0 DEF ClientWell, Client, LoadsWell, NoneStale, Comes
  <2>2. d = Apply(b, e)
    BY <1>1 DEF DispatchDomainMessage
  <2> HIDE DEF b, d
  <2>3. \A i \in 1..Newest : i <= e => i <= c.cursor \/ i = e
    BY <1>0, <1>1 DEF Contiguous
  <2> QED
    BY <2>1, <2>2, <2>3, ApplyWell DEF d
<1>2. CASE ~Contiguous(c, e) /\ e > c.cursor /\ recoverGap
  <2>1. d = StartAuthoritativeResync(c)
    BY <1>2 DEF DispatchDomainMessage
  <2> QED
    BY <1>2, <2>1, ResyncWell
<1>3. CASE ~Contiguous(c, e) /\ ~(e > c.cursor /\ recoverGap)
  <2>1. d = c
    BY <1>3 DEF DispatchDomainMessage
  <2> HIDE DEF d
  <2>2. (recoverGap \/ e <= c.cursor) => e <= c.cursor
    BY <1>0, <1>3
  <2> QED
    BY <2>1, <2>2 DEF d
<1> QED
  BY <1>1, <1>2, <1>3
\* f dispatches c's queue up to the n-th message.
Dispatches(f, c, n) ==
  f = [i \in 0..n |-> IF i = 0 THEN c ELSE DispatchDomainMessage(f[i - 1], c.queued[i], FALSE)]

\* The queue can be dispatched as far as one likes.
LEMMA DispatchesExist ==
  ASSUME NEW c, NEW n \in Nat
  PROVE  \E f : Dispatches(f, c, n)
<1> DEFINE S == {m \in 0..n : \E f : Dispatches(f, c, m)}
<1>1. 0 \in S
  <2>1. Dispatches([i \in 0..0 |-> c], c, 0)
    BY DEF Dispatches
  <2> QED
    BY <2>1
<1>2. ASSUME NEW m \in 1..n, m - 1 \in S
      PROVE  m \in S
  <2>1. PICK f : Dispatches(f, c, m - 1)
    BY <1>2
  <2> DEFINE g == [i \in 0..m |-> IF i = m THEN DispatchDomainMessage(f[m - 1], c.queued[m], FALSE) ELSE f[i]]
             h == [i \in 0..m |-> IF i = 0 THEN c ELSE DispatchDomainMessage(g[i - 1], c.queued[i], FALSE)]
  <2>2. m \in Nat /\ m # 0 /\ m - 1 \in 0..m /\ m - 1 # m
    OBVIOUS
  <2>3. /\ g = [i \in 0..m |-> g[i]]
        /\ g[m] = DispatchDomainMessage(f[m - 1], c.queued[m], FALSE)
        /\ \A i \in 0..(m - 1) : g[i] = f[i]
    <3>1. g = [i \in 0..m |-> g[i]]
      OBVIOUS
    <3>2. g[m] = DispatchDomainMessage(f[m - 1], c.queued[m], FALSE)
      BY <2>2
    <3>3. ASSUME NEW i \in 0..(m - 1)
          PROVE  g[i] = f[i]
      <4>1. i \in 0..m /\ i # m
        BY <2>2
      <4> QED
        BY <4>1
    <3> QED
      BY <3>1, <3>2, <3>3
  <2> HIDE DEF g
  <2>4. ASSUME NEW i \in 0..m
        PROVE  g[i] = h[i]
    <3>1. CASE i = 0
      <4>1. 0 \in 0..(m - 1)
        BY <2>2
      <4> QED
        BY <2>1, <2>3, <3>1, <4>1 DEF Dispatches
    <3>2. CASE i = m
      <4>1. h[m] = DispatchDomainMessage(g[m - 1], c.queued[m], FALSE) /\ m - 1 \in 0..(m - 1)
        BY <2>2
      <4> QED
        BY <2>3, <3>2, <4>1
    <3>3. CASE i # 0 /\ i # m
      <4>1. i \in 0..(m - 1) /\ i - 1 \in 0..(m - 1)
        BY <2>2, <3>3
      <4>2. f[i] = DispatchDomainMessage(f[i - 1], c.queued[i], FALSE)
        BY <2>1, <3>3, <4>1 DEF Dispatches
      <4> QED
        BY <2>3, <3>3, <4>1, <4>2
    <3> QED
      BY <3>1, <3>2, <3>3
  <2>5. g = h
    <3>1. h = [i \in 0..m |-> h[i]]
      OBVIOUS
    <3> HIDE DEF h
    <3>2. [i \in 0..m |-> g[i]] = [i \in 0..m |-> h[i]]
      BY <2>4
    <3> QED
      BY <2>3, <3>1, <3>2, Zenon
  <2>6. Dispatches(g, c, m)
    BY <2>5 DEF Dispatches
  <2> QED
    BY <2>6
<1> HIDE DEF S
<1>3. 0..n \subseteq S
  BY <1>1, <1>2, CountUp
<1> QED
  BY <1>3 DEF S

\* What was queued is dispatched to the last message, and nothing leaves the view.
LEMMA DrainedWell ==
  ASSUME LogOK, NEW c, ClientWell(c)
  PROVE  LET d == Drained(c)
         IN ClientWell(d) /\ c.view \subseteq d.view /\ d.own = c.own /\ d.queued = <<>>
<1> DEFINE n == Len(c.queued)
           after == CHOOSE f : Dispatches(f, c, n)
<1>1. c \in Client /\ c.queued \in Seq(1..Newest) /\ n \in Nat
  BY DEF ClientWell, Client
<1>2. Dispatches(after, c, n)
  BY <1>1, DispatchesExist
<1>3. Drained(c) = [after[n] EXCEPT !.queued = <<>>]
  BY DEF Drained, Dispatches
<1> HIDE DEF after
<1> DEFINE Good(d) == ClientWell(d) /\ c.view \subseteq d.view /\ d.own = c.own
           S == {i \in 0..n : Good(after[i])}
<1>4. 0 \in S
  BY <1>1, <1>2 DEF Dispatches
<1>5. ASSUME NEW i \in 1..n, i - 1 \in S
      PROVE  i \in S
  <2>1. after[i] = DispatchDomainMessage(after[i - 1], c.queued[i], FALSE) /\ c.queued[i] \in 1..Newest
    BY <1>1, <1>2 DEF Dispatches
  <2>2. Good(after[i - 1])
    BY <1>5
  <2> DEFINE b == after[i - 1]
             d == DispatchDomainMessage(b, c.queued[i], FALSE)
  <2>3. ClientWell(d) /\ b.view \subseteq d.view /\ d.own = b.own
    BY <2>1, <2>2, DispatchWell
  <2>4. after[i] = d /\ i \in 0..n
    BY <1>1, <2>1
  <2> QED
    BY <2>2, <2>3, <2>4
<1> HIDE DEF S
<1>6. n \in S
  <2>1. 0..n \subseteq S
    BY <1>1, <1>4, <1>5, CountUp
  <2> QED
    BY <1>1, <2>1
<1>7. Good(after[n])
  BY <1>6 DEF S
<1> DEFINE b == after[n]
           d == [b EXCEPT !.queued = <<>>]
<1>8. b \in Client /\ <<>> \in Seq(1..Newest)
  BY <1>7 DEF ClientWell
<1>9. /\ d \in Client /\ d.view = b.view /\ d.own = b.own /\ d.loads = b.loads /\ d.queued = <<>>
  BY <1>8 DEF Client
<1> HIDE DEF d
<1>10. ClientWell(d)
  BY <1>7, <1>9 DEF ClientWell, LoadsWell, NoneStale
<1> QED
  BY <1>3, <1>7, <1>9, <1>10 DEF d

\* A resync's load is over: the table is synced, or loads once more.
LEMMA ReconcileWell ==
  ASSUME LogOK, NEW c, ClientWell(c)
  PROVE  LET d == Reconcile(c)
         IN /\ ClientWell(d) /\ c.view \subseteq d.view /\ d.own = c.own /\ d.queued = <<>>
            /\ \/ c.queued = <<>> /\ d.cursor = c.cursor /\ \A i \in 1..Newest : Comes(c, i) => Comes(d, i)
               \/ \A i : Comes(d, i)
<1>1. CASE c.queued = <<>>
  <2> DEFINE d == [c EXCEPT !.resyncing = FALSE]
  <2>1. /\ ClientWell(d) /\ d.view = c.view /\ d.own = c.own /\ d.queued = <<>> /\ d.cursor = c.cursor
        /\ \A i \in 1..Newest : Comes(c, i) => Comes(d, i)
    BY <1>1 DEF ClientWell, Client, LoadsWell, NoneStale, Comes
  <2>2. Reconcile(c) = d
    BY <1>1 DEF Reconcile
  <2> HIDE DEF d
  <2> QED
    BY <1>1, <2>1, <2>2
<1>2. CASE c.queued # <<>>
  <2>1. Reconcile(c) = ReconnectRefresh(Drained(c))
    BY <1>2 DEF Reconcile
  <2>2. /\ ClientWell(Drained(c)) /\ c.view \subseteq Drained(c).view
        /\ Drained(c).own = c.own /\ Drained(c).queued = <<>>
    BY DrainedWell
  <2> QED
    BY <2>1, <2>2, RefreshWell
<1> QED
  BY <1>1, <1>2

\* A load that is over leaves the rest of the browser's state.
LEMMA EndedWell ==
  ASSUME LogOK, NEW c, ClientWell(c), NEW l \in c.loads
  PROVE  LET b == Ended(c, l)
         IN /\ ClientWell(b) /\ b.view = c.view /\ b.cursor = c.cursor /\ b.own = c.own
            /\ b.timer = c.timer /\ b.retry = c.retry /\ b.resyncing = c.resyncing
            /\ b.queued = c.queued /\ b.forgone = c.forgone /\ b.loads = c.loads \ {l}
<1> DEFINE b == Ended(c, l)
<1>0. c \in Client /\ LoadsWell(c) /\ NoneStale(c)
  BY DEF ClientWell
<1>1. b.loads = c.loads \ {l} /\ b.loads \subseteq c.loads /\ b \in Client
  BY <1>0 DEF Ended, Client
<1>2. /\ b.view = c.view /\ b.cursor = c.cursor /\ b.own = c.own /\ b.timer = c.timer
      /\ b.retry = c.retry /\ b.resyncing = c.resyncing /\ b.queued = c.queued /\ b.forgone = c.forgone
  BY <1>0 DEF Ended, Client
<1> HIDE DEF b
<1>3. ClientWell(b)
  BY <1>0, <1>1, <1>2 DEF ClientWell, LoadsWell, NoneStale
<1> QED
  BY <1>1, <1>2, <1>3 DEF b

\* A load that returns brings the events up to the one it was read at, and what
\* else was in the view is known to be gone.
LEMMA ReplaceWell ==
  ASSUME LogOK, NEW c, ClientWell(c), NEW l \in c.loads, l.read
  PROVE  LET d == Replace(Ended(c, l), l)
         IN /\ ClientWell(d) /\ d.own = c.own /\ d.queued = c.queued
            /\ \A e \in c.view : log[e] = "fast" => e \in d.view
            /\ \A i \in 1..Newest : Comes(c, i) => Comes(d, i)
            /\ l.live => \A i \in 1..Newest : i <= d.cursor => Comes(d, i)
            /\ ~l.live => d.cursor = c.cursor
<1> DEFINE b == Ended(c, l)
           d == Replace(b, l)
<1>0. c \in Client /\ LoadsWell(c) /\ NoneStale(c) /\ Newest \in Nat /\ l \in Loads
  BY NewestType DEF ClientWell, Client
<1>1. /\ ClientWell(b) /\ b.view = c.view /\ b.cursor = c.cursor /\ b.own = c.own /\ b.timer = c.timer
      /\ b.retry = c.retry /\ b.resyncing = c.resyncing /\ b.queued = c.queued /\ b.forgone = c.forgone
      /\ b.loads = c.loads \ {l}
  BY EndedWell
<1> HIDE DEF b
<1>2. CASE ~l.live
  <2>1. d = b
    BY <1>2 DEF Replace
  <2> HIDE DEF d
  <2>2. ASSUME NEW i \in 1..Newest, Comes(c, i)
        PROVE  Comes(b, i)
    BY <1>1, <1>2, <2>2 DEF Comes
  <2> QED
    BY <1>0, <1>1, <1>2, <2>1, <2>2 DEF b, d
<1>3. CASE l.live
  <2>0. l.at \in 0..Newest
    BY <1>0 DEF LoadsWell, Loads
  <2>1. /\ d.view = 1..l.at /\ d.cursor = l.at /\ d.forgone = (c.forgone \cup c.view) \ (1..l.at)
        /\ d.timer = c.timer /\ d.retry = c.retry /\ d.resyncing = c.resyncing /\ d.queued = c.queued
        /\ d.own = c.own /\ d.loads = c.loads \ {l}
    BY <1>1, <1>3 DEF Replace, ClientWell, Client
  <2>2. d \in Client
    <3>1. d = [b EXCEPT !.view = 1..l.at, !.cursor = l.at, !.forgone = (@ \cup b.view) \ (1..l.at)]
      BY <1>3 DEF Replace
    <3>2. 1..l.at \in SUBSET (1..Newest) /\ (b.forgone \cup b.view) \ (1..l.at) \in SUBSET (1..Newest)
      BY <1>0, <1>1, <2>0 DEF Client
    <3> QED
      BY <1>1, <2>0, <3>1, <3>2 DEF ClientWell, Client
  <2> HIDE DEF d
  <2>3. \A k \in d.loads : ~k.live
    BY <1>0, <1>3, <2>1 DEF LoadsWell
  <2>4. LoadsWell(d) /\ NoneStale(d)
    BY <1>1, <2>1, <2>3 DEF ClientWell, LoadsWell, NoneStale
  <2>5. ASSUME NEW i \in 1..Newest, Comes(c, i)
        PROVE  Comes(d, i)
    <3>1. CASE i <= l.at
      BY <2>0, <2>1, <3>1 DEF Comes
    <3>2. CASE ~(i <= l.at)
      <4>1. i \in c.view \cup c.forgone \/ c.timer \/ c.retry
        BY <1>0, <1>3, <2>5, <3>2 DEF Comes, LoadsWell
      <4> QED
        BY <2>0, <2>1, <3>2, <4>1 DEF Comes
    <3> QED
      BY <3>1, <3>2
  <2>6. ASSUME NEW i \in 1..Newest, i <= d.cursor
        PROVE  Comes(d, i)
    BY <2>0, <2>1, <2>6 DEF Comes
  <2>7. ASSUME NEW e \in c.view, log[e] = "fast"
        PROVE  e \in d.view
    <3>1. e \in 1..Newest /\ e <= l.at
      BY <1>0, <1>3, <2>7 DEF NoneStale, Client
    <3> QED
      BY <2>0, <2>1, <3>1
  <2>8. ClientWell(d)
    BY <1>1, <2>1, <2>2, <2>4 DEF ClientWell
  <2> QED
    BY <1>3, <2>1, <2>5, <2>6, <2>7, <2>8 DEF d, b
<1> QED
  BY <1>2, <1>3
\* A load that fails is tried again, or what it would have brought is given up.
LEMMA FailedWell ==
  ASSUME LogOK, NEW c, ClientWell(c), NEW l \in c.loads
  PROVE  LET d == Failed(Ended(c, l), l)
         IN /\ ClientWell(d) /\ c.view \subseteq d.view /\ d.own = c.own
            /\ d.queued = c.queued \/ \A i : Comes(d, i)
            /\ \A i \in 1..Newest : Comes(c, i) => Comes(d, i)
            /\ \A i \in 1..Newest : i <= d.cursor => i <= c.cursor \/ Comes(d, i)
<1> DEFINE b == Ended(c, l)
           d == Failed(b, l)
<1>0. c \in Client /\ LoadsWell(c) /\ NoneStale(c) /\ Newest \in Nat /\ l \in Loads
  BY NewestType DEF ClientWell, Client
<1>1. /\ ClientWell(b) /\ b.view = c.view /\ b.cursor = c.cursor /\ b.own = c.own /\ b.timer = c.timer
      /\ b.retry = c.retry /\ b.resyncing = c.resyncing /\ b.queued = c.queued /\ b.forgone = c.forgone
      /\ b.loads = c.loads \ {l}
  BY EndedWell
<1>2. \A i \in 1..Newest : ~l.live /\ Comes(c, i) => Comes(b, i)
  BY <1>1 DEF Comes
<1> HIDE DEF b
<1>3. CASE l.resync /\ ~l.live
  <2>1. d = Reconcile(b)
    BY <1>3 DEF Failed
  <2> HIDE DEF d
  <2> DEFINE e == Reconcile(b)
  <2>2. /\ ClientWell(e) /\ b.view \subseteq e.view /\ e.own = b.own /\ e.queued = <<>>
        /\ \/ b.queued = <<>> /\ e.cursor = b.cursor /\ \A i \in 1..Newest : Comes(b, i) => Comes(e, i)
           \/ \A i : Comes(e, i)
    BY <1>1, ReconcileWell
  <2> HIDE DEF e
  <2> QED
    BY <1>1, <1>2, <1>3, <2>1, <2>2 DEF b, d, e
<1>4. CASE ~(l.resync /\ ~l.live)
  <2>1. d = [b EXCEPT !.retry = @ \/ l.resync,
                      !.forgone = IF l.live /\ ~l.resync THEN @ \cup Missing(b) ELSE @]
    BY <1>4 DEF Failed
  <2>2. b \in Client /\ Missing(b) \in SUBSET (1..Newest) /\ l.live
    BY <1>0, <1>1, <1>4 DEF ClientWell, LoadsWell, Missing
  <2>3. /\ d.view = c.view /\ d.cursor = c.cursor /\ d.own = c.own /\ d.timer = c.timer
        /\ d.retry = (c.retry \/ l.resync) /\ d.resyncing = c.resyncing /\ d.queued = c.queued
        /\ d.loads = b.loads
        /\ d.forgone = IF l.live /\ ~l.resync THEN b.forgone \cup Missing(b) ELSE b.forgone
    BY <1>1, <2>1, <2>2 DEF Client
  <2>4. d \in Client
    BY <2>1, <2>2 DEF Client
  <2> HIDE DEF d
  <2>5. ClientWell(d)
    BY <1>1, <2>3, <2>4 DEF ClientWell, LoadsWell, NoneStale
  <2>6. ASSUME NEW i \in 1..Newest, Comes(c, i)
        PROVE  Comes(d, i)
    BY <1>1, <2>2, <2>3, <2>6 DEF Comes, Missing
  <2> QED
    BY <2>3, <2>5, <2>6 DEF b, d
<1> QED
  BY <1>3, <1>4
-------------------------------------------------------------------------------
(***************************************************************************)
(* The invariant.                                                          *)
(***************************************************************************)
SocketType ==
  /\ conn \in {"waiting", "connecting", "open"} /\ accepted \in BOOLEAN
  /\ acceptedAt \in 0..Newest /\ wire \in Seq(1..Newest) /\ tried \in BOOLEAN /\ resumed \in BOOLEAN
  /\ drops \in 0..MaxDrops /\ errors \in 0..MaxErrors

\* Nothing of the campaign was taken in or is under way.
Untouched(c) == c.cursor = 0 /\ c.loads = {} /\ ~c.timer /\ ~c.retry
\* An open socket was accepted, and before the first one the browser is untouched.
SocketWell ==
  /\ conn = "open" => accepted
  /\ conn # "waiting" => tried
  /\ (conn = "waiting" /\ ~tried) \/ (conn = "connecting" /\ ~resumed) => Untouched(client)

\* On an open socket every event up to the cursor is in the view or will be; after
\* a reconnect so is every one that is neither on the wire nor queued.
Awaited ==
  conn = "open" =>
    \A e \in Visible :
      e <= client.cursor \/ (resumed /\ e \notin ToSet(wire) \cup ToSet(client.queued)) => Comes(client, e)

RealtimeInv == LogOK /\ SocketType /\ ClientWell(client) /\ SocketWell /\ Awaited

\* A step that touches the browser's state alone, and keeps what is to come.
LEMMA ClientStep ==
  ASSUME RealtimeInv, log' = log, UNCHANGED socket, NEW d, client' = d, ClientWell(d),
         Untouched(client) => Untouched(d),
         d.queued = client.queued \/ \A i : Comes(d, i),
         \A i \in 1..Newest : Comes(client, i) => Comes(d, i),
         \A i \in 1..Newest : i <= d.cursor => i <= client.cursor \/ Comes(d, i)
  PROVE  LogOK' /\ ClientWell(client)' /\ SocketWell' /\ Awaited'
<1>1. LogOK' /\ ClientWell(client)'
  BY DEF RealtimeInv, LogOK, Newest, ClientWell, Client, LoadsWell, NoneStale
<1>2. SocketWell'
  BY DEF RealtimeInv, SocketWell, socket, Untouched
<1>3. ASSUME conn = "open", NEW e \in Visible,
             e <= d.cursor \/ (resumed /\ e \notin ToSet(wire) \cup ToSet(d.queued))
      PROVE  Comes(d, e)
  <2>1. e \in 1..Newest
    BY DEF Visible
  <2>2. CASE e <= client.cursor \/ (resumed /\ e \notin ToSet(wire) \cup ToSet(client.queued))
    BY <1>3, <2>1, <2>2 DEF RealtimeInv, Awaited
  <2>3. CASE ~(e <= client.cursor \/ (resumed /\ e \notin ToSet(wire) \cup ToSet(client.queued)))
    BY <1>3, <2>1, <2>3
  <2> QED
    BY <2>2, <2>3
<1>4. Awaited'
  BY <1>3 DEF Awaited, Visible, Comes, Newest, socket
<1> QED
  BY <1>1, <1>2, <1>4

\* The server reads a snapshot: it has every event there is.
LEMMA ServeStep ==
  ASSUME RealtimeInv, NEW l \in client.loads, ServeSnapshot(l)
  PROVE  LogOK' /\ ClientWell(client)' /\ SocketWell' /\ Awaited'
<1> DEFINE r == [l EXCEPT !.read = TRUE, !.at = Newest]
           d == [client EXCEPT !.loads = (@ \ {l}) \cup {r}]
<1>0. /\ LogOK /\ ClientWell(client) /\ client \in Client /\ LoadsWell(client) /\ l \in Loads
      /\ Newest \in Nat /\ Newest <= MaxEvents
  BY NewestType DEF RealtimeInv, ClientWell, Client, LogOK
<1>1. r \in Loads /\ r.read /\ r.at = Newest /\ r.live = l.live /\ r.resync = l.resync
  <2>1. Newest \in 0..MaxEvents
    BY <1>0, RealtimeAssumption
  <2> QED
    BY <1>0, <2>1 DEF Loads
<1> HIDE DEF r
<1>2. /\ d \in Client /\ d.view = client.view /\ d.cursor = client.cursor /\ d.timer = client.timer
      /\ d.retry = client.retry /\ d.resyncing = client.resyncing /\ d.queued = client.queued
      /\ d.forgone = client.forgone /\ d.loads = (client.loads \ {l}) \cup {r}
  BY <1>0, <1>1 DEF Client
<1>3. client' = d /\ log' = log /\ UNCHANGED socket
  BY DEF ServeSnapshot, r
<1> HIDE DEF d
<1>4. LoadsWell(d)
  BY <1>0, <1>1, <1>2 DEF LoadsWell
<1>5. NoneStale(d)
  <2>1. \A e \in client.view : e \in 1..Newest
    BY <1>0 DEF Client
  <2> QED
    BY <1>0, <1>1, <1>2, <2>1 DEF ClientWell, NoneStale
<1>6. ClientWell(d)
  BY <1>0, <1>2, <1>4, <1>5 DEF ClientWell
<1>7. ASSUME NEW i \in 1..Newest, Comes(client, i)
      PROVE  Comes(d, i)
  BY <1>1, <1>2, <1>7 DEF Comes
<1>8. ~Untouched(client)
  BY DEF Untouched
<1> QED
  BY <1>2, <1>3, <1>6, <1>7, <1>8, ClientStep

\* A timer sends a request for a snapshot.
LEMMA TimerStep ==
  ASSUME RealtimeInv, TimerFires \/ RetryFires
  PROVE  LogOK' /\ ClientWell(client)' /\ SocketWell' /\ Awaited'
<1>0. LogOK /\ ClientWell(client) /\ client \in Client
  BY DEF RealtimeInv, ClientWell
<1>1. log' = log /\ UNCHANGED socket /\ ~Untouched(client)
  BY DEF TimerFires, RetryFires, Untouched
<1>2. CASE TimerFires
  <2> DEFINE b == [client EXCEPT !.timer = FALSE]
             d == StartLoad(b, FALSE)
  <2>1. ClientWell(b) /\ b.cursor = client.cursor /\ b.queued = client.queued
    BY <1>0 DEF ClientWell, Client, LoadsWell, NoneStale
  <2>2. client' = d
    BY <1>2 DEF TimerFires
  <2> HIDE DEF b
  <2>3. ClientWell(d) /\ d.cursor = client.cursor /\ d.queued = client.queued /\ \A i : Comes(d, i)
    BY <1>0, <2>1, StartLoadWell
  <2> HIDE DEF d
  <2> QED
    BY <1>1, <2>2, <2>3, ClientStep
<1>3. CASE RetryFires
  <2> DEFINE b == [client EXCEPT !.retry = FALSE]
             d == ReconnectRefresh(b)
  <2>1. ClientWell(b) /\ b.cursor = client.cursor /\ b.queued = client.queued
    BY <1>0 DEF ClientWell, Client, LoadsWell, NoneStale
  <2>2. client' = d
    BY <1>3 DEF RetryFires
  <2> HIDE DEF b
  <2>3. ClientWell(d) /\ d.cursor = client.cursor /\ d.queued = client.queued /\ \A i : Comes(d, i)
    BY <1>0, <2>1, RefreshWell
  <2> HIDE DEF d
  <2> QED
    BY <1>1, <2>2, <2>3, ClientStep
<1> QED
  BY <1>2, <1>3

\* The response of a mutation is in the view, and no load in flight can take it back.
LEMMA ResponseStep ==
  ASSUME RealtimeInv, NEW e \in 1..Newest, ApplyResponse(e)
  PROVE  LogOK' /\ ClientWell(client)' /\ SocketWell' /\ Awaited'
<1> DEFINE b == Invalidate(client)
           d == [b EXCEPT !.view = @ \cup {e}, !.own = @ \cup {e}]
<1>0. LogOK /\ ClientWell(client)
  BY DEF RealtimeInv
<1>1. /\ ClientWell(b) /\ b.cursor = client.cursor /\ b.timer = client.timer /\ b.retry = client.retry
      /\ b.queued = client.queued /\ ~InFlight(b) /\ (client.loads = {} => b.loads = {})
      /\ \A i \in 1..Newest : Comes(client, i) => Comes(b, i)
  BY <1>0, InvalidateWell
<1>2. client' = d /\ log' = log /\ UNCHANGED socket
  BY DEF ApplyResponse
<1> HIDE DEF b
<1>3. b \in Client /\ b.view \cup {e} \in SUBSET (1..Newest) /\ b.own \cup {e} \in SUBSET (1..Newest)
  BY <1>1 DEF ClientWell, Client
<1>4. /\ d \in Client /\ d.view = b.view \cup {e} /\ d.cursor = b.cursor /\ d.timer = b.timer
      /\ d.retry = b.retry /\ d.resyncing = b.resyncing /\ d.queued = b.queued /\ d.loads = b.loads
      /\ d.forgone = b.forgone
  BY <1>3 DEF Client
<1> HIDE DEF d
<1>5. ClientWell(d)
  BY <1>1, <1>4 DEF ClientWell, LoadsWell, NoneStale, InFlight
<1>6. ASSUME NEW i \in 1..Newest, Comes(client, i)
      PROVE  Comes(d, i)
  BY <1>1, <1>4, <1>6 DEF Comes
<1>7. Untouched(client) => Untouched(d)
  BY <1>1, <1>4 DEF Untouched
<1> QED
  BY <1>1, <1>2, <1>4, <1>5, <1>6, <1>7, ClientStep

\* A load that returns, or fails.
LEMMA LoadStep ==
  ASSUME RealtimeInv, NEW l \in client.loads, LoadReturns(l) \/ LoadFails(l)
  PROVE  /\ LogOK' /\ ClientWell(client)' /\ SocketWell' /\ Awaited'
         /\ \A e \in client.view : log[e] = "fast" => e \in client'.view
<1>0. LogOK /\ ClientWell(client) /\ ~Untouched(client)
  BY DEF RealtimeInv, Untouched
<1>1. log' = log /\ UNCHANGED socket
  BY DEF LoadReturns, LoadFails
<1>2. CASE LoadReturns(l)
  <2> DEFINE b == Replace(Ended(client, l), l)
             d == IF l.resync THEN Reconcile(b) ELSE b
  <2>1. /\ ClientWell(b) /\ b.queued = client.queued
        /\ \A e \in client.view : log[e] = "fast" => e \in b.view
        /\ \A i \in 1..Newest : Comes(client, i) => Comes(b, i)
        /\ \A i \in 1..Newest : i <= b.cursor => i <= client.cursor \/ Comes(b, i)
    <3>1. l.read
      BY <1>2 DEF LoadReturns
    <3> HIDE DEF b
    <3>2. /\ ClientWell(b) /\ b.queued = client.queued
          /\ \A e \in client.view : log[e] = "fast" => e \in b.view
          /\ \A i \in 1..Newest : Comes(client, i) => Comes(b, i)
          /\ l.live => \A i \in 1..Newest : i <= b.cursor => Comes(b, i)
          /\ ~l.live => b.cursor = client.cursor
      BY <1>0, <3>1, ReplaceWell DEF b
    <3> QED
      BY <3>2
  <2>2. client' = d
    BY <1>2 DEF LoadReturns
  <2> HIDE DEF b
  <2>3. /\ ClientWell(d) /\ b.view \subseteq d.view
        /\ d.queued = client.queued \/ \A i : Comes(d, i)
        /\ \A i \in 1..Newest : Comes(b, i) => Comes(d, i)
        /\ \A i \in 1..Newest : i <= d.cursor => i <= b.cursor \/ Comes(d, i)
    <3>1. CASE l.resync
      <4> DEFINE e == Reconcile(b)
      <4>1. /\ ClientWell(e) /\ b.view \subseteq e.view /\ e.queued = <<>>
            /\ \/ b.queued = <<>> /\ e.cursor = b.cursor /\ \A i \in 1..Newest : Comes(b, i) => Comes(e, i)
               \/ \A i : Comes(e, i)
        BY <1>0, <2>1, ReconcileWell
      <4>2. d = e
        BY <3>1
      <4> HIDE DEF d, e
      <4> QED
        BY <2>1, <4>1, <4>2
    <3>2. CASE ~l.resync
      BY <2>1, <3>2
    <3> QED
      BY <3>1, <3>2
  <2> HIDE DEF d
  <2>4. \A i \in 1..Newest : Comes(client, i) => Comes(d, i)
    BY <2>1, <2>3
  <2>5. \A i \in 1..Newest : i <= d.cursor => i <= client.cursor \/ Comes(d, i)
    BY <2>1, <2>3
  <2>6. LogOK' /\ ClientWell(client)' /\ SocketWell' /\ Awaited'
    BY <1>0, <1>1, <2>2, <2>3, <2>4, <2>5, ClientStep
  <2> QED
    BY <2>1, <2>2, <2>3, <2>6
<1>3. CASE LoadFails(l)
  <2> DEFINE d == Failed(Ended(client, l), l)
  <2>1. client' = d
    BY <1>3 DEF LoadFails
  <2> HIDE DEF d
  <2>2. /\ ClientWell(d) /\ client.view \subseteq d.view
        /\ d.queued = client.queued \/ \A i : Comes(d, i)
        /\ \A i \in 1..Newest : Comes(client, i) => Comes(d, i)
        /\ \A i \in 1..Newest : i <= d.cursor => i <= client.cursor \/ Comes(d, i)
    BY <1>0, FailedWell DEF d
  <2>3. LogOK' /\ ClientWell(client)' /\ SocketWell' /\ Awaited'
    BY <1>0, <1>1, <2>1, <2>2, ClientStep
  <2> QED
    BY <2>1, <2>2, <2>3
<1> QED
  BY <1>2, <1>3
\* A new event touches nobody until it arrives.
LEMMA PublishStep ==
  ASSUME RealtimeInv, NEW kind \in Kinds, Publish(kind)
  PROVE  RealtimeInv' /\ UNCHANGED client
<1>0. /\ LogOK /\ ClientWell(client) /\ client \in Client /\ Newest \in Nat /\ Newest < MaxEvents
      /\ log \in Seq(Kinds) /\ MaxEvents \in Nat
  BY NewestType, RealtimeAssumption DEF RealtimeInv, ClientWell, LogOK, Publish
<1>1. /\ log' = Append(log, kind)
      /\ UNCHANGED <<conn, accepted, acceptedAt, tried, resumed, client, drops, errors>>
      /\ wire' = IF accepted /\ kind # "hidden" THEN Append(wire, Newest + 1) ELSE wire
  BY DEF Publish
<1>2. Newest' = Newest + 1 /\ \A e \in 1..Newest : log'[e] = log[e]
  BY <1>0, <1>1 DEF Newest
<1>3. LogOK'
  <2>1. log' \in Seq(Kinds)
    BY <1>0, <1>1
  <2>2. Newest' <= MaxEvents
    BY <1>0, <1>2
  <2> QED
    BY <2>1, <2>2 DEF LogOK
<1>4. 1..Newest \subseteq 1..Newest' /\ 0..Newest \subseteq 0..Newest' /\ Newest + 1 \in 1..Newest'
  BY <1>0, <1>2
<1>5. SocketType'
  <2>1. wire \in Seq(1..Newest')
    BY <1>4, SeqWider DEF RealtimeInv, SocketType
  <2> DEFINE N == 1..Newest'
  <2>2. wire' \in Seq(N)
    <3>1. wire \in Seq(N) /\ Newest + 1 \in N
      BY <1>4, <2>1
    <3> HIDE DEF N
    <3> QED
      BY <1>1, <3>1
  <2> QED
    BY <1>1, <1>4, <2>2 DEF RealtimeInv, SocketType
<1>6. client' \in Client'
  <2>1. client.queued \in Seq(1..Newest')
    BY <1>0, <1>4, SeqWider DEF Client
  <2>2. /\ client.view \in SUBSET (1..Newest') /\ client.cursor \in 0..Newest'
        /\ client.own \in SUBSET (1..Newest') /\ client.forgone \in SUBSET (1..Newest')
    BY <1>0, <1>4 DEF Client
  <2> QED
    BY <1>0, <1>1, <2>1, <2>2 DEF Client
<1>7. LoadsWell(client)'
  <2>1. ASSUME NEW l \in client.loads
        PROVE  l.at <= Newest'
    <3>1. l.at <= Newest /\ l.at \in Nat
      BY <1>0 DEF ClientWell, LoadsWell, Client, Loads
    <3> QED
      BY <1>0, <1>2, <3>1
  <2> QED
    BY <1>0, <1>1, <2>1 DEF ClientWell, LoadsWell
<1>8. NoneStale(client)'
  <2>1. \A e \in client.view : e \in 1..Newest
    BY <1>0 DEF Client
  <2> QED
    BY <1>0, <1>1, <1>2, <2>1 DEF ClientWell, NoneStale
<1>9. ClientWell(client)'
  BY <1>0, <1>1, <1>6, <1>7, <1>8 DEF ClientWell
<1>10. SocketWell'
  BY <1>1 DEF RealtimeInv, SocketWell, Untouched
<1>11. Awaited'
  <2> SUFFICES ASSUME conn = "open", NEW e \in Visible',
                      e <= client.cursor \/ (resumed /\ e \notin ToSet(wire') \cup ToSet(client.queued))
               PROVE  Comes(client, e)
    BY <1>1 DEF Awaited, Comes
  <2>1. e \in 1..Newest' /\ log'[e] # "hidden"
    BY DEF Visible
  <2>2. ASSUME e = Newest + 1
        PROVE  FALSE
    <3>1. log'[e] = kind /\ accepted
      BY <1>0, <1>1, <2>2 DEF Newest, RealtimeInv, SocketWell
    <3>2. wire' = Append(wire, e) /\ wire \in Seq(1..Newest)
      BY <1>1, <2>1, <2>2, <3>1 DEF RealtimeInv, SocketType
    <3>3. wire'[Len(wire) + 1] = e /\ Len(wire) + 1 \in DOMAIN wire'
      BY <3>2
    <3>4. e \in ToSet(wire')
      BY <3>3 DEF ToSet
    <3>5. client.cursor \in 0..Newest
      BY <1>0 DEF Client
    <3> QED
      BY <1>0, <2>2, <3>4, <3>5
  <2>3. e \in 1..Newest /\ log[e] # "hidden"
    BY <1>0, <1>2, <2>1, <2>2
  <2>4. e \notin ToSet(wire') => e \notin ToSet(wire)
    <3>1. ASSUME e \in ToSet(wire)
          PROVE  e \in ToSet(wire')
      <4>1. wire \in Seq(1..Newest)
        BY DEF RealtimeInv, SocketType
      <4>2. PICK i \in DOMAIN wire : wire[i] = e
        BY <3>1 DEF ToSet
      <4>3. i \in DOMAIN wire' /\ wire'[i] = e
        BY <1>0, <1>1, <4>1, <4>2
      <4> QED
        BY <4>3 DEF ToSet
    <3> QED
      BY <3>1
  <2> QED
    BY <2>3, <2>4 DEF RealtimeInv, Awaited, Visible
<1> QED
  BY <1>1, <1>3, <1>5, <1>9, <1>10, <1>11 DEF RealtimeInv

\* The socket's own steps before it is open.
LEMMA ConnectStep ==
  ASSUME RealtimeInv, Accept \/ Connect
  PROVE  RealtimeInv' /\ UNCHANGED client
<1>0. Newest \in Nat /\ <<>> \in Seq(1..Newest)
  BY NewestType DEF RealtimeInv
<1>1. log' = log /\ client' = client /\ Newest' = Newest
  BY DEF Accept, Connect, Newest
<1>2. LogOK' /\ ClientWell(client)'
  BY <1>1 DEF RealtimeInv, LogOK, Newest, ClientWell, Client, LoadsWell, NoneStale
<1>3. SocketType'
  <2>1. acceptedAt' \in 0..Newest /\ wire' \in Seq(1..Newest)
    <3>1. CASE Accept
      <4>1. acceptedAt' = Newest /\ wire' = wire
        BY <3>1 DEF Accept
      <4> QED
        BY <1>0, <4>1 DEF RealtimeInv, SocketType
    <3>2. CASE Connect
      <4>1. acceptedAt' = acceptedAt /\ wire' = <<>>
        BY <3>2 DEF Connect
      <4> QED
        BY <1>0, <4>1 DEF RealtimeInv, SocketType
    <3> QED
      BY <3>1, <3>2
  <2>2. /\ conn' \in {"waiting", "connecting", "open"} /\ accepted' \in BOOLEAN
        /\ tried' \in BOOLEAN /\ resumed' \in BOOLEAN /\ UNCHANGED <<drops, errors>>
    BY DEF RealtimeInv, SocketType, Accept, Connect
  <2> QED
    BY <1>1, <2>1, <2>2 DEF RealtimeInv, SocketType
<1>4. SocketWell'
  BY <1>1 DEF RealtimeInv, SocketType, SocketWell, Untouched, Accept, Connect
<1>5. Awaited'
  BY <1>1 DEF RealtimeInv, Awaited, Accept, Connect
<1> QED
  BY <1>1, <1>2, <1>3, <1>4, <1>5 DEF RealtimeInv

\* The first socket finds nothing taken in; a reconnect loads a snapshot.
LEMMA OpenStep ==
  ASSUME RealtimeInv, Open
  PROVE  RealtimeInv' /\ client'.view = client.view
<1>0. LogOK /\ ClientWell(client) /\ client \in Client
  BY DEF RealtimeInv, ClientWell
<1>1. /\ log' = log /\ Newest' = Newest /\ conn = "connecting" /\ conn' = "open" /\ accepted
      /\ UNCHANGED <<accepted, acceptedAt, wire, tried, resumed, drops, errors>>
  BY DEF Open, Newest
<1>2. SocketType' /\ LogOK'
  BY <1>1 DEF RealtimeInv, SocketType, LogOK
<1>3. CASE resumed
  <2> DEFINE d == StartAuthoritativeResync(client)
  <2>1. client' = d
    BY <1>3 DEF Open
  <2> HIDE DEF d
  <2>2. ClientWell(d) /\ d.view = client.view /\ \A i : Comes(d, i)
    BY <1>0, ResyncWell DEF d
  <2>3. ClientWell(client)'
    BY <1>1, <2>1, <2>2 DEF ClientWell, Client, LoadsWell, NoneStale
  <2>4. SocketWell'
    BY <1>1 DEF RealtimeInv, SocketWell
  <2>5. Awaited'
    BY <2>1, <2>2 DEF Awaited, Comes
  <2> QED
    BY <1>2, <2>1, <2>2, <2>3, <2>4, <2>5 DEF RealtimeInv
<1>4. CASE ~resumed
  <2> DEFINE b == NewGeneration(client)
             d == [b EXCEPT !.resyncing = FALSE, !.timer = FALSE]
  <2>1. client' = d
    BY <1>4 DEF Open
  <2>2. ClientWell(b) /\ b.view = client.view /\ b.cursor = client.cursor /\ b.queued = <<>>
    BY <1>0, NewGenerationWell
  <2> HIDE DEF b
  <2>3. ClientWell(d) /\ d.view = client.view /\ d.cursor = client.cursor
    BY <2>2 DEF ClientWell, Client, LoadsWell, NoneStale
  <2> HIDE DEF d
  <2>4. client.cursor = 0
    BY <1>1, <1>4 DEF RealtimeInv, SocketWell, Untouched
  <2>5. ClientWell(client)'
    BY <1>1, <2>1, <2>3 DEF ClientWell, Client, LoadsWell, NoneStale
  <2>6. SocketWell'
    BY <1>1 DEF RealtimeInv, SocketWell
  <2>7. Awaited'
    <3>1. \A e \in Visible' : ~(e <= 0)
      <4>1. Newest \in Nat
        BY <1>0, NewestType
      <4> QED
        BY <1>1, <4>1 DEF Visible
    <3> QED
      BY <1>1, <1>4, <2>1, <2>3, <2>4, <3>1 DEF Awaited
  <2> QED
    BY <1>2, <2>1, <2>3, <2>5, <2>6, <2>7 DEF RealtimeInv
<1> QED
  BY <1>3, <1>4

\* A socket that is lost takes its resync with it.
LEMMA DropStep ==
  ASSUME RealtimeInv, Drop
  PROVE  RealtimeInv' /\ client'.view = client.view
<1>0. LogOK /\ ClientWell(client) /\ Newest \in Nat /\ <<>> \in Seq(1..Newest)
  BY NewestType DEF RealtimeInv
<1>1. /\ log' = log /\ Newest' = Newest /\ conn # "waiting" /\ conn' = "waiting" /\ accepted' = FALSE
      /\ wire' = <<>> /\ drops < MaxDrops /\ drops' = drops + 1
      /\ UNCHANGED <<acceptedAt, tried, resumed, errors>>
  BY DEF Drop, Newest
<1> DEFINE b == NewGeneration(client)
           d == [b EXCEPT !.resyncing = FALSE]
<1>2. client' = d
  BY DEF Drop
<1>3. ClientWell(b) /\ b.view = client.view /\ b.queued = <<>>
  BY <1>0, NewGenerationWell
<1> HIDE DEF b
<1>4. ClientWell(d) /\ d.view = client.view
  BY <1>3 DEF ClientWell, Client, LoadsWell, NoneStale
<1> HIDE DEF d
<1>5. ClientWell(client)' /\ LogOK'
  BY <1>0, <1>1, <1>2, <1>4 DEF ClientWell, Client, LoadsWell, NoneStale, LogOK
<1>6. SocketType'
  <2>1. drops' \in 0..MaxDrops
    BY <1>1, RealtimeAssumption DEF RealtimeInv, SocketType
  <2> QED
    BY <1>0, <1>1, <2>1 DEF RealtimeInv, SocketType
<1>7. SocketWell'
  BY <1>1 DEF RealtimeInv, SocketType, SocketWell
<1>8. Awaited'
  BY <1>1 DEF Awaited
<1> QED
  BY <1>2, <1>4, <1>5, <1>6, <1>7, <1>8 DEF RealtimeInv

\* A message is queued during a resync, and dispatched otherwise.
LEMMA ReceiveStep ==
  ASSUME RealtimeInv, Receive
  PROVE  RealtimeInv' /\ client.view \subseteq client'.view
<1> DEFINE e == Head(wire)
<1>0. /\ LogOK /\ ClientWell(client) /\ client \in Client /\ Newest \in Nat /\ conn = "open"
      /\ wire \in Seq(1..Newest) /\ wire # <<>>
  BY NewestType DEF RealtimeInv, ClientWell, SocketType, Receive
<1>1. /\ log' = log /\ Newest' = Newest /\ wire' = Tail(wire)
      /\ UNCHANGED <<conn, accepted, acceptedAt, tried, resumed, drops, errors>>
  BY DEF Receive, Newest
<1>2. e \in 1..Newest /\ Tail(wire) \in Seq(1..Newest)
  BY <1>0
<1>3. \A i \in ToSet(wire) : i = e \/ i \in ToSet(wire')
  <2> SUFFICES ASSUME NEW n \in DOMAIN wire
               PROVE  wire[n] = e \/ \E m \in DOMAIN wire' : wire'[m] = wire[n]
    BY DEF ToSet
  <2>1. CASE n = 1
    BY <1>0, <2>1
  <2>2. CASE n # 1
    <3>1. n - 1 \in DOMAIN Tail(wire) /\ Tail(wire)[n - 1] = wire[n]
      BY <1>0, <2>2
    <3> QED
      BY <1>1, <3>1
  <2> QED
    BY <2>1, <2>2
<1> HIDE DEF e
<1>4. SocketType' /\ LogOK'
  BY <1>0, <1>1, <1>2 DEF RealtimeInv, SocketType, LogOK
<1>5. SocketWell'
  BY <1>0, <1>1 DEF RealtimeInv, SocketWell
<1>6. CASE client.resyncing
  <2> DEFINE d == [client EXCEPT !.queued = Append(@, e)]
  <2>1. client' = d
    BY <1>6 DEF Receive, e
  <2>2. client.queued \in Seq(1..Newest) /\ Append(client.queued, e) \in Seq(1..Newest)
    BY <1>0, <1>2 DEF Client
  <2>3. /\ d \in Client /\ d.queued = Append(client.queued, e) /\ d.view = client.view
        /\ d.cursor = client.cursor /\ d.loads = client.loads /\ d.timer = client.timer
        /\ d.retry = client.retry /\ d.forgone = client.forgone /\ d.resyncing = client.resyncing
    BY <1>0, <2>2 DEF Client
  <2> HIDE DEF d
  <2>4. ClientWell(client)'
    BY <1>0, <1>1, <1>6, <2>1, <2>3 DEF ClientWell, Client, LoadsWell, NoneStale
  <2>5. ToSet(client.queued) \cup {e} \subseteq ToSet(d.queued)
    <3>1. ASSUME NEW n \in DOMAIN client.queued
          PROVE  n \in DOMAIN d.queued /\ d.queued[n] = client.queued[n]
      BY <2>2, <2>3
    <3>2. Len(client.queued) + 1 \in DOMAIN d.queued /\ d.queued[Len(client.queued) + 1] = e
      BY <2>2, <2>3
    <3> QED
      BY <3>1, <3>2 DEF ToSet
  <2>6. \A i : Comes(client, i) => Comes(d, i)
    BY <2>3 DEF Comes
  <2>7. Awaited'
    <3> SUFFICES ASSUME NEW i \in Visible,
                        i <= client.cursor \/ (resumed /\ i \notin ToSet(wire') \cup ToSet(d.queued))
                 PROVE  Comes(client, i)
      BY <1>1, <2>1, <2>3, <2>6 DEF Awaited, Visible, Comes
    <3> QED
      BY <1>0, <1>3, <2>5 DEF RealtimeInv, Awaited
  <2> QED
    BY <1>4, <1>5, <2>1, <2>3, <2>4, <2>7 DEF RealtimeInv
<1>7. CASE ~client.resyncing
  <2> DEFINE d == DispatchDomainMessage(client, e, TRUE)
  <2>1. client' = d
    BY <1>7 DEF Receive, e
  <2> HIDE DEF d
  <2>2. /\ ClientWell(d) /\ client.view \subseteq d.view
        /\ \A i \in 1..Newest : Comes(client, i) => Comes(d, i)
        /\ \A i \in 1..Newest : i <= d.cursor => i <= client.cursor \/ i = e
        /\ log[e] # "hidden" => e <= client.cursor \/ Comes(d, e)
    BY <1>0, <1>2, DispatchWell DEF d
  <2>3. ClientWell(client)'
    BY <1>0, <1>1, <2>1, <2>2 DEF ClientWell, Client, LoadsWell, NoneStale
  <2>4. client.queued = <<>>
    BY <1>0, <1>7 DEF ClientWell
  <2>5. Awaited'
    <3> SUFFICES ASSUME NEW i \in Visible,
                        i <= d.cursor \/ (resumed /\ i \notin ToSet(wire') \cup ToSet(d.queued))
                 PROVE  Comes(d, i)
      BY <1>1, <2>1 DEF Awaited, Visible, Comes
    <3>1. i \in 1..Newest /\ log[i] # "hidden"
      BY DEF Visible
    <3>2. i \notin ToSet(client.queued)
      BY <2>4 DEF ToSet
    <3>3. CASE i = e
      <4>1. i <= client.cursor => Comes(client, i)
        BY <1>0 DEF RealtimeInv, Awaited
      <4> QED
        BY <2>2, <3>1, <3>3, <4>1
    <3>4. CASE i # e
      <4>1. i <= client.cursor \/ (resumed /\ i \notin ToSet(wire) \cup ToSet(client.queued))
        BY <1>3, <2>2, <3>1, <3>2, <3>4
      <4>2. Comes(client, i)
        BY <1>0, <4>1 DEF RealtimeInv, Awaited
      <4> QED
        BY <2>2, <3>1, <4>2
    <3> QED
      BY <3>3, <3>4
  <2> QED
    BY <1>4, <1>5, <2>1, <2>2, <2>3, <2>5 DEF RealtimeInv
<1> QED
  BY <1>6, <1>7

\* Every step keeps the invariant, and what was applied at once in the view.
LEMMA RealtimeStep ==
  ASSUME RealtimeInv, [Next]_vars
  PROVE  RealtimeInv' /\ \A e \in client.view : log[e] = "fast" => e \in client'.view
<1>0. LogOK /\ ClientWell(client) /\ client \in Client
  BY DEF RealtimeInv, ClientWell
<1>1. CASE \E kind \in Kinds : Publish(kind)
  BY <1>1, PublishStep
<1>2. CASE Accept \/ Connect
  BY <1>2, ConnectStep
<1>3. CASE Open
  BY <1>3, OpenStep
<1>4. CASE Drop
  BY <1>4, DropStep
<1>5. CASE Receive
  BY <1>5, ReceiveStep
<1>6. CASE TimerFires \/ RetryFires
  <2>1. SocketType'
    BY <1>6 DEF RealtimeInv, SocketType, TimerFires, RetryFires, socket, Newest
  <2>2. client'.view = client.view
    <3>1. CASE TimerFires
      <4> DEFINE b == [client EXCEPT !.timer = FALSE]
      <4>1. ClientWell(b) /\ b.view = client.view
        BY <1>0 DEF ClientWell, Client, LoadsWell, NoneStale
      <4>2. client' = StartLoad(b, FALSE)
        BY <3>1 DEF TimerFires
      <4> HIDE DEF b
      <4> QED
        BY <1>0, <4>1, <4>2, StartLoadWell
    <3>2. CASE RetryFires
      <4> DEFINE b == [client EXCEPT !.retry = FALSE]
      <4>1. ClientWell(b) /\ b.view = client.view
        BY <1>0 DEF ClientWell, Client, LoadsWell, NoneStale
      <4>2. client' = ReconnectRefresh(b)
        BY <3>2 DEF RetryFires
      <4> HIDE DEF b
      <4> QED
        BY <1>0, <4>1, <4>2, RefreshWell
    <3> QED
      BY <1>6, <3>1, <3>2
  <2> QED
    BY <1>6, <2>1, <2>2, TimerStep DEF RealtimeInv
<1>7. ASSUME NEW l \in client.loads, ServeSnapshot(l)
      PROVE  RealtimeInv' /\ client'.view = client.view
  <2>1. SocketType' /\ client'.view = client.view
    BY <1>0, <1>7 DEF RealtimeInv, SocketType, ServeSnapshot, socket, Newest, Client
  <2> QED
    BY <1>7, <2>1, ServeStep DEF RealtimeInv
<1>8. ASSUME NEW l \in client.loads, LoadReturns(l) \/ LoadFails(l)
      PROVE  RealtimeInv' /\ \A e \in client.view : log[e] = "fast" => e \in client'.view
  <2>1. SocketType'
    <3>1. errors' \in 0..MaxErrors
      BY <1>8, RealtimeAssumption DEF RealtimeInv, SocketType, LoadReturns, LoadFails
    <3> QED
      BY <1>8, <3>1 DEF RealtimeInv, SocketType, LoadReturns, LoadFails, socket, Newest
  <2> QED
    BY <1>8, <2>1, LoadStep DEF RealtimeInv
<1>9. ASSUME NEW e \in 1..Newest, ApplyResponse(e)
      PROVE  RealtimeInv' /\ client.view \subseteq client'.view
  <2>1. SocketType'
    BY <1>9 DEF RealtimeInv, SocketType, ApplyResponse, socket, Newest
  <2>2. client.view \subseteq client'.view
    <3> DEFINE b == Invalidate(client)
    <3>1. ClientWell(b) /\ b.view = client.view
      BY <1>0, InvalidateWell
    <3>2. client' = [b EXCEPT !.view = @ \cup {e}, !.own = @ \cup {e}]
      BY <1>9 DEF ApplyResponse
    <3> HIDE DEF b
    <3> QED
      BY <3>1, <3>2 DEF ClientWell, Client
  <2> QED
    BY <1>9, <2>1, <2>2, ResponseStep DEF RealtimeInv
<1>10. CASE UNCHANGED vars
  BY <1>10 DEF RealtimeInv, vars, LogOK, SocketType, ClientWell, Client, LoadsWell, NoneStale, SocketWell,
     Awaited, Untouched, Comes, Visible, Newest
<1> QED
  BY <1>1, <1>2, <1>3, <1>4, <1>5, <1>6, <1>7, <1>8, <1>9, <1>10 DEF Next, Progress

\* Nothing happened yet.
LEMMA RealtimeInit == Init => RealtimeInv
<1> SUFFICES ASSUME Init PROVE RealtimeInv
  OBVIOUS
<1>1. Newest = 0 /\ log \in Seq(Kinds) /\ {MaxEvents, MaxDrops, MaxErrors} \subseteq Nat
  BY RealtimeAssumption DEF Init, Newest
<1>2. LogOK /\ SocketType
  <2>1. 0 \in 0..MaxDrops /\ 0 \in 0..MaxErrors /\ 0 <= MaxEvents
    BY <1>1
  <2>2. <<>> \in Seq(1..Newest) /\ 0 \in 0..Newest
    BY <1>1
  <2> QED
    BY <1>1, <2>1, <2>2 DEF Init, LogOK, SocketType
<1>3. client \in Client
  BY <1>1 DEF Init, Client
<1>4. ClientWell(client)
  BY <1>3 DEF Init, ClientWell, LoadsWell, NoneStale
<1> QED
  BY <1>2, <1>4 DEF Init, RealtimeInv, SocketWell, Untouched, Awaited

\* The browser's books are in order whatever overtakes what: what it must take in
\* is in its view, on its way, or given up.
THEOREM RealtimeSound == Spec => []RealtimeInv
<1>1. RealtimeInv /\ [Next]_vars => RealtimeInv'
  BY RealtimeStep
<1> QED
  BY <1>1, RealtimeInit, PTL DEF Spec

\* The invariant has the types in it.
LEMMA RealtimeTypes == RealtimeInv => TypeOK
<1> SUFFICES ASSUME RealtimeInv PROVE TypeOK
  OBVIOUS
<1>1. Cardinality({l \in client.loads : l.live}) <= 1
  <2>1. \A k, l \in {l \in client.loads : l.live} : k = l
    BY DEF RealtimeInv, ClientWell, LoadsWell
  <2> QED
    BY <2>1, AtMostOne
<1>2. Cardinality({l \in client.loads : l.resync}) <= 1
  <2>1. \A k, l \in {l \in client.loads : l.resync} : k = l
    BY DEF RealtimeInv, ClientWell, LoadsWell
  <2> QED
    BY <2>1, AtMostOne
<1> QED
  BY <1>1, <1>2 DEF RealtimeInv, TypeOK, LogOK, SocketType, ClientWell

\* No event up to the cursor is missing for good: it is in the view, or a snapshot
\* is due, or the code gave it up.
THEOREM CursorHonest == Spec => []CursorIsHonest
<1>1. ASSUME RealtimeInv
      PROVE  CursorIsHonest
  <2>1. CASE conn = "open" /\ ~Pending(client)
    <3>1. \A e \in Visible : e <= client.cursor => e \in client.view \cup client.forgone
      BY <1>1, <2>1 DEF RealtimeInv, Awaited, Comes, Pending, InFlight
    <3>2. \A e \in 1..client.cursor : e <= client.cursor
      BY <1>1 DEF RealtimeInv, ClientWell, Client
    <3> QED
      BY <1>1, <3>1, <3>2, RealtimeTypes DEF CursorIsHonest
  <2> QED
    BY <1>1, <2>1, RealtimeTypes DEF CursorIsHonest
<1> QED
  BY <1>1, RealtimeSound, PTL

\* A table that reports itself synced after a reconnect has every event that came
\* in, save those the code gave up.
THEOREM SyncedFresh == Spec => []SyncedIsFresh
<1>1. ASSUME RealtimeInv
      PROVE  SyncedIsFresh
  <2> SUFFICES ASSUME conn = "open", resumed, ~Pending(client), NEW e \in Received
               PROVE  e \in client.view \cup client.forgone
    BY DEF SyncedIsFresh
  <2>1. client.queued = <<>>
    BY <1>1 DEF RealtimeInv, ClientWell, Pending
  <2>2. e \in Visible /\ e \notin ToSet(wire) \cup ToSet(client.queued)
    BY <2>1 DEF Received, ToSet
  <2> QED
    BY <1>1, <2>2 DEF RealtimeInv, Awaited, Comes, Pending, InFlight
<1> QED
  BY <1>1, RealtimeSound, PTL

\* What was applied at once is never reverted by a snapshot read before it.
THEOREM NothingReverts == Spec => AppliedNeverReverts
<1>1. RealtimeInv /\ [Next]_vars =>
        [\A e \in 1..Newest : log[e] = "fast" /\ e \in client.view => e \in client'.view]_vars
  BY RealtimeStep
<1> QED
  BY <1>1, RealtimeSound, PTL DEF Spec, AppliedNeverReverts
===============================================================================
