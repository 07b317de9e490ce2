-------------------------- MODULE RelayTunnelProofs ---------------------------
(***************************************************************************)
(* Proofs about RelayTunnel, for any number of requests, players, host     *)
(* sockets and faults, and any limits.                                     *)
(***************************************************************************)
EXTENDS RelayTunnel, FiniteSetTheorems, SequenceTheorems, TLAPS

-------------------------------------------------------------------------------
(***************************************************************************)
(* Sums.                                                                   *)
(***************************************************************************)

\* A unit of a sum belongs to one element.
LEMMA UnitsOf ==
  ASSUME NEW D, NEW n \in [D -> Nat], NEW x
  PROVE  x \in Units(n) <=> \E r \in D, i \in Nat : x = <<r, i>> /\ i >= 1 /\ i <= n[r]
BY DEF Units

\* One element's units are as many as its value.
LEMMA OwnUnits ==
  ASSUME NEW r, NEW k \in Nat
  PROVE  IsFiniteSet({r} \X (1..k)) /\ Cardinality({r} \X (1..k)) = k
<1>1. IsFiniteSet({r}) /\ Cardinality({r}) = 1
  BY FS_Singleton
<1>2. IsFiniteSet(1..k) /\ Cardinality(1..k) = k
  BY FS_Interval
<1>3. Cardinality({r} \X (1..k)) = Cardinality({r}) * Cardinality(1..k) /\ IsFiniteSet({r} \X (1..k))
  BY <1>1, <1>2, FS_Product
<1> QED
  BY <1>1, <1>2, <1>3

\* Disjoint parts add up.
LEMMA Disjoint ==
  ASSUME NEW A, NEW B, IsFiniteSet(A), IsFiniteSet(B), A \cap B = {}
  PROVE  /\ IsFiniteSet(A \cup B) /\ Cardinality(A \cup B) = Cardinality(A) + Cardinality(B)
         /\ Cardinality(A) \in Nat /\ Cardinality(B) \in Nat
<1>1. Cardinality(A) \in Nat /\ Cardinality(B) \in Nat /\ Cardinality(A \cap B) = 0
  BY FS_CardinalityType, FS_EmptySet
<1>2. /\ IsFiniteSet(A \cup B)
      /\ Cardinality(A \cup B) = Cardinality(A) + Cardinality(B) - Cardinality(A \cap B)
  BY FS_Union
<1> QED
  BY <1>1, <1>2

\* When one value changes, so does the sum, by as much.
LEMMA TotalChange ==
  ASSUME NEW D, NEW n \in [D -> Nat], NEW r \in D, NEW m \in [D -> Nat],
         \A q \in D \ {r} : m[q] = n[q], IsFiniteSet(Units(n))
  PROVE  /\ IsFiniteSet(Units(m)) /\ Total(m) = Total(n) - n[r] + m[r]
         /\ Total(n) \in Nat /\ Total(m) \in Nat /\ n[r] <= Total(n)
<1> DEFINE A == Units(n) \ ({r} \X (1..n[r]))
<1>1. IsFiniteSet(A)
  BY FS_Difference
<1>2. n[r] \in Nat /\ m[r] \in Nat
  OBVIOUS
<1>3. \A x : x \in A <=> \E q \in D \ {r}, i \in Nat : x = <<q, i>> /\ i >= 1 /\ i <= n[q]
  BY UnitsOf
<1>4. Units(n) = A \cup ({r} \X (1..n[r])) /\ A \cap ({r} \X (1..n[r])) = {}
  BY <1>2, UnitsOf
<1>5. Units(m) = A \cup ({r} \X (1..m[r])) /\ A \cap ({r} \X (1..m[r])) = {}
  <2>1. A \cap ({r} \X (1..m[r])) = {}
    BY <1>3
  <2>2. ASSUME NEW x
        PROVE  x \in Units(m) <=> x \in A \cup ({r} \X (1..m[r]))
    BY <1>2, <1>3, UnitsOf
  <2> QED
    BY <2>1, <2>2
<1> HIDE DEF A
<1>6. /\ Cardinality(Units(n)) = Cardinality(A) + n[r] /\ Cardinality(A) \in Nat
      /\ Cardinality(Units(m)) = Cardinality(A) + m[r] /\ IsFiniteSet(Units(m))
  <2> DEFINE B == {r} \X (1..n[r])
             C == {r} \X (1..m[r])
  <2>1. IsFiniteSet(B) /\ Cardinality(B) = n[r] /\ IsFiniteSet(C) /\ Cardinality(C) = m[r]
    BY <1>2, OwnUnits
  <2>2. Units(n) = A \cup B /\ A \cap B = {} /\ Units(m) = A \cup C /\ A \cap C = {}
    BY <1>4, <1>5
  <2> HIDE DEF B, C
  <2>3. Cardinality(Units(n)) = Cardinality(A) + Cardinality(B) /\ Cardinality(A) \in Nat
    BY <1>1, <2>1, <2>2, Disjoint
  <2>4. Cardinality(A \cup C) = Cardinality(A) + Cardinality(C) /\ IsFiniteSet(A \cup C)
    BY <1>1, <2>1, <2>2, Disjoint
  <2> QED
    BY <2>1, <2>2, <2>3, <2>4
<1> QED
  BY <1>2, <1>6 DEF Total

\* What a part of the elements counts for is missing when the part is cleared.
LEMMA TotalClear ==
  ASSUME NEW D, NEW n \in [D -> Nat], NEW S \in SUBSET D, NEW m \in [D -> Nat], NEW k \in [S -> Nat],
         \A q \in D : m[q] = IF q \in S THEN 0 ELSE n[q], \A q \in S : k[q] = n[q], IsFiniteSet(Units(n))
  PROVE  /\ IsFiniteSet(Units(m)) /\ Total(m) = Total(n) - Total(k)
         /\ Total(n) \in Nat /\ Total(k) \in Nat /\ Total(m) \in Nat
<1>1. ASSUME NEW x
      PROVE  x \in Units(n) <=> x \in Units(m) \cup Units(k)
  BY UnitsOf
<1>2. Units(m) \cap Units(k) = {}
  BY UnitsOf
<1>3. IsFiniteSet(Units(m)) /\ IsFiniteSet(Units(k)) /\ Units(n) = Units(m) \cup Units(k)
  BY <1>1, FS_Subset
<1> QED
  BY <1>2, <1>3, Disjoint DEF Total

\* Equal values off zero have equal sums.
LEMMA TotalSame ==
  ASSUME NEW D, NEW n \in [D -> Nat], NEW E, NEW m \in [E -> Nat],
         \A q \in D \cap E : m[q] = n[q], \A q \in D \ E : n[q] = 0, \A q \in E \ D : m[q] = 0
  PROVE  Units(m) = Units(n) /\ Total(m) = Total(n)
<1>1. ASSUME NEW x
      PROVE  x \in Units(n) <=> x \in Units(m)
  BY UnitsOf
<1> QED
  BY <1>1 DEF Total

-------------------------------------------------------------------------------
(***************************************************************************)
(* The relay's object: its books, and what it knows of its hosts.          *)
(***************************************************************************)
HttpShape ==
  [state : {"new", "uploading", "pending", "ended"}, reserved : 0..1, to : Hosts \cup {None},
   response : BOOLEAN, bytes : Nat, unread : Nat, answer : Answers]
RelayShape ==
  [host : Hosts \cup {None}, socket : [Hosts -> {"absent", "accepted", "open", "closing", "closed"}],
   active : Nat, uploaded : Nat, buffered : Nat, client : [Players -> {"new", "open", "gone"}],
   players : SUBSET Players, http : [Requests -> HttpShape]]

Active(t) == {r \in Requests : t.http[r].state \in {"uploading", "pending"}}
Reserved(t) == [r \in Requests |-> t.http[r].reserved]
Held(t) == [r \in Requests |-> t.http[r].bytes + t.http[r].unread]

\* What a request holds is there, and counted.
RequestOK(q) ==
  /\ q.state # "ended" => q.unread = 0 /\ q.answer = "none"
  /\ q.state # "pending" => q.bytes = 0
  /\ q.state \in {"new", "uploading"} => q.to = None
Books(t) ==
  /\ t \in RelayShape
  /\ \A r \in Requests : RequestOK(t.http[r])
  /\ IsFiniteSet(Active(t)) /\ t.active = Cardinality(Active(t))
  /\ IsFiniteSet(Units(Reserved(t))) /\ t.uploaded = Total(Reserved(t))
  /\ IsFiniteSet(Units(Held(t))) /\ t.buffered = Total(Held(t))

\* Only the present host's socket is in use, and what waits, waits for it.
HostsKnown(t) ==
  /\ \A h \in Hosts : t.socket[h] \in {"accepted", "open"} => t.host = h
  /\ t.host # None => t.socket[t.host] # "absent"
  /\ \A r \in Requests :
       /\ t.http[r].to # None => t.socket[t.http[r].to] # "absent"
       /\ t.http[r].state = "pending" => t.http[r].to = t.host /\ t.host # None
       /\ t.http[r].answer = "disconnected" =>
            t.http[r].to # None /\ t.socket[t.http[r].to] \notin {"accepted", "open"}
  /\ \A p \in t.players : t.client[p] = "open"
RelayInv(t) == Books(t) /\ HostsKnown(t)

\* Request r ends with an answer, k units of which are still to be read.
Ends(t, u, r, a, k) ==
  /\ u \in RelayShape
  /\ u.host = t.host /\ u.socket = t.socket /\ u.client = t.client /\ u.players = t.players
  /\ u.http[r].state = "ended" /\ u.http[r].answer = a /\ u.http[r].reserved = 0
  /\ u.http[r].bytes = 0 /\ u.http[r].unread = k /\ u.http[r].to = t.http[r].to
  /\ \A q \in Requests \ {r} : u.http[q] = t.http[q]
  /\ u.active = Least0(t.active - 1) /\ u.uploaded = Least0(t.uploaded - t.http[r].reserved)
  /\ u.buffered = Least0(t.buffered - t.http[r].bytes + k)

\* What remains of a budget is a number.
LEMMA LeastType ==
  ASSUME NEW n \in Int
  PROVE  Least0(n) \in Nat /\ (n \in Nat => Least0(n) = n)
BY DEF Least0

\* What the handler's return makes of t.
Returns(t, u, r, a) ==
  /\ u \in RelayShape
  /\ u.host = t.host /\ u.socket = t.socket /\ u.client = t.client /\ u.players = t.players
  /\ u.http[r].state = "ended" /\ u.http[r].answer = a /\ u.http[r].reserved = 0
  /\ u.http[r].bytes = t.http[r].bytes /\ u.http[r].unread = t.http[r].unread
  /\ u.http[r].to = t.http[r].to
  /\ \A q \in Requests \ {r} : u.http[q] = t.http[q]
  /\ u.active = Least0(t.active - 1) /\ u.uploaded = Least0(t.uploaded - t.http[r].reserved)
  /\ u.buffered = t.buffered

\* The handler's return leaves what came of the answer alone.
LEMMA AnsweredFields ==
  ASSUME NEW t \in RelayShape, NEW r \in Requests, NEW a \in {"ok", "error"}
  PROVE  Returns(t, Answered(t, r, a), r, a)
<1> DEFINE q == [t.http[r] EXCEPT !.state = "ended", !.answer = a, !.reserved = 0]
           u == [t EXCEPT !.http = [t.http EXCEPT ![r] = q],
                          !.uploaded = Least0(@ - t.http[r].reserved), !.active = Least0(@ - 1)]
<1>1. t.http \in [Requests -> HttpShape] /\ t.http[r] \in HttpShape
  BY DEF RelayShape
<1>2. 0 \in 0..1 /\ a \in Answers
  BY DEF Answers
<1>3. /\ q \in HttpShape /\ q.state = "ended" /\ q.answer = a /\ q.reserved = 0
      /\ q.bytes = t.http[r].bytes /\ q.unread = t.http[r].unread /\ q.to = t.http[r].to
  BY <1>1, <1>2 DEF HttpShape
<1>4. Answered(t, r, a) = u
  BY <1>1 DEF Answered, RelayShape, HttpShape
<1> HIDE DEF q
<1>5. Least0(t.active - 1) \in Nat /\ Least0(t.uploaded - t.http[r].reserved) \in Nat
  BY <1>1, LeastType DEF RelayShape, HttpShape
<1>6. u \in RelayShape
  BY <1>1, <1>3, <1>5 DEF RelayShape
<1>7. /\ u.host = t.host /\ u.socket = t.socket /\ u.client = t.client /\ u.players = t.players
      /\ u.http[r] = q /\ \A x \in Requests \ {r} : u.http[x] = t.http[x]
      /\ u.active = Least0(t.active - 1) /\ u.uploaded = Least0(t.uploaded - t.http[r].reserved)
      /\ u.buffered = t.buffered
  BY <1>1 DEF RelayShape
<1> HIDE DEF u
<1> QED
  BY <1>3, <1>4, <1>6, <1>7 DEF Returns

\* The units that came of an answer change, and what is counted of all answers.
WithUnits(t, r, b, k, n) ==
  [t EXCEPT !.http[r] = [@ EXCEPT !.unread = k, !.bytes = b], !.buffered = n]
Counts(t, u, r, b, k, n) ==
  /\ u \in RelayShape
  /\ u.host = t.host /\ u.socket = t.socket /\ u.client = t.client /\ u.players = t.players
  /\ u.http[r].unread = k /\ u.http[r].bytes = b /\ u.http[r].state = t.http[r].state
  /\ u.http[r].reserved = t.http[r].reserved /\ u.http[r].to = t.http[r].to
  /\ u.http[r].answer = t.http[r].answer
  /\ \A q \in Requests \ {r} : u.http[q] = t.http[q]
  /\ u.active = t.active /\ u.uploaded = t.uploaded /\ u.buffered = n

\* Nothing else changes with them.
LEMMA UnitsChange ==
  ASSUME NEW t \in RelayShape, NEW r \in Requests, NEW b \in Nat, NEW k \in Nat, NEW n \in Nat
  PROVE  Counts(t, WithUnits(t, r, b, k, n), r, b, k, n)
<1> DEFINE q == [t.http[r] EXCEPT !.unread = k, !.bytes = b]
           u == [t EXCEPT !.http = [t.http EXCEPT ![r] = q], !.buffered = n]
<1>1. t.http \in [Requests -> HttpShape] /\ t.http[r] \in HttpShape
  BY DEF RelayShape
<1>2. /\ q \in HttpShape /\ q.unread = k /\ q.bytes = b /\ q.state = t.http[r].state
      /\ q.reserved = t.http[r].reserved /\ q.to = t.http[r].to /\ q.answer = t.http[r].answer
  BY <1>1 DEF HttpShape
<1>3. WithUnits(t, r, b, k, n) = u
  BY <1>1 DEF RelayShape, HttpShape, WithUnits
<1> HIDE DEF q
<1>4. u \in RelayShape
  BY <1>1, <1>2 DEF RelayShape
<1>5. /\ u.host = t.host /\ u.socket = t.socket /\ u.client = t.client /\ u.players = t.players
      /\ u.http[r] = q /\ \A x \in Requests \ {r} : u.http[x] = t.http[x]
      /\ u.active = t.active /\ u.uploaded = t.uploaded /\ u.buffered = n
  BY <1>1 DEF RelayShape
<1> HIDE DEF u
<1> QED
  BY <1>2, <1>3, <1>4, <1>5 DEF Counts

\* A request that holds nothing of an answer ends.
LEMMA AnsweredEnds ==
  ASSUME NEW t \in RelayShape, NEW r \in Requests, NEW a \in {"ok", "error"},
         t.http[r].bytes = 0, t.http[r].unread = 0
  PROVE  Ends(t, Answered(t, r, a), r, a, 0)
<1>1. Least0(t.buffered - t.http[r].bytes + 0) = t.buffered
  BY LeastType DEF RelayShape
<1>2. Returns(t, Answered(t, r, a), r, a)
  BY AnsweredFields
<1> QED
  BY <1>1, <1>2 DEF Ends, Returns

\* A request whose answer is given up ends, and gives back what came of it.
LEMMA SettledEnds ==
  ASSUME NEW t \in RelayShape, NEW r \in Requests, NEW a \in {"ok", "error"}, t.http[r].unread = 0
  PROVE  Ends(t, Settled(t, r, a), r, a, 0)
<1> DEFINE n == Least0(t.buffered - t.http[r].bytes)
           u == TakePending(t, r)
<1>1. t.http \in [Requests -> HttpShape] /\ t.http[r] \in HttpShape /\ t.buffered \in Nat
  BY DEF RelayShape
<1>2. n \in Nat /\ Least0(t.buffered - t.http[r].bytes + 0) = n
  BY <1>1, LeastType DEF HttpShape
<1>3. u = WithUnits(t, r, 0, 0, n)
  BY <1>1 DEF TakePending, RelayShape, HttpShape, WithUnits
<1> HIDE DEF n, u
<1>4. /\ u \in RelayShape
      /\ u.host = t.host /\ u.socket = t.socket /\ u.client = t.client /\ u.players = t.players
      /\ u.http[r].unread = 0 /\ u.http[r].bytes = 0
      /\ u.http[r].reserved = t.http[r].reserved /\ u.http[r].to = t.http[r].to
      /\ \A q \in Requests \ {r} : u.http[q] = t.http[q]
      /\ u.active = t.active /\ u.uploaded = t.uploaded /\ u.buffered = n
  BY <1>2, <1>3, UnitsChange DEF Counts
<1>5. Returns(u, Answered(u, r, a), r, a)
  BY <1>4, AnsweredFields
<1>6. Ends(t, Answered(u, r, a), r, a, 0)
  BY <1>2, <1>4, <1>5 DEF Ends, Returns
<1> QED
  BY <1>6 DEF Settled, u

\* A whole answer is handed to the client.
LEMMA StreamEnds ==
  ASSUME NEW t \in RelayShape, NEW r \in Requests, t.http[r].unread = 0
  PROVE  Ends(t, Answered([t EXCEPT !.http[r] = [@ EXCEPT !.unread = t.http[r].bytes, !.bytes = 0]], r, "ok"),
              r, "ok", t.http[r].bytes)
<1> DEFINE k == t.http[r].bytes
           u == [t EXCEPT !.http[r] = [@ EXCEPT !.unread = t.http[r].bytes, !.bytes = 0]]
<1>1. t.http \in [Requests -> HttpShape] /\ t.http[r] \in HttpShape /\ t.buffered \in Nat /\ k \in Nat
  BY DEF RelayShape, HttpShape
<1>2. Least0(t.buffered - k + k) = t.buffered
  BY <1>1, LeastType
<1>3. u = WithUnits(t, r, 0, k, t.buffered)
  BY <1>1 DEF RelayShape, HttpShape, WithUnits
<1> HIDE DEF u
<1>4. /\ u \in RelayShape
      /\ u.host = t.host /\ u.socket = t.socket /\ u.client = t.client /\ u.players = t.players
      /\ u.http[r].unread = k /\ u.http[r].bytes = 0
      /\ u.http[r].reserved = t.http[r].reserved /\ u.http[r].to = t.http[r].to
      /\ \A q \in Requests \ {r} : u.http[q] = t.http[q]
      /\ u.active = t.active /\ u.uploaded = t.uploaded /\ u.buffered = t.buffered
  <2>1. Counts(t, WithUnits(t, r, 0, k, t.buffered), r, 0, k, t.buffered)
    BY <1>1, UnitsChange
  <2> QED
    BY <1>3, <2>1 DEF Counts
<1>5. Returns(u, Answered(u, r, "ok"), r, "ok")
  BY <1>4, AnsweredFields
<1>6. Ends(t, Answered(u, r, "ok"), r, "ok", k)
  BY <1>1, <1>2, <1>4, <1>5 DEF Ends, Returns
<1> QED
  BY <1>6 DEF u, k

\* A request that ends gives back just what it holds.
LEMMA EndsKeeps ==
  ASSUME NEW t, NEW u, NEW r \in Requests, NEW a \in {"ok", "error"}, NEW k \in {0, t.http[r].bytes},
         RelayInv(t), r \in Active(t), Ends(t, u, r, a, k)
  PROVE  RelayInv(u)
<1>1. /\ t \in RelayShape /\ u \in RelayShape /\ t.http[r] \in HttpShape /\ u.http[r] \in HttpShape
      /\ t.http[r].unread = 0 /\ t.http[r].bytes \in Nat /\ t.http[r].reserved \in Nat
      /\ t.http[r].state # "ended"
  BY DEF RelayInv, Books, Ends, RelayShape, HttpShape, RequestOK, Active
<1>2. /\ Held(t) \in [Requests -> Nat] /\ Held(u) \in [Requests -> Nat]
      /\ Reserved(t) \in [Requests -> Nat] /\ Reserved(u) \in [Requests -> Nat]
  BY <1>1 DEF Held, Reserved, RelayShape, HttpShape
<1>3. /\ \A q \in Requests \ {r} : Held(u)[q] = Held(t)[q] /\ Reserved(u)[q] = Reserved(t)[q]
      /\ Held(t)[r] = t.http[r].bytes /\ Held(u)[r] = k /\ k \in Nat
      /\ Reserved(t)[r] = t.http[r].reserved /\ Reserved(u)[r] = 0
  BY <1>1 DEF Ends, Held, Reserved
<1>4. IsFiniteSet(Units(Held(u))) /\ u.buffered = Total(Held(u))
  <2>1. /\ IsFiniteSet(Units(Held(u))) /\ Total(Held(u)) = Total(Held(t)) - t.http[r].bytes + k
        /\ Total(Held(t)) \in Nat /\ Total(Held(u)) \in Nat
    BY <1>2, <1>3, TotalChange DEF RelayInv, Books
  <2> QED
    BY <2>1, LeastType DEF RelayInv, Books, Ends
<1>5. IsFiniteSet(Units(Reserved(u))) /\ u.uploaded = Total(Reserved(u))
  <2>1. /\ IsFiniteSet(Units(Reserved(u))) /\ Total(Reserved(u)) = Total(Reserved(t)) - t.http[r].reserved + 0
        /\ Total(Reserved(t)) \in Nat /\ Total(Reserved(u)) \in Nat
    BY <1>2, <1>3, TotalChange DEF RelayInv, Books
  <2>2. Total(Reserved(u)) = t.uploaded - t.http[r].reserved
    BY <1>1, <2>1 DEF RelayInv, Books
  <2> QED
    BY <2>1, <2>2, LeastType DEF Ends
<1>6. IsFiniteSet(Active(u)) /\ u.active = Cardinality(Active(u))
  <2>1. Active(u) = Active(t) \ {r}
    BY DEF Ends, Active
  <2>2. /\ IsFiniteSet(Active(u)) /\ Cardinality(Active(u)) = Cardinality(Active(t)) - 1
        /\ Cardinality(Active(u)) \in Nat
    BY <2>1, FS_RemoveElement, FS_CardinalityType DEF RelayInv, Books
  <2> QED
    BY <2>2, LeastType DEF RelayInv, Books, Ends
<1>7. \A q \in Requests : RequestOK(u.http[q])
  BY DEF RelayInv, Books, Ends, RequestOK
<1>8. HostsKnown(u)
  BY DEF RelayInv, HostsKnown, Ends
<1> QED
  BY <1>1, <1>4, <1>5, <1>6, <1>7, <1>8 DEF RelayInv, Books

\* What a step of the relay leaves to the frames and to the desktop: hosts come and
\* go in one direction, and requests stay with theirs.
Steady(t, u) ==
  /\ \A h \in Hosts :
       /\ t.socket[h] # "absent" => u.socket[h] # "absent"
       /\ t.socket[h] \in {"closing", "closed"} => u.socket[h] \in {"closing", "closed"}
  /\ \A p \in Players : t.client[p] = "open" =>
       u.client[p] = "open" \/ \A h \in Hosts : u.socket[h] \notin {"accepted", "open"}
  /\ \A r \in Requests : u.http[r].to = t.http[r].to
\* ... and nothing comes of the answers.
Quiet(t, u) ==
  /\ Steady(t, u)
  /\ \A r \in Requests :
       /\ u.http[r].state = "pending" => t.http[r].state = "pending" /\ u.http[r].bytes = t.http[r].bytes
       /\ u.http[r].bytes + u.http[r].unread <= t.http[r].bytes + t.http[r].unread
\* No request is answered well.
Unanswered(t, u) == \A r \in Requests : u.http[r].answer = "ok" => t.http[r].answer = "ok"
\* No host socket is in use.
AllDown(t) == \A h \in Hosts : t.socket[h] \notin {"accepted", "open"}

\* What waits for the host holds.
LostReserved(t) == [r \in Pending(t) |-> t.http[r].reserved]
LostBytes(t) == [r \in Pending(t) |-> t.http[r].bytes]
\* What losing its host makes of t.
Loses(t, u, h) ==
  /\ u \in RelayShape /\ u.host = None /\ u.players = {} /\ u.client = t.client
  /\ \A g \in Hosts :
       u.socket[g] = IF g = h /\ t.socket[g] \in {"accepted", "open"} THEN "closing" ELSE t.socket[g]
  /\ \A r \in Pending(t) :
       /\ u.http[r].state = "ended" /\ u.http[r].answer = "disconnected" /\ u.http[r].reserved = 0
       /\ u.http[r].bytes = 0 /\ u.http[r].unread = t.http[r].unread /\ u.http[r].to = t.http[r].to
  /\ \A r \in Requests \ Pending(t) : u.http[r] = t.http[r]
  /\ u.active = Least0(t.active - Cardinality(Pending(t)))
  /\ u.uploaded = Least0(t.uploaded - Total(LostReserved(t)))
  /\ u.buffered = Least0(t.buffered - Total(LostBytes(t)))

\* The pending requests' parts of the books are numbers.
LEMMA LostParts ==
  ASSUME NEW t, RelayInv(t)
  PROVE  /\ Pending(t) \in SUBSET Requests /\ Pending(t) \subseteq Active(t)
         /\ IsFiniteSet(Pending(t)) /\ Cardinality(Pending(t)) \in Nat
         /\ Cardinality(Active(t) \ Pending(t)) = Cardinality(Active(t)) - Cardinality(Pending(t))
         /\ IsFiniteSet(Active(t) \ Pending(t)) /\ Cardinality(Active(t) \ Pending(t)) \in Nat
         /\ LostReserved(t) \in [Pending(t) -> Nat] /\ LostBytes(t) \in [Pending(t) -> Nat]
         /\ \A r \in Pending(t) : LostReserved(t)[r] = Reserved(t)[r] /\ LostBytes(t)[r] = Held(t)[r]
         /\ Reserved(t) \in [Requests -> Nat] /\ Held(t) \in [Requests -> Nat]
<1> DEFINE lost == Pending(t)
           n == LostReserved(t)
           k == LostBytes(t)
<1>1. t.http \in [Requests -> HttpShape] /\ lost \subseteq Active(t) /\ lost \subseteq Requests
  BY DEF RelayInv, Books, RelayShape, Pending, Active
<1>2. \A r \in Requests : t.http[r].reserved \in Nat /\ t.http[r].bytes \in Nat /\ t.http[r].unread \in Nat
  BY <1>1 DEF HttpShape
<1>3. \A r \in lost : t.http[r].unread = 0
  BY <1>1 DEF RelayInv, Books, RequestOK, Pending
<1>4. IsFiniteSet(Active(t))
  BY DEF RelayInv, Books
<1>5. Active(t) \cap lost = lost /\ IsFiniteSet(lost)
  BY <1>1, <1>4, FS_Subset
<1>6. /\ IsFiniteSet(Active(t) \ lost) /\ Cardinality(lost) \in Nat
      /\ Cardinality(Active(t) \ lost) = Cardinality(Active(t)) - Cardinality(lost)
      /\ Cardinality(Active(t) \ lost) \in Nat
  BY <1>4, <1>5, FS_Difference, FS_CardinalityType
<1>7. n \in [lost -> Nat] /\ k \in [lost -> Nat]
  BY <1>1, <1>2 DEF LostReserved, LostBytes
<1>8. Reserved(t) \in [Requests -> Nat] /\ Held(t) \in [Requests -> Nat]
  BY <1>2 DEF Reserved, Held
<1>9. \A r \in lost : n[r] = Reserved(t)[r] /\ k[r] = Held(t)[r]
  BY <1>1, <1>2, <1>3 DEF Reserved, Held, LostReserved, LostBytes
<1> HIDE DEF n, k
<1> QED
  BY <1>1, <1>5, <1>6, <1>7, <1>8, <1>9 DEF n, k

\* What the pending requests hold, and what is left of the books without them.
LEMMA LostSums ==
  ASSUME NEW t, RelayInv(t), NEW m \in [Requests -> Nat], NEW n \in [Requests -> Nat],
         \A q \in Requests : m[q] = IF q \in Pending(t) THEN 0 ELSE Reserved(t)[q],
         \A q \in Requests : n[q] = IF q \in Pending(t) THEN 0 ELSE Held(t)[q]
  PROVE  /\ IsFiniteSet(Units(m)) /\ Total(m) = t.uploaded - Total(LostReserved(t))
         /\ IsFiniteSet(Units(n)) /\ Total(n) = t.buffered - Total(LostBytes(t))
         /\ Total(m) \in Nat /\ Total(n) \in Nat
         /\ Total(LostReserved(t)) \in Nat /\ Total(LostBytes(t)) \in Nat
<1>1. /\ IsFiniteSet(Units(Reserved(t))) /\ t.uploaded = Total(Reserved(t))
      /\ IsFiniteSet(Units(Held(t))) /\ t.buffered = Total(Held(t))
  BY DEF RelayInv, Books
<1>2. /\ Pending(t) \in SUBSET Requests
      /\ LostReserved(t) \in [Pending(t) -> Nat] /\ LostBytes(t) \in [Pending(t) -> Nat]
      /\ \A r \in Pending(t) : LostReserved(t)[r] = Reserved(t)[r] /\ LostBytes(t)[r] = Held(t)[r]
      /\ Reserved(t) \in [Requests -> Nat] /\ Held(t) \in [Requests -> Nat]
  BY LostParts
<1>3. /\ IsFiniteSet(Units(m)) /\ Total(m) = Total(Reserved(t)) - Total(LostReserved(t))
      /\ Total(LostReserved(t)) \in Nat /\ Total(m) \in Nat
  <2>1. /\ Pending(t) \in SUBSET Requests /\ LostReserved(t) \in [Pending(t) -> Nat]
        /\ Reserved(t) \in [Requests -> Nat] /\ IsFiniteSet(Units(Reserved(t)))
        /\ \A q \in Pending(t) : LostReserved(t)[q] = Reserved(t)[q]
    BY <1>1, <1>2
  <2> QED
    BY <2>1, TotalClear
<1>4. /\ IsFiniteSet(Units(n)) /\ Total(n) = Total(Held(t)) - Total(LostBytes(t))
      /\ Total(LostBytes(t)) \in Nat /\ Total(n) \in Nat
  BY <1>1, <1>2, TotalClear
<1> QED
  BY <1>1, <1>3, <1>4

\* LoseHost does that.
LEMMA LoseHostFields ==
  ASSUME NEW t, NEW h \in Hosts, RelayInv(t)
  PROVE  Loses(t, LoseHost(t, h), h)
<1> DEFINE lost == Pending(t)
           q(r) == [t.http[r] EXCEPT !.state = "ended", !.answer = "disconnected", !.reserved = 0, !.bytes = 0]
           a == Least0(t.active - Cardinality(lost))
           b == Least0(t.uploaded - Total(LostReserved(t)))
           c == Least0(t.buffered - Total(LostBytes(t)))
           s == [t.socket EXCEPT ![h] = IF @ \in {"accepted", "open"} THEN "closing" ELSE @]
           http == [r \in Requests |-> IF r \in lost THEN q(r) ELSE t.http[r]]
           u == LoseHost(t, h)
<1>1. t \in RelayShape /\ t.http \in [Requests -> HttpShape]
  BY DEF RelayInv, Books, RelayShape
<1>2. \A r \in Requests :
        /\ q(r) \in HttpShape /\ q(r).state = "ended" /\ q(r).answer = "disconnected" /\ q(r).reserved = 0
        /\ q(r).bytes = 0 /\ q(r).unread = t.http[r].unread /\ q(r).to = t.http[r].to
  <2> SUFFICES ASSUME NEW r \in Requests
               PROVE  /\ q(r) \in HttpShape /\ q(r).state = "ended" /\ q(r).answer = "disconnected"
                      /\ q(r).reserved = 0 /\ q(r).bytes = 0 /\ q(r).unread = t.http[r].unread
                      /\ q(r).to = t.http[r].to
    OBVIOUS
  <2>1. t.http[r] \in HttpShape /\ "disconnected" \in Answers /\ 0 \in 0..1
    BY <1>1 DEF Answers
  <2> QED
    BY <2>1 DEF HttpShape
<1>3. a \in Nat /\ b \in Nat /\ c \in Nat
  <2>2. Total(LostReserved(t)) \in Nat /\ Total(LostBytes(t)) \in Nat
    <3> DEFINE rest == [r \in Requests |-> IF r \in Pending(t) THEN 0 ELSE Reserved(t)[r]]
               left == [r \in Requests |-> IF r \in Pending(t) THEN 0 ELSE Held(t)[r]]
    <3>1. Reserved(t) \in [Requests -> Nat] /\ Held(t) \in [Requests -> Nat]
      BY LostParts
    <3>2. rest \in [Requests -> Nat] /\ left \in [Requests -> Nat]
      BY <3>1
    <3>3. /\ \A r \in Requests : rest[r] = IF r \in Pending(t) THEN 0 ELSE Reserved(t)[r]
          /\ \A r \in Requests : left[r] = IF r \in Pending(t) THEN 0 ELSE Held(t)[r]
      OBVIOUS
    <3> HIDE DEF rest, left
    <3> QED
      BY <3>2, <3>3, LostSums
  <2>3. Cardinality(lost) \in Nat
    BY LostParts
  <2> QED
    BY <1>1, <2>2, <2>3, LeastType DEF RelayShape
<1> HIDE DEF q, a, b, c
<1>4. http \in [Requests -> HttpShape] /\ s \in [Hosts -> {"absent", "accepted", "open", "closing", "closed"}]
  BY <1>1, <1>2 DEF RelayShape
<1>5. \A g \in Hosts : s[g] = IF g = h /\ t.socket[g] \in {"accepted", "open"} THEN "closing" ELSE t.socket[g]
  BY <1>1 DEF RelayShape
<1> HIDE DEF s
<1>6. u = [t EXCEPT !.host = None, !.players = {}, !.socket = s, !.http = http,
                    !.active = a, !.uploaded = b, !.buffered = c]
  BY <1>1 DEF LoseHost, RelayShape, LostReserved, LostBytes, a, b, c, s, q
<1>7. \A r \in Requests : http[r] = IF r \in lost THEN q(r) ELSE t.http[r]
  OBVIOUS
<1>8. lost \subseteq Requests
  BY DEF Pending
<1> HIDE DEF http, u
<1>9. /\ u \in RelayShape /\ u.host = None /\ u.players = {} /\ u.client = t.client
      /\ u.socket = s /\ u.http = http /\ u.active = a /\ u.uploaded = b /\ u.buffered = c
  BY <1>1, <1>3, <1>4, <1>6 DEF RelayShape
<1> HIDE DEF lost
<1>10. Loses(t, u, h)
  BY <1>2, <1>5, <1>7, <1>8, <1>9 DEF Loses, lost, a, b, c
<1> QED
  BY <1>10 DEF u

\* A lost host takes with it all that waited, and what that held.
LEMMA LosesKeeps ==
  ASSUME NEW t, NEW u, NEW h \in Hosts, RelayInv(t), t.host = h, Loses(t, u, h)
  PROVE  RelayInv(u) /\ Quiet(t, u) /\ Unanswered(t, u) /\ AllDown(u) /\ Pending(u) = {}
<1>1. /\ t \in RelayShape /\ u \in RelayShape /\ t.http \in [Requests -> HttpShape]
      /\ u.http \in [Requests -> HttpShape]
  BY DEF RelayInv, Books, Loses, RelayShape
<1>2. Pending(t) \subseteq Active(t) /\ Pending(t) \in SUBSET Requests
  BY LostParts
<1>3. \A r \in Requests : /\ t.http[r].reserved \in Nat /\ t.http[r].bytes \in Nat /\ t.http[r].unread \in Nat
                          /\ u.http[r].reserved \in Nat /\ u.http[r].bytes \in Nat /\ u.http[r].unread \in Nat
  BY <1>1 DEF HttpShape
<1>4. Reserved(u) \in [Requests -> Nat] /\ Held(u) \in [Requests -> Nat]
  BY <1>3 DEF Reserved, Held
<1>5. \A r \in Pending(t) : t.http[r].unread = 0
  BY DEF RelayInv, Books, RequestOK, Pending
<1>6. \A r \in Requests : Reserved(u)[r] = IF r \in Pending(t) THEN 0 ELSE Reserved(t)[r]
  BY <1>2 DEF Reserved, Loses
<1>7. \A r \in Requests : Held(u)[r] = IF r \in Pending(t) THEN 0 ELSE Held(t)[r]
  BY <1>2, <1>5 DEF Held, Loses
<1>8. /\ IsFiniteSet(Units(Reserved(u))) /\ Total(Reserved(u)) = t.uploaded - Total(LostReserved(t))
      /\ IsFiniteSet(Units(Held(u))) /\ Total(Held(u)) = t.buffered - Total(LostBytes(t))
      /\ Total(Reserved(u)) \in Nat /\ Total(Held(u)) \in Nat
  BY <1>4, <1>6, <1>7, LostSums
<1>9. u.uploaded = Total(Reserved(u)) /\ u.buffered = Total(Held(u))
  BY <1>8, LeastType DEF Loses
<1>10. IsFiniteSet(Active(u)) /\ u.active = Cardinality(Active(u))
  <2>1. Active(u) = Active(t) \ Pending(t)
    BY <1>2 DEF Active, Pending, Loses
  <2>2. /\ IsFiniteSet(Active(u)) /\ Cardinality(Active(u)) = t.active - Cardinality(Pending(t))
        /\ Cardinality(Active(u)) \in Nat
    BY <2>1, LostParts DEF RelayInv, Books
  <2> QED
    BY <2>2, LeastType DEF Loses
<1>11. \A r \in Requests : RequestOK(u.http[r])
  BY <1>2, <1>5 DEF RelayInv, Books, RequestOK, Loses
<1>12. Pending(u) = {}
  BY <1>2 DEF Pending, Loses
<1>13. AllDown(u)
  BY DEF AllDown, Loses, RelayInv, HostsKnown
<1>14. HostsKnown(u)
  <2>1. \A g \in Hosts : u.socket[g] \notin {"accepted", "open"}
    BY <1>13 DEF AllDown
  <2>2. \A g \in Hosts : t.socket[g] # "absent" => u.socket[g] # "absent"
    BY DEF Loses
  <2>3. \A r \in Requests : u.http[r].to = t.http[r].to /\ u.http[r].to \in Hosts \cup {None}
    BY <1>1, <1>2 DEF Loses, HttpShape
  <2>4. ASSUME NEW r \in Requests
        PROVE  /\ u.http[r].to # None => u.socket[u.http[r].to] # "absent"
               /\ u.http[r].answer = "disconnected" => u.http[r].to # None
    BY <1>2, <2>2, <2>3 DEF RelayInv, HostsKnown, Loses, Pending
  <2>5. u.host = None /\ u.players = {}
    BY DEF Loses
  <2>6. \A r \in Requests : u.http[r].state # "pending"
    BY <1>12 DEF Pending
  <2> QED
    BY <2>1, <2>3, <2>4, <2>5, <2>6 DEF HostsKnown
<1>15. Quiet(t, u)
  <2>1. ASSUME NEW r \in Requests
        PROVE  /\ u.http[r].to = t.http[r].to /\ u.http[r].state # "pending"
               /\ u.http[r].bytes + u.http[r].unread <= t.http[r].bytes + t.http[r].unread
    BY <1>2, <1>3, <1>12 DEF Loses, Pending
  <2> QED
    BY <2>1 DEF Quiet, Steady, Loses
<1>16. Unanswered(t, u)
  BY <1>2 DEF Unanswered, Loses
<1> QED
  BY <1>1, <1>8, <1>9, <1>10, <1>11, <1>12, <1>13, <1>14, <1>15, <1>16 DEF RelayInv, Books

\* Closing the present host loses it; closing another one changes nothing.
LEMMA CloseKeeps ==
  ASSUME NEW t, NEW h \in Hosts, RelayInv(t)
  PROVE  LET u == CloseHost(t, h)
         IN /\ RelayInv(u) /\ Quiet(t, u) /\ Unanswered(t, u)
            /\ t.host = h => AllDown(u) /\ Pending(u) = {} /\ u.host = None
            /\ t.host # h => u = t
<1> DEFINE u == CloseHost(t, h)
<1>1. CASE t.host = h
  <2>1. u = LoseHost(t, h) /\ Loses(t, u, h)
    BY <1>1, LoseHostFields DEF CloseHost
  <2> HIDE DEF u
  <2>2. RelayInv(u) /\ Quiet(t, u) /\ Unanswered(t, u) /\ AllDown(u) /\ Pending(u) = {}
    BY <1>1, <2>1, LosesKeeps
  <2>3. u.host = None
    BY <2>1 DEF Loses
  <2> QED
    BY <1>1, <2>2, <2>3 DEF u
<1>2. CASE t.host # h
  <2>1. u = t
    BY <1>2 DEF CloseHost
  <2>2. Quiet(t, t) /\ Unanswered(t, t)
    <3>1. \A r \in Requests : t.http[r].bytes \in Nat /\ t.http[r].unread \in Nat
      BY DEF RelayInv, Books, RelayShape, HttpShape
    <3> QED
      BY <3>1 DEF Quiet, Steady, Unanswered
  <2> QED
    BY <1>2, <2>1, <2>2
<1> QED
  BY <1>1, <1>2

\* The books stay true when the requests hold what they held.
LEMMA SameBooks ==
  ASSUME NEW t, NEW u, Books(t), u \in RelayShape,
         u.active = t.active, u.uploaded = t.uploaded, u.buffered = t.buffered,
         \A r \in Requests :
           /\ RequestOK(u.http[r])
           /\ (u.http[r].state \in {"uploading", "pending"}) = (t.http[r].state \in {"uploading", "pending"})
           /\ u.http[r].reserved = t.http[r].reserved
           /\ u.http[r].bytes = t.http[r].bytes /\ u.http[r].unread = t.http[r].unread
  PROVE  Books(u)
<1>1. Active(u) = Active(t)
  BY DEF Active
<1>2. Reserved(u) = Reserved(t)
  BY DEF Reserved
<1>3. Held(u) = Held(t)
  BY DEF Held
<1> QED
  BY <1>1, <1>2, <1>3 DEF Books

\* Request r becomes q, and the budgets a, b and c.
WithHttp(t, r, q, a, b, c) ==
  [t EXCEPT !.http = [@ EXCEPT ![r] = q], !.active = a, !.uploaded = b, !.buffered = c]
Changes(t, u, r, q, a, b, c) ==
  /\ u \in RelayShape
  /\ u.host = t.host /\ u.socket = t.socket /\ u.client = t.client /\ u.players = t.players
  /\ u.http[r] = q /\ \A x \in Requests \ {r} : u.http[x] = t.http[x]
  /\ u.active = a /\ u.uploaded = b /\ u.buffered = c

\* Nothing else changes with them.
LEMMA HttpChange ==
  ASSUME NEW t \in RelayShape, NEW r \in Requests, NEW q \in HttpShape,
         NEW a \in Nat, NEW b \in Nat, NEW c \in Nat
  PROVE  Changes(t, WithHttp(t, r, q, a, b, c), r, q, a, b, c)
<1> DEFINE u == WithHttp(t, r, q, a, b, c)
<1>1. t.http \in [Requests -> HttpShape]
  BY DEF RelayShape
<1>2. u \in RelayShape
  BY <1>1 DEF RelayShape, WithHttp
<1>3. /\ u.host = t.host /\ u.socket = t.socket /\ u.client = t.client /\ u.players = t.players
      /\ u.http[r] = q /\ \A x \in Requests \ {r} : u.http[x] = t.http[x]
      /\ u.active = a /\ u.uploaded = b /\ u.buffered = c
  BY <1>1 DEF RelayShape, WithHttp
<1> QED
  BY <1>2, <1>3 DEF Changes

\* u has the sockets and the answers' parts of t.
Alike(t, u) ==
  /\ u.socket = t.socket
  /\ \A r \in Requests :
       /\ u.http[r].to = t.http[r].to /\ u.http[r].answer = t.http[r].answer
       /\ u.http[r].bytes = t.http[r].bytes /\ u.http[r].unread = t.http[r].unread
       /\ u.http[r].state = "pending" => t.http[r].state = "pending"

\* A step from what is like t is quiet if all players stay, or no host does.
LEMMA QuietFrom ==
  ASSUME NEW t, NEW v, NEW u, Alike(t, v), Quiet(v, u), v.client = t.client \/ AllDown(u)
  PROVE  Quiet(t, u)
BY DEF Alike, Quiet, Steady, AllDown

\* What is like t is a quiet step from t if all players stay, or no host is in use.
LEMMA AlikeQuiet ==
  ASSUME NEW t, NEW u, Alike(t, u), RelayInv(t), u.client = t.client \/ AllDown(u)
  PROVE  Quiet(t, u) /\ Unanswered(t, u)
<1>1. \A r \in Requests : t.http[r].bytes \in Nat /\ t.http[r].unread \in Nat
  BY DEF RelayInv, Books, RelayShape, HttpShape
<1> QED
  BY <1>1 DEF Alike, Quiet, Steady, Unanswered, AllDown

\* A request that ends is quiet.
LEMMA EndsQuiet ==
  ASSUME NEW t, NEW u, NEW r \in Requests, NEW a \in {"ok", "error"}, NEW k \in {0, t.http[r].bytes},
         RelayInv(t), r \in Active(t), Ends(t, u, r, a, k)
  PROVE  /\ Quiet(t, u)
         /\ a = "error" => Unanswered(t, u)
         /\ \A q \in Requests \ {r} : u.http[q] = t.http[q]
<1>1. \A q \in Requests : t.http[q].bytes \in Nat /\ t.http[q].unread \in Nat
  BY DEF RelayInv, Books, RelayShape, HttpShape
<1>2. ASSUME NEW q \in Requests
      PROVE  /\ u.http[q].to = t.http[q].to
             /\ u.http[q].state = "pending" => t.http[q].state = "pending" /\ u.http[q].bytes = t.http[q].bytes
             /\ u.http[q].bytes + u.http[q].unread <= t.http[q].bytes + t.http[q].unread
  BY <1>1 DEF Ends
<1>3. Quiet(t, u)
  BY <1>2 DEF Quiet, Steady, Ends
<1> QED
  BY <1>3 DEF Unanswered, Ends

-------------------------------------------------------------------------------
(***************************************************************************)
(* The relay's steps.                                                      *)
(***************************************************************************)

\* A host socket opens, breaks or closes.
LEMMA SocketMoves ==
  ASSUME NEW t, NEW h \in Hosts, NEW s \in {"open", "closed"}, RelayInv(t),
         t.socket[h] # "absent", s = "open" => t.socket[h] = "accepted"
  PROVE  LET u == [t EXCEPT !.socket[h] = s]
         IN /\ RelayInv(u) /\ Quiet(t, u) /\ Unanswered(t, u)
            /\ u.http = t.http /\ u.client = t.client /\ u.host = t.host
            /\ \A g \in Hosts : u.socket[g] = IF g = h THEN s ELSE t.socket[g]
<1> DEFINE u == [t EXCEPT !.socket[h] = s]
<1>1. t \in RelayShape /\ Books(t) /\ HostsKnown(t)
  BY DEF RelayInv, Books
<1>2. u \in RelayShape
  BY <1>1 DEF RelayShape
<1>3. /\ u.host = t.host /\ u.client = t.client /\ u.players = t.players /\ u.http = t.http
      /\ u.active = t.active /\ u.uploaded = t.uploaded /\ u.buffered = t.buffered
      /\ \A g \in Hosts : u.socket[g] = IF g = h THEN s ELSE t.socket[g]
  BY <1>1 DEF RelayShape
<1> HIDE DEF u
<1>4. Books(u)
  BY <1>1, <1>2, <1>3, SameBooks DEF Books
<1>5. HostsKnown(u)
  <2>1. t.host \in Hosts \cup {None} /\ \A r \in Requests : t.http[r].to \in Hosts \cup {None}
    BY <1>1 DEF RelayShape, HttpShape
  <2> QED
    BY <1>1, <1>3, <2>1 DEF HostsKnown
<1>6. Quiet(t, u) /\ Unanswered(t, u)
  <2>1. \A r \in Requests : t.http[r].bytes \in Nat /\ t.http[r].unread \in Nat
    BY <1>1 DEF RelayShape, HttpShape
  <2> QED
    BY <1>3, <2>1 DEF Quiet, Steady, Unanswered
<1> QED
  BY <1>3, <1>4, <1>5, <1>6 DEF RelayInv, u

\* A host socket is accepted where there is none.
LEMMA HostComes ==
  ASSUME NEW t, NEW h \in Hosts, RelayInv(t), AllDown(t), Pending(t) = {}, t.socket[h] = "absent"
  PROVE  LET u == [t EXCEPT !.host = h, !.socket[h] = "accepted"]
         IN RelayInv(u) /\ Quiet(t, u) /\ Unanswered(t, u) /\ u.client = t.client
<1> DEFINE u == [t EXCEPT !.host = h, !.socket[h] = "accepted"]
<1>1. t \in RelayShape /\ Books(t) /\ HostsKnown(t)
  BY DEF RelayInv, Books
<1>2. u \in RelayShape
  BY <1>1 DEF RelayShape
<1>3. /\ u.host = h /\ u.client = t.client /\ u.players = t.players /\ u.http = t.http
      /\ u.active = t.active /\ u.uploaded = t.uploaded /\ u.buffered = t.buffered
      /\ \A g \in Hosts : u.socket[g] = IF g = h THEN "accepted" ELSE t.socket[g]
  BY <1>1 DEF RelayShape
<1> HIDE DEF u
<1>4. Books(u)
  BY <1>1, <1>2, <1>3, SameBooks DEF Books
<1>5. HostsKnown(u)
  <2>1. \A r \in Requests : t.http[r].to \in Hosts \cup {None} /\ t.http[r].state # "pending"
    BY <1>1 DEF RelayShape, HttpShape, Pending
  <2> QED
    BY <1>1, <1>3, <2>1 DEF HostsKnown, AllDown
<1>6. Quiet(t, u) /\ Unanswered(t, u)
  <2>1. \A r \in Requests : t.http[r].bytes \in Nat /\ t.http[r].unread \in Nat
    BY <1>1 DEF RelayShape, HttpShape
  <2> QED
    BY <1>3, <2>1 DEF Quiet, Steady, Unanswered
<1> QED
  BY <1>3, <1>4, <1>5, <1>6 DEF RelayInv, u

\* A request is refused before it is counted.
LEMMA Refused ==
  ASSUME NEW t, NEW r \in Requests, RelayInv(t), t.http[r].state = "new"
  PROVE  LET u == [t EXCEPT !.http[r] = [@ EXCEPT !.state = "ended", !.answer = "error"]]
         IN RelayInv(u) /\ Quiet(t, u) /\ Unanswered(t, u)
<1> DEFINE q == [t.http[r] EXCEPT !.state = "ended", !.answer = "error"]
           u == [t EXCEPT !.http[r] = [@ EXCEPT !.state = "ended", !.answer = "error"]]
<1>1. t \in RelayShape /\ t.http[r] \in HttpShape /\ Books(t) /\ HostsKnown(t) /\ RequestOK(t.http[r])
      /\ t.active \in Nat /\ t.uploaded \in Nat /\ t.buffered \in Nat
  BY DEF RelayInv, Books, RelayShape
<1>2. /\ q \in HttpShape /\ q.state = "ended" /\ q.answer = "error" /\ q.reserved = t.http[r].reserved
      /\ q.bytes = t.http[r].bytes /\ q.unread = t.http[r].unread /\ q.to = t.http[r].to
  BY <1>1 DEF HttpShape, Answers
<1>3. u = WithHttp(t, r, q, t.active, t.uploaded, t.buffered)
  BY <1>1 DEF RelayShape, WithHttp
<1> HIDE DEF q, u
<1>4. Changes(t, WithHttp(t, r, q, t.active, t.uploaded, t.buffered), r, q, t.active, t.uploaded, t.buffered)
  BY <1>1, <1>2, HttpChange
<1>5. Changes(t, u, r, q, t.active, t.uploaded, t.buffered)
  BY <1>3, <1>4
<1>6. RequestOK(q)
  BY <1>1, <1>2 DEF RequestOK
<1>7. \A x \in Requests :
        /\ RequestOK(u.http[x])
        /\ (u.http[x].state \in {"uploading", "pending"}) = (t.http[x].state \in {"uploading", "pending"})
        /\ u.http[x].reserved = t.http[x].reserved
        /\ u.http[x].bytes = t.http[x].bytes /\ u.http[x].unread = t.http[x].unread
  BY <1>1, <1>2, <1>5, <1>6 DEF Changes, Books
<1>8. Books(u)
  BY <1>1, <1>5, <1>7, SameBooks DEF Changes
<1>9. HostsKnown(u)
  BY <1>1, <1>2, <1>5 DEF Changes, HostsKnown
<1>10. Quiet(t, u) /\ Unanswered(t, u)
  <2>1. \A x \in Requests : t.http[x].bytes \in Nat /\ t.http[x].unread \in Nat
    BY <1>1 DEF RelayShape, HttpShape
  <2> QED
    BY <1>2, <1>5, <2>1 DEF Quiet, Steady, Unanswered, Changes
<1> QED
  BY <1>8, <1>9, <1>10 DEF RelayInv, u

\* A request is counted, and its body is awaited.
LEMMA Counted ==
  ASSUME NEW t, NEW r \in Requests, RelayInv(t), t.http[r].state = "new"
  PROVE  LET u == [t EXCEPT !.active = @ + 1, !.http[r].state = "uploading"]
         IN /\ RelayInv(u) /\ Alike(t, u) /\ u.client = t.client /\ u.host = t.host
            /\ u.http[r].state = "uploading" /\ u.http[r].to = None
<1> DEFINE q == [t.http[r] EXCEPT !.state = "uploading"]
           u == [t EXCEPT !.active = @ + 1, !.http[r].state = "uploading"]
<1>1. t \in RelayShape /\ t.http[r] \in HttpShape /\ Books(t) /\ HostsKnown(t) /\ RequestOK(t.http[r])
      /\ t.active \in Nat /\ t.uploaded \in Nat /\ t.buffered \in Nat /\ t.active + 1 \in Nat
  BY DEF RelayInv, Books, RelayShape
<1>2. /\ q \in HttpShape /\ q.state = "uploading" /\ q.answer = t.http[r].answer /\ q.to = t.http[r].to
      /\ q.bytes = t.http[r].bytes /\ q.unread = t.http[r].unread /\ q.reserved = t.http[r].reserved
  BY <1>1 DEF HttpShape
<1>3. u = WithHttp(t, r, q, t.active + 1, t.uploaded, t.buffered)
  BY <1>1 DEF RelayShape, WithHttp
<1> HIDE DEF q, u
<1>4. Changes(t, WithHttp(t, r, q, t.active + 1, t.uploaded, t.buffered), r, q,
              t.active + 1, t.uploaded, t.buffered)
  BY <1>1, <1>2, HttpChange
<1>5. Changes(t, u, r, q, t.active + 1, t.uploaded, t.buffered)
  BY <1>3, <1>4
<1>6. Reserved(u) = Reserved(t) /\ Held(u) = Held(t)
  BY <1>2, <1>5 DEF Reserved, Held, Changes
<1>7. IsFiniteSet(Active(u)) /\ u.active = Cardinality(Active(u))
  <2>1. Active(u) = Active(t) \cup {r} /\ r \notin Active(t)
    BY <1>2, <1>5 DEF Active, Changes
  <2> QED
    BY <1>1, <1>5, <2>1, FS_AddElement DEF Books, Changes
<1>8. RequestOK(q)
  BY <1>1, <1>2 DEF RequestOK
<1>9. Books(u)
  BY <1>1, <1>5, <1>6, <1>7, <1>8 DEF Books, Changes
<1>10. HostsKnown(u)
  BY <1>1, <1>2, <1>5 DEF Changes, HostsKnown
<1>11. Alike(t, u)
  BY <1>2, <1>5 DEF Alike, Changes
<1>12. u.http[r].to = None
  BY <1>1, <1>2, <1>5 DEF RequestOK, Changes
<1> QED
  BY <1>2, <1>5, <1>9, <1>10, <1>11, <1>12 DEF RelayInv, u, Changes

\* A unit of a request's body is kept.
LEMMA BodyKept ==
  ASSUME NEW t, NEW r \in Requests, RelayInv(t), t.http[r].reserved = 0
  PROVE  LET u == [t EXCEPT !.uploaded = @ + 1, !.http[r].reserved = 1]
         IN RelayInv(u) /\ Quiet(t, u) /\ Unanswered(t, u)
<1> DEFINE q == [t.http[r] EXCEPT !.reserved = 1]
           u == [t EXCEPT !.uploaded = @ + 1, !.http[r].reserved = 1]
<1>1. t \in RelayShape /\ t.http[r] \in HttpShape /\ Books(t) /\ HostsKnown(t) /\ RequestOK(t.http[r])
      /\ t.active \in Nat /\ t.uploaded \in Nat /\ t.buffered \in Nat /\ t.uploaded + 1 \in Nat
      /\ t.http \in [Requests -> HttpShape]
  BY DEF RelayInv, Books, RelayShape
<1>2. /\ q \in HttpShape /\ q.state = t.http[r].state /\ q.answer = t.http[r].answer /\ q.to = t.http[r].to
      /\ q.bytes = t.http[r].bytes /\ q.unread = t.http[r].unread /\ q.reserved = 1
  BY <1>1 DEF HttpShape
<1>3. u = WithHttp(t, r, q, t.active, t.uploaded + 1, t.buffered)
  BY <1>1 DEF RelayShape, WithHttp
<1> HIDE DEF q, u
<1>4. Changes(t, WithHttp(t, r, q, t.active, t.uploaded + 1, t.buffered), r, q,
              t.active, t.uploaded + 1, t.buffered)
  BY <1>1, <1>2, HttpChange
<1>5. Changes(t, u, r, q, t.active, t.uploaded + 1, t.buffered)
  BY <1>3, <1>4
<1>6. Active(u) = Active(t) /\ Held(u) = Held(t)
  BY <1>2, <1>5 DEF Active, Held, Changes
<1>7. IsFiniteSet(Units(Reserved(u))) /\ u.uploaded = Total(Reserved(u))
  <2>1. Reserved(t) \in [Requests -> Nat] /\ Reserved(u) \in [Requests -> Nat]
    BY <1>1, <1>5 DEF Reserved, Changes, RelayShape, HttpShape
  <2>2. /\ \A x \in Requests \ {r} : Reserved(u)[x] = Reserved(t)[x]
        /\ Reserved(t)[r] = 0 /\ Reserved(u)[r] = 1 /\ IsFiniteSet(Units(Reserved(t)))
    BY <1>1, <1>2, <1>5 DEF Reserved, Changes, Books
  <2>3. IsFiniteSet(Units(Reserved(u))) /\ Total(Reserved(u)) = Total(Reserved(t)) - 0 + 1
        /\ Total(Reserved(t)) \in Nat
    BY <2>1, <2>2, TotalChange
  <2> QED
    BY <1>1, <1>5, <2>3 DEF Books, Changes
<1>8. RequestOK(q)
  BY <1>1, <1>2 DEF RequestOK
<1>9. Books(u)
  BY <1>1, <1>5, <1>6, <1>7, <1>8 DEF Books, Changes
<1>10. HostsKnown(u)
  BY <1>1, <1>2, <1>5 DEF Changes, HostsKnown
<1>11. Alike(t, u) /\ u.client = t.client
  BY <1>2, <1>5 DEF Alike, Changes
<1>12. Quiet(t, u) /\ Unanswered(t, u)
  BY <1>11, AlikeQuiet
<1> QED
  BY <1>9, <1>10, <1>12 DEF RelayInv, u

\* Only request r changes.
Aside(t, u, r) ==
  /\ u.socket = t.socket /\ u.client = t.client
  /\ \A q \in Requests \ {r} : u.http[q] = t.http[q]

\* A unit of an answer is kept.
LEMMA AnswerKept ==
  ASSUME NEW t, NEW r \in Requests, RelayInv(t), r \in Pending(t)
  PROVE  LET u == [t EXCEPT !.http[r].bytes = @ + 1, !.buffered = @ + 1]
         IN /\ RelayInv(u) /\ Aside(t, u, r) /\ Unanswered(t, u)
            /\ u.http[r].bytes = t.http[r].bytes + 1 /\ u.http[r].unread = 0 /\ u.http[r].to = t.http[r].to
<1> DEFINE q == [t.http[r] EXCEPT !.bytes = @ + 1]
           u == [t EXCEPT !.http[r].bytes = @ + 1, !.buffered = @ + 1]
<1>1. t \in RelayShape /\ t.http[r] \in HttpShape /\ Books(t) /\ HostsKnown(t) /\ RequestOK(t.http[r])
      /\ t.active \in Nat /\ t.uploaded \in Nat /\ t.buffered \in Nat /\ t.buffered + 1 \in Nat
      /\ t.http \in [Requests -> HttpShape] /\ t.http[r].state = "pending" /\ t.http[r].bytes \in Nat
  BY DEF RelayInv, Books, RelayShape, Pending, HttpShape
<1>2. /\ q \in HttpShape /\ q.state = "pending" /\ q.answer = t.http[r].answer /\ q.to = t.http[r].to
      /\ q.bytes = t.http[r].bytes + 1 /\ q.unread = t.http[r].unread /\ q.reserved = t.http[r].reserved
  BY <1>1 DEF HttpShape
<1>3. u = WithHttp(t, r, q, t.active, t.uploaded, t.buffered + 1)
  BY <1>1 DEF RelayShape, WithHttp
<1> HIDE DEF q, u
<1>4. Changes(t, WithHttp(t, r, q, t.active, t.uploaded, t.buffered + 1), r, q,
              t.active, t.uploaded, t.buffered + 1)
  BY <1>1, <1>2, HttpChange
<1>5. Changes(t, u, r, q, t.active, t.uploaded, t.buffered + 1)
  BY <1>3, <1>4
<1>6. Active(u) = Active(t) /\ Reserved(u) = Reserved(t)
  BY <1>1, <1>2, <1>5 DEF Active, Reserved, Changes
<1>7. IsFiniteSet(Units(Held(u))) /\ u.buffered = Total(Held(u))
  <2>1. Held(t) \in [Requests -> Nat] /\ Held(u) \in [Requests -> Nat]
    BY <1>1, <1>5 DEF Held, Changes, RelayShape, HttpShape
  <2>2. /\ \A x \in Requests \ {r} : Held(u)[x] = Held(t)[x]
        /\ Held(u)[r] = Held(t)[r] + 1 /\ IsFiniteSet(Units(Held(t))) /\ Held(t)[r] \in Nat
    BY <1>1, <1>2, <1>5, <2>1 DEF Held, Changes, Books, RequestOK
  <2>3. IsFiniteSet(Units(Held(u))) /\ Total(Held(u)) = Total(Held(t)) - Held(t)[r] + Held(u)[r]
        /\ Total(Held(t)) \in Nat
    BY <2>1, <2>2, TotalChange
  <2> QED
    BY <1>1, <1>5, <2>2, <2>3 DEF Books, Changes
<1>8. RequestOK(q)
  BY <1>1, <1>2 DEF RequestOK
<1>9. Books(u)
  BY <1>1, <1>5, <1>6, <1>7, <1>8 DEF Books, Changes
<1>10. HostsKnown(u)
  BY <1>1, <1>2, <1>5 DEF Changes, HostsKnown
<1>11. Aside(t, u, r) /\ Unanswered(t, u)
  BY <1>2, <1>5 DEF Aside, Unanswered, Changes
<1>12. u.http[r].bytes = t.http[r].bytes + 1 /\ u.http[r].unread = 0 /\ u.http[r].to = t.http[r].to
  BY <1>1, <1>2, <1>5 DEF RequestOK, Changes
<1> QED
  BY <1>9, <1>10, <1>11, <1>12 DEF RelayInv, u

\* An answer begins.
LEMMA AnswerBegins ==
  ASSUME NEW t, NEW r \in Requests, RelayInv(t)
  PROVE  LET u == [t EXCEPT !.http[r].response = TRUE]
         IN RelayInv(u) /\ Quiet(t, u) /\ Unanswered(t, u)
<1> DEFINE q == [t.http[r] EXCEPT !.response = TRUE]
           u == [t EXCEPT !.http[r].response = TRUE]
<1>1. t \in RelayShape /\ t.http[r] \in HttpShape /\ Books(t) /\ HostsKnown(t) /\ RequestOK(t.http[r])
      /\ t.active \in Nat /\ t.uploaded \in Nat /\ t.buffered \in Nat
  BY DEF RelayInv, Books, RelayShape
<1>2. /\ q \in HttpShape /\ q.state = t.http[r].state /\ q.answer = t.http[r].answer /\ q.to = t.http[r].to
      /\ q.bytes = t.http[r].bytes /\ q.unread = t.http[r].unread /\ q.reserved = t.http[r].reserved
  BY <1>1 DEF HttpShape
<1>3. u = WithHttp(t, r, q, t.active, t.uploaded, t.buffered)
  BY <1>1 DEF RelayShape, WithHttp
<1> HIDE DEF q, u
<1>4. Changes(t, WithHttp(t, r, q, t.active, t.uploaded, t.buffered), r, q, t.active, t.uploaded, t.buffered)
  BY <1>1, <1>2, HttpChange
<1>5. Changes(t, u, r, q, t.active, t.uploaded, t.buffered)
  BY <1>3, <1>4
<1>6. Active(u) = Active(t) /\ Reserved(u) = Reserved(t) /\ Held(u) = Held(t)
  BY <1>2, <1>5 DEF Active, Reserved, Held, Changes
<1>7. RequestOK(q)
  BY <1>1, <1>2 DEF RequestOK
<1>8. Books(u)
  BY <1>1, <1>5, <1>6, <1>7 DEF Books, Changes
<1>9. HostsKnown(u)
  BY <1>1, <1>2, <1>5 DEF Changes, HostsKnown
<1>10. Alike(t, u) /\ u.client = t.client
  BY <1>2, <1>5 DEF Alike, Changes
<1>11. Quiet(t, u) /\ Unanswered(t, u)
  BY <1>10, AlikeQuiet
<1> QED
  BY <1>8, <1>9, <1>11 DEF RelayInv, u

\* A client reads or cancels n units of its answer.
LEMMA UnitsRead ==
  ASSUME NEW t, NEW r \in Requests, NEW n \in 1..t.http[r].unread, RelayInv(t)
  PROVE  LET u == [t EXCEPT !.http[r].unread = @ - n, !.buffered = Least0(@ - n)]
         IN RelayInv(u) /\ Quiet(t, u) /\ Unanswered(t, u)
<1> DEFINE q == [t.http[r] EXCEPT !.unread = @ - n]
           c == Least0(t.buffered - n)
           u == [t EXCEPT !.http[r].unread = @ - n, !.buffered = Least0(@ - n)]
<1>1. t \in RelayShape /\ t.http[r] \in HttpShape /\ Books(t) /\ HostsKnown(t) /\ RequestOK(t.http[r])
      /\ t.active \in Nat /\ t.uploaded \in Nat /\ t.buffered \in Nat
      /\ t.http \in [Requests -> HttpShape] /\ t.http[r].bytes \in Nat /\ t.http[r].unread \in Nat
  BY DEF RelayInv, Books, RelayShape, HttpShape
<1>2. n \in Nat /\ t.http[r].unread - n \in Nat
  BY <1>1
<1>3. c \in Nat
  BY <1>1, <1>2, LeastType
<1>4. /\ q \in HttpShape /\ q.state = t.http[r].state /\ q.answer = t.http[r].answer /\ q.to = t.http[r].to
      /\ q.bytes = t.http[r].bytes /\ q.unread = t.http[r].unread - n /\ q.reserved = t.http[r].reserved
  BY <1>1, <1>2 DEF HttpShape
<1>5. u = WithHttp(t, r, q, t.active, t.uploaded, c)
  BY <1>1 DEF RelayShape, WithHttp
<1> HIDE DEF q, u, c
<1>6. Changes(t, WithHttp(t, r, q, t.active, t.uploaded, c), r, q, t.active, t.uploaded, c)
  BY <1>1, <1>3, <1>4, HttpChange
<1>7. Changes(t, u, r, q, t.active, t.uploaded, c)
  BY <1>5, <1>6
<1>8. Active(u) = Active(t) /\ Reserved(u) = Reserved(t)
  BY <1>4, <1>7 DEF Active, Reserved, Changes
<1>9. IsFiniteSet(Units(Held(u))) /\ u.buffered = Total(Held(u))
  <2>1. Held(t) \in [Requests -> Nat] /\ Held(u) \in [Requests -> Nat]
    BY <1>1, <1>7 DEF Held, Changes, RelayShape, HttpShape
  <2>2. /\ \A x \in Requests \ {r} : Held(u)[x] = Held(t)[x]
        /\ Held(u)[r] = Held(t)[r] - n /\ IsFiniteSet(Units(Held(t))) /\ Held(t)[r] \in Nat
    BY <1>1, <1>2, <1>4, <1>7, <2>1 DEF Held, Changes, Books
  <2>3. IsFiniteSet(Units(Held(u))) /\ Total(Held(u)) = Total(Held(t)) - Held(t)[r] + Held(u)[r]
        /\ Total(Held(t)) \in Nat /\ Total(Held(u)) \in Nat
    BY <2>1, <2>2, TotalChange
  <2>4. Total(Held(u)) = t.buffered - n
    BY <1>1, <1>2, <2>2, <2>3 DEF Books
  <2>5. c = Total(Held(u))
    BY <2>3, <2>4, LeastType DEF c
  <2> QED
    BY <1>7, <2>3, <2>5 DEF Changes
<1>10. RequestOK(q)
  BY <1>1, <1>2, <1>4 DEF RequestOK
<1>11. Books(u)
  BY <1>1, <1>7, <1>8, <1>9, <1>10 DEF Books, Changes
<1>12. HostsKnown(u)
  BY <1>1, <1>4, <1>7 DEF Changes, HostsKnown
<1>13. Quiet(t, u) /\ Unanswered(t, u)
  <2>1. \A x \in Requests : t.http[x].bytes \in Nat /\ t.http[x].unread \in Nat
    BY <1>1 DEF RelayShape, HttpShape
  <2> QED
    BY <1>2, <1>4, <1>7, <2>1 DEF Quiet, Steady, Unanswered, Changes
<1> QED
  BY <1>11, <1>12, <1>13 DEF RelayInv, u

\* Players come and go.
WithPlayers(t, c, S) == [t EXCEPT !.client = c, !.players = S]

\* The relay's players have open sockets.
LEMMA PlayersMove ==
  ASSUME NEW t, NEW c \in [Players -> {"new", "open", "gone"}], NEW S \in SUBSET Players,
         RelayInv(t), \A p \in S : c[p] = "open"
  PROVE  LET u == WithPlayers(t, c, S)
         IN /\ RelayInv(u) /\ Unanswered(t, u) /\ Alike(t, u)
            /\ u.http = t.http /\ u.socket = t.socket /\ u.host = t.host /\ u.client = c /\ u.players = S
<1> DEFINE u == WithPlayers(t, c, S)
<1>1. t \in RelayShape /\ Books(t) /\ HostsKnown(t)
  BY DEF RelayInv, Books
<1>2. /\ u \in RelayShape
      /\ u.http = t.http /\ u.socket = t.socket /\ u.host = t.host /\ u.client = c /\ u.players = S
      /\ u.active = t.active /\ u.uploaded = t.uploaded /\ u.buffered = t.buffered
  BY <1>1 DEF RelayShape, WithPlayers
<1> HIDE DEF u
<1>3. Books(u)
  BY <1>1, <1>2, SameBooks DEF Books
<1>4. HostsKnown(u)
  BY <1>1, <1>2 DEF HostsKnown
<1> QED
  BY <1>2, <1>3, <1>4 DEF RelayInv, Unanswered, Alike, u

\* A request goes to the present host.
LEMMA Routed ==
  ASSUME NEW t, NEW r \in Requests, RelayInv(t), Connected(t), t.http[r].state = "uploading"
  PROVE  LET u == [t EXCEPT !.http[r] = [@ EXCEPT !.state = "pending", !.to = t.host]]
         IN /\ RelayInv(u) /\ Aside(t, u, r) /\ Unanswered(t, u) /\ u.host = t.host /\ t.host \in Hosts
            /\ u.http[r].to = t.host /\ u.http[r].bytes = 0 /\ u.http[r].unread = 0
            /\ u.http[r].state = "pending" /\ u.http[r].answer = "none" /\ t.http[r].to = None
<1> DEFINE h == t.host
           q == [t.http[r] EXCEPT !.state = "pending", !.to = h]
           u == [t EXCEPT !.http[r] = [@ EXCEPT !.state = "pending", !.to = t.host]]
<1>1. t \in RelayShape /\ t.http[r] \in HttpShape /\ Books(t) /\ HostsKnown(t) /\ RequestOK(t.http[r])
      /\ t.active \in Nat /\ t.uploaded \in Nat /\ t.buffered \in Nat
      /\ h \in Hosts /\ h # None /\ t.socket[h] \in {"accepted", "open"}
  BY DEF RelayInv, Books, RelayShape, Connected
<1>2. /\ q \in HttpShape /\ q.state = "pending" /\ q.answer = t.http[r].answer /\ q.to = h
      /\ q.bytes = t.http[r].bytes /\ q.unread = t.http[r].unread /\ q.reserved = t.http[r].reserved
  BY <1>1 DEF HttpShape
<1>3. u = WithHttp(t, r, q, t.active, t.uploaded, t.buffered)
  BY <1>1 DEF RelayShape, WithHttp
<1> HIDE DEF q, u
<1>4. Changes(t, WithHttp(t, r, q, t.active, t.uploaded, t.buffered), r, q, t.active, t.uploaded, t.buffered)
  BY <1>1, <1>2, HttpChange
<1>5. Changes(t, u, r, q, t.active, t.uploaded, t.buffered)
  BY <1>3, <1>4
<1>6. q.bytes = 0 /\ q.unread = 0 /\ q.answer = "none" /\ t.http[r].to = None
  BY <1>1, <1>2 DEF RequestOK
<1>7. Active(u) = Active(t) /\ Reserved(u) = Reserved(t) /\ Held(u) = Held(t)
  BY <1>2, <1>5 DEF Active, Reserved, Held, Changes
<1>8. Books(u)
  BY <1>1, <1>2, <1>5, <1>6, <1>7 DEF Books, Changes, RequestOK
<1>9. HostsKnown(u)
  BY <1>1, <1>2, <1>5, <1>6 DEF Changes, HostsKnown
<1>10. Aside(t, u, r) /\ Unanswered(t, u)
  BY <1>2, <1>5, <1>6 DEF Aside, Unanswered, Changes
<1> QED
  BY <1>1, <1>2, <1>5, <1>6, <1>8, <1>9, <1>10 DEF RelayInv, Changes, u

\* The request of a send that throws is answered with the error of the send.
LEMMA AnswerCorrected ==
  ASSUME NEW t, NEW r \in Requests, RelayInv(t), t.http[r].state = "ended"
  PROVE  LET u == [t EXCEPT !.http[r].answer = "error"]
         IN /\ RelayInv(u) /\ Aside(t, u, r) /\ Unanswered(t, u)
            /\ u.http[r].to = t.http[r].to /\ u.http[r].state = "ended"
            /\ u.http[r].bytes = t.http[r].bytes /\ u.http[r].unread = t.http[r].unread
<1> DEFINE q == [t.http[r] EXCEPT !.answer = "error"]
           u == [t EXCEPT !.http[r].answer = "error"]
<1>1. t \in RelayShape /\ t.http[r] \in HttpShape /\ Books(t) /\ HostsKnown(t) /\ RequestOK(t.http[r])
      /\ t.active \in Nat /\ t.uploaded \in Nat /\ t.buffered \in Nat
  BY DEF RelayInv, Books, RelayShape
<1>2. /\ q \in HttpShape /\ q.state = "ended" /\ q.answer = "error" /\ q.to = t.http[r].to
      /\ q.bytes = t.http[r].bytes /\ q.unread = t.http[r].unread /\ q.reserved = t.http[r].reserved
  BY <1>1 DEF HttpShape, Answers
<1>3. u = WithHttp(t, r, q, t.active, t.uploaded, t.buffered)
  BY <1>1 DEF RelayShape, WithHttp
<1> HIDE DEF q, u
<1>4. Changes(t, WithHttp(t, r, q, t.active, t.uploaded, t.buffered), r, q, t.active, t.uploaded, t.buffered)
  BY <1>1, <1>2, HttpChange
<1>5. Changes(t, u, r, q, t.active, t.uploaded, t.buffered)
  BY <1>3, <1>4
<1>6. Active(u) = Active(t) /\ Reserved(u) = Reserved(t) /\ Held(u) = Held(t)
  BY <1>2, <1>5 DEF Active, Reserved, Held, Changes
<1>7. Books(u)
  BY <1>1, <1>2, <1>5, <1>6 DEF Books, Changes, RequestOK
<1>8. HostsKnown(u)
  BY <1>1, <1>2, <1>5 DEF Changes, HostsKnown
<1>9. Aside(t, u, r) /\ Unanswered(t, u)
  BY <1>2, <1>5 DEF Aside, Unanswered, Changes
<1> QED
  BY <1>2, <1>5, <1>7, <1>8, <1>9 DEF RelayInv, Changes, u

-------------------------------------------------------------------------------
(***************************************************************************)
(* The frames, the desktop, and what both sides know of each other.        *)
(***************************************************************************)
JobShape ==
  [state : {"none", "receiving", "fetching", "answering", "ended"},
   bytes : 0..1, sent : 0..MaxAnswer, aborted : BOOLEAN]
DesktopShape ==
  [socket : [Hosts -> {"absent", "open", "closed"}], bytes : [Hosts -> Nat], job : [Requests -> JobShape],
   local : [Hosts -> SUBSET Players]]
Typed == desktop \in DesktopShape /\ down \in [Hosts -> Seq(Frames)] /\ up \in [Hosts -> Seq(Frames)]

Leaving(h) == relay.socket[h] \in {"closing", "closed"}
\* The frames on their way to h: a request's are for h's own, its first two come
\* once and find its job as it was, and an open order of a player who has gone is
\* followed by a close order, or the socket is on its way down.
Order(h, i) ==
  LET f == down[h][i]
  IN /\ f[1] \in {"http.request", "http.body", "http.end", "ws.open", "ws.close"}
     /\ f[1] \in HttpFrames => To(f[2]) = h
     /\ f[1] = "http.request" => desktop.job[f[2]].state = "none"
     /\ f[1] = "http.body" => desktop.job[f[2]].bytes = 0
     /\ f[1] \in {"http.request", "http.body"} => \A j \in DOMAIN down[h] : down[h][j] = f => j = i
     /\ f[1] = "ws.open" => \/ relay.client[f[2]] = "open"
                            \/ Leaving(h)
                            \/ \E j \in DOMAIN down[h] : j > i /\ down[h][j] = <<"ws.close", f[2]>>
Orders ==
  \A h \in Hosts :
    /\ \A i \in DOMAIN down[h] : Order(h, i)
    /\ relay.socket[h] = "absent" => down[h] = <<>> /\ desktop.local[h] = {}
Locals ==
  \A h \in Hosts : \A p \in desktop.local[h] :
    \/ relay.client[p] = "open"
    \/ Leaving(h)
    \/ \E j \in DOMAIN down[h] : down[h][j] = <<"ws.close", p>>
\* The frames on their way from h: the end of an answer is its last frame.
Reply(h, i) ==
  LET f == up[h][i]
  IN /\ f[1] \in {"http.response", "http.body", "http.end", "http.error", "ws.close"}
     /\ f[1] \in HttpFrames => To(f[2]) = h
     /\ f[1] = "http.end" =>
          /\ desktop.job[f[2]].state = "ended"
          /\ \A j \in DOMAIN up[h] : j > i => up[h][j] # <<"http.body", f[2]>>
AnswerFrames == \A h \in Hosts : \A i \in DOMAIN up[h] : Reply(h, i)
Bodies(s, r) == {i \in DOMAIN s : s[i] = <<"http.body", r>>}
\* No unit of an answer is lost on its way to a request that waits for it.
Stream ==
  \A r \in Requests :
    /\ relay.http[r].state = "pending" =>
         relay.http[r].bytes + Cardinality(Bodies(up[To(r)], r)) = desktop.job[r].sent
    /\ relay.http[r].bytes + relay.http[r].unread <= MaxAnswer
    /\ To(r) = None => /\ desktop.job[r].state = "none" /\ desktop.job[r].bytes = 0
                       /\ desktop.job[r].sent = 0
OwnBytes(h) == [r \in Requests |-> IF To(r) = h THEN desktop.job[r].bytes ELSE 0]
DesktopBooks ==
  \A h \in Hosts : IsFiniteSet(Units(OwnBytes(h))) /\ desktop.bytes[h] = Total(OwnBytes(h))
TunnelInv ==
  /\ RelayInv(relay) /\ Typed /\ faults \in 0..MaxFaults
  /\ Orders /\ Locals /\ AnswerFrames /\ Stream /\ DesktopBooks

\* Only the relay's receipt of a frame answers a request well, and then as a whole.
NoneAnswered == Unanswered(relay, relay')
Whole ==
  \A r \in Requests :
    relay'.http[r].answer = "ok" /\ relay.http[r].answer # "ok" =>
      desktop.job[r].state = "ended" /\ relay.http[r].bytes = desktop.job[r].sent

\* Each part of the invariant for itself: the relay's steady steps keep the orders
\* to the hosts and the local sockets.
LEMMA QuietOrders ==
  ASSUME TunnelInv, RelayInv(relay'), Steady(relay, relay'), down' = down,
         desktop'.job = desktop.job, desktop'.local = desktop.local
  PROVE  Orders' /\ Locals'
<1>1. \A h \in Hosts : relay'.socket[h] \in {"absent", "accepted", "open", "closing", "closed"}
  BY DEF RelayInv, Books, RelayShape
<1>2. ASSUME NEW h \in Hosts, NEW p \in Players, relay.socket[h] # "absent",
             relay.client[p] = "open" \/ Leaving(h)
      PROVE  relay'.client[p] = "open" \/ Leaving(h)'
  BY <1>1, <1>2 DEF Quiet, Steady, Leaving
<1>3. /\ \A h \in Hosts : down[h] \in Seq(Frames) /\ desktop.local[h] \subseteq Players
      /\ \A h \in Hosts : down[h] # <<>> \/ desktop.local[h] # {} => relay.socket[h] # "absent"
  BY DEF TunnelInv, Typed, DesktopShape, Orders
<1>4. ASSUME NEW h \in Hosts, NEW i \in DOMAIN down[h]
      PROVE  Order(h, i)'
  <2> DEFINE f == down[h][i]
  <2>1. f \in Frames /\ down[h] # <<>> /\ Order(h, i)
    BY <1>3 DEF TunnelInv, Orders
  <2>2. f[1] \in HttpFrames => To(f[2])' = To(f[2])
    BY <2>1 DEF Frames, HttpFrames, To, Quiet, Steady
  <2>3. f[1] = "ws.open" => f[2] \in Players
    BY <2>1 DEF Frames, HttpFrames
  <2>4. f[1] = "ws.open" => \/ relay'.client[f[2]] = "open"
                            \/ Leaving(h)'
                            \/ \E j \in DOMAIN down[h] : j > i /\ down[h][j] = <<"ws.close", f[2]>>
    BY <1>2, <1>3, <2>1, <2>3 DEF Order
  <2> QED
    BY <2>1, <2>2, <2>4 DEF Order
<1>5. ASSUME NEW h \in Hosts, relay'.socket[h] = "absent"
      PROVE  down[h] = <<>> /\ desktop.local[h] = {}
  BY <1>5 DEF TunnelInv, Orders, Quiet, Steady
<1>6. Locals'
  <2> SUFFICES ASSUME NEW h \in Hosts, NEW p \in desktop.local[h]
               PROVE  \/ relay'.client[p] = "open"
                      \/ Leaving(h)'
                      \/ \E j \in DOMAIN down[h] : down[h][j] = <<"ws.close", p>>
    BY DEF Locals
  <2> QED
    BY <1>2, <1>3 DEF TunnelInv, Locals
<1> QED
  BY <1>4, <1>5, <1>6 DEF Orders

\* ... and what is known of the answers and of the bodies.
LEMMA QuietAnswers ==
  ASSUME TunnelInv, RelayInv(relay'), Quiet(relay, relay'), up' = up,
         desktop'.job = desktop.job, desktop'.bytes = desktop.bytes
  PROVE  AnswerFrames' /\ Stream' /\ DesktopBooks'
<1>1. \A r \in Requests : To(r)' = To(r)
  BY DEF Quiet, Steady, To
<1>2. ASSUME NEW h \in Hosts, NEW i \in DOMAIN up[h]
      PROVE  Reply(h, i)'
  <2>1. up[h][i] \in Frames /\ Reply(h, i)
    BY DEF TunnelInv, AnswerFrames, Typed
  <2>2. up[h][i][1] \in HttpFrames => up[h][i][2] \in Requests
    BY <2>1 DEF Frames, HttpFrames
  <2> QED
    BY <1>1, <2>1, <2>2 DEF Reply
<1>3. Stream'
  <2> SUFFICES ASSUME NEW r \in Requests
               PROVE  /\ relay'.http[r].state = "pending" =>
                           relay'.http[r].bytes + Cardinality(Bodies(up[To(r)'], r)) = desktop.job[r].sent
                      /\ relay'.http[r].bytes + relay'.http[r].unread <= MaxAnswer
                      /\ To(r)' = None => /\ desktop.job[r].state = "none" /\ desktop.job[r].bytes = 0
                                          /\ desktop.job[r].sent = 0
    BY DEF Stream
  <2>1. /\ relay.http[r].bytes \in Nat /\ relay.http[r].unread \in Nat /\ MaxAnswer \in Nat
        /\ relay'.http[r].bytes \in Nat /\ relay'.http[r].unread \in Nat
    BY TunnelAssumption DEF TunnelInv, RelayInv, Books, RelayShape, HttpShape
  <2> QED
    BY <1>1, <2>1 DEF TunnelInv, Stream, Quiet, Steady
<1>4. \A h \in Hosts : OwnBytes(h)' = OwnBytes(h)
  BY <1>1 DEF OwnBytes
<1> QED
  BY <1>2, <1>3, <1>4 DEF AnswerFrames, DesktopBooks, TunnelInv

\* A quiet step of the relay alone keeps the invariant.
LEMMA QuietStep ==
  ASSUME TunnelInv, RelayInv(relay'), Quiet(relay, relay'), faults' \in 0..MaxFaults,
         UNCHANGED <<desktop, down, up>>
  PROVE  TunnelInv'
<1>1. Orders' /\ Locals' /\ AnswerFrames' /\ Stream' /\ DesktopBooks'
  BY QuietOrders, QuietAnswers DEF Quiet
<1>2. Typed'
  BY DEF TunnelInv, Typed
<1> QED
  BY <1>1, <1>2 DEF TunnelInv

\* A step of the relay alone, or a send that throws, is quiet.
LEMMA RelayAlone ==
  ASSUME TunnelInv, NEW t, RelayOnly(t) \/ SendThrows(t),
         RelayInv(t), Quiet(relay, t), Unanswered(relay, t)
  PROVE  TunnelInv' /\ NoneAnswered
<1>1. relay' = t /\ UNCHANGED <<desktop, down, up>>
  BY DEF RelayOnly, SendThrows
<1>2. faults' \in 0..MaxFaults
  BY TunnelAssumption DEF RelayOnly, SendThrows, TunnelInv
<1> QED
  BY <1>1, <1>2, QuietStep DEF NoneAnswered

\* The relay's books and hosts, and the kinds of its fields.
LEMMA RelayTypes ==
  ASSUME TunnelInv
  PROVE  /\ RelayInv(relay) /\ relay \in RelayShape /\ relay.host \in Hosts \cup {None}
         /\ relay.http \in [Requests -> HttpShape] /\ \A r \in Requests : RequestOK(relay.http[r])
BY DEF TunnelInv, RelayInv, Books, RelayShape

\* AcceptHost: the new host's socket takes the place of the one before.
LEMMA AcceptKeeps ==
  ASSUME TunnelInv, NEW h \in Hosts, AcceptHost(h)
  PROVE  TunnelInv' /\ NoneAnswered
<1> DEFINE t == IF relay.host = None THEN relay ELSE CloseHost(relay, relay.host)
           u == [t EXCEPT !.host = h, !.socket[h] = "accepted"]
<1>1. RelayInv(relay) /\ relay \in RelayShape /\ relay.host \in Hosts \cup {None}
  BY RelayTypes
<1>2. /\ RelayInv(t) /\ AllDown(t) /\ Pending(t) = {} /\ t.socket[h] = "absent"
      /\ Quiet(relay, t) /\ Unanswered(relay, t) /\ t.client = relay.client
  <2>1. CASE relay.host = None
    <3>1. \A g \in Hosts : g # None
      BY TunnelAssumption
    <3>2. AllDown(relay)
      BY <1>1, <2>1, <3>1 DEF AllDown, RelayInv, HostsKnown
    <3>3. Pending(relay) = {}
      BY <1>1, <2>1 DEF Pending, RelayInv, HostsKnown
    <3>4. Quiet(relay, relay) /\ Unanswered(relay, relay)
      <4>1. \A r \in Requests : relay.http[r].bytes \in Nat /\ relay.http[r].unread \in Nat
        BY <1>1 DEF RelayShape, HttpShape
      <4> QED
        BY <4>1 DEF Quiet, Steady, Unanswered
    <3> QED
      BY <1>1, <2>1, <3>2, <3>3, <3>4 DEF AcceptHost
  <2>2. CASE relay.host # None
    <3>1. relay.host \in Hosts /\ t = CloseHost(relay, relay.host)
      BY <1>1, <2>2
    <3>2. /\ RelayInv(t) /\ Quiet(relay, t) /\ Unanswered(relay, t) /\ AllDown(t) /\ Pending(t) = {}
      BY <1>1, <3>1, CloseKeeps
    <3>3. t = LoseHost(relay, relay.host) /\ Loses(relay, t, relay.host)
      BY <1>1, <3>1, LoseHostFields DEF CloseHost
    <3> HIDE DEF t
    <3>4. relay.socket[relay.host] # "absent" /\ relay.socket[h] = "absent"
      BY <1>1, <2>2 DEF RelayInv, HostsKnown, AcceptHost
    <3>5. t.socket[h] = "absent" /\ t.client = relay.client
      BY <3>3, <3>4 DEF Loses
    <3> QED
      BY <3>2, <3>5
  <2> QED
    BY <2>1, <2>2
<1>3. RelayOnly(u)
  BY DEF AcceptHost
<1> HIDE DEF t
<1>4. RelayInv(u) /\ Quiet(t, u) /\ Unanswered(t, u) /\ u.client = t.client
  BY <1>2, HostComes
<1> HIDE DEF u
<1>5. Unanswered(relay, u)
  BY <1>2, <1>4 DEF Unanswered
<1>6. Quiet(relay, u)
  <2>1. \A r \in Requests : /\ relay.http[r].bytes + relay.http[r].unread \in Int
                            /\ t.http[r].bytes + t.http[r].unread \in Int
                            /\ u.http[r].bytes + u.http[r].unread \in Int
    BY <1>1, <1>2, <1>4 DEF RelayInv, Books, RelayShape, HttpShape
  <2> QED
    BY <1>2, <1>4, <2>1 DEF Quiet, Steady
<1> QED
  BY <1>3, <1>4, <1>5, <1>6, RelayAlone

\* Listen: both ends of the socket are open.
LEMMA ListenKeeps ==
  ASSUME TunnelInv, NEW h \in Hosts, Listen(h)
  PROVE  TunnelInv' /\ NoneAnswered
<1>1. RelayInv(relay') /\ Quiet(relay, relay') /\ Unanswered(relay, relay')
  BY RelayTypes, SocketMoves DEF Listen
<1>2. /\ desktop' \in DesktopShape /\ desktop'.bytes = desktop.bytes /\ desktop'.job = desktop.job
      /\ desktop'.local = desktop.local
  BY DEF Listen, TunnelInv, Typed, DesktopShape
<1>3. UNCHANGED <<down, up>> /\ faults' \in 0..MaxFaults
  BY DEF Listen, TunnelInv
<1> QED
  BY <1>1, <1>2, <1>3, QuietOrders, QuietAnswers DEF Quiet, NoneAnswered, TunnelInv, Typed

\* BreaksUnheard
LEMMA BreaksUnheardKeeps ==
  ASSUME TunnelInv, NEW h \in Hosts, BreaksUnheard(h)
  PROVE  TunnelInv' /\ NoneAnswered
<1> DEFINE u == [relay EXCEPT !.socket[h] = "closed"]
<1>1. SendThrows(u) /\ RelayInv(u) /\ Quiet(relay, u) /\ Unanswered(relay, u)
  BY RelayTypes, SocketMoves DEF BreaksUnheard
<1> QED
  BY <1>1, RelayAlone

\* RelaySocketError
LEMMA SocketErrorKeeps ==
  ASSUME TunnelInv, NEW h \in Hosts, RelaySocketError(h)
  PROVE  TunnelInv' /\ NoneAnswered
<1>1. /\ RelayInv(CloseHost(relay, h)) /\ Quiet(relay, CloseHost(relay, h))
      /\ Unanswered(relay, CloseHost(relay, h))
  BY RelayTypes, CloseKeeps
<1> QED
  BY <1>1, RelayAlone DEF RelaySocketError

-------------------------------------------------------------------------------
(***************************************************************************)
(* Frames on their way.                                                    *)
(***************************************************************************)

\* The first frame is taken.
LEMMA TailFrames ==
  ASSUME NEW s \in Seq(Frames), s # <<>>
  PROVE  /\ Tail(s) \in Seq(Frames) /\ Head(s) \in Frames /\ Head(s) = s[1] /\ Len(s) >= 1 /\ Len(s) \in Nat
         /\ DOMAIN s = 1..Len(s) /\ DOMAIN Tail(s) = 1..(Len(s) - 1)
         /\ \A i \in DOMAIN Tail(s) : Tail(s)[i] = s[i + 1] /\ i + 1 \in DOMAIN s
OBVIOUS

\* A frame is sent.
LEMMA MoreFrames ==
  ASSUME NEW s \in Seq(Frames), NEW f \in Frames
  PROVE  /\ s \o <<f>> \in Seq(Frames) /\ DOMAIN s = 1..Len(s) /\ Len(s) \in Nat
         /\ DOMAIN (s \o <<f>>) = 1..(Len(s) + 1)
         /\ \A i \in DOMAIN s : (s \o <<f>>)[i] = s[i]
         /\ (s \o <<f>>)[Len(s) + 1] = f /\ Len(s \o <<f>>) = Len(s) + 1
OBVIOUS

\* No frame is sent.
LEMMA NoFrames ==
  ASSUME NEW s \in Seq(Frames)
  PROVE  s \o <<>> = s
OBVIOUS

\* A number of bodies.
LEMMA BodiesCount ==
  ASSUME NEW s \in Seq(Frames), NEW r
  PROVE  IsFiniteSet(Bodies(s, r)) /\ Cardinality(Bodies(s, r)) \in Nat
<1>1. Len(s) \in Nat /\ DOMAIN s = 1..Len(s)
  OBVIOUS
<1>2. IsFiniteSet(1..Len(s)) /\ Bodies(s, r) \subseteq 1..Len(s)
  BY <1>1, FS_Interval DEF Bodies
<1> QED
  BY <1>2, FS_Subset, FS_CardinalityType

\* The bodies are one fewer when one is taken.
LEMMA BodyTaken ==
  ASSUME NEW s \in Seq(Frames), s # <<>>, NEW r
  PROVE  Cardinality(Bodies(s, r))
           = Cardinality(Bodies(Tail(s), r)) + (IF Head(s) = <<"http.body", r>> THEN 1 ELSE 0)
<1> DEFINE A == Bodies(Tail(s), r)
           B == Bodies(s, r) \ {1}
           F == [i \in A |-> i + 1]
<1>1. /\ Tail(s) \in Seq(Frames) /\ Head(s) = s[1] /\ DOMAIN s = 1..Len(s) /\ Len(s) \in Nat /\ Len(s) >= 1
      /\ DOMAIN Tail(s) = 1..(Len(s) - 1) /\ \A i \in DOMAIN Tail(s) : Tail(s)[i] = s[i + 1]
  BY TailFrames
<1>2. \A i \in A : i \in Nat /\ i + 1 \in B
  BY <1>1 DEF Bodies
<1>3. \A j \in B : j - 1 \in A /\ j \in Int
  BY <1>1 DEF Bodies
<1>4. F \in [A -> B] /\ \A i \in A : F[i] = i + 1
  BY <1>2
<1> HIDE DEF F
<1>5. F \in Injection(A, B)
  BY <1>2, <1>4 DEF Injection, IsInjective
<1>6. F \in Surjection(A, B)
  <2>1. \A j \in B : F[j - 1] = j
    BY <1>3, <1>4
  <2> QED
    BY <1>3, <1>4, <2>1 DEF Surjection
<1>7. ExistsBijection(A, B)
  BY <1>5, <1>6 DEF Bijection, ExistsBijection
<1>8. IsFiniteSet(A) /\ IsFiniteSet(Bodies(s, r)) /\ Cardinality(A) \in Nat
  BY <1>1, BodiesCount
<1>9. Cardinality(B) = Cardinality(A)
  BY <1>7, <1>8, FS_Bijection
<1>10. Cardinality(B) = IF 1 \in Bodies(s, r) THEN Cardinality(Bodies(s, r)) - 1 ELSE Cardinality(Bodies(s, r))
  BY <1>8, FS_RemoveElement
<1>11. (1 \in Bodies(s, r)) = (Head(s) = <<"http.body", r>>)
  BY <1>1 DEF Bodies
<1>12. Cardinality(Bodies(s, r)) \in Nat
  BY BodiesCount
<1> HIDE DEF A, B
<1> QED
  BY <1>8, <1>9, <1>10, <1>11, <1>12 DEF A

\* The bodies are one more when one is sent.
LEMMA BodySent ==
  ASSUME NEW s \in Seq(Frames), NEW f \in Frames, NEW r
  PROVE  Cardinality(Bodies(s \o <<f>>, r))
           = Cardinality(Bodies(s, r)) + (IF f = <<"http.body", r>> THEN 1 ELSE 0)
<1>1. /\ s \o <<f>> \in Seq(Frames) /\ DOMAIN s = 1..Len(s) /\ Len(s) \in Nat
      /\ DOMAIN (s \o <<f>>) = 1..(Len(s) + 1)
      /\ \A i \in DOMAIN s : (s \o <<f>>)[i] = s[i]
      /\ (s \o <<f>>)[Len(s) + 1] = f
  BY MoreFrames
<1>2. IsFiniteSet(Bodies(s, r)) /\ Len(s) + 1 \notin Bodies(s, r) /\ Cardinality(Bodies(s, r)) \in Nat
  <2>1. Len(s) + 1 \notin DOMAIN s
    BY <1>1
  <2> QED
    BY <2>1, BodiesCount DEF Bodies
<1>3. CASE f = <<"http.body", r>>
  <2>1. Bodies(s \o <<f>>, r) = Bodies(s, r) \cup {Len(s) + 1}
    BY <1>1, <1>3 DEF Bodies
  <2> QED
    BY <1>2, <1>3, <2>1, FS_AddElement
<1>4. CASE f # <<"http.body", r>>
  <2>1. Bodies(s \o <<f>>, r) = Bodies(s, r)
    <3>1. \A i : i \in DOMAIN (s \o <<f>>) <=> i \in DOMAIN s \/ i = Len(s) + 1
      BY <1>1
    <3>2. \A i : i \in Bodies(s \o <<f>>, r) <=> i \in Bodies(s, r)
      BY <1>1, <1>4, <3>1 DEF Bodies
    <3> QED
      BY <3>2
  <2> QED
    BY <1>2, <1>4, <2>1
<1> QED
  BY <1>3, <1>4

\* The frames left behind the first, or none, are still in order.
LEMMA RepliesTaken ==
  ASSUME TunnelInv, NEW h \in Hosts, NEW s, s = <<>> \/ (s = Tail(up[h]) /\ up[h] # <<>>),
         up' = [up EXCEPT ![h] = s], desktop' = desktop, Steady(relay, relay')
  PROVE  AnswerFrames' /\ up' \in [Hosts -> Seq(Frames)]
<1>1. /\ \A g \in Hosts : up[g] \in Seq(Frames) /\ up'[g] = IF g = h THEN s ELSE up[g]
      /\ up \in [Hosts -> Seq(Frames)]
  BY DEF TunnelInv, Typed
<1>2. \A r \in Requests : To(r)' = To(r)
  BY DEF Steady, To
<1>3. s \in Seq(Frames) /\ (s = <<>> => DOMAIN s = {})
  <2>1. CASE s = <<>>
    BY <2>1
  <2>2. CASE s = Tail(up[h]) /\ up[h] # <<>>
    <3>1. s # <<>> \/ DOMAIN s = {}
      OBVIOUS
    <3> QED
      BY <1>1, <2>2, <3>1, TailFrames
  <2> QED
    BY <2>1, <2>2
<1>4. ASSUME NEW i \in DOMAIN s
      PROVE  /\ i + 1 \in DOMAIN up[h] /\ s[i] = up[h][i + 1]
             /\ i \in Nat /\ DOMAIN s \subseteq Nat
             /\ \A j \in DOMAIN s : j + 1 \in DOMAIN up[h] /\ s[j] = up[h][j + 1]
  <2>1. s = Tail(up[h]) /\ up[h] # <<>> /\ up[h] \in Seq(Frames)
    BY <1>1, <1>3
  <2>2. /\ Len(up[h]) \in Nat /\ DOMAIN up[h] = 1..Len(up[h]) /\ DOMAIN s = 1..(Len(up[h]) - 1)
        /\ \A j \in DOMAIN s : s[j] = up[h][j + 1]
    BY <2>1, TailFrames
  <2>3. ASSUME NEW j \in DOMAIN s
        PROVE  j \in Nat /\ j + 1 \in DOMAIN up[h]
    BY <2>2
  <2> QED
    BY <2>2, <2>3
<1>5. ASSUME NEW g \in Hosts, NEW i \in DOMAIN up'[g]
      PROVE  Reply(g, i)'
  <2>1. CASE g # h
    <3>1. up'[g] = up[g] /\ Reply(g, i) /\ up[g][i] \in Frames
      BY <1>1, <2>1 DEF TunnelInv, AnswerFrames
    <3>2. up[g][i][1] \in HttpFrames => up[g][i][2] \in Requests
      BY <3>1 DEF Frames, HttpFrames
    <3> QED
      BY <1>2, <3>1, <3>2 DEF Reply
  <2>2. CASE g = h
    <3>1. up'[h] = s /\ i \in DOMAIN s
      BY <1>1, <2>2
    <3>2. /\ i + 1 \in DOMAIN up[h] /\ s[i] = up[h][i + 1] /\ i \in Nat /\ DOMAIN s \subseteq Nat
          /\ \A j \in DOMAIN s : j + 1 \in DOMAIN up[h] /\ s[j] = up[h][j + 1]
      BY <1>4, <3>1
    <3>3. Reply(h, i + 1) /\ up[h][i + 1] \in Frames
      BY <1>1, <3>2 DEF TunnelInv, AnswerFrames
    <3>4. up[h][i + 1][1] \in HttpFrames => up[h][i + 1][2] \in Requests
      BY <3>3 DEF Frames, HttpFrames
    <3>5. up[h][i + 1][1] = "http.end" =>
            \A j \in DOMAIN s : j > i => s[j] # <<"http.body", up[h][i + 1][2]>>
      <4> SUFFICES ASSUME up[h][i + 1][1] = "http.end", NEW j \in DOMAIN s, j > i
                   PROVE  s[j] # <<"http.body", up[h][i + 1][2]>>
        OBVIOUS
      <4>1. j + 1 \in DOMAIN up[h] /\ s[j] = up[h][j + 1] /\ j + 1 > i + 1
        BY <3>2
      <4> QED
        BY <3>3, <4>1 DEF Reply
    <3> QED
      BY <1>2, <2>2, <3>1, <3>2, <3>3, <3>4, <3>5 DEF Reply
  <2> QED
    BY <2>1, <2>2
<1> QED
  BY <1>1, <1>3, <1>5 DEF AnswerFrames

\* What is not a frame's to change stays: the desktop's books.
LEMMA BooksStay ==
  ASSUME TunnelInv, Steady(relay, relay'), desktop'.job = desktop.job, desktop'.bytes = desktop.bytes
  PROVE  DesktopBooks'
<1>1. \A h \in Hosts : OwnBytes(h)' = OwnBytes(h)
  BY DEF OwnBytes, Steady, To
<1> QED
  BY <1>1 DEF DesktopBooks, TunnelInv

\* A host socket closes at the relay.
LEMMA RelayCloseKeeps ==
  ASSUME TunnelInv, NEW h \in Hosts, RelayClose(h)
  PROVE  TunnelInv' /\ NoneAnswered
<1> DEFINE t == CloseHost(relay, h)
<1>1. /\ RelayInv(relay) /\ RelayInv(t) /\ Quiet(relay, t) /\ Unanswered(relay, t)
      /\ relay.host = h => Pending(t) = {}
      /\ relay.host # h => t = relay
  BY RelayTypes, CloseKeeps
<1>2. relay.socket[h] \in {"open", "closing"} /\ t.socket[h] # "absent"
  BY <1>1 DEF RelayClose, Quiet, Steady
<1>3. relay' = [t EXCEPT !.socket[h] = "closed"] /\ up' = [up EXCEPT ![h] = <<>>]
      /\ UNCHANGED <<desktop, down, faults>>
  BY DEF RelayClose
<1> HIDE DEF t
<1>4. RelayInv(relay') /\ Quiet(t, relay') /\ Unanswered(t, relay') /\ relay'.http = t.http
      /\ relay'.client = t.client
  BY <1>1, <1>2, <1>3, SocketMoves
<1>5. Unanswered(relay, relay')
  BY <1>1, <1>4 DEF Unanswered
<1>6. Steady(relay, relay')
  <2>1. \A p \in Players : relay.client[p] = "open" =>
          relay'.client[p] = "open" \/ \A g \in Hosts : relay'.socket[g] \notin {"accepted", "open"}
    <3>1. \A g \in Hosts : t.socket[g] \notin {"accepted", "open"} =>
            relay'.socket[g] \notin {"accepted", "open"} 
      BY <1>1, <1>2, <1>3 DEF RelayInv, Books, RelayShape
    <3> QED
      BY <1>1, <1>4, <3>1 DEF Quiet, Steady
  <2> QED
    BY <1>1, <1>4, <2>1 DEF Quiet, Steady
<1>7. ASSUME NEW r \in Requests, relay'.http[r].state = "pending"
      PROVE  To(r) # h /\ relay.http[r].state = "pending" /\ relay'.http[r].bytes = relay.http[r].bytes
             /\ To(r) \in Hosts
  BY <1>1, <1>4, <1>7, RelayTypes DEF RelayInv, HostsKnown, Pending, To
<1>8. Stream'
  <2>1. ASSUME NEW r \in Requests, relay'.http[r].state = "pending"
        PROVE  relay'.http[r].bytes + Cardinality(Bodies(up'[To(r)], r)) = desktop.job[r].sent
    <3>1. up'[To(r)] = up[To(r)]
      BY <1>3, <1>7, <2>1 DEF TunnelInv, Typed
    <3> QED
      BY <1>7, <2>1, <3>1 DEF TunnelInv, Stream
  <2>2. ASSUME NEW r \in Requests
        PROVE  relay'.http[r].bytes + relay'.http[r].unread <= MaxAnswer
    BY <1>1, <1>4, TunnelAssumption DEF Quiet, TunnelInv, Stream, RelayInv, Books, RelayShape, HttpShape
  <2>3. \A r \in Requests : To(r)' = To(r)
    BY <1>6 DEF Steady, To
  <2> QED
    BY <1>3, <2>1, <2>2, <2>3 DEF Stream, TunnelInv
<1>9. AnswerFrames' /\ up' \in [Hosts -> Seq(Frames)]
  BY <1>3, <1>6, RepliesTaken
<1> QED
  BY <1>3, <1>4, <1>5, <1>6, <1>8, <1>9, QuietOrders, BooksStay DEF TunnelInv, Typed, NoneAnswered

\* What the receipt of frame f makes of the relay: an answer that is passed on as
\* good is finished, and whole.
Received(f, u) ==
  /\ RelayInv(u) /\ Steady(relay, u)
  /\ \A r \in Requests :
       /\ u.http[r].state = "pending" =>
            /\ relay.http[r].state = "pending"
            /\ u.http[r].bytes = relay.http[r].bytes + (IF f = <<"http.body", r>> THEN 1 ELSE 0)
       /\ u.http[r].bytes + u.http[r].unread <= MaxAnswer
       /\ u.http[r].answer = "ok" /\ relay.http[r].answer # "ok" =>
            desktop.job[r].state = "ended" /\ relay.http[r].bytes = desktop.job[r].sent

\* A request whose answer is given up is settled.
LEMMA ReceivedSettled ==
  ASSUME TunnelInv, NEW f, NEW r \in Pending(relay), NEW a \in {"ok", "error"}, f[2] = r,
         a = "ok" => desktop.job[r].state = "ended" /\ relay.http[r].bytes = desktop.job[r].sent
  PROVE  Received(f, Settled(relay, r, a))
<1> DEFINE u == Settled(relay, r, a)
<1>1. /\ RelayInv(relay) /\ relay \in RelayShape /\ r \in Requests /\ r \in Active(relay)
      /\ relay.http[r].unread = 0 /\ relay.http[r].state = "pending"
      /\ \A q \in Requests : relay.http[q].bytes \in Nat /\ relay.http[q].unread \in Nat
  BY RelayTypes DEF Pending, Active, RequestOK, RelayShape, HttpShape
<1>2. Ends(relay, u, r, a, 0)
  BY <1>1, SettledEnds
<1> HIDE DEF u
<1>3. RelayInv(u) /\ Quiet(relay, u)
  <2>1. 0 \in {0, relay.http[r].bytes}
    OBVIOUS
  <2>2. RelayInv(u)
    BY <1>1, <1>2, <2>1, EndsKeeps
  <2>3. Quiet(relay, u)
    BY <1>1, <1>2, <2>1, EndsQuiet
  <2> QED
    BY <2>2, <2>3
<1>4. MaxAnswer \in Nat /\ \A q \in Requests : relay.http[q].bytes + relay.http[q].unread <= MaxAnswer
  BY TunnelAssumption DEF TunnelInv, Stream
<1>5. \A q \in Requests : q # r => f # <<"http.body", q>>
  OBVIOUS
<1>6. ASSUME NEW q \in Requests
      PROVE  /\ u.http[q].state = "pending" =>
                  /\ relay.http[q].state = "pending"
                  /\ u.http[q].bytes = relay.http[q].bytes + (IF f = <<"http.body", q>> THEN 1 ELSE 0)
             /\ u.http[q].bytes + u.http[q].unread <= MaxAnswer
             /\ u.http[q].answer = "ok" /\ relay.http[q].answer # "ok" =>
                  desktop.job[q].state = "ended" /\ relay.http[q].bytes = desktop.job[q].sent
  <2>1. CASE q = r
    BY <1>1, <1>2, <1>4, <2>1 DEF Ends
  <2>2. CASE q # r
    <3>1. u.http[q] = relay.http[q]
      BY <1>2, <2>2 DEF Ends
    <3> QED
      BY <1>1, <1>4, <1>5, <2>2, <3>1
  <2> QED
    BY <2>1, <2>2
<1> QED
  BY <1>3, <1>6 DEF Received, Quiet, u

\* A quiet step is a receipt if the frame is no unit of a waiting request's answer.
LEMMA ReceivedQuiet ==
  ASSUME TunnelInv, NEW f, NEW u, RelayInv(u), Quiet(relay, u), Unanswered(relay, u),
         \A r \in Pending(relay) : f # <<"http.body", r>>
  PROVE  Received(f, u)
<1>1. /\ MaxAnswer \in Nat /\ \A q \in Requests : relay.http[q].bytes + relay.http[q].unread <= MaxAnswer
      /\ \A q \in Requests : relay.http[q].bytes \in Nat /\ relay.http[q].unread \in Nat
      /\ \A q \in Requests : u.http[q].bytes \in Nat /\ u.http[q].unread \in Nat
  BY RelayTypes, TunnelAssumption DEF TunnelInv, Stream, RelayInv, Books, RelayShape, HttpShape
<1> QED
  BY <1>1 DEF Received, Quiet, Unanswered, Pending

\* The answer that ends is finished, and whole.
LEMMA EndReceived ==
  ASSUME TunnelInv, NEW h \in Hosts, up[h] # <<>>, NEW r \in Pending(relay),
         Head(up[h]) = <<"http.end", r>>
  PROVE  desktop.job[r].state = "ended" /\ relay.http[r].bytes = desktop.job[r].sent
<1>1. /\ up[h] \in Seq(Frames) /\ Head(up[h]) = up[h][1] /\ DOMAIN up[h] = 1..Len(up[h]) /\ Len(up[h]) >= 1
      /\ Len(up[h]) \in Nat
  BY TailFrames DEF TunnelInv, Typed
<1>2. Reply(h, 1)
  BY <1>1 DEF TunnelInv, AnswerFrames
<1>3. up[h][1][1] = "http.end" /\ up[h][1][2] = r /\ r \in Requests
  BY <1>1 DEF Pending
<1>4. /\ To(r) = h /\ desktop.job[r].state = "ended"
      /\ \A j \in DOMAIN up[h] : j > 1 => up[h][j] # <<"http.body", r>>
  BY <1>2, <1>3 DEF Reply, HttpFrames
<1>5. Bodies(up[h], r) = {}
  BY <1>1, <1>3, <1>4 DEF Bodies
<1>6. relay.http[r].bytes + Cardinality(Bodies(up[h], r)) = desktop.job[r].sent
  BY <1>3, <1>4 DEF TunnelInv, Stream, Pending
<1>7. relay.http[r].bytes \in Nat
  BY <1>3, RelayTypes DEF RelayShape, HttpShape
<1> QED
  BY <1>4, <1>5, <1>6, <1>7, FS_EmptySet

\* A unit of an answer is received.
LEMMA BodyReceived ==
  ASSUME TunnelInv, NEW h \in Hosts, up[h] # <<>>, NEW r \in Pending(relay),
         Head(up[h]) = <<"http.body", r>>
  PROVE  Received(Head(up[h]), Buffer(relay, r))
<1> DEFINE f == Head(up[h])
           u == [relay EXCEPT !.http[r].bytes = @ + 1, !.buffered = @ + 1]
<1>1. CASE relay.buffered + 1 > MaxAnswerBytes
  <2>1. Received(f, Settled(relay, r, "error"))
    BY ReceivedSettled
  <2> QED
    BY <1>1, <2>1 DEF Buffer
<1>2. CASE ~ (relay.buffered + 1 > MaxAnswerBytes)
  <2>1. Buffer(relay, r) = u
    BY <1>2 DEF Buffer
  <2>2. /\ RelayInv(u) /\ Aside(relay, u, r) /\ Unanswered(relay, u)
        /\ u.http[r].bytes = relay.http[r].bytes + 1 /\ u.http[r].unread = 0
        /\ u.http[r].to = relay.http[r].to
    <3>1. RelayInv(relay) /\ r \in Requests
      BY RelayTypes DEF Pending
    <3> QED
      BY <3>1, AnswerKept
  <2> HIDE DEF u
  <2>3. Steady(relay, u)
    BY <2>2 DEF Steady, Aside
  <2>4. relay.http[r].bytes + 1 <= MaxAnswer
    <3>1. /\ up[h] \in Seq(Frames) /\ Head(up[h]) = up[h][1] /\ DOMAIN up[h] = 1..Len(up[h]) /\ Len(up[h]) >= 1
          /\ Len(up[h]) \in Nat /\ Tail(up[h]) \in Seq(Frames)
      BY TailFrames DEF TunnelInv, Typed
    <3>2. Reply(h, 1) /\ r \in Requests /\ up[h][1][1] = "http.body" /\ up[h][1][2] = r
      BY <3>1 DEF TunnelInv, AnswerFrames, Pending
    <3>3. To(r) = h
      BY <3>2 DEF Reply, HttpFrames
    <3>4. relay.http[r].bytes + Cardinality(Bodies(up[h], r)) = desktop.job[r].sent
      BY <3>2, <3>3 DEF TunnelInv, Stream, Pending
    <3>5. Cardinality(Bodies(up[h], r)) = Cardinality(Bodies(Tail(up[h]), r)) + 1
      BY <3>1, BodyTaken
    <3>6. Cardinality(Bodies(Tail(up[h]), r)) \in Nat
      BY <3>1, BodiesCount
    <3>7. relay.http[r].bytes \in Nat /\ desktop.job[r].sent \in 0..MaxAnswer /\ MaxAnswer \in Nat
      BY <3>2, RelayTypes, TunnelAssumption DEF RelayShape, HttpShape, TunnelInv, Typed, DesktopShape,
         JobShape
    <3> QED
      BY <3>4, <3>5, <3>6, <3>7
  <2>5. ASSUME NEW q \in Requests
        PROVE  /\ u.http[q].state = "pending" =>
                    /\ relay.http[q].state = "pending"
                    /\ u.http[q].bytes = relay.http[q].bytes + (IF f = <<"http.body", q>> THEN 1 ELSE 0)
               /\ u.http[q].bytes + u.http[q].unread <= MaxAnswer
    <3>1. relay.http[q].bytes \in Nat /\ relay.http[q].unread \in Nat /\ r \in Requests
          /\ relay.http[q].bytes + relay.http[q].unread <= MaxAnswer /\ relay.http[r].bytes \in Nat
          /\ MaxAnswer \in Nat /\ relay.http[r].state = "pending"
      BY RelayTypes, TunnelAssumption DEF TunnelInv, Stream, RelayShape, HttpShape, Pending
    <3>2. CASE q = r
      BY <2>2, <2>4, <3>1, <3>2
    <3>3. CASE q # r
      <4>1. u.http[q] = relay.http[q] /\ f # <<"http.body", q>>
        BY <2>2, <3>3 DEF Aside
      <4> QED
        BY <3>1, <4>1
    <3> QED
      BY <3>2, <3>3
  <2>6. Received(f, u)
    BY <2>2, <2>3, <2>5 DEF Received, Unanswered
  <2> QED
    BY <2>1, <2>6
<1> QED
  BY <1>1, <1>2

\* The end of an answer is received.
LEMMA AnswerReceived ==
  ASSUME TunnelInv, NEW h \in Hosts, up[h] # <<>>, NEW r \in Pending(relay),
         Head(up[h]) = <<"http.end", r>>, NEW result \in {"stream", "bodiless", "rejected"}
  PROVE  Received(Head(up[h]), EndResponse(relay, r, result))
<1> DEFINE f == Head(up[h])
           v == [relay EXCEPT !.http[r] = [@ EXCEPT !.unread = relay.http[r].bytes, !.bytes = 0]]
           u == Answered(v, r, "ok")
<1>1. desktop.job[r].state = "ended" /\ relay.http[r].bytes = desktop.job[r].sent
  BY EndReceived
<1>2. Received(f, Settled(relay, r, "error")) /\ Received(f, Settled(relay, r, "ok"))
  <2>1. f[2] = r
    OBVIOUS
  <2>2. Received(f, Settled(relay, r, "error"))
    BY <2>1, ReceivedSettled
  <2>3. Received(f, Settled(relay, r, "ok"))
    BY <1>1, <2>1, ReceivedSettled
  <2> QED
    BY <2>2, <2>3
<1>3. Received(f, u)
  <2>1. /\ RelayInv(relay) /\ relay \in RelayShape /\ r \in Requests /\ r \in Active(relay)
        /\ relay.http[r].unread = 0 /\ relay.http[r].state = "pending"
        /\ \A q \in Requests : relay.http[q].bytes \in Nat /\ relay.http[q].unread \in Nat
    BY RelayTypes DEF Pending, Active, RequestOK, RelayShape, HttpShape
  <2>2. Ends(relay, u, r, "ok", relay.http[r].bytes)
    BY <2>1, StreamEnds
  <2> HIDE DEF u
  <2>3. RelayInv(u) /\ Quiet(relay, u)
    <3>1. relay.http[r].bytes \in {0, relay.http[r].bytes}
      OBVIOUS
    <3>2. RelayInv(u)
      BY <2>1, <2>2, <3>1, EndsKeeps
    <3>3. Quiet(relay, u)
      BY <2>1, <2>2, <3>1, EndsQuiet
    <3> QED
      BY <3>2, <3>3
  <2>4. MaxAnswer \in Nat /\ \A q \in Requests : relay.http[q].bytes + relay.http[q].unread <= MaxAnswer
    BY TunnelAssumption DEF TunnelInv, Stream
  <2>5. ASSUME NEW q \in Requests
        PROVE  /\ u.http[q].state = "pending" =>
                    /\ relay.http[q].state = "pending"
                    /\ u.http[q].bytes = relay.http[q].bytes + (IF f = <<"http.body", q>> THEN 1 ELSE 0)
               /\ u.http[q].bytes + u.http[q].unread <= MaxAnswer
               /\ u.http[q].answer = "ok" /\ relay.http[q].answer # "ok" =>
                    desktop.job[q].state = "ended" /\ relay.http[q].bytes = desktop.job[q].sent
    <3>1. CASE q = r
      BY <1>1, <2>1, <2>2, <2>4, <3>1 DEF Ends
    <3>2. CASE q # r
      <4>1. u.http[q] = relay.http[q] /\ f # <<"http.body", q>>
        BY <2>2, <3>2 DEF Ends
      <4> QED
        BY <2>1, <2>4, <4>1
    <3> QED
      BY <3>1, <3>2
  <2> QED
    BY <2>3, <2>5 DEF Received, Quiet
<1> HIDE DEF u, v
<1> QED
  BY <1>2, <1>3 DEF EndResponse, u, v

\* What the present host sends is received.
LEMMA HandleReceives ==
  ASSUME TunnelInv, NEW h \in Hosts, up[h] # <<>>, NEW result \in {"stream", "bodiless", "rejected"}
  PROVE  Received(Head(up[h]), Handle(relay, Head(up[h]), result))
<1> DEFINE f == Head(up[h])
           r == f[2]
           u == Handle(relay, f, result)
<1>1. /\ up[h] \in Seq(Frames) /\ f = up[h][1] /\ 1 \in DOMAIN up[h] /\ f \in Frames
  BY TailFrames DEF TunnelInv, Typed
<1>2. f[1] \in {"http.response", "http.body", "http.end", "http.error", "ws.close"}
  BY <1>1 DEF TunnelInv, AnswerFrames, Reply
<1>3. f = <<f[1], f[2]>>
  BY <1>1 DEF Frames
<1>4. RelayInv(relay) /\ relay \in RelayShape
  BY RelayTypes
<1>5. Quiet(relay, relay) /\ Unanswered(relay, relay)
  <2>1. \A q \in Requests : relay.http[q].bytes \in Nat /\ relay.http[q].unread \in Nat
    BY <1>4 DEF RelayShape, HttpShape
  <2> QED
    BY <2>1 DEF Quiet, Unanswered, Steady
<1>6. CASE f[1] = "ws.close"
  <2>1. u = [relay EXCEPT !.players = @ \ {f[2]}]
    BY <1>6 DEF Handle, HttpFrames
  <2>2. [relay EXCEPT !.players = @ \ {f[2]}] = WithPlayers(relay, relay.client, relay.players \ {f[2]})
    BY <1>4 DEF WithPlayers, RelayShape
  <2>3. /\ relay.client \in [Players -> {"new", "open", "gone"}] /\ relay.players \ {f[2]} \in SUBSET Players
        /\ \A p \in relay.players \ {f[2]} : relay.client[p] = "open"
    BY <1>4 DEF RelayShape, RelayInv, HostsKnown
  <2> HIDE DEF u
  <2>4. RelayInv(u) /\ Unanswered(relay, u) /\ Alike(relay, u) /\ u.client = relay.client
    BY <1>4, <2>1, <2>2, <2>3, PlayersMove
  <2>5. Quiet(relay, u)
    BY <1>4, <2>4, AlikeQuiet
  <2>6. \A q \in Pending(relay) : f # <<"http.body", q>>
    BY <1>6
  <2>7. Received(f, u)
    BY <2>4, <2>5, <2>6, ReceivedQuiet
  <2> QED
    BY <2>7 DEF u
<1>7. CASE f[1] # "ws.close" /\ r \notin Pending(relay)
  <2>1. u = relay
    BY <1>2, <1>7 DEF Handle, HttpFrames
  <2>2. \A q \in Pending(relay) : f # <<"http.body", q>>
    BY <1>7
  <2>3. Received(f, relay)
    BY <1>4, <1>5, <2>2, ReceivedQuiet
  <2> QED
    BY <2>1, <2>3
<1>8. CASE f[1] = "http.response" /\ r \in Pending(relay)
  <2>1. u = [relay EXCEPT !.http[r].response = TRUE] /\ r \in Requests
    BY <1>8 DEF Handle, HttpFrames, Pending
  <2> HIDE DEF u
  <2>2. RelayInv(u) /\ Quiet(relay, u) /\ Unanswered(relay, u)
    BY <1>4, <2>1, AnswerBegins
  <2>3. \A q \in Pending(relay) : f # <<"http.body", q>>
    BY <1>8
  <2>4. Received(f, u)
    BY <2>2, <2>3, ReceivedQuiet
  <2> QED
    BY <2>4 DEF u
<1>9. CASE f[1] = "http.body" /\ r \in Pending(relay)
  <2>1. u = Buffer(relay, r)
    BY <1>9 DEF Handle, HttpFrames
  <2> QED
    BY <1>3, <1>9, <2>1, BodyReceived
<1>10. CASE f[1] = "http.end" /\ r \in Pending(relay)
  <2>1. u = EndResponse(relay, r, result)
    BY <1>10 DEF Handle, HttpFrames
  <2> QED
    BY <1>3, <1>10, <2>1, AnswerReceived
<1>11. CASE f[1] = "http.error" /\ r \in Pending(relay)
  <2>1. u = Settled(relay, r, "error")
    BY <1>11 DEF Handle, HttpFrames
  <2> QED
    BY <1>11, <2>1, ReceivedSettled
<1> QED
  BY <1>2, <1>6, <1>7, <1>8, <1>9, <1>10, <1>11

\* A frame comes in at the relay.
LEMMA RelayReceiveKeeps ==
  ASSUME TunnelInv, NEW h \in Hosts, RelayReceive(h)
  PROVE  TunnelInv' /\ Whole
<1> DEFINE f == Head(up[h])
           s == Tail(up[h])
<1>1. /\ up[h] # <<>> /\ up[h] \in Seq(Frames) /\ s \in Seq(Frames)
      /\ \A g \in Hosts : up[g] \in Seq(Frames) /\ up'[g] = IF g = h THEN s ELSE up[g]
      /\ up' = [up EXCEPT ![h] = s] /\ UNCHANGED <<desktop, down, faults>>
  BY TailFrames DEF RelayReceive, TunnelInv, Typed
<1>2. RelayInv(relay) /\ relay \in RelayShape
  BY RelayTypes
<1>3. /\ relay.host = h => Received(f, relay')
      /\ relay.host # h => relay' = relay
  BY <1>1, HandleReceives DEF RelayReceive
<1>4. ASSUME relay.host # h
      PROVE  /\ RelayInv(relay') /\ Steady(relay, relay') /\ Whole
             /\ \A r \in Requests : relay'.http[r] = relay.http[r]
  BY <1>2, <1>3, <1>4 DEF Steady, Whole
<1>5. RelayInv(relay') /\ Steady(relay, relay') /\ Whole
  BY <1>3, <1>4 DEF Received, Whole
<1>6. ASSUME NEW r \in Requests, relay'.http[r].state = "pending"
      PROVE  /\ relay.http[r].state = "pending" /\ To(r) = relay.host /\ To(r) \in Hosts
             /\ relay'.http[r].bytes
                  = relay.http[r].bytes + (IF To(r) = h /\ f = <<"http.body", r>> THEN 1 ELSE 0)
  <2>1. relay.http[r].bytes \in Nat
    BY <1>2 DEF RelayShape, HttpShape
  <2>2. CASE relay.host = h
    <3>1. /\ relay.http[r].state = "pending"
          /\ relay'.http[r].bytes = relay.http[r].bytes + (IF f = <<"http.body", r>> THEN 1 ELSE 0)
      BY <1>3, <1>6, <2>2 DEF Received
    <3>2. To(r) = relay.host
      BY <1>2, <3>1 DEF RelayInv, HostsKnown, To
    <3> QED
      BY <2>2, <3>1, <3>2
  <2>3. CASE relay.host # h
    <3>1. relay.http[r].state = "pending" /\ relay'.http[r].bytes = relay.http[r].bytes
      BY <1>4, <1>6, <2>3
    <3>2. To(r) = relay.host /\ relay.host \in Hosts
      BY <1>2, <3>1 DEF RelayInv, HostsKnown, To, RelayShape
    <3> QED
      BY <2>1, <2>3, <3>1, <3>2
  <2> QED
    BY <2>2, <2>3
<1>7. \A r \in Requests : To(r)' = To(r)
  BY <1>5 DEF Steady, To
<1>8. Stream'
  <2>1. ASSUME NEW r \in Requests, relay'.http[r].state = "pending"
        PROVE  relay'.http[r].bytes + Cardinality(Bodies(up'[To(r)], r)) = desktop.job[r].sent
    <3>1. relay.http[r].bytes + Cardinality(Bodies(up[To(r)], r)) = desktop.job[r].sent
      BY <1>6, <2>1 DEF TunnelInv, Stream
    <3>2. relay.http[r].bytes \in Nat
      BY <1>2 DEF RelayShape, HttpShape
    <3>3. CASE To(r) = h
      <4>1. Cardinality(Bodies(up[h], r))
              = Cardinality(Bodies(s, r)) + (IF f = <<"http.body", r>> THEN 1 ELSE 0)
        BY <1>1, BodyTaken
      <4>2. Cardinality(Bodies(s, r)) \in Nat
        BY <1>1, BodiesCount
      <4>3. up'[To(r)] = s
        BY <1>1, <3>3
      <4> HIDE DEF f, s
      <4> QED
        BY <1>6, <2>1, <3>1, <3>2, <3>3, <4>1, <4>2, <4>3
    <3>4. CASE To(r) # h
      <4>1. up'[To(r)] = up[To(r)] /\ relay'.http[r].bytes = relay.http[r].bytes
        BY <1>1, <1>6, <2>1, <3>2, <3>4
      <4> QED
        BY <3>1, <4>1
    <3> QED
      BY <3>3, <3>4
  <2>2. \A r \in Requests : relay'.http[r].bytes + relay'.http[r].unread <= MaxAnswer
    BY <1>3, <1>4 DEF Received, TunnelInv, Stream
  <2> QED
    BY <1>1, <1>7, <2>1, <2>2 DEF Stream, TunnelInv
<1>9. AnswerFrames' /\ up' \in [Hosts -> Seq(Frames)]
  BY <1>1, <1>5, RepliesTaken
<1>10. Orders' /\ Locals' /\ DesktopBooks'
  BY <1>1, <1>5, QuietOrders, BooksStay
<1> QED
  BY <1>1, <1>5, <1>8, <1>9, <1>10 DEF TunnelInv, Typed

-------------------------------------------------------------------------------
(***************************************************************************)
(* Frames to the hosts.                                                    *)
(***************************************************************************)

\* Frames are sent behind those on their way.
LEMMA JoinFrames ==
  ASSUME NEW s \in Seq(Frames), NEW n \in Seq(Frames)
  PROVE  /\ s \o n \in Seq(Frames) /\ Len(s) \in Nat /\ Len(n) \in Nat
         /\ DOMAIN s = 1..Len(s) /\ DOMAIN n = 1..Len(n) /\ DOMAIN (s \o n) = 1..(Len(s) + Len(n))
         /\ \A i \in DOMAIN s : i \in DOMAIN (s \o n) /\ (s \o n)[i] = s[i]
         /\ \A i \in DOMAIN n : Len(s) + i \in DOMAIN (s \o n) /\ (s \o n)[Len(s) + i] = n[i]
         /\ \A i \in DOMAIN (s \o n) :
              i \in DOMAIN s \/ (i - Len(s) \in DOMAIN n /\ (s \o n)[i] = n[i - Len(s)] /\ i > Len(s))
OBVIOUS

\* What may be sent to h: frames of requests that are h's, whose first two are not
\* on their way yet, and open orders of players who are there.
Sendable(h, n) ==
  \A i \in DOMAIN n :
    /\ n[i][1] \in {"http.request", "http.body", "http.end", "ws.open", "ws.close"}
    /\ n[i][1] \in HttpFrames => relay'.http[n[i][2]].to = h
    /\ n[i][1] = "http.request" => desktop.job[n[i][2]].state = "none"
    /\ n[i][1] = "http.body" => desktop.job[n[i][2]].bytes = 0
    /\ n[i][1] \in {"http.request", "http.body"} =>
         /\ \A j \in DOMAIN n : n[j] = n[i] => j = i
         /\ \A j \in DOMAIN down[h] : down[h][j] # n[i]
    /\ n[i][1] = "ws.open" => relay'.client[n[i][2]] = "open"
\* Who goes is told of: a player of h goes with a close order or with h itself.
Told(h, n) ==
  \A g \in Hosts :
    /\ relay.socket[g] # "absent" => relay'.socket[g] # "absent"
    /\ Leaving(g) => Leaving(g)'
    /\ \A p \in Players : relay.client[p] = "open" /\ relay.socket[g] # "absent" =>
         \/ relay'.client[p] = "open" \/ Leaving(g)'
         \/ g = h /\ \E j \in DOMAIN n : n[j] = <<"ws.close", p>>
\* The requests of frames on their way stay where they are.
Placed ==
  \A g \in Hosts : \A i \in DOMAIN down[g] :
    down[g][i][1] \in HttpFrames => relay'.http[down[g][i][2]].to = To(down[g][i][2])

\* What is sent is in order.
LEMMA SentOrders ==
  ASSUME TunnelInv, NEW h \in Hosts, NEW n \in Seq(Frames), down' = [down EXCEPT ![h] = @ \o n],
         relay.socket[h] # "absent", desktop' = desktop, Sendable(h, n), Told(h, n), Placed
  PROVE  Orders' /\ Locals' /\ down' \in [Hosts -> Seq(Frames)]
<1>1. /\ \A g \in Hosts : down[g] \in Seq(Frames) /\ desktop.local[g] \subseteq Players
      /\ \A g \in Hosts : down'[g] = IF g = h THEN down[h] \o n ELSE down[g]
      /\ down \in [Hosts -> Seq(Frames)]
  BY DEF TunnelInv, Typed, DesktopShape
<1> DEFINE s == down[h]
<1>2. /\ s \o n \in Seq(Frames) /\ Len(s) \in Nat /\ DOMAIN s = 1..Len(s)
      /\ \A i \in DOMAIN s : i \in DOMAIN (s \o n) /\ (s \o n)[i] = s[i]
      /\ \A i \in DOMAIN n :
           Len(s) + i \in DOMAIN (s \o n) /\ (s \o n)[Len(s) + i] = n[i] /\ i \in Nat /\ i >= 1
      /\ \A i \in DOMAIN (s \o n) :
           i \in DOMAIN s \/ (i - Len(s) \in DOMAIN n /\ (s \o n)[i] = n[i - Len(s)] /\ i > Len(s) /\ i \in Nat)
  BY <1>1, JoinFrames
<1>3. \A g \in Hosts : \A i \in DOMAIN down[g] : i \in Nat /\ i \in DOMAIN down'[g] /\ down'[g][i] = down[g][i]
  BY <1>1, <1>2
<1>4. \A g \in Hosts : \A i \in DOMAIN down[g] :
        down[g][i] \in Frames /\ Order(g, i) /\ relay.socket[g] # "absent"
  <2> SUFFICES ASSUME NEW g \in Hosts, NEW i \in DOMAIN down[g]
               PROVE  down[g][i] \in Frames /\ Order(g, i) /\ relay.socket[g] # "absent"
    OBVIOUS
  <2>1. down[g] # <<>> /\ down[g][i] \in Frames
    BY <1>1
  <2> QED
    BY <2>1 DEF TunnelInv, Orders
<1>5. ASSUME NEW p \in Players, relay.client[p] = "open", NEW g \in Hosts, relay.socket[g] # "absent",
             NEW i \in Nat, i = 0 \/ i \in DOMAIN down[g]
      PROVE  \/ relay'.client[p] = "open" \/ Leaving(g)'
             \/ \E j \in DOMAIN down'[g] : j > i /\ down'[g][j] = <<"ws.close", p>>
  <2>1. CASE g = h /\ \E j \in DOMAIN n : n[j] = <<"ws.close", p>>
    <3>1. PICK j \in DOMAIN n : n[j] = <<"ws.close", p>>
      BY <2>1
    <3>2. Len(s) + j \in DOMAIN (s \o n) /\ (s \o n)[Len(s) + j] = <<"ws.close", p>>
          /\ j \in Nat /\ j >= 1 /\ Len(s) \in Nat
      BY <1>2, <3>1
    <3>3. i <= Len(s)
      BY <1>2, <1>5, <2>1
    <3>4. Len(s) + j > i
      BY <3>2, <3>3
    <3> QED
      BY <1>1, <2>1, <3>2, <3>4
  <2>2. CASE ~ (g = h /\ \E j \in DOMAIN n : n[j] = <<"ws.close", p>>)
    BY <1>5, <2>2 DEF Told
  <2> QED
    BY <2>1, <2>2
<1>6. ASSUME NEW g \in Hosts, NEW i \in DOMAIN down[g]
      PROVE  Order(g, i)'
  <2> DEFINE f == down[g][i]
  <2>1. f \in Frames /\ Order(g, i) /\ i \in Nat /\ down'[g][i] = f /\ relay.socket[g] # "absent"
    BY <1>3, <1>4
  <2>2. f[1] \in HttpFrames => To(f[2])' = g
    BY <1>6, <2>1 DEF Placed, Order, To
  <2>3. f[1] \in {"http.request", "http.body"} => \A j \in DOMAIN down'[g] : down'[g][j] = f => j = i
    <3> SUFFICES ASSUME f[1] \in {"http.request", "http.body"}, NEW j \in DOMAIN down'[g], down'[g][j] = f
                 PROVE  j = i
      OBVIOUS
    <3>1. CASE j \in DOMAIN down[g]
      BY <1>3, <2>1, <3>1 DEF Order
    <3>2. CASE j \notin DOMAIN down[g]
      <4>1. g = h /\ j - Len(s) \in DOMAIN n /\ n[j - Len(s)] = f
        BY <1>1, <1>2, <3>2
      <4> QED
        BY <2>1, <4>1 DEF Sendable
    <3> QED
      BY <3>1, <3>2
  <2>4. f[1] = "ws.open" => \/ relay'.client[f[2]] = "open"
                            \/ Leaving(g)'
                            \/ \E j \in DOMAIN down'[g] : j > i /\ down'[g][j] = <<"ws.close", f[2]>>
    <3> SUFFICES ASSUME f[1] = "ws.open"
                 PROVE  \/ relay'.client[f[2]] = "open"
                        \/ Leaving(g)'
                        \/ \E j \in DOMAIN down'[g] : j > i /\ down'[g][j] = <<"ws.close", f[2]>>
      OBVIOUS
    <3>1. f[2] \in Players
      BY <2>1 DEF Frames, HttpFrames
    <3>2. CASE relay.client[f[2]] = "open"
      BY <1>5, <2>1, <3>1, <3>2
    <3>3. CASE Leaving(g)
      BY <3>3 DEF Told
    <3>4. CASE \E j \in DOMAIN down[g] : j > i /\ down[g][j] = <<"ws.close", f[2]>>
      BY <1>3, <3>4
    <3> QED
      BY <2>1, <3>2, <3>3, <3>4 DEF Order
  <2> QED
    BY <2>1, <2>2, <2>3, <2>4 DEF Order
<1>7. ASSUME NEW i \in DOMAIN down'[h], i \notin DOMAIN down[h]
      PROVE  Order(h, i)'
  <2> DEFINE k == i - Len(s)
  <2>1. k \in DOMAIN n /\ down'[h][i] = n[k] /\ i > Len(s) /\ i \in Nat
    BY <1>1, <1>2, <1>7
  <2>2. n[k][1] \in {"http.request", "http.body"} => \A j \in DOMAIN down'[h] : down'[h][j] = n[k] => j = i
    <3> SUFFICES ASSUME n[k][1] \in {"http.request", "http.body"}, NEW j \in DOMAIN down'[h], down'[h][j] = n[k]
                 PROVE  j = i
      OBVIOUS
    <3>1. j \notin DOMAIN down[h]
      BY <1>3, <2>1 DEF Sendable
    <3>2. j - Len(s) \in DOMAIN n /\ n[j - Len(s)] = n[k] /\ j \in Nat
      BY <1>1, <1>2, <3>1
    <3>3. j - Len(s) = k
      BY <2>1, <3>2 DEF Sendable
    <3> QED
      BY <1>2, <2>1, <3>2, <3>3
  <2> HIDE DEF k
  <2> QED
    BY <2>1, <2>2 DEF Sendable, Order, To
<1>8. ASSUME NEW g \in Hosts
      PROVE  /\ \A i \in DOMAIN down'[g] : Order(g, i)'
             /\ relay'.socket[g] = "absent" => down'[g] = <<>> /\ desktop.local[g] = {}
  <2>1. \A i \in DOMAIN down'[g] : Order(g, i)'
    BY <1>1, <1>6, <1>7
  <2>2. relay'.socket[g] = "absent" => down'[g] = <<>> /\ desktop.local[g] = {}
    BY <1>1 DEF Told, TunnelInv, Orders
  <2> QED
    BY <2>1, <2>2
<1>9. ASSUME NEW g \in Hosts, NEW p \in desktop.local[g]
      PROVE  \/ relay'.client[p] = "open" \/ Leaving(g)'
             \/ \E j \in DOMAIN down'[g] : down'[g][j] = <<"ws.close", p>>
  <2>1. p \in Players /\ relay.socket[g] # "absent"
    BY <1>1 DEF TunnelInv, Orders
  <2>2. CASE relay.client[p] = "open"
    BY <1>5, <2>1, <2>2
  <2>3. CASE Leaving(g)
    BY <2>3 DEF Told
  <2>4. CASE \E j \in DOMAIN down[g] : down[g][j] = <<"ws.close", p>>
    BY <1>3, <2>4
  <2> QED
    BY <2>2, <2>3, <2>4 DEF TunnelInv, Locals
<1>10. Orders'
  BY <1>8 DEF Orders
<1>11. Locals'
  BY <1>9 DEF Locals
<1>12. down' \in [Hosts -> Seq(Frames)]
  BY <1>1, <1>2
<1> QED
  BY <1>10, <1>11, <1>12

\* Frames of request r, each of them once
FramesOf(r, n) ==
  /\ n \in Seq(Frames)
  /\ \A i \in DOMAIN n : /\ n[i] = <<n[i][1], r>> /\ n[i][2] = r
                         /\ n[i][1] \in {"http.request", "http.body", "http.end"}
                         /\ \A j \in DOMAIN n : n[j] = n[i] => j = i

\* A request's frames.
LEMMA RequestFrames ==
  ASSUME NEW r \in Requests
  PROVE  FramesOf(r, HttpRequest(r))
<1>1. \A k \in {"http.request", "http.body", "http.end"} :
        <<k, r>> \in Frames /\ <<k, r>>[1] = k /\ <<k, r>>[2] = r
  BY DEF Frames, HttpFrames
<1> DEFINE a == <<"http.request", r>>
           b == <<"http.body", r>>
           c == <<"http.end", r>>
<1>2. a \in Frames /\ b \in Frames /\ c \in Frames /\ a # b /\ b # c /\ a # c
  BY <1>1
<1>3. CASE r \in Uploads
  <2>1. HttpRequest(r) = (<<a>> \o <<b>>) \o <<c>>
    BY <1>3 DEF HttpRequest
  <2> HIDE DEF a, b, c
  <2>2. <<a>> \in Seq(Frames) /\ Len(<<a>>) = 1 /\ <<a>>[1] = a
    BY <1>2
  <2> DEFINE v == <<a>> \o <<b>>
             n == v \o <<c>>
  <2>3. v \in Seq(Frames) /\ DOMAIN v = 1..2 /\ v[1] = a /\ v[2] = b /\ Len(v) = 2
    BY <1>2, <2>2, MoreFrames
  <2> HIDE DEF v
  <2>4. n \in Seq(Frames) /\ DOMAIN n = 1..3 /\ n[1] = a /\ n[2] = b /\ n[3] = c
    <3>1. /\ n \in Seq(Frames) /\ DOMAIN n = 1..(Len(v) + 1)
          /\ \A i \in DOMAIN v : n[i] = v[i]
          /\ n[Len(v) + 1] = c
      BY <1>2, <2>3, MoreFrames
    <3> HIDE DEF n
    <3> QED
      BY <2>3, <3>1
  <2>5. /\ a = <<a[1], r>> /\ a[2] = r /\ a[1] = "http.request"
        /\ b = <<b[1], r>> /\ b[2] = r /\ b[1] = "http.body"
        /\ c = <<c[1], r>> /\ c[2] = r /\ c[1] = "http.end"
    BY DEF a, b, c
  <2>6. HttpRequest(r) = n
    BY <2>1 DEF v
  <2> HIDE DEF n
  <2> QED
    BY <1>2, <2>4, <2>5, <2>6 DEF FramesOf
<1>4. CASE r \notin Uploads
  <2>1. HttpRequest(r) = (<<a>> \o <<>>) \o <<c>>
    BY <1>4 DEF HttpRequest
  <2> HIDE DEF a, b, c
  <2>2. <<a>> \in Seq(Frames) /\ Len(<<a>>) = 1 /\ <<a>>[1] = a
    BY <1>2
  <2> DEFINE n == <<a>> \o <<c>>
  <2>3. n \in Seq(Frames) /\ DOMAIN n = 1..2 /\ n[1] = a /\ n[2] = c
    BY <1>2, <2>2, MoreFrames
  <2>4. HttpRequest(r) = n
    BY <2>1, <2>2, NoFrames
  <2> HIDE DEF n
  <2>5. /\ a = <<a[1], r>> /\ a[2] = r /\ a[1] = "http.request"
        /\ c = <<c[1], r>> /\ c[2] = r /\ c[1] = "http.end"
    BY DEF a, c
  <2> QED
    BY <1>2, <2>3, <2>4, <2>5 DEF FramesOf
<1> QED
  BY <1>3, <1>4

\* The first of some frames of a request.
LEMMA FirstFrames ==
  ASSUME NEW r \in Requests, NEW s, FramesOf(r, s), NEW k \in 1..Len(s)
  PROVE  FramesOf(r, SubSeq(s, 1, k - 1))
<1> DEFINE n == SubSeq(s, 1, k - 1)
<1>1. s \in Seq(Frames) /\ Len(s) \in Nat /\ DOMAIN s = 1..Len(s) /\ k - 1 \in 0..Len(s)
  BY DEF FramesOf
<1>2. n \in Seq(Frames) /\ DOMAIN n = 1..(k - 1) /\ \A i \in 1..(k - 1) : n[i] = s[i]
  BY <1>1
<1>3. \A i \in DOMAIN n : i \in DOMAIN s /\ n[i] = s[i]
  BY <1>1, <1>2
<1> HIDE DEF n
<1>4. FramesOf(r, n)
  BY <1>2, <1>3 DEF FramesOf
<1> QED
  BY <1>4 DEF n

\* What assigning request r to host h leaves.
Assigned(t, u, r, h) ==
  /\ t.http[r].to = None /\ u.http[r].to = h /\ u.http[r].bytes = 0 /\ u.http[r].unread = 0
  /\ \A g \in Hosts :
       /\ t.socket[g] # "absent" => u.socket[g] # "absent"
       /\ t.socket[g] \in {"closing", "closed"} => u.socket[g] \in {"closing", "closed"}
  /\ u.client = t.client
  /\ \A q \in Requests \ {r} :
       /\ u.http[q].to = t.http[q].to
       /\ u.http[q].state = "pending" => t.http[q].state = "pending" /\ u.http[q].bytes = t.http[q].bytes
       /\ u.http[q].bytes + u.http[q].unread <= t.http[q].bytes + t.http[q].unread

\* A request is assigned to its host, whether its frames get through, or some of
\* them, or none.
LEMMA AssignedKeeps ==
  ASSUME TunnelInv, NEW r \in Requests, NEW h \in Hosts, RelayInv(relay'),
         Assigned(relay, relay', r, h),
         relay.socket[h] # "absent", UNCHANGED <<desktop, up>>, faults' \in 0..MaxFaults,
         NEW n, FramesOf(r, n), down' = [down EXCEPT ![h] = @ \o n]
  PROVE  TunnelInv'
<1>1. h # None /\ MaxAnswer \in Nat
  BY TunnelAssumption
<1>2. To(r) = None /\ To(r)' = h /\ relay'.http[r].to = h /\ \A q \in Requests : q # r => To(q)' = To(q)
  BY DEF Assigned, To
<1>3. desktop.job[r].state = "none" /\ desktop.job[r].bytes = 0 /\ desktop.job[r].sent = 0
  BY <1>2 DEF TunnelInv, Stream
<1>4. ASSUME NEW g \in Hosts, NEW i \in DOMAIN down[g]
      PROVE  down[g][i][1] \in HttpFrames => down[g][i][2] # r /\ down[g][i][2] \in Requests
  <2>1. Order(g, i) /\ down[g][i] \in Frames /\ g # None
    BY TunnelAssumption DEF TunnelInv, Orders, Typed
  <2> QED
    BY <1>2, <2>1 DEF Order, Frames, HttpFrames
<1>5. ASSUME NEW g \in Hosts, NEW i \in DOMAIN up[g]
      PROVE  /\ up[g][i][1] \in HttpFrames => up[g][i][2] # r /\ up[g][i][2] \in Requests
             /\ Reply(g, i)
  <2>1. Reply(g, i) /\ up[g][i] \in Frames /\ g # None
    BY TunnelAssumption DEF TunnelInv, AnswerFrames, Typed
  <2> QED
    BY <1>2, <2>1 DEF Reply, Frames, HttpFrames
<1>6. Placed
  BY <1>4 DEF Placed, Assigned, To
<1>7. down' = [down EXCEPT ![h] = @ \o n]
  OBVIOUS
<1>8. /\ n \in Seq(Frames)
      /\ \A i \in DOMAIN n : /\ n[i] = <<n[i][1], r>> /\ n[i][2] = r
                             /\ n[i][1] \in {"http.request", "http.body", "http.end"}
                             /\ \A j \in DOMAIN n : n[j] = n[i] => j = i
  BY DEF FramesOf
<1>9. Sendable(h, n)
  <2> SUFFICES ASSUME NEW i \in DOMAIN n
               PROVE  /\ n[i][1] \in {"http.request", "http.body", "http.end", "ws.open", "ws.close"}
                      /\ n[i][1] \in HttpFrames => relay'.http[n[i][2]].to = h
                      /\ n[i][1] = "http.request" => desktop.job[n[i][2]].state = "none"
                      /\ n[i][1] = "http.body" => desktop.job[n[i][2]].bytes = 0
                      /\ n[i][1] \in {"http.request", "http.body"} =>
                           /\ \A j \in DOMAIN n : n[j] = n[i] => j = i
                           /\ \A j \in DOMAIN down[h] : down[h][j] # n[i]
                      /\ n[i][1] = "ws.open" => relay'.client[n[i][2]] = "open"
    BY DEF Sendable
  <2>1. \A j \in DOMAIN down[h] : down[h][j] # n[i]
    BY <1>4, <1>8 DEF HttpFrames
  <2>2. n[i][1] # "ws.open" /\ n[i][2] = r
    BY <1>8
  <2> QED
    BY <1>2, <1>3, <1>8, <2>1, <2>2
<1>10. Told(h, n)
  BY DEF Told, Assigned, Leaving
<1>11. Orders' /\ Locals' /\ down' \in [Hosts -> Seq(Frames)]
  BY <1>6, <1>7, <1>8, <1>9, <1>10, SentOrders
<1>12. AnswerFrames'
  <2> SUFFICES ASSUME NEW g \in Hosts, NEW i \in DOMAIN up[g]
               PROVE  Reply(g, i)'
    BY DEF AnswerFrames
  <2> QED
    BY <1>2, <1>5 DEF Reply
<1>13. Stream'
  <2>1. Bodies(up[h], r) = {}
    BY <1>5 DEF Bodies, HttpFrames
  <2>2. ASSUME NEW q \in Requests
        PROVE  /\ relay'.http[q].state = "pending" =>
                    relay'.http[q].bytes + Cardinality(Bodies(up[To(q)'], q)) = desktop.job[q].sent
               /\ relay'.http[q].bytes + relay'.http[q].unread <= MaxAnswer
               /\ To(q)' = None => /\ desktop.job[q].state = "none" /\ desktop.job[q].bytes = 0
                                   /\ desktop.job[q].sent = 0
    <3>1. CASE q = r
      <4>1. Cardinality(Bodies(up[h], r)) = 0
        BY <2>1, FS_EmptySet
      <4>2. relay'.http[r].bytes = 0 /\ relay'.http[r].unread = 0
        BY DEF Assigned
      <4> QED
        BY <1>1, <1>2, <1>3, <3>1, <4>1, <4>2
    <3>2. CASE q # r
      <4>1. /\ relay.http[q].bytes \in Nat /\ relay.http[q].unread \in Nat
            /\ relay'.http[q].bytes \in Nat /\ relay'.http[q].unread \in Nat
        BY RelayTypes DEF RelayInv, Books, RelayShape, HttpShape
      <4>2. /\ relay'.http[q].state = "pending" =>
                 relay.http[q].state = "pending" /\ relay'.http[q].bytes = relay.http[q].bytes
            /\ relay'.http[q].bytes + relay'.http[q].unread <= relay.http[q].bytes + relay.http[q].unread
        BY <3>2 DEF Assigned
      <4>3. /\ relay.http[q].state = "pending" =>
                 relay.http[q].bytes + Cardinality(Bodies(up[To(q)], q)) = desktop.job[q].sent
            /\ relay.http[q].bytes + relay.http[q].unread <= MaxAnswer
            /\ To(q) = None => /\ desktop.job[q].state = "none" /\ desktop.job[q].bytes = 0
                               /\ desktop.job[q].sent = 0
        BY DEF TunnelInv, Stream
      <4>4. To(q)' = To(q)
        BY <1>2, <3>2
      <4>5. relay'.http[q].bytes + relay'.http[q].unread <= MaxAnswer
        <5> DEFINE x == relay'.http[q].bytes
                   y == relay'.http[q].unread
                   v == relay.http[q].bytes
                   w == relay.http[q].unread
        <5>1. x + y <= v + w /\ v + w <= MaxAnswer
          BY <4>2, <4>3
        <5>2. x \in Nat /\ y \in Nat /\ v \in Nat /\ w \in Nat
          BY <4>1
        <5> HIDE DEF x, y, v, w
        <5>3. x + y <= MaxAnswer
          BY <1>1, <5>1, <5>2
        <5> QED
          BY <5>3 DEF x, y
      <4>6. relay'.http[q].state = "pending" =>
              relay'.http[q].bytes + Cardinality(Bodies(up[To(q)'], q)) = desktop.job[q].sent
        BY <4>2, <4>3, <4>4
      <4> QED
        BY <4>3, <4>4, <4>5, <4>6
    <3> QED
      BY <3>1, <3>2
  <2> QED
    BY <2>2 DEF Stream
<1>14. DesktopBooks'
  <2>1. ASSUME NEW g \in Hosts
        PROVE  OwnBytes(g)' = OwnBytes(g)
    <3>1. \A q \in Requests : (IF To(q)' = g THEN desktop.job[q].bytes ELSE 0)
                                = IF To(q) = g THEN desktop.job[q].bytes ELSE 0
      BY <1>2, <1>3
    <3> QED
      BY <3>1 DEF OwnBytes
  <2> QED
    BY <2>1 DEF DesktopBooks, TunnelInv
<1>15. Typed'
  BY <1>11 DEF TunnelInv, Typed
<1> QED
  BY <1>11, <1>12, <1>13, <1>14, <1>15 DEF TunnelInv

\* A request whose body is in is refused, or goes to the present host.
LEMMA ForwardKeeps ==
  ASSUME TunnelInv, NEW t, NEW r \in Requests, RelayInv(t), Alike(relay, t), t.client = relay.client,
         t.http[r].state = "uploading", Forward(t, r)
  PROVE  TunnelInv' /\ NoneAnswered
<1>1. /\ t \in RelayShape /\ t.http[r].bytes = 0 /\ t.http[r].unread = 0 /\ t.http[r].to = None
      /\ r \in Active(t) /\ RelayInv(relay)
  BY RelayTypes DEF RelayInv, Books, RequestOK, Active
<1>2. CASE ~Connected(t)
  <2> DEFINE u == Answered(t, r, "error")
  <2>1. Ends(t, u, r, "error", 0)
    BY <1>1, AnsweredEnds
  <2> HIDE DEF u
  <2>2. RelayInv(u) /\ Quiet(t, u) /\ Unanswered(t, u) /\ 0 \in {0, t.http[r].bytes}
    <3>1. 0 \in {0, t.http[r].bytes}
      OBVIOUS
    <3>2. RelayInv(u)
      BY <1>1, <2>1, <3>1, EndsKeeps
    <3>3. Quiet(t, u) /\ Unanswered(t, u)
      BY <1>1, <2>1, <3>1, EndsQuiet
    <3> QED
      BY <3>2, <3>3
  <2>3. Quiet(relay, u)
    BY <2>2, QuietFrom
  <2>4. Unanswered(relay, u)
    BY <2>2 DEF Unanswered, Alike
  <2>5. RelayOnly(u)
    BY <1>2 DEF Forward, u
  <2> QED
    BY <2>2, <2>3, <2>4, <2>5, RelayAlone
<1>3. CASE Connected(t)
  <2> DEFINE h == t.host
             v == [t EXCEPT !.http[r] = [@ EXCEPT !.state = "pending", !.to = t.host]]
  <2>1. /\ RelayInv(v) /\ Aside(t, v, r) /\ Unanswered(t, v) /\ v.host = h /\ h \in Hosts
        /\ v.http[r].to = h /\ v.http[r].bytes = 0 /\ v.http[r].unread = 0
        /\ v.http[r].state = "pending" /\ v.http[r].answer = "none" /\ t.http[r].to = None
    BY <1>3, Routed
  <2>2. relay.socket[h] # "absent" /\ relay.http[r].to = None
    BY <1>1, <1>3 DEF Connected, Alike
  <2>3. \/ Sent(h, HttpRequest(r), v)
        \/ PartlySent(h, HttpRequest(r), [CloseHost(v, h) EXCEPT !.http[r].answer = "error"])
    BY <1>3 DEF Forward
  <2> HIDE DEF v, h
  <2>4. \A q \in Requests : /\ relay.http[q].bytes \in Nat /\ relay.http[q].unread \in Nat
                            /\ v.http[q].bytes \in Nat /\ v.http[q].unread \in Nat
    BY <1>1, <2>1 DEF RelayInv, Books, RelayShape, HttpShape
  <2>5. Assigned(relay, v, r, h)
    BY <2>1, <2>2, <2>4 DEF Assigned, Alike, Aside
  <2>6. Unanswered(relay, v)
    BY <2>1 DEF Unanswered, Alike
  <2>7. CASE Sent(h, HttpRequest(r), v)
    <3>1. /\ relay' = v /\ down' = [down EXCEPT ![h] = @ \o HttpRequest(r)]
          /\ UNCHANGED <<desktop, up>> /\ faults' \in 0..MaxFaults
      BY <2>7 DEF Sent, TunnelInv
    <3> QED
      BY <2>1, <2>2, <2>5, <2>6, <3>1, RequestFrames, AssignedKeeps DEF NoneAnswered
  <2>8. CASE PartlySent(h, HttpRequest(r), [CloseHost(v, h) EXCEPT !.http[r].answer = "error"])
    <3> DEFINE w == CloseHost(v, h)
               x == [w EXCEPT !.http[r].answer = "error"]
    <3>1. RelayInv(w) /\ Quiet(v, w) /\ Unanswered(v, w) /\ Pending(w) = {}
      BY <2>1, CloseKeeps
    <3>2. w = LoseHost(v, h) /\ Loses(v, w, h)
      BY <2>1, LoseHostFields DEF CloseHost
    <3> HIDE DEF w
    <3>3. w.http[r].state = "ended" /\ w.http[r].bytes = 0 /\ w.http[r].unread = 0 /\ w.client = v.client
      BY <2>1, <3>2 DEF Loses, Pending
    <3>4. /\ RelayInv(x) /\ Aside(w, x, r) /\ Unanswered(w, x)
          /\ x.http[r].to = w.http[r].to /\ x.http[r].state = "ended"
          /\ x.http[r].bytes = 0 /\ x.http[r].unread = 0
      BY <3>1, <3>3, AnswerCorrected
    <3>5. /\ relay' = x /\ UNCHANGED <<desktop, up>> /\ faults' \in 0..MaxFaults
          /\ \E k \in 1..Len(HttpRequest(r)) :
               down' = [down EXCEPT ![h] = @ \o SubSeq(HttpRequest(r), 1, k - 1)]
      <4> HIDE DEF x
      <4>1. PartlySent(h, HttpRequest(r), x)
        BY <2>8 DEF w, x
      <4> DEFINE frames == HttpRequest(r)
      <4> HIDE DEF frames
      <4>2. PartlySent(h, frames, x)
        BY <4>1 DEF frames
      <4>3. relay' = x /\ UNCHANGED <<desktop, up>> /\ faults < MaxFaults /\ faults' = faults + 1
        BY <4>2 DEF PartlySent
      <4>4. \E k \in 1..Len(frames) : down' = [down EXCEPT ![h] = @ \o SubSeq(frames, 1, k - 1)]
        BY <4>2, Zenon DEF PartlySent
      <4>5. faults \in 0..MaxFaults /\ MaxFaults \in Nat
        BY TunnelAssumption DEF TunnelInv
      <4>6. faults' \in 0..MaxFaults
        BY <4>3, <4>5
      <4>7. \E k \in 1..Len(HttpRequest(r)) :
              down' = [down EXCEPT ![h] = @ \o SubSeq(HttpRequest(r), 1, k - 1)]
        BY <4>4, Zenon DEF frames
      <4> QED
        BY <4>3, <4>6, <4>7, Zenon
    <3>6. PICK n : FramesOf(r, n) /\ down' = [down EXCEPT ![h] = @ \o n]
      BY <3>5, RequestFrames, FirstFrames
    <3> HIDE DEF x
    <3>7. w.http[r].to = h
      BY <2>1, <3>1 DEF Quiet, Steady
    <3>8. ASSUME NEW q \in Requests, q # r
          PROVE  /\ x.http[q].to = relay.http[q].to
                 /\ x.http[q].state = "pending" =>
                      relay.http[q].state = "pending" /\ x.http[q].bytes = relay.http[q].bytes
                 /\ x.http[q].bytes + x.http[q].unread <= relay.http[q].bytes + relay.http[q].unread
      <4>1. x.http[q] = w.http[q] /\ v.http[q] = t.http[q]
        BY <2>1, <3>4, <3>8 DEF Aside
      <4>2. /\ w.http[q].to = v.http[q].to
            /\ w.http[q].state = "pending" => v.http[q].state = "pending" /\ w.http[q].bytes = v.http[q].bytes
            /\ w.http[q].bytes + w.http[q].unread <= v.http[q].bytes + v.http[q].unread
        BY <3>1 DEF Quiet, Steady
      <4>3. /\ t.http[q].to = relay.http[q].to
            /\ t.http[q].bytes = relay.http[q].bytes /\ t.http[q].unread = relay.http[q].unread
            /\ t.http[q].state = "pending" => relay.http[q].state = "pending"
        BY DEF Alike
      <4> QED
        BY <4>1, <4>2, <4>3
    <3>9. ASSUME NEW g \in Hosts
          PROVE  /\ relay.socket[g] # "absent" => x.socket[g] # "absent"
                 /\ relay.socket[g] \in {"closing", "closed"} => x.socket[g] \in {"closing", "closed"}
      BY <2>1, <3>1, <3>4 DEF Quiet, Steady, Aside, Alike
    <3>10. x.client = relay.client
      BY <2>1, <3>3, <3>4 DEF Aside
    <3>11. Assigned(relay, x, r, h)
      BY <2>2, <3>4, <3>7, <3>8, <3>9, <3>10 DEF Assigned
    <3>12. Unanswered(relay, x)
      BY <2>6, <3>1, <3>4 DEF Unanswered
    <3> QED
      BY <2>1, <2>2, <3>4, <3>5, <3>11, <3>12, <3>6, AssignedKeeps DEF NoneAnswered
  <2> QED
    BY <2>3, <2>7, <2>8
<1> QED
  BY <1>2, <1>3

\* A request comes.
LEMMA BeginKeeps ==
  ASSUME TunnelInv, NEW r \in Requests, Begin(r)
  PROVE  TunnelInv' /\ NoneAnswered
<1> DEFINE t == [relay EXCEPT !.active = @ + 1, !.http[r].state = "uploading"]
           u == [relay EXCEPT !.http[r] = [@ EXCEPT !.state = "ended", !.answer = "error"]]
<1>1. RelayInv(relay) /\ relay.http[r].state = "new"
  BY RelayTypes DEF Begin
<1>2. RelayOnly(u) \/ RelayOnly(t) \/ Forward(t, r)
  BY DEF Begin
<1>3. RelayInv(u) /\ Quiet(relay, u) /\ Unanswered(relay, u)
  BY <1>1, Refused
<1>4. /\ RelayInv(t) /\ Alike(relay, t) /\ t.client = relay.client
      /\ t.http[r].state = "uploading"
  BY <1>1, Counted
<1> HIDE DEF t, u
<1>5. Quiet(relay, t) /\ Unanswered(relay, t)
  BY <1>1, <1>4, AlikeQuiet
<1>6. CASE RelayOnly(u)
  BY <1>3, <1>6, RelayAlone
<1>7. CASE RelayOnly(t)
  BY <1>4, <1>5, <1>7, RelayAlone
<1>8. CASE Forward(t, r)
  BY <1>4, <1>8, ForwardKeeps
<1> QED
  BY <1>2, <1>6, <1>7, <1>8

\* A request of the relay fails.
LEMMA FailsKeeps ==
  ASSUME TunnelInv, NEW u, NEW r \in Active(relay), RelayOnly(u), Ends(relay, u, r, "error", 0)
  PROVE  TunnelInv' /\ NoneAnswered
<1>1. RelayInv(relay) /\ r \in Requests /\ 0 \in {0, relay.http[r].bytes}
  BY RelayTypes DEF Active
<1>2. RelayInv(u)
  BY <1>1, EndsKeeps
<1>3. Quiet(relay, u) /\ Unanswered(relay, u)
  BY <1>1, EndsQuiet
<1> QED
  BY <1>2, <1>3, RelayAlone

\* A unit of a body comes in.
LEMMA ReserveKeeps ==
  ASSUME TunnelInv, NEW r \in Requests, Reserve(r)
  PROVE  TunnelInv' /\ NoneAnswered
<1>1. /\ RelayInv(relay) /\ relay \in RelayShape /\ r \in Active(relay)
      /\ relay.http[r].bytes = 0 /\ relay.http[r].unread = 0 /\ relay.http[r].reserved = 0
  BY RelayTypes DEF Reserve, RequestOK, Active
<1>2. CASE RelayOnly(Answered(relay, r, "error"))
  <2>1. Ends(relay, Answered(relay, r, "error"), r, "error", 0)
    BY <1>1, AnsweredEnds
  <2> QED
    BY <1>1, <1>2, <2>1, FailsKeeps
<1>3. CASE RelayOnly([relay EXCEPT !.uploaded = @ + 1, !.http[r].reserved = 1])
  <2> DEFINE u == [relay EXCEPT !.uploaded = @ + 1, !.http[r].reserved = 1]
  <2>1. RelayInv(u) /\ Quiet(relay, u) /\ Unanswered(relay, u)
    BY <1>1, BodyKept
  <2> QED
    BY <1>3, <2>1, RelayAlone
<1> QED
  BY <1>2, <1>3 DEF Reserve

\* The body is in.
LEMMA BodyIsInKeeps ==
  ASSUME TunnelInv, NEW r \in Requests, BodyIsIn(r)
  PROVE  TunnelInv' /\ NoneAnswered
<1>1. RelayInv(relay) /\ relay.http[r].state = "uploading" /\ Forward(relay, r)
  BY RelayTypes DEF BodyIsIn
<1>2. Alike(relay, relay)
  BY DEF Alike
<1> QED
  BY <1>1, <1>2, ForwardKeeps

\* The client goes away while it uploads.
LEMMA UploadBreaksKeeps ==
  ASSUME TunnelInv, NEW r \in Requests, UploadBreaks(r)
  PROVE  TunnelInv' /\ NoneAnswered
<1>1. /\ relay \in RelayShape /\ r \in Active(relay)
      /\ relay.http[r].bytes = 0 /\ relay.http[r].unread = 0
  BY RelayTypes DEF UploadBreaks, RequestOK, Active
<1>2. Ends(relay, Answered(relay, r, "error"), r, "error", 0)
  BY <1>1, AnsweredEnds
<1> QED
  BY <1>1, <1>2, FailsKeeps DEF UploadBreaks

\* The host does not answer in time.
LEMMA TimeoutKeeps ==
  ASSUME TunnelInv, NEW r \in Requests, Timeout(r)
  PROVE  TunnelInv' /\ NoneAnswered
<1>1. relay \in RelayShape /\ r \in Active(relay) /\ relay.http[r].unread = 0
  BY RelayTypes DEF Timeout, RequestOK, Active, Pending
<1>2. Ends(relay, Settled(relay, r, "error"), r, "error", 0)
  BY <1>1, SettledEnds
<1> QED
  BY <1>1, <1>2, FailsKeeps DEF Timeout

\* The client reads its answer.
LEMMA ReadKeeps ==
  ASSUME TunnelInv, NEW r \in Requests, NEW n \in 1..MaxAnswer, ReadAnswer(r, n)
  PROVE  TunnelInv' /\ NoneAnswered
<1> DEFINE u == [relay EXCEPT !.http[r].unread = @ - n, !.buffered = Least0(@ - n)]
<1>1. RelayInv(relay) /\ n \in 1..relay.http[r].unread /\ RelayOnly(u)
  BY RelayTypes DEF ReadAnswer
<1>2. RelayInv(u) /\ Quiet(relay, u) /\ Unanswered(relay, u)
  BY <1>1, UnitsRead
<1> QED
  BY <1>1, <1>2, RelayAlone

\* Where no request changes, nor an answer's frames, what is known of them stays.
LEMMA HttpStays ==
  ASSUME TunnelInv, relay'.http = relay.http, up' = up, desktop'.job = desktop.job,
         desktop'.bytes = desktop.bytes
  PROVE  AnswerFrames' /\ Stream' /\ DesktopBooks'
<1>1. \A r \in Requests : To(r)' = To(r)
  BY DEF To
<1>2. ASSUME NEW h \in Hosts, NEW i \in DOMAIN up[h]
      PROVE  Reply(h, i)'
  <2>1. up[h][i] \in Frames /\ Reply(h, i)
    BY DEF TunnelInv, AnswerFrames, Typed
  <2>2. up[h][i][1] \in HttpFrames => up[h][i][2] \in Requests
    BY <2>1 DEF Frames, HttpFrames
  <2> QED
    BY <1>1, <2>1, <2>2 DEF Reply
<1>3. \A h \in Hosts : OwnBytes(h)' = OwnBytes(h)
  BY <1>1 DEF OwnBytes
<1>4. Stream'
  BY <1>1 DEF Stream, TunnelInv
<1> QED
  BY <1>2, <1>3, <1>4 DEF AnswerFrames, DesktopBooks, TunnelInv

\* A frame about a player is sent to the present host.
LEMMA PlayerFrame ==
  ASSUME TunnelInv, NEW u, NEW p \in Players, NEW k \in {"ws.open", "ws.close"}, Connected(relay),
         RelayInv(u), Alike(relay, u), u.http = relay.http, Sent(relay.host, <<<<k, p>>>>, u),
         k = "ws.open" => u.client[p] = "open",
         \A q \in Players : relay.client[q] = "open" => u.client[q] = "open" \/ (q = p /\ k = "ws.close")
  PROVE  TunnelInv' /\ NoneAnswered
<1> DEFINE h == relay.host
           n == <<<<k, p>>>>
<1>1. /\ h \in Hosts /\ relay.socket[h] # "absent" /\ RelayInv(relay)
      /\ \A g \in Hosts : relay.socket[g] \in {"accepted", "open"} => g = h
      /\ relay \in RelayShape
  BY RelayTypes DEF Connected, RelayInv, HostsKnown
<1>2. relay' = u /\ down' = [down EXCEPT ![h] = @ \o n] /\ UNCHANGED <<desktop, up, faults>>
  BY DEF Sent
<1>3. /\ n \in Seq(Frames) /\ DOMAIN n = {1} /\ n[1] = <<k, p>> /\ n[1][1] = k /\ n[1][2] = p
      /\ k \notin HttpFrames
  BY DEF Frames, HttpFrames
<1> HIDE DEF n, h
<1>4. Sendable(h, n)
  BY <1>2, <1>3 DEF Sendable
<1>5. u.socket = relay.socket
  BY DEF Alike
<1>6. Told(h, n)
  <2> SUFFICES ASSUME NEW g \in Hosts
               PROVE  /\ relay.socket[g] # "absent" => relay'.socket[g] # "absent"
                      /\ Leaving(g) => Leaving(g)'
                      /\ \A q \in Players : relay.client[q] = "open" /\ relay.socket[g] # "absent" =>
                           \/ relay'.client[q] = "open" \/ Leaving(g)'
                           \/ g = h /\ \E j \in DOMAIN n : n[j] = <<"ws.close", q>>
    BY DEF Told
  <2>1. (relay.socket[g] # "absent" => relay'.socket[g] # "absent") /\ (Leaving(g) => Leaving(g)')
    BY <1>2, <1>5 DEF Leaving
  <2>2. ASSUME NEW q \in Players, relay.client[q] = "open", relay.socket[g] # "absent", g # h
        PROVE  Leaving(g)'
    BY <1>1, <1>2, <1>5, <2>2 DEF Leaving, RelayShape
  <2>3. ASSUME NEW q \in Players, relay.client[q] = "open", relay'.client[q] # "open"
        PROVE  \E j \in DOMAIN n : n[j] = <<"ws.close", q>>
    BY <1>2, <1>3, <2>3
  <2> QED
    BY <2>1, <2>2, <2>3
<1>7. Placed
  BY <1>2 DEF Placed, To
<1>8. Orders' /\ Locals' /\ down' \in [Hosts -> Seq(Frames)]
  BY <1>1, <1>2, <1>3, <1>4, <1>6, <1>7, SentOrders
<1>9. AnswerFrames' /\ Stream' /\ DesktopBooks'
  BY <1>2, HttpStays
<1>10. NoneAnswered
  BY <1>2 DEF NoneAnswered, Unanswered
<1> QED
  BY <1>2, <1>8, <1>9, <1>10 DEF TunnelInv, Typed

\* A send about a player throws, and the host is closed.
LEMMA PlayerThrows ==
  ASSUME TunnelInv, NEW u, RelayInv(u), Alike(relay, u), u.host = relay.host, Connected(relay),
         SendThrows(CloseHost(u, relay.host))
  PROVE  TunnelInv' /\ NoneAnswered
<1> DEFINE w == CloseHost(u, relay.host)
<1>1. relay.host \in Hosts
  BY RelayTypes DEF Connected
<1>2. RelayInv(w) /\ Quiet(u, w) /\ Unanswered(u, w) /\ AllDown(w)
  BY <1>1, CloseKeeps
<1> HIDE DEF w
<1>3. Quiet(relay, w)
  BY <1>2, QuietFrom
<1>4. Unanswered(relay, w)
  BY <1>2 DEF Unanswered, Alike
<1> QED
  BY <1>2, <1>3, <1>4, RelayAlone DEF w

\* A player comes.
LEMMA PlayerConnectsKeeps ==
  ASSUME TunnelInv, NEW p \in Players, PlayerConnects(p)
  PROVE  TunnelInv' /\ NoneAnswered
<1> DEFINE t == [relay EXCEPT !.client[p] = "open", !.players = @ \cup {p}]
           u == [relay EXCEPT !.client[p] = "gone"]
           c == [relay.client EXCEPT ![p] = "open"]
           d == [relay.client EXCEPT ![p] = "gone"]
           S == relay.players \cup {p}
<1>1. RelayInv(relay) /\ relay \in RelayShape /\ relay.client \in [Players -> {"new", "open", "gone"}]
      /\ relay.players \in SUBSET Players /\ \A q \in relay.players : relay.client[q] = "open"
  BY RelayTypes DEF RelayShape, RelayInv, HostsKnown
<1>2. /\ relay.client[p] = "new" /\ Connected(relay)
      /\ Sent(relay.host, <<<<"ws.open", p>>>>, t) \/ SendThrows(CloseHost(u, relay.host))
  BY DEF PlayerConnects
<1>3. t = WithPlayers(relay, c, S) /\ u = WithPlayers(relay, d, relay.players)
  BY <1>1 DEF WithPlayers, RelayShape
<1>4. /\ c \in [Players -> {"new", "open", "gone"}] /\ d \in [Players -> {"new", "open", "gone"}]
      /\ S \in SUBSET Players
      /\ \A q \in Players : c[q] = (IF q = p THEN "open" ELSE relay.client[q])
                            /\ d[q] = (IF q = p THEN "gone" ELSE relay.client[q])
  BY <1>1
<1>5. (\A q \in S : c[q] = "open") /\ (\A q \in relay.players : d[q] = "open")
  BY <1>1, <1>2, <1>4
<1> HIDE DEF t, u, c, d, S
<1>6. RelayInv(t) /\ Alike(relay, t) /\ t.http = relay.http /\ t.client = c
  BY <1>1, <1>3, <1>4, <1>5, PlayersMove
<1>7. RelayInv(u) /\ Alike(relay, u) /\ u.host = relay.host
  BY <1>1, <1>3, <1>4, <1>5, PlayersMove
<1>8. CASE Sent(relay.host, <<<<"ws.open", p>>>>, t)
  <2>1. t.client[p] = "open" /\ \A q \in Players : relay.client[q] = "open" => t.client[q] = "open"
    BY <1>4, <1>6
  <2> QED
    BY <1>2, <1>6, <1>8, <2>1, PlayerFrame
<1>9. CASE SendThrows(CloseHost(u, relay.host))
  BY <1>2, <1>7, <1>9, PlayerThrows
<1> QED
  BY <1>2, <1>8, <1>9

\* A player goes.
LEMMA PlayerClosesKeeps ==
  ASSUME TunnelInv, NEW p \in Players, PlayerCloses(p)
  PROVE  TunnelInv' /\ NoneAnswered
<1> DEFINE t == [relay EXCEPT !.client[p] = "gone", !.players = @ \ {p}]
           c == [relay.client EXCEPT ![p] = "gone"]
           S == relay.players \ {p}
<1>1. RelayInv(relay) /\ relay \in RelayShape /\ relay.client \in [Players -> {"new", "open", "gone"}]
      /\ relay.players \in SUBSET Players /\ \A q \in relay.players : relay.client[q] = "open"
  BY RelayTypes DEF RelayShape, RelayInv, HostsKnown
<1>2. IF Connected(t)
      THEN Sent(t.host, <<<<"ws.close", p>>>>, t) \/ SendThrows(CloseHost(t, t.host))
      ELSE RelayOnly(t)
  BY DEF PlayerCloses
<1>3. t = WithPlayers(relay, c, S)
  BY <1>1 DEF WithPlayers, RelayShape
<1>4. /\ c \in [Players -> {"new", "open", "gone"}] /\ S \in SUBSET Players
      /\ \A q \in Players : c[q] = IF q = p THEN "gone" ELSE relay.client[q]
  BY <1>1
<1>5. \A q \in S : c[q] = "open"
  BY <1>1, <1>4
<1> HIDE DEF t, c, S
<1>6. /\ RelayInv(t) /\ Alike(relay, t) /\ t.http = relay.http /\ t.client = c
      /\ t.host = relay.host /\ t.socket = relay.socket
  BY <1>1, <1>3, <1>4, <1>5, PlayersMove
<1>7. Connected(t) <=> Connected(relay)
  BY <1>6 DEF Connected
<1>8. CASE Connected(relay) /\ Sent(t.host, <<<<"ws.close", p>>>>, t)
  <2>1. \A q \in Players : relay.client[q] = "open" => t.client[q] = "open" \/ q = p
    BY <1>4, <1>6
  <2> QED
    BY <1>6, <1>8, <2>1, PlayerFrame
<1>9. CASE Connected(relay) /\ SendThrows(CloseHost(t, t.host))
  BY <1>6, <1>9, PlayerThrows
<1>10. CASE ~Connected(relay) /\ RelayOnly(t)
  <2>1. AllDown(t)
    BY <1>1, <1>6, <1>10, TunnelAssumption DEF AllDown, Connected, RelayInv, HostsKnown
  <2>2. Quiet(relay, t) /\ Unanswered(relay, t)
    BY <1>1, <1>6, <2>1, AlikeQuiet
  <2> QED
    BY <1>6, <1>10, <2>2, RelayAlone
<1> QED
  BY <1>2, <1>7, <1>8, <1>9, <1>10

-------------------------------------------------------------------------------
(***************************************************************************)
(* The desktop's steps.                                                    *)
(***************************************************************************)

\* The jobs go on: only its own frames start a request or bring its body.
GoOn(f) ==
  \A r \in Requests :
    /\ desktop.job[r].state = "none" /\ f # <<"http.request", r>> => desktop'.job[r].state = "none"
    /\ desktop.job[r].bytes = 0 /\ f # <<"http.body", r>> => desktop'.job[r].bytes = 0

\* The orders to h stay, or h closes with them and with its local sockets.
OnItsWay(h) ==
  \/ down'[h] = down[h] /\ desktop'.local[h] \subseteq desktop.local[h]
  \/ down'[h] = <<>> /\ desktop'.local[h] = {}

\* The orders stay in order while the jobs go on, and a host socket closes with its
\* orders and its local sockets.
LEMMA OrdersStay ==
  ASSUME TunnelInv, relay' = relay, GoOn(<<>>),
         \A h \in Hosts : OnItsWay(h)
  PROVE  Orders' /\ Locals'
<1>1. ASSUME NEW h \in Hosts, down'[h] = down[h], NEW i \in DOMAIN down[h]
      PROVE  Order(h, i)'
  <2> DEFINE f == down[h][i]
  <2>1. f \in Frames /\ Order(h, i)
    BY DEF TunnelInv, Orders, Typed
  <2>2. f[1] \in HttpFrames => f[2] \in Requests
    BY <2>1 DEF Frames, HttpFrames
  <2>3. \A r \in Requests : <<>> # <<"http.request", r>> /\ <<>> # <<"http.body", r>>
    OBVIOUS
  <2>4. f[1] = "http.request" => desktop'.job[f[2]].state = "none"
    BY <2>1, <2>2, <2>3 DEF Order, GoOn, HttpFrames
  <2>5. f[1] = "http.body" => desktop'.job[f[2]].bytes = 0
    BY <2>1, <2>2, <2>3 DEF Order, GoOn, HttpFrames
  <2> QED
    BY <1>1, <2>1, <2>4, <2>5 DEF Order, To, Leaving
<1>2. ASSUME NEW h \in Hosts, relay.socket[h] = "absent"
      PROVE  down'[h] = <<>> /\ desktop'.local[h] = {}
  BY <1>2 DEF TunnelInv, Orders, OnItsWay
<1>3. Orders'
  <2>1. ASSUME NEW h \in Hosts, NEW i \in DOMAIN down'[h]
        PROVE  Order(h, i)'
    <3>1. down'[h] = down[h]
      BY <2>1 DEF OnItsWay
    <3> QED
      BY <1>1, <2>1, <3>1
  <2> QED
    BY <1>2, <2>1 DEF Orders
<1>4. Locals'
  <2> SUFFICES ASSUME NEW h \in Hosts, NEW p \in desktop'.local[h]
               PROVE  \/ relay'.client[p] = "open" \/ Leaving(h)'
                      \/ \E j \in DOMAIN down'[h] : down'[h][j] = <<"ws.close", p>>
    BY DEF Locals
  <2>1. down'[h] = down[h] /\ p \in desktop.local[h]
    BY DEF OnItsWay
  <2> QED
    BY <2>1 DEF TunnelInv, Locals, Leaving
<1> QED
  BY <1>3, <1>4

\* A frame from the relay is taken: what it opens may be closed by another, and
\* what it closes is closed.
LEMMA OrdersTaken ==
  ASSUME TunnelInv, NEW h \in Hosts, down[h] # <<>>, relay' = relay,
         down' = [down EXCEPT ![h] = Tail(@)], GoOn(Head(down[h])),
         \A g \in Hosts \ {h} : desktop'.local[g] \subseteq desktop.local[g],
         \A p \in desktop'.local[h] :
           \/ p \in desktop.local[h] /\ Head(down[h]) # <<"ws.close", p>>
           \/ p \in Players /\ Head(down[h]) = <<"ws.open", p>>
  PROVE  Orders' /\ Locals' /\ down' \in [Hosts -> Seq(Frames)]
<1> DEFINE f == Head(down[h])
           s == Tail(down[h])
<1>1. /\ \A g \in Hosts : down[g] \in Seq(Frames) /\ desktop.local[g] \subseteq Players
      /\ \A g \in Hosts : down'[g] = IF g = h THEN s ELSE down[g]
      /\ down \in [Hosts -> Seq(Frames)]
  BY DEF TunnelInv, Typed, DesktopShape
<1>2. /\ s \in Seq(Frames) /\ f \in Frames /\ f = down[h][1]
      /\ Len(down[h]) >= 1 /\ Len(down[h]) \in Nat
      /\ DOMAIN down[h] = 1..Len(down[h]) /\ DOMAIN s = 1..(Len(down[h]) - 1)
      /\ \A i \in DOMAIN s : s[i] = down[h][i + 1] /\ i + 1 \in DOMAIN down[h]
  BY <1>1, TailFrames
<1>3. Order(h, 1) /\ relay.socket[h] # "absent"
  BY <1>2 DEF TunnelInv, Orders
<1>4. ASSUME NEW g \in Hosts, NEW i \in DOMAIN down[g], down[g][i] # f
      PROVE  LET e == down[g][i]
             IN /\ e \in Frames /\ Order(g, i) /\ (e[1] \in HttpFrames => e[2] \in Requests)
                /\ e[1] = "http.request" => desktop'.job[e[2]].state = "none"
                /\ e[1] = "http.body" => desktop'.job[e[2]].bytes = 0
  <2> DEFINE e == down[g][i]
  <2>1. e \in Frames /\ Order(g, i)
    BY <1>1 DEF TunnelInv, Orders
  <2>2. e = <<e[1], e[2]>> /\ (e[1] \in HttpFrames => e[2] \in Requests)
    BY <2>1 DEF Frames, HttpFrames
  <2>3. e[1] = "http.request" => desktop'.job[e[2]].state = "none"
    BY <1>4, <2>1, <2>2 DEF Order, GoOn, HttpFrames
  <2>4. e[1] = "http.body" => desktop'.job[e[2]].bytes = 0
    BY <1>4, <2>1, <2>2 DEF Order, GoOn, HttpFrames
  <2> QED
    BY <2>1, <2>2, <2>3, <2>4
<1>5. ASSUME NEW g \in Hosts, g # h, NEW i \in DOMAIN down[g]
      PROVE  Order(g, i)'
  <2>1. down[g][i] \in Frames /\ Order(g, i) /\ g # None /\ h # None
    BY <1>1, TunnelAssumption DEF TunnelInv, Orders
  <2>2. down[g][i][1] \in HttpFrames => down[g][i] # f
    BY <1>2, <1>3, <1>5, <2>1 DEF Order
  <2>3. /\ down[g][i][1] = "http.request" => desktop'.job[down[g][i][2]].state = "none"
        /\ down[g][i][1] = "http.body" => desktop'.job[down[g][i][2]].bytes = 0
    BY <1>4, <2>2 DEF HttpFrames
  <2> QED
    BY <1>1, <1>5, <2>1, <2>3 DEF Order, To, Leaving
<1>6. ASSUME NEW i \in DOMAIN s
      PROVE  Order(h, i)'
  <2> DEFINE e == s[i]
  <2>1. e = down[h][i + 1] /\ i + 1 \in DOMAIN down[h] /\ i \in Nat /\ Order(h, i + 1) /\ i + 1 # 1
        /\ 1 \in DOMAIN down[h]
    BY <1>2 DEF TunnelInv, Orders
  <2>2. e[1] \in {"http.request", "http.body"} => e # f
    BY <1>2, <2>1 DEF Order
  <2>3. /\ e[1] = "http.request" => desktop'.job[e[2]].state = "none"
        /\ e[1] = "http.body" => desktop'.job[e[2]].bytes = 0
    BY <1>4, <2>1, <2>2
  <2>4. e[1] \in {"http.request", "http.body"} => \A j \in DOMAIN s : s[j] = e => j = i
    <3> SUFFICES ASSUME e[1] \in {"http.request", "http.body"}, NEW j \in DOMAIN s, s[j] = e
                 PROVE  j = i
      OBVIOUS
    <3>1. down[h][j + 1] = e /\ j + 1 \in DOMAIN down[h] /\ j \in Nat
      BY <1>2
    <3>2. j + 1 = i + 1
      BY <2>1, <3>1 DEF Order
    <3> QED
      BY <2>1, <3>1, <3>2
  <2>5. e[1] = "ws.open" => \/ relay.client[e[2]] = "open"
                            \/ Leaving(h)
                            \/ \E j \in DOMAIN s : j > i /\ s[j] = <<"ws.close", e[2]>>
    <3> SUFFICES ASSUME e[1] = "ws.open", relay.client[e[2]] # "open", ~Leaving(h)
                 PROVE  \E j \in DOMAIN s : j > i /\ s[j] = <<"ws.close", e[2]>>
      OBVIOUS
    <3>1. PICK k \in DOMAIN down[h] : k > i + 1 /\ down[h][k] = <<"ws.close", e[2]>>
      BY <2>1 DEF Order
    <3>2. k - 1 \in DOMAIN s /\ k - 1 > i /\ (k - 1) + 1 = k
      BY <1>2, <2>1, <3>1
    <3>3. s[k - 1] = <<"ws.close", e[2]>>
      BY <1>2, <3>1, <3>2
    <3> QED
      BY <3>2, <3>3
  <2>6. down'[h] = s /\ relay' = relay
    BY <1>1
  <2>7. /\ e[1] \in {"http.request", "http.body", "http.end", "ws.open", "ws.close"}
        /\ e[1] \in HttpFrames => relay.http[e[2]].to = h
    BY <2>1 DEF Order, To
  <2> HIDE DEF e, s
  <2> QED
    BY <2>3, <2>4, <2>5, <2>6, <2>7 DEF Order, To, Leaving, e
<1>7. Orders'
  <2>1. ASSUME NEW g \in Hosts
        PROVE  \A i \in DOMAIN down'[g] : Order(g, i)'
    BY <1>1, <1>5, <1>6
  <2>2. ASSUME NEW g \in Hosts, relay'.socket[g] = "absent"
        PROVE  down'[g] = <<>> /\ desktop'.local[g] = {}
    <3>1. g # h /\ down[g] = <<>> /\ desktop.local[g] = {}
      BY <1>3, <2>2 DEF TunnelInv, Orders
    <3> QED
      BY <1>1, <3>1
  <2> QED
    BY <2>1, <2>2 DEF Orders
<1>8. ASSUME NEW p \in Players, NEW i \in DOMAIN down[h], i > 1 \/ f # <<"ws.close", p>>,
             down[h][i] = <<"ws.close", p>>
      PROVE  \E j \in DOMAIN s : s[j] = <<"ws.close", p>>
  <2>1. i > 1 /\ i - 1 \in DOMAIN s /\ (i - 1) + 1 = i
    BY <1>2, <1>8
  <2>2. s[i - 1] = <<"ws.close", p>>
    BY <1>2, <1>8, <2>1
  <2> QED
    BY <2>1, <2>2
<1>9. ASSUME NEW g \in Hosts, NEW p \in desktop'.local[g]
      PROVE  \/ relay'.client[p] = "open" \/ Leaving(g)'
             \/ \E j \in DOMAIN down'[g] : down'[g][j] = <<"ws.close", p>>
  <2>1. CASE g # h
    <3>1. down'[g] = down[g] /\ p \in desktop.local[g]
      BY <1>1, <1>9, <2>1
    <3> QED
      BY <3>1 DEF TunnelInv, Locals, Leaving
  <2>2. CASE g = h /\ p \in desktop.local[h] /\ f # <<"ws.close", p>>
    <3>1. \/ relay.client[p] = "open" \/ Leaving(h) \/ \E i \in DOMAIN down[h] : down[h][i] = <<"ws.close", p>>
      BY <2>2 DEF TunnelInv, Locals
    <3>2. p \in Players /\ down'[h] = s
      BY <1>1, <2>2
    <3> HIDE DEF s, f
    <3> QED
      BY <1>8, <2>2, <3>1, <3>2 DEF Leaving
  <2>3. CASE g = h /\ p \in Players /\ f = <<"ws.open", p>>
    <3>1. \/ relay.client[p] = "open" \/ Leaving(h)
          \/ \E i \in DOMAIN down[h] : i > 1 /\ down[h][i] = <<"ws.close", p>>
      BY <1>2, <1>3, <2>3 DEF Order
    <3>2. down'[h] = s
      BY <1>1
    <3> HIDE DEF s, f
    <3> QED
      BY <1>8, <2>3, <3>1, <3>2 DEF Leaving
  <2> QED
    BY <2>1, <2>2, <2>3
<1>10. Locals'
  BY <1>9 DEF Locals
<1>11. down' \in [Hosts -> Seq(Frames)]
  BY <1>1, <1>2
<1> QED
  BY <1>7, <1>10, <1>11

\* What the desktop may send from h, and what its jobs have become by then.
Says(h, n) ==
  /\ n \in {<<>>} \cup {<<f>> : f \in Frames}
  /\ \A i \in DOMAIN n :
       /\ n[i][1] \in {"http.response", "http.body", "http.end", "http.error", "ws.close"}
       /\ n[i][1] \in HttpFrames => To(n[i][2]) = h
       /\ n[i][1] = "http.end" => desktop'.job[n[i][2]].state = "ended"
       /\ n[i][1] = "http.body" => desktop.job[n[i][2]].state # "ended"
  /\ \A r \in Requests :
       /\ desktop.job[r].state = "ended" => desktop'.job[r].state = "ended"
       /\ desktop'.job[r].sent = desktop.job[r].sent + (IF n = <<<<"http.body", r>>>> THEN 1 ELSE 0)
       /\ To(r) = None => desktop'.job[r] = desktop.job[r]

\* What it says is in order, and nothing of it is lost.
LEMMA SaysKeeps ==
  ASSUME TunnelInv, NEW h \in Hosts, NEW n, relay' = relay, up' = [up EXCEPT ![h] = @ \o n], Says(h, n)
  PROVE  AnswerFrames' /\ Stream' /\ up' \in [Hosts -> Seq(Frames)]
<1> DEFINE s == up[h]
<1>1. /\ \A g \in Hosts : up[g] \in Seq(Frames) /\ up'[g] = IF g = h THEN s \o n ELSE up[g]
      /\ up \in [Hosts -> Seq(Frames)]
  BY DEF TunnelInv, Typed
<1>2. \A r \in Requests : To(r)' = To(r)
  BY DEF To
<1>3. ASSUME NEW g \in Hosts, NEW i \in DOMAIN up[g]
      PROVE  LET f == up[g][i]
             IN /\ Reply(g, i) /\ f \in Frames
                /\ f[1] \in HttpFrames => f[2] \in Requests
                /\ f[1] = "http.end" => desktop'.job[f[2]].state = "ended"
  <2>1. up[g][i] \in Frames /\ Reply(g, i)
    BY <1>1 DEF TunnelInv, AnswerFrames
  <2>2. up[g][i][1] \in HttpFrames => up[g][i][2] \in Requests
    BY <2>1 DEF Frames, HttpFrames
  <2>3. up[g][i][1] = "http.end" => desktop'.job[up[g][i][2]].state = "ended"
    BY <2>1, <2>2 DEF Reply, Says, HttpFrames
  <2> QED
    BY <2>1, <2>2, <2>3
<1>4. CASE n = <<>>
  <2>1. up' = up
    BY <1>1, <1>4, NoFrames
  <2>2. AnswerFrames'
    <3> SUFFICES ASSUME NEW g \in Hosts, NEW i \in DOMAIN up[g]
                 PROVE  Reply(g, i)'
      BY <2>1 DEF AnswerFrames
    <3> QED
      BY <1>3, <2>1 DEF Reply, To
  <2>3. Stream'
    <3>1. \A r \in Requests : n # <<<<"http.body", r>>>>
      BY <1>4
    <3>2. \A r \in Requests : desktop'.job[r].sent = desktop.job[r].sent
      BY <3>1 DEF Says, TunnelInv, Typed, DesktopShape, JobShape
    <3> QED
      <4>1. \A r \in Requests : To(r) = None => desktop'.job[r] = desktop.job[r]
        BY DEF Says
      <4>2. Stream
        BY DEF TunnelInv
      <4>3. ASSUME NEW r \in Requests
            PROVE  /\ relay'.http[r].state = "pending" =>
                         relay'.http[r].bytes + Cardinality(Bodies(up'[To(r)'], r)) = desktop'.job[r].sent
                   /\ relay'.http[r].bytes + relay'.http[r].unread <= MaxAnswer
                   /\ To(r)' = None => /\ desktop'.job[r].state = "none" /\ desktop'.job[r].bytes = 0
                                       /\ desktop'.job[r].sent = 0
        BY <1>2, <2>1, <3>2, <4>1, <4>2 DEF Stream
      <4> QED
        BY <4>3 DEF Stream
  <2> QED
    BY <1>1, <2>1, <2>2, <2>3
<1>5. CASE \E f \in Frames : n = <<f>>
  <2>1. PICK f \in Frames : n = <<f>>
    BY <1>5
  <2>2. DOMAIN n = {1} /\ n[1] = f
    BY <2>1
  <2>3. /\ s \o n \in Seq(Frames) /\ DOMAIN s = 1..Len(s) /\ Len(s) \in Nat
        /\ DOMAIN (s \o n) = 1..(Len(s) + 1)
        /\ \A i \in DOMAIN s : (s \o n)[i] = s[i]
        /\ (s \o n)[Len(s) + 1] = f
    BY <1>1, <2>1, MoreFrames
  <2>4. f = <<f[1], f[2]>> /\ (f[1] \in HttpFrames => f[2] \in Requests)
    BY DEF Frames, HttpFrames
  <2>5. /\ f[1] \in {"http.response", "http.body", "http.end", "http.error", "ws.close"}
        /\ f[1] \in HttpFrames => To(f[2]) = h
        /\ f[1] = "http.end" => desktop'.job[f[2]].state = "ended"
        /\ f[1] = "http.body" => desktop.job[f[2]].state # "ended"
    BY <2>2 DEF Says
  <2>6. ASSUME NEW g \in Hosts, g # h, NEW i \in DOMAIN up[g]
        PROVE  Reply(g, i)'
    BY <1>1, <1>3, <2>6 DEF Reply, To
  <2>7. ASSUME NEW i \in DOMAIN s
        PROVE  Reply(h, i)'
    <3>1. s[i][1] = "http.end" => f # <<"http.body", s[i][2]>>
      BY <1>3, <2>5 DEF Reply
    <3>2. s[i][1] = "http.end" => \A j \in DOMAIN (s \o n) : j > i => (s \o n)[j] # <<"http.body", s[i][2]>>
      <4> SUFFICES ASSUME s[i][1] = "http.end", NEW j \in DOMAIN (s \o n), j > i
                   PROVE  (s \o n)[j] # <<"http.body", s[i][2]>>
        OBVIOUS
      <4>1. CASE j \in DOMAIN s
        <5>1. Reply(h, i) /\ i \in DOMAIN up[h]
          BY <1>3
        <5>2. up[h][j] # <<"http.body", up[h][i][2]>>
          BY <4>1, <5>1 DEF Reply
        <5> QED
          BY <2>3, <4>1, <5>2
      <4>2. CASE j \notin DOMAIN s
        <5>1. j = Len(s) + 1
          BY <2>3, <4>2
        <5> QED
          BY <2>3, <3>1, <5>1
      <4> QED
        BY <4>1, <4>2
    <3>3. up'[h] = s \o n /\ (s \o n)[i] = s[i]
      BY <1>1, <2>3
    <3>4. /\ s[i][1] \in {"http.response", "http.body", "http.end", "http.error", "ws.close"}
          /\ s[i][1] \in HttpFrames => relay'.http[s[i][2]].to = h
          /\ s[i][1] = "http.end" => desktop'.job[s[i][2]].state = "ended"
      BY <1>3 DEF Reply, To
    <3> HIDE DEF s
    <3> QED
      BY <3>2, <3>3, <3>4 DEF Reply, To
  <2>8. PICK k \in Nat : k = Len(s) + 1
    BY <2>3
  <2>9. Reply(h, k)'
    <3>1. up'[h] = s \o n /\ (s \o n)[k] = f
      BY <1>1, <2>3, <2>8
    <3>2. \A j \in DOMAIN (s \o n) : ~ (j > k)
      BY <2>3, <2>8
    <3>3. f[1] \in HttpFrames => relay'.http[f[2]].to = h
      BY <2>5 DEF To
    <3> HIDE DEF s
    <3> QED
      BY <2>5, <3>1, <3>2, <3>3 DEF Reply, To
  <2>10. AnswerFrames'
    <3>1. ASSUME NEW i \in DOMAIN up'[h]
          PROVE  Reply(h, i)'
      <4>1. i \in DOMAIN s \/ i = k
        BY <1>1, <2>3, <2>8
      <4> QED
        BY <2>7, <2>9, <4>1
    <3> QED
      BY <1>1, <2>6, <3>1 DEF AnswerFrames
  <2>11. Stream'
    <3>1. ASSUME NEW r \in Requests, relay.http[r].state = "pending"
          PROVE  relay.http[r].bytes + Cardinality(Bodies(up'[To(r)], r)) = desktop'.job[r].sent
      <4> DEFINE c == Cardinality(Bodies(up[To(r)], r))
                 d == Cardinality(Bodies(up'[To(r)], r))
                 x == relay.http[r].bytes
                 y == desktop.job[r].sent
                 z == desktop'.job[r].sent
      <4>1. To(r) \in Hosts
        BY <3>1, RelayTypes DEF RelayInv, HostsKnown, To
      <4>2. (n = <<<<"http.body", r>>>>) <=> f = <<"http.body", r>>
        BY <2>1
      <4>3. f = <<"http.body", r>> => To(r) = h
        BY <2>5 DEF HttpFrames
      <4>4. d = c + IF f = <<"http.body", r>> THEN 1 ELSE 0
        <5>1. c \in Nat
          BY <1>1, <4>1, BodiesCount
        <5>2. CASE To(r) = h
          <6>1. Cardinality(Bodies(s \o <<f>>, r))
                  = Cardinality(Bodies(s, r)) + (IF f = <<"http.body", r>> THEN 1 ELSE 0)
            BY <1>1, BodySent
          <6> QED
            BY <1>1, <2>1, <5>2, <6>1
        <5>3. CASE To(r) # h
          <6>1. up'[To(r)] = up[To(r)]
            BY <1>1, <4>1, <5>3
          <6> QED
            BY <4>3, <5>1, <5>3, <6>1
        <5> QED
          BY <5>2, <5>3
      <4>5. x + c = y
        BY <3>1 DEF TunnelInv, Stream
      <4>6. z = y + IF f = <<"http.body", r>> THEN 1 ELSE 0
        BY <4>2 DEF Says
      <4>7. x \in Nat /\ c \in Nat
        BY <1>1, <4>1, BodiesCount, RelayTypes DEF RelayShape, HttpShape
      <4> HIDE DEF c, d, x, y, z
      <4>8. x + d = z
        BY <4>4, <4>5, <4>6, <4>7
      <4> QED
        BY <4>8 DEF d, x, z
    <3>2. \A r \in Requests : To(r)' = None => /\ desktop'.job[r].state = "none" /\ desktop'.job[r].bytes = 0
                                               /\ desktop'.job[r].sent = 0
      BY <1>2 DEF Says, TunnelInv, Stream
    <3>3. \A r \in Requests : relay'.http[r].bytes + relay'.http[r].unread <= MaxAnswer
      BY DEF TunnelInv, Stream
    <3> QED
      BY <1>2, <3>1, <3>2, <3>3 DEF Stream
  <2>12. up' \in [Hosts -> Seq(Frames)]
    BY <1>1, <2>3
  <2> QED
    BY <2>10, <2>11, <2>12
<1> QED
  BY <1>4, <1>5 DEF Says

\* Job r of host socket h becomes j, and what it holds is counted.
Moved(h, r, j) ==
  /\ desktop' \in DesktopShape /\ desktop'.socket = desktop.socket /\ desktop'.local = desktop.local
  /\ desktop'.job[r] = j /\ \A q \in Requests \ {r} : desktop'.job[q] = desktop.job[q]
  /\ desktop'.bytes[h] = desktop.bytes[h] - desktop.job[r].bytes + j.bytes
  /\ \A g \in Hosts \ {h} : desktop'.bytes[g] = desktop.bytes[g]
WithJob(d, r, j) == [d EXCEPT !.job = [@ EXCEPT ![r] = j]]
WithBytes(d, h, b) == [d EXCEPT !.bytes = [@ EXCEPT ![h] = b]]

\* A job and its socket's count are written.
LEMMA JobWritten ==
  ASSUME NEW d \in DesktopShape, NEW h \in Hosts, NEW r \in Requests, NEW j \in JobShape, NEW b \in Nat
  PROVE  LET e == WithBytes(WithJob(d, r, j), h, b)
         IN /\ e \in DesktopShape /\ e.socket = d.socket /\ e.local = d.local
            /\ e.job[r] = j /\ \A q \in Requests \ {r} : e.job[q] = d.job[q]
            /\ e.bytes[h] = b /\ \A g \in Hosts \ {h} : e.bytes[g] = d.bytes[g]
<1> DEFINE c == WithJob(d, r, j)
           e == WithBytes(c, h, b)
<1>1. /\ c \in DesktopShape /\ c.socket = d.socket /\ c.local = d.local /\ c.bytes = d.bytes
      /\ c.job = [d.job EXCEPT ![r] = j]
  BY DEF WithJob, DesktopShape
<1>2. d.job \in [Requests -> JobShape]
  BY DEF DesktopShape
<1>3. c.job[r] = j /\ \A q \in Requests \ {r} : c.job[q] = d.job[q]
  BY <1>1, <1>2
<1> HIDE DEF c
<1>4. /\ e \in DesktopShape /\ e.socket = c.socket /\ e.local = c.local /\ e.job = c.job
      /\ e.bytes = [c.bytes EXCEPT ![h] = b]
  BY <1>1 DEF WithBytes, DesktopShape
<1>5. c.bytes \in [Hosts -> Nat]
  BY <1>1 DEF DesktopShape
<1>6. e.bytes[h] = b /\ \A g \in Hosts \ {h} : e.bytes[g] = c.bytes[g]
  BY <1>4, <1>5
<1> HIDE DEF e
<1>7. /\ e \in DesktopShape /\ e.socket = d.socket /\ e.local = d.local
      /\ e.job[r] = j /\ \A q \in Requests \ {r} : e.job[q] = d.job[q]
      /\ e.bytes[h] = b /\ \A g \in Hosts \ {h} : e.bytes[g] = d.bytes[g]
  BY <1>1, <1>3, <1>4, <1>6
<1> QED
  BY <1>7 DEF c, e

\* ... by a step of the desktop.
LEMMA MovedWritten ==
  ASSUME NEW h \in Hosts, NEW r \in Requests, desktop \in DesktopShape, NEW j \in JobShape,
         NEW b \in Nat,
         desktop' = WithBytes(WithJob(desktop, r, j), h, b),
         b = desktop.bytes[h] - desktop.job[r].bytes + j.bytes
  PROVE  Moved(h, r, j)
<1>1. LET e == WithBytes(WithJob(desktop, r, j), h, b)
      IN /\ e \in DesktopShape /\ e.socket = desktop.socket /\ e.local = desktop.local
         /\ e.job[r] = j /\ \A q \in Requests \ {r} : e.job[q] = desktop.job[q]
         /\ e.bytes[h] = b /\ \A g \in Hosts \ {h} : e.bytes[g] = desktop.bytes[g]
  BY JobWritten
<1> QED
  BY <1>1 DEF Moved

\* The desktop's count is exact again, and holds what the job holds.
LEMMA JobCounted ==
  ASSUME TunnelInv, NEW h \in Hosts, NEW r \in Requests, To(r) = h
  PROVE  /\ desktop \in DesktopShape /\ desktop.job[r] \in JobShape /\ desktop.bytes[h] \in Nat
         /\ desktop.job[r].bytes \in Nat /\ desktop.job[r].bytes <= desktop.bytes[h]
         /\ \A j \in JobShape : relay' = relay /\ Moved(h, r, j) => DesktopBooks'
<1>1. desktop \in DesktopShape /\ desktop.job[r] \in JobShape /\ desktop.bytes[h] \in Nat
  BY DEF TunnelInv, Typed, DesktopShape
<1>2. desktop.job[r].bytes \in Nat
  BY <1>1 DEF JobShape
<1>3. /\ OwnBytes(h) \in [Requests -> Nat] /\ OwnBytes(h)[r] = desktop.job[r].bytes
      /\ IsFiniteSet(Units(OwnBytes(h))) /\ desktop.bytes[h] = Total(OwnBytes(h))
  <2>1. \A q \in Requests : desktop.job[q].bytes \in Nat
    <3>1. \A q \in Requests : desktop.job[q] \in JobShape
      BY <1>1 DEF DesktopShape
    <3> QED
      BY <3>1 DEF JobShape
  <2>2. OwnBytes(h) \in [Requests -> Nat] /\ OwnBytes(h)[r] = desktop.job[r].bytes
    BY <2>1 DEF OwnBytes
  <2> QED
    BY <2>2 DEF TunnelInv, DesktopBooks
<1>4. desktop.job[r].bytes <= desktop.bytes[h]
  <2>1. OwnBytes(h)[r] <= Total(OwnBytes(h))
    BY <1>3, TotalChange
  <2> QED
    BY <1>3, <2>1
<1>5. ASSUME NEW j \in JobShape, relay' = relay, Moved(h, r, j)
      PROVE  DesktopBooks'
  <2>1. \A q \in Requests : To(q)' = To(q)
    BY <1>5 DEF To
  <2>2. /\ OwnBytes(h)' \in [Requests -> Nat] /\ OwnBytes(h)'[r] = j.bytes
        /\ \A q \in Requests \ {r} : OwnBytes(h)'[q] = OwnBytes(h)[q]
    <3>1. \A q \in Requests : desktop'.job[q].bytes \in Nat
      BY <1>5 DEF Moved, DesktopShape, JobShape
    <3> QED
      BY <1>5, <2>1, <3>1 DEF OwnBytes, Moved
  <2>3. /\ IsFiniteSet(Units(OwnBytes(h)')) /\ Total(OwnBytes(h)) \in Nat
        /\ Total(OwnBytes(h)') = Total(OwnBytes(h)) - OwnBytes(h)[r] + OwnBytes(h)'[r]
    <3> DEFINE n == OwnBytes(h)
               m == OwnBytes(h)'
    <3>1. n \in [Requests -> Nat] /\ m \in [Requests -> Nat] /\ IsFiniteSet(Units(n))
          /\ \A q \in Requests \ {r} : m[q] = n[q]
      BY <1>3, <2>2
    <3> HIDE DEF n, m
    <3>2. IsFiniteSet(Units(m)) /\ Total(n) \in Nat /\ Total(m) = Total(n) - n[r] + m[r]
      BY <3>1, TotalChange
    <3> QED
      BY <3>2 DEF n, m
  <2>4. desktop'.bytes[h] = Total(OwnBytes(h)')
    BY <1>3, <1>5, <2>2, <2>3 DEF Moved
  <2>5. ASSUME NEW g \in Hosts, g # h
        PROVE  OwnBytes(g)' = OwnBytes(g) /\ desktop'.bytes[g] = desktop.bytes[g]
    BY <1>5, <2>1, <2>5 DEF OwnBytes, Moved
  <2>6. ASSUME NEW g \in Hosts, g # h
        PROVE  IsFiniteSet(Units(OwnBytes(g))) /\ desktop.bytes[g] = Total(OwnBytes(g))
    BY DEF DesktopBooks, TunnelInv
  <2>7. ASSUME NEW g \in Hosts
        PROVE  IsFiniteSet(Units(OwnBytes(g)')) /\ desktop'.bytes[g] = Total(OwnBytes(g)')
    BY <2>3, <2>4, <2>5, <2>6
  <2> QED
    BY <2>7 DEF DesktopBooks, Units, Total
<1> QED
  BY <1>1, <1>2, <1>4, <1>5

\* The desktop's jobs move while frames of theirs, or none, are sent.
LEMMA MovedKeeps ==
  ASSUME TunnelInv, NEW r \in Requests, NEW h \in Hosts, To(r) = h, NEW j \in JobShape, Moved(h, r, j),
         desktop.job[r].state \notin {"none", "ended"}, desktop.job[r].bytes = 0 => j.bytes = 0,
         UNCHANGED <<relay, down, faults>>,
         NEW n, up' = [up EXCEPT ![h] = @ \o n],
         \/ n = <<>>
         \/ \E k \in {"http.response", "http.body", "http.end", "http.error"} :
              n = <<<<k, r>>>> /\ (k = "http.end" => j.state = "ended"),
         j.sent = desktop.job[r].sent + (IF n = <<<<"http.body", r>>>> THEN 1 ELSE 0)
  PROVE  TunnelInv' /\ NoneAnswered
<1>1. DesktopBooks' /\ desktop' \in DesktopShape /\ desktop \in DesktopShape
  BY JobCounted DEF Moved
<1>2. Orders' /\ Locals'
  <2>1. /\ GoOn(<<>>)
        /\ \A g \in Hosts : OnItsWay(g)
    BY DEF GoOn, Moved, OnItsWay
  <2> QED
    BY <2>1, OrdersStay
<1>3. Says(h, n)
  <2>1. n \in {<<>>} \cup {<<f>> : f \in Frames}
    <3>1. \A k \in {"http.response", "http.body", "http.end", "http.error"} : <<k, r>> \in Frames
      BY DEF Frames, HttpFrames
    <3> QED
      BY <3>1
  <2>2. ASSUME NEW i \in DOMAIN n
        PROVE  /\ n[i][1] \in {"http.response", "http.body", "http.end", "http.error", "ws.close"}
               /\ n[i][1] \in HttpFrames => To(n[i][2]) = h
               /\ n[i][1] = "http.end" => desktop'.job[n[i][2]].state = "ended"
               /\ n[i][1] = "http.body" => desktop.job[n[i][2]].state # "ended"
    <3>1. n # <<>>
      BY <2>2
    <3>2. PICK k \in {"http.response", "http.body", "http.end", "http.error"} :
            n = <<<<k, r>>>> /\ (k = "http.end" => j.state = "ended")
      BY <3>1
    <3>3. n[i][1] = k /\ n[i][2] = r
      BY <2>2, <3>2
    <3> QED
      BY <3>2, <3>3 DEF Moved
  <2>3. ASSUME NEW q \in Requests
        PROVE  /\ desktop.job[q].state = "ended" => desktop'.job[q].state = "ended"
               /\ desktop'.job[q].sent = desktop.job[q].sent + (IF n = <<<<"http.body", q>>>> THEN 1 ELSE 0)
               /\ To(q) = None => desktop'.job[q] = desktop.job[q]
    <3>1. CASE q = r
      BY <3>1, TunnelAssumption DEF Moved
    <3>2. CASE q # r
      <4>1. desktop'.job[q] = desktop.job[q]
        BY <3>2 DEF Moved
      <4>2. n # <<<<"http.body", q>>>>
        <5>1. ASSUME n = <<<<"http.body", q>>>>
              PROVE  FALSE
          <6>1. n[1] = <<"http.body", q>> /\ n # <<>>
            BY <5>1
          <6>2. PICK k \in {"http.response", "http.body", "http.end", "http.error"} : n = <<<<k, r>>>>
            BY <6>1
          <6>3. n[1] = <<k, r>>
            BY <6>2
          <6> QED
            BY <3>2, <6>1, <6>3
        <5> QED
          BY <5>1
      <4>3. desktop.job[q].sent \in Nat
        <5>1. desktop.job[q] \in JobShape
          BY <1>1 DEF DesktopShape
        <5> QED
          BY <5>1, TunnelAssumption DEF JobShape
      <4> QED
        BY <4>1, <4>2, <4>3
    <3> QED
      BY <3>1, <3>2
  <2> QED
    BY <2>1, <2>2, <2>3 DEF Says
<1>4. AnswerFrames' /\ Stream' /\ up' \in [Hosts -> Seq(Frames)]
  BY <1>3, SaysKeeps
<1>5. RelayInv(relay') /\ NoneAnswered
  BY DEF TunnelInv, NoneAnswered, Unanswered
<1> QED
  BY <1>1, <1>2, <1>4, <1>5 DEF TunnelInv, Typed

\* A job that is known belongs to a host socket.
LEMMA JobsHost ==
  ASSUME TunnelInv, NEW r \in Requests, desktop.job[r].state # "none"
  PROVE  To(r) \in Hosts
BY RelayTypes DEF TunnelInv, Stream, To, HttpShape

\* BackendAnswers
LEMMA BackendAnswersKeeps ==
  ASSUME TunnelInv, NEW r \in Requests, BackendAnswers(r)
  PROVE  TunnelInv' /\ NoneAnswered
<1> DEFINE h == To(r)
           j == [desktop.job[r] EXCEPT !.state = "answering"]
<1>1. desktop.job[r].state = "fetching" /\ h \in Hosts
  BY JobsHost DEF BackendAnswers, Running
<1>2. /\ desktop \in DesktopShape /\ desktop.job[r] \in JobShape /\ desktop.job[r].bytes \in Nat
      /\ desktop.bytes[h] \in Nat
  BY <1>1, JobCounted
<1>3. /\ j \in JobShape /\ j.sent = desktop.job[r].sent /\ j.bytes = desktop.job[r].bytes
      /\ desktop.job[r].sent \in Nat
  BY <1>2, TunnelAssumption DEF JobShape
<1>4. /\ desktop' = [desktop EXCEPT !.job[r].state = "answering"] /\ UNCHANGED <<relay, down, faults>>
      /\ up' = [up EXCEPT ![h] = @ \o <<<<"http.response", r>>>>]
  BY DEF BackendAnswers, Replies
<1> HIDE DEF h, j
<1>5. Moved(h, r, j)
  <2>1. desktop' = WithBytes(WithJob(desktop, r, j), h, desktop.bytes[h])
    BY <1>1, <1>2, <1>4 DEF WithBytes, WithJob, DesktopShape, j
  <2> QED
    BY <1>1, <1>2, <1>3, <2>1, MovedWritten
<1>6. j.sent = desktop.job[r].sent + (IF <<<<"http.response", r>>>> = <<<<"http.body", r>>>> THEN 1 ELSE 0)
  BY <1>3
<1> QED
  BY <1>1, <1>3, <1>4, <1>5, <1>6, MovedKeeps DEF h

\* A job ends: what it held is given back.
EndedJob(r) == [desktop.job[r] EXCEPT !.bytes = 0, !.state = "ended"]

\* ... and its socket's count is exact.
LEMMA JobEndsMoved ==
  ASSUME TunnelInv, NEW h \in Hosts, NEW r \in Requests, To(r) = h, desktop' = JobEnds(desktop, h, r)
  PROVE  /\ Moved(h, r, EndedJob(r)) /\ EndedJob(r) \in JobShape /\ EndedJob(r).bytes = 0
         /\ EndedJob(r).state = "ended" /\ EndedJob(r).sent = desktop.job[r].sent
<1> DEFINE j == EndedJob(r)
           b == Least0(desktop.bytes[h] - desktop.job[r].bytes)
<1>1. /\ desktop \in DesktopShape /\ desktop.job[r] \in JobShape /\ desktop.bytes[h] \in Nat
      /\ desktop.job[r].bytes \in Nat /\ desktop.job[r].bytes <= desktop.bytes[h]
  BY JobCounted
<1>2. j \in JobShape /\ j.bytes = 0 /\ j.state = "ended" /\ j.sent = desktop.job[r].sent
  <2> DEFINE q == desktop.job[r]
             e == [q EXCEPT !.bytes = 0]
  <2>1. q \in JobShape /\ 0 \in 0..1
    BY <1>1
  <2> HIDE DEF q
  <2>2. e \in JobShape /\ e.bytes = 0 /\ e.sent = q.sent
    BY <2>1 DEF JobShape
  <2> HIDE DEF e
  <2>3. LET i == [e EXCEPT !.state = "ended"]
        IN i \in JobShape /\ i.bytes = 0 /\ i.state = "ended" /\ i.sent = q.sent
    BY <2>2 DEF JobShape
  <2> QED
    BY <2>3 DEF EndedJob, e, q
<1>3. b \in Nat /\ b = desktop.bytes[h] - desktop.job[r].bytes + j.bytes
  <2> DEFINE x == desktop.bytes[h]
             y == desktop.job[r].bytes
  <2>1. x \in Nat /\ y \in Nat /\ y <= x
    BY <1>1
  <2> HIDE DEF x, y
  <2>2. x - y \in Nat /\ x - y \in Int /\ x - y + 0 = x - y
    BY <2>1
  <2>3. Least0(x - y) = x - y + 0 /\ Least0(x - y) \in Nat
    BY <2>2, LeastType
  <2> QED
    BY <1>2, <2>3 DEF x, y
<1>4. desktop' = WithBytes(WithJob(desktop, r, j), h, b)
  <2>1. desktop.job \in [Requests -> JobShape]
    BY <1>1 DEF DesktopShape
  <2>2. [[desktop.job EXCEPT ![r].bytes = 0] EXCEPT ![r].state = "ended"] = [desktop.job EXCEPT ![r] = j]
    BY <2>1 DEF EndedJob
  <2> HIDE DEF j, b
  <2>3. [[[desktop EXCEPT !.bytes[h] = b] EXCEPT !.job[r].bytes = 0] EXCEPT !.job[r].state = "ended"]
          = WithBytes(WithJob(desktop, r, j), h, b)
    BY <1>1, <2>2 DEF WithBytes, WithJob, DesktopShape
  <2>4. JobEnds(desktop, h, r)
          = [[[desktop EXCEPT !.bytes[h] = b] EXCEPT !.job[r].bytes = 0] EXCEPT !.job[r].state = "ended"]
    BY <1>1 DEF JobEnds, b, DesktopShape
  <2> QED
    BY <2>3, <2>4
<1> HIDE DEF j, b
<1>5. Moved(h, r, j)
  BY <1>1, <1>2, <1>3, <1>4, MovedWritten
<1> QED
  BY <1>2, <1>5 DEF j

\* The three ways a job ends by itself.
LEMMA JobEndKeeps ==
  ASSUME TunnelInv, NEW r \in Requests, desktop.job[r].state \notin {"none", "ended"},
         NEW n, n \in {<<>>, <<<<"http.end", r>>>>, <<<<"http.error", r>>>>},
         Replies(To(r), JobEnds(desktop, To(r), r), n)
  PROVE  TunnelInv' /\ NoneAnswered
<1> DEFINE h == To(r)
           j == EndedJob(r)
<1>1. h \in Hosts
  BY JobsHost
<1>2. /\ desktop' = JobEnds(desktop, h, r) /\ UNCHANGED <<relay, down, faults>>
      /\ up' = [up EXCEPT ![h] = @ \o n]
  BY DEF Replies
<1>3. /\ Moved(h, r, j) /\ j \in JobShape /\ j.bytes = 0 /\ j.state = "ended"
      /\ j.sent = desktop.job[r].sent
  BY <1>1, <1>2, JobEndsMoved
<1>4. desktop.job[r].sent \in Nat
  <2>1. desktop.job[r] \in JobShape
    BY <1>1, JobCounted
  <2> QED
    BY <2>1, TunnelAssumption DEF JobShape
<1>5. n # <<<<"http.body", r>>>>
  OBVIOUS
<1>6. j.sent = desktop.job[r].sent + (IF n = <<<<"http.body", r>>>> THEN 1 ELSE 0)
  BY <1>3, <1>4, <1>5
<1>7. \/ n = <<>>
      \/ \E k \in {"http.response", "http.body", "http.end", "http.error"} :
           n = <<<<k, r>>>> /\ (k = "http.end" => j.state = "ended")
  BY <1>3
<1> HIDE DEF h, j
<1> QED
  BY <1>1, <1>2, <1>3, <1>6, <1>7, MovedKeeps DEF h

\* SendEnd, BackendFails and AbortEnds
LEMMA SendEndKeeps ==
  ASSUME TunnelInv, NEW r \in Requests, SendEnd(r)
  PROVE  TunnelInv' /\ NoneAnswered
BY JobEndKeeps DEF SendEnd, Running

\* BackendFails
LEMMA BackendFailsKeeps ==
  ASSUME TunnelInv, NEW r \in Requests, BackendFails(r)
  PROVE  TunnelInv' /\ NoneAnswered
BY JobEndKeeps DEF BackendFails, Running

\* AbortEnds
LEMMA AbortEndsKeeps ==
  ASSUME TunnelInv, NEW r \in Requests, AbortEnds(r)
  PROVE  TunnelInv' /\ NoneAnswered
BY JobEndKeeps DEF AbortEnds

\* SendChunk
LEMMA SendChunkKeeps ==
  ASSUME TunnelInv, NEW r \in Requests, SendChunk(r)
  PROVE  TunnelInv' /\ NoneAnswered
<1> DEFINE h == To(r)
           j == [desktop.job[r] EXCEPT !.sent = @ + 1]
<1>1. desktop.job[r].state = "answering" /\ desktop.job[r].sent < MaxAnswer /\ h \in Hosts
  BY JobsHost DEF SendChunk, Running
<1>2. /\ desktop \in DesktopShape /\ desktop.job[r] \in JobShape /\ desktop.job[r].bytes \in Nat
      /\ desktop.bytes[h] \in Nat
  BY <1>1, JobCounted
<1>3. desktop.job[r].sent + 1 \in 0..MaxAnswer
  <2>1. desktop.job[r].sent \in 0..MaxAnswer /\ MaxAnswer \in Nat
    BY <1>2, TunnelAssumption DEF JobShape
  <2> QED
    BY <1>1, <2>1
<1>4. j \in JobShape /\ j.sent = desktop.job[r].sent + 1 /\ j.bytes = desktop.job[r].bytes
  BY <1>2, <1>3 DEF JobShape
<1>5. /\ desktop' = [desktop EXCEPT !.job[r].sent = @ + 1] /\ UNCHANGED <<relay, down, faults>>
      /\ up' = [up EXCEPT ![h] = @ \o <<<<"http.body", r>>>>]
  BY DEF SendChunk, Replies
<1> HIDE DEF h
<1>6. Moved(h, r, j)
  <2>1. desktop' = WithBytes(WithJob(desktop, r, j), h, desktop.bytes[h])
    BY <1>1, <1>2, <1>5 DEF WithBytes, WithJob, DesktopShape
  <2> HIDE DEF j
  <2> QED
    BY <1>1, <1>2, <1>4, <2>1, MovedWritten
<1> HIDE DEF j
<1> QED
  BY <1>1, <1>4, <1>5, <1>6, MovedKeeps DEF h

\* The local sockets of a host socket become S.
LEMMA LocalsWritten ==
  ASSUME desktop \in DesktopShape, NEW h \in Hosts, NEW S \in SUBSET Players,
         desktop' = [desktop EXCEPT !.local[h] = S]
  PROVE  /\ desktop' \in DesktopShape /\ desktop'.socket = desktop.socket
         /\ desktop'.bytes = desktop.bytes /\ desktop'.job = desktop.job
         /\ desktop'.local[h] = S /\ \A g \in Hosts \ {h} : desktop'.local[g] = desktop.local[g]
<1>1. desktop.local \in [Hosts -> SUBSET Players]
  BY DEF DesktopShape
<1> DEFINE l == [desktop.local EXCEPT ![h] = S]
<1>2. l \in [Hosts -> SUBSET Players] /\ l[h] = S /\ \A g \in Hosts \ {h} : l[g] = desktop.local[g]
  BY <1>1
<1>3. desktop' = [desktop EXCEPT !.local = l]
  BY DEF DesktopShape
<1> HIDE DEF l
<1>4. /\ desktop' \in DesktopShape /\ desktop'.socket = desktop.socket /\ desktop'.local = l
      /\ desktop'.bytes = desktop.bytes /\ desktop'.job = desktop.job
  BY <1>2, <1>3 DEF DesktopShape
<1> QED
  BY <1>2, <1>4

\* The books do not change while no job does.
LEMMA SameJobs ==
  ASSUME TunnelInv, relay' = relay, desktop'.job = desktop.job, desktop'.bytes = desktop.bytes
  PROVE  DesktopBooks'
<1>1. \A h \in Hosts : OwnBytes(h)' = OwnBytes(h)
  BY DEF OwnBytes, To
<1> QED
  BY <1>1 DEF DesktopBooks, TunnelInv

\* LocalCloses
LEMMA LocalClosesKeeps ==
  ASSUME TunnelInv, NEW h \in Hosts, NEW p \in Players, LocalCloses(h, p)
  PROVE  TunnelInv' /\ NoneAnswered
<1> DEFINE n == <<<<"ws.close", p>>>>
<1>1. /\ UNCHANGED <<relay, down, faults>> /\ up' = [up EXCEPT ![h] = @ \o n]
      /\ desktop' = [desktop EXCEPT !.local[h] = @ \ {p}] /\ desktop \in DesktopShape
      /\ desktop.local[h] \subseteq Players
  BY DEF LocalCloses, Replies, TunnelInv, Typed, DesktopShape
<1>2. /\ desktop' \in DesktopShape /\ desktop'.bytes = desktop.bytes /\ desktop'.job = desktop.job
      /\ \A g \in Hosts : desktop'.local[g] \subseteq desktop.local[g]
  <2>1. desktop' = [desktop EXCEPT !.local[h] = desktop.local[h] \ {p}]
    BY <1>1
  <2>2. desktop.local[h] \ {p} \in SUBSET Players
    BY <1>1
  <2>3. /\ desktop' \in DesktopShape /\ desktop'.bytes = desktop.bytes /\ desktop'.job = desktop.job
        /\ desktop'.local[h] = desktop.local[h] \ {p}
        /\ \A g \in Hosts \ {h} : desktop'.local[g] = desktop.local[g]
    BY <1>1, <2>1, <2>2, LocalsWritten
  <2> QED
    BY <2>3
<1>3. DesktopBooks'
  BY <1>1, <1>2, SameJobs
<1>4. Orders' /\ Locals'
  <2>1. GoOn(<<>>)
    BY <1>2 DEF GoOn
  <2>2. \A g \in Hosts : OnItsWay(g)
    BY <1>1, <1>2 DEF OnItsWay
  <2> QED
    BY <1>1, <2>1, <2>2, OrdersStay
<1>5. Says(h, n)
  <2>1. n \in {<<>>} \cup {<<f>> : f \in Frames}
    BY DEF Frames
  <2>2. DOMAIN n = {1} /\ n[1][1] = "ws.close" /\ "ws.close" \notin HttpFrames
    BY DEF HttpFrames
  <2>3. ASSUME NEW q \in Requests
        PROVE  desktop'.job[q].sent = desktop.job[q].sent + (IF n = <<<<"http.body", q>>>> THEN 1 ELSE 0)
    <3>1. n # <<<<"http.body", q>>>>
      <4>1. n[1] # <<"http.body", q>>
        BY <2>2
      <4> QED
        BY <4>1
    <3>2. desktop.job[q] \in JobShape
      BY <1>1 DEF DesktopShape
    <3>3. desktop.job[q].sent \in Nat
      BY <3>2, TunnelAssumption DEF JobShape
    <3> QED
      BY <1>2, <3>1, <3>3
  <2> HIDE DEF n
  <2> QED
    BY <1>2, <2>1, <2>2, <2>3 DEF Says
<1>6. AnswerFrames' /\ Stream' /\ up' \in [Hosts -> Seq(Frames)]
  BY <1>1, <1>5, SaysKeeps
<1>7. RelayInv(relay') /\ NoneAnswered
  BY <1>1 DEF TunnelInv, NoneAnswered, Unanswered
<1> QED
  BY <1>1, <1>2, <1>3, <1>4, <1>6, <1>7 DEF TunnelInv, Typed

\* The desktop refuses a request of h, or says nothing.
LEMMA SaysRefusal ==
  ASSUME TunnelInv, NEW h \in Hosts, NEW r,
         NEW n, n = <<>> \/ (n = <<<<"http.error", r>>>> /\ r \in Requests /\ To(r) = h),
         \A q \in Requests : /\ desktop.job[q].state = "ended" => desktop'.job[q].state = "ended"
                             /\ desktop'.job[q].sent = desktop.job[q].sent
                             /\ To(q) = None => desktop'.job[q] = desktop.job[q]
  PROVE  Says(h, n)
<1>1. n \in {<<>>} \cup {<<f>> : f \in Frames}
  <2>1. r \in Requests => <<"http.error", r>> \in Frames
    BY DEF Frames, HttpFrames
  <2> QED
    BY <2>1
<1>2. ASSUME NEW i \in DOMAIN n
      PROVE  /\ n[i][1] \in {"http.response", "http.body", "http.end", "http.error", "ws.close"}
             /\ n[i][1] \in HttpFrames => To(n[i][2]) = h
             /\ n[i][1] = "http.end" => desktop'.job[n[i][2]].state = "ended"
             /\ n[i][1] = "http.body" => desktop.job[n[i][2]].state # "ended"
  <2>1. n = <<<<"http.error", r>>>> /\ To(r) = h
    BY <1>2
  <2>2. n[i][1] = "http.error" /\ n[i][2] = r
    BY <1>2, <2>1
  <2> QED
    BY <2>1, <2>2
<1>3. ASSUME NEW q \in Requests
      PROVE  desktop'.job[q].sent = desktop.job[q].sent + (IF n = <<<<"http.body", q>>>> THEN 1 ELSE 0)
  <2>1. n # <<<<"http.body", q>>>>
    <3>1. <<>> # <<<<"http.body", q>>>>
      OBVIOUS
    <3>2. <<<<"http.error", r>>>> # <<<<"http.body", q>>>>
      OBVIOUS
    <3> QED
      BY <3>1, <3>2
  <2>2. desktop.job[q] \in JobShape
    BY DEF TunnelInv, Typed, DesktopShape
  <2>3. desktop.job[q].sent \in Nat
    BY <2>2, TunnelAssumption DEF JobShape
  <2> QED
    BY <2>1, <2>3
<1> QED
  BY <1>1, <1>2, <1>3 DEF Says

\* The desktop takes the first frame that is on its way to h, and sends frames n.
Takes(h, n) ==
  /\ down[h] # <<>> /\ down' = [down EXCEPT ![h] = Tail(@)] /\ up' = [up EXCEPT ![h] = @ \o n]
  /\ UNCHANGED <<relay, faults>>

\* A frame is taken.
LEMMA TakesKeeps ==
  ASSUME TunnelInv, NEW h \in Hosts, NEW n, Takes(h, n), desktop' \in DesktopShape, DesktopBooks',
         GoOn(Head(down[h])), Says(h, n),
         \A g \in Hosts \ {h} : desktop'.local[g] \subseteq desktop.local[g],
         \A p \in desktop'.local[h] :
           \/ p \in desktop.local[h] /\ Head(down[h]) # <<"ws.close", p>>
           \/ p \in Players /\ Head(down[h]) = <<"ws.open", p>>
  PROVE  TunnelInv' /\ NoneAnswered
<1>1. /\ down[h] # <<>> /\ relay' = relay /\ faults' = faults
      /\ down' = [down EXCEPT ![h] = Tail(@)] /\ up' = [up EXCEPT ![h] = @ \o n]
  BY DEF Takes
<1>2. Orders' /\ Locals' /\ down' \in [Hosts -> Seq(Frames)]
  BY <1>1, OrdersTaken
<1>3. AnswerFrames' /\ Stream' /\ up' \in [Hosts -> Seq(Frames)]
  BY <1>1, SaysKeeps
<1>4. RelayInv(relay') /\ NoneAnswered /\ faults' \in 0..MaxFaults
  BY <1>1 DEF TunnelInv, NoneAnswered, Unanswered
<1> QED
  BY <1>2, <1>3, <1>4 DEF TunnelInv, Typed

\* A request's frame is taken, and the job stays as it is.
LEMMA TakenIdly ==
  ASSUME TunnelInv, NEW h \in Hosts, NEW r, NEW n, Takes(h, n), desktop' = desktop,
         Head(down[h])[1] # "ws.close",
         n = <<>> \/ (n = <<<<"http.error", r>>>> /\ r \in Requests /\ To(r) = h)
  PROVE  TunnelInv' /\ NoneAnswered
<1>1. Says(h, n)
  BY SaysRefusal
<1>2. GoOn(Head(down[h]))
  BY DEF GoOn
<1>3. desktop' \in DesktopShape /\ DesktopBooks'
  BY SameJobs DEF TunnelInv, Typed, Takes
<1>4. \A p \in desktop'.local[h] : p \in desktop.local[h] /\ Head(down[h]) # <<"ws.close", p>>
  <2>1. \A p : <<"ws.close", p>>[1] = "ws.close"
    OBVIOUS
  <2> QED
    BY <2>1
<1> QED
  BY <1>1, <1>2, <1>3, <1>4, TakesKeeps

\* A request's frame is taken, and its job moves.
LEMMA TakenMoves ==
  ASSUME TunnelInv, NEW h \in Hosts, NEW r \in Requests, To(r) = h, NEW n, Takes(h, n),
         NEW j \in JobShape, Moved(h, r, j), j.sent = desktop.job[r].sent,
         NEW k \in {"http.request", "http.body", "http.end"}, Head(down[h]) = <<k, r>>,
         desktop.job[r].state # "ended",
         desktop.job[r].state = "none" => k = "http.request",
         desktop.job[r].bytes = 0 => k = "http.body" \/ j.bytes = 0,
         n \in {<<>>, <<<<"http.error", r>>>>}
  PROVE  TunnelInv' /\ NoneAnswered
<1>1. Says(h, n)
  <2>1. ASSUME NEW q \in Requests
        PROVE  /\ desktop.job[q].state = "ended" => desktop'.job[q].state = "ended"
               /\ desktop'.job[q].sent = desktop.job[q].sent
               /\ To(q) = None => desktop'.job[q] = desktop.job[q]
    <3>1. To(r) # None
      BY TunnelAssumption
    <3> QED
      BY <3>1 DEF Moved
  <2> QED
    BY <2>1, SaysRefusal
<1>2. GoOn(Head(down[h]))
  <2>1. ASSUME NEW q \in Requests
        PROVE  /\ desktop.job[q].state = "none" /\ <<k, r>> # <<"http.request", q>> =>
                    desktop'.job[q].state = "none"
               /\ desktop.job[q].bytes = 0 /\ <<k, r>> # <<"http.body", q>> => desktop'.job[q].bytes = 0
    BY DEF Moved
  <2> QED
    BY <2>1 DEF GoOn
<1>3. desktop' \in DesktopShape /\ DesktopBooks' /\ desktop'.local = desktop.local
  <2>1. relay' = relay
    BY DEF Takes
  <2> QED
    BY <2>1, JobCounted DEF Moved
<1>4. \A p \in desktop'.local[h] : p \in desktop.local[h] /\ Head(down[h]) # <<"ws.close", p>>
  BY <1>3
<1> QED
  BY <1>1, <1>2, <1>3, <1>4, TakesKeeps

\* A player's frame is taken, and the local sockets follow.
LEMMA TakenLocals ==
  ASSUME TunnelInv, NEW h \in Hosts, NEW p \in Players, Takes(h, <<>>),
         NEW S \in SUBSET Players, desktop' = [desktop EXCEPT !.local[h] = S],
         \/ Head(down[h]) = <<"ws.open", p>> /\ S = desktop.local[h] \cup {p}
         \/ Head(down[h]) = <<"ws.close", p>> /\ S = desktop.local[h] \ {p}
  PROVE  TunnelInv' /\ NoneAnswered
<1>1. desktop \in DesktopShape
  BY DEF TunnelInv, Typed
<1>2. /\ desktop' \in DesktopShape /\ desktop'.bytes = desktop.bytes /\ desktop'.job = desktop.job
      /\ desktop'.local[h] = S /\ \A g \in Hosts \ {h} : desktop'.local[g] = desktop.local[g]
  BY <1>1, LocalsWritten
<1>3. DesktopBooks'
  BY <1>2, SameJobs DEF Takes
<1>4. GoOn(Head(down[h]))
  BY <1>2 DEF GoOn
<1>5. Says(h, <<>>)
  <2>1. ASSUME NEW i \in DOMAIN <<>>
        PROVE  FALSE
    BY <2>1
  <2>2. ASSUME NEW q \in Requests
        PROVE  desktop'.job[q].sent = desktop.job[q].sent + (IF <<>> = <<<<"http.body", q>>>> THEN 1 ELSE 0)
    <3>1. desktop.job[q] \in JobShape
      BY <1>1 DEF DesktopShape
    <3>2. desktop.job[q].sent \in Nat
      BY <3>1, TunnelAssumption DEF JobShape
    <3> QED
      BY <1>2, <3>2
  <2> QED
    BY <1>2, <2>1, <2>2 DEF Says
<1>6. \A q \in S : \/ q \in desktop.local[h] /\ Head(down[h]) # <<"ws.close", q>>
                   \/ q \in Players /\ Head(down[h]) = <<"ws.open", q>>
  <2>1. CASE Head(down[h]) = <<"ws.open", p>> /\ S = desktop.local[h] \cup {p}
    BY <2>1
  <2>2. CASE Head(down[h]) = <<"ws.close", p>> /\ S = desktop.local[h] \ {p}
    BY <2>2
  <2> QED
    BY <2>1, <2>2
<1> QED
  BY <1>2, <1>3, <1>4, <1>5, <1>6, TakesKeeps

\* A field of a job is written, and with it the count of its socket.
LEMMA JobFields ==
  ASSUME TunnelInv, NEW h \in Hosts, NEW r \in Requests, To(r) = h
  PROVE  /\ \A k \in {"receiving", "fetching"} :
              desktop' = [desktop EXCEPT !.job[r].state = k] =>
                LET j == [desktop.job[r] EXCEPT !.state = k]
                IN /\ j \in JobShape /\ j.sent = desktop.job[r].sent /\ j.bytes = desktop.job[r].bytes
                   /\ Moved(h, r, j)
         /\ desktop' = [desktop EXCEPT !.job[r].bytes = 1, !.bytes[h] = @ + 1] /\ desktop.job[r].bytes = 0 =>
              LET j == [desktop.job[r] EXCEPT !.bytes = 1]
              IN j \in JobShape /\ j.sent = desktop.job[r].sent /\ Moved(h, r, j)
<1>1. /\ desktop \in DesktopShape /\ desktop.job[r] \in JobShape /\ desktop.bytes[h] \in Nat
      /\ desktop.job[r].bytes \in Nat
  BY JobCounted
<1>2. ASSUME NEW k \in {"receiving", "fetching"}, desktop' = [desktop EXCEPT !.job[r].state = k]
      PROVE  LET j == [desktop.job[r] EXCEPT !.state = k]
             IN /\ j \in JobShape /\ j.sent = desktop.job[r].sent /\ j.bytes = desktop.job[r].bytes
                /\ Moved(h, r, j)
  <2> DEFINE j == [desktop.job[r] EXCEPT !.state = k]
  <2>1. j \in JobShape /\ j.sent = desktop.job[r].sent /\ j.bytes = desktop.job[r].bytes
    BY <1>1 DEF JobShape
  <2>2. desktop' = WithBytes(WithJob(desktop, r, j), h, desktop.bytes[h])
    BY <1>1, <1>2 DEF WithBytes, WithJob, DesktopShape
  <2> HIDE DEF j
  <2>3. Moved(h, r, j)
    BY <1>1, <2>1, <2>2, MovedWritten
  <2> QED
    BY <2>1, <2>3 DEF j
<1>3. ASSUME desktop' = [desktop EXCEPT !.job[r].bytes = 1, !.bytes[h] = @ + 1],
             desktop.job[r].bytes = 0
      PROVE  LET j == [desktop.job[r] EXCEPT !.bytes = 1]
             IN j \in JobShape /\ j.sent = desktop.job[r].sent /\ Moved(h, r, j)
  <2> DEFINE j == [desktop.job[r] EXCEPT !.bytes = 1]
             b == desktop.bytes[h] + 1
  <2>1. j \in JobShape /\ j.sent = desktop.job[r].sent /\ j.bytes = 1
    BY <1>1 DEF JobShape
  <2>2. desktop' = WithBytes(WithJob(desktop, r, j), h, b)
    BY <1>1, <1>3 DEF WithBytes, WithJob, DesktopShape
  <2>3. b \in Nat /\ b = desktop.bytes[h] - desktop.job[r].bytes + 1
    BY <1>1, <1>3
  <2> HIDE DEF j, b
  <2>4. Moved(h, r, j)
    BY <1>1, <2>1, <2>2, <2>3, MovedWritten
  <2> QED
    BY <2>1, <2>4 DEF j
<1> QED
  BY <1>2, <1>3

\* DesktopReceive, for each kind of frame.
LEMMA RequestTaken ==
  ASSUME TunnelInv, NEW h \in Hosts, NEW r \in Requests, To(r) = h, desktop.job[r].state = "none",
         Takes(h, TakeRequest(h, r)[2]), desktop' = TakeRequest(h, r)[1],
         Head(down[h]) = <<"http.request", r>>
  PROVE  TunnelInv' /\ NoneAnswered
<1>1. CASE Cardinality(Jobs(h)) >= MaxRequests
  <2>1. TakeRequest(h, r)[1] = desktop /\ TakeRequest(h, r)[2] = <<<<"http.error", r>>>>
    BY <1>1 DEF TakeRequest
  <2>2. Head(down[h])[1] # "ws.close"
    OBVIOUS
  <2> QED
    BY <2>1, <2>2, TakenIdly
<1>2. CASE ~(Cardinality(Jobs(h)) >= MaxRequests)
  <2> DEFINE j == [desktop.job[r] EXCEPT !.state = "receiving"]
  <2>1. /\ TakeRequest(h, r)[1] = [desktop EXCEPT !.job[r].state = "receiving"]
        /\ TakeRequest(h, r)[2] = <<>>
    BY <1>2 DEF TakeRequest
  <2>2. j \in JobShape /\ j.sent = desktop.job[r].sent /\ j.bytes = desktop.job[r].bytes /\ Moved(h, r, j)
    BY <2>1, JobFields
  <2> HIDE DEF j
  <2>3. Takes(h, <<>>)
    BY <2>1
  <2> QED
    BY <2>2, <2>3, TakenMoves
<1> QED
  BY <1>1, <1>2

\* ... a body
LEMMA BodyIsTaken ==
  ASSUME TunnelInv, NEW h \in Hosts, NEW r \in Requests, To(r) = h, desktop.job[r].bytes = 0,
         Takes(h, TakeBody(h, r)[2]), desktop' = TakeBody(h, r)[1],
         Head(down[h]) = <<"http.body", r>>
  PROVE  TunnelInv' /\ NoneAnswered
<1>1. CASE desktop.job[r].state # "receiving"
  <2>1. TakeBody(h, r)[1] = desktop /\ TakeBody(h, r)[2] = <<>>
    BY <1>1 DEF TakeBody
  <2>2. Head(down[h])[1] # "ws.close"
    OBVIOUS
  <2> QED
    BY <2>1, <2>2, TakenIdly
<1>2. CASE desktop.job[r].state = "receiving" /\ desktop.bytes[h] + 1 > MaxUploadBytes
  <2> DEFINE n == <<<<"http.error", r>>>>
  <2>1. TakeBody(h, r)[1] = JobEnds(desktop, h, r) /\ TakeBody(h, r)[2] = n
    BY <1>2 DEF TakeBody
  <2>2. /\ Moved(h, r, EndedJob(r)) /\ EndedJob(r) \in JobShape /\ EndedJob(r).bytes = 0
        /\ EndedJob(r).sent = desktop.job[r].sent
    BY <2>1, JobEndsMoved
  <2>3. Takes(h, n) /\ n \in {<<>>, <<<<"http.error", r>>>>}
    BY <2>1
  <2> HIDE DEF n
  <2> QED
    BY <1>2, <2>2, <2>3, TakenMoves
<1>3. CASE desktop.job[r].state = "receiving" /\ ~(desktop.bytes[h] + 1 > MaxUploadBytes)
  <2> DEFINE j == [desktop.job[r] EXCEPT !.bytes = 1]
  <2>1. /\ TakeBody(h, r)[1] = [desktop EXCEPT !.job[r].bytes = 1, !.bytes[h] = @ + 1]
        /\ TakeBody(h, r)[2] = <<>>
    BY <1>3 DEF TakeBody
  <2>2. j \in JobShape /\ j.sent = desktop.job[r].sent /\ Moved(h, r, j)
    BY <2>1, JobFields
  <2> HIDE DEF j
  <2>3. Takes(h, <<>>)
    BY <2>1
  <2> QED
    BY <1>3, <2>2, <2>3, TakenMoves
<1> QED
  BY <1>1, <1>2, <1>3

\* ... a request's end
LEMMA EndIsTaken ==
  ASSUME TunnelInv, NEW h \in Hosts, NEW r \in Requests, To(r) = h,
         Takes(h, TakeEnd(r)[2]), desktop' = TakeEnd(r)[1], Head(down[h]) = <<"http.end", r>>
  PROVE  TunnelInv' /\ NoneAnswered
<1>1. TakeEnd(r)[2] = <<>>
  BY DEF TakeEnd
<1>2. CASE desktop.job[r].state # "receiving"
  <2>1. TakeEnd(r)[1] = desktop
    BY <1>2 DEF TakeEnd
  <2>2. Head(down[h])[1] # "ws.close"
    OBVIOUS
  <2> QED
    BY <1>1, <2>1, <2>2, TakenIdly
<1>3. CASE desktop.job[r].state = "receiving"
  <2> DEFINE j == [desktop.job[r] EXCEPT !.state = "fetching"]
  <2>1. TakeEnd(r)[1] = [desktop EXCEPT !.job[r].state = "fetching"]
    BY <1>3 DEF TakeEnd
  <2>2. j \in JobShape /\ j.sent = desktop.job[r].sent /\ j.bytes = desktop.job[r].bytes /\ Moved(h, r, j)
    BY <2>1, JobFields
  <2> HIDE DEF j
  <2>3. Takes(h, <<>>)
    BY <1>1
  <2> QED
    BY <1>3, <2>2, <2>3, TakenMoves
<1> QED
  BY <1>2, <1>3

\* ... a player's socket
LEMMA PlayerTaken ==
  ASSUME TunnelInv, NEW h \in Hosts, NEW p \in Players, NEW opens \in BOOLEAN, NEW Q,
         \/ Head(down[h]) = <<"ws.open", p>> /\ Q = TakeOpen(h, p, opens)
         \/ Head(down[h]) = <<"ws.close", p>> /\ Q = TakeClose(h, p),
         Takes(h, Q[2]), desktop' = Q[1]
  PROVE  TunnelInv' /\ NoneAnswered
<1>1. desktop.local[h] \subseteq Players
  BY DEF TunnelInv, Typed, DesktopShape
<1>2. CASE Head(down[h]) = <<"ws.open", p>> /\ Q = TakeOpen(h, p, opens)
  <2>1. Q[2] = <<>>
    BY <1>2 DEF TakeOpen
  <2>2. CASE opens
    <3>1. Q[1] = [desktop EXCEPT !.local[h] = @ \cup {p}]
      BY <1>2, <2>2 DEF TakeOpen
    <3>2. desktop' = [desktop EXCEPT !.local[h] = desktop.local[h] \cup {p}]
      BY <3>1
    <3>3. PICK S \in SUBSET Players : S = desktop.local[h] \cup {p}
      BY <1>1
    <3>4. desktop' = [desktop EXCEPT !.local[h] = S] /\ Takes(h, <<>>)
      BY <2>1, <3>2, <3>3
    <3> QED
      BY <1>2, <3>3, <3>4, TakenLocals
  <2>3. CASE ~opens
    <3>1. Q[1] = desktop /\ Head(down[h])[1] # "ws.close"
      BY <1>2, <2>3 DEF TakeOpen
    <3>2. desktop' = desktop /\ Takes(h, <<>>)
      BY <2>1, <3>1
    <3> QED
      BY <3>1, <3>2, TakenIdly
  <2> QED
    BY <2>2, <2>3
<1>3. CASE Head(down[h]) = <<"ws.close", p>> /\ Q = TakeClose(h, p)
  <2>1. Q[2] = <<>> /\ Q[1] = [desktop EXCEPT !.local[h] = @ \ {p}]
    BY <1>3 DEF TakeClose
  <2>2. PICK S \in SUBSET Players : S = desktop.local[h] \ {p}
    BY <1>1
  <2>3. desktop' = [desktop EXCEPT !.local[h] = S] /\ Takes(h, <<>>)
    BY <2>1, <2>2
  <2> QED
    BY <1>3, <2>2, <2>3, TakenLocals
<1> QED
  BY <1>2, <1>3

\* DesktopReceive
LEMMA DesktopReceiveKeeps ==
  ASSUME TunnelInv, NEW h \in Hosts, DesktopReceive(h)
  PROVE  TunnelInv' /\ NoneAnswered
<1> DEFINE f == Head(down[h])
<1>1. down[h] # <<>> /\ down[h] \in Seq(Frames)
  BY DEF DesktopReceive, TunnelInv, Typed
<1>2. f \in Frames /\ f = down[h][1] /\ 1 \in DOMAIN down[h]
  BY <1>1, TailFrames
<1>3. Order(h, 1) /\ h # None
  BY <1>2, TunnelAssumption DEF TunnelInv, Orders
<1>4. /\ f[1] \in {"http.request", "http.body", "http.end", "ws.open", "ws.close"}
      /\ f[1] \in HttpFrames => To(f[2]) = h
      /\ f[1] = "http.request" => desktop.job[f[2]].state = "none"
      /\ f[1] = "http.body" => desktop.job[f[2]].bytes = 0
  BY <1>2, <1>3 DEF Order
<1>5. /\ f = <<f[1], f[2]>> /\ (f[1] \in HttpFrames => f[2] \in Requests)
      /\ f[1] \in {"ws.open", "ws.close"} => f[2] \in Players
  BY <1>2 DEF Frames, HttpFrames
<1>6. PICK opens \in BOOLEAN :
        LET result == CASE f[1] = "http.request" -> TakeRequest(h, f[2])
                        [] f[1] = "http.body" -> TakeBody(h, f[2])
                        [] f[1] = "http.end" -> TakeEnd(f[2])
                        [] f[1] = "ws.open" -> TakeOpen(h, f[2], opens)
                        [] f[1] = "ws.close" -> TakeClose(h, f[2])
        IN desktop' = result[1] /\ up' = [up EXCEPT ![h] = @ \o result[2]]
  BY DEF DesktopReceive
<1>7. down' = [down EXCEPT ![h] = Tail(@)] /\ UNCHANGED <<relay, faults>>
  BY DEF DesktopReceive
<1> HIDE DEF f
<1>8. CASE f[1] = "http.request"
  <2>1. desktop' = TakeRequest(h, f[2])[1] /\ up' = [up EXCEPT ![h] = @ \o TakeRequest(h, f[2])[2]]
    BY <1>6, <1>8
  <2>2. Takes(h, TakeRequest(h, f[2])[2])
    BY <1>1, <1>7, <2>1 DEF Takes
  <2>3. f[2] \in Requests /\ To(f[2]) = h /\ desktop.job[f[2]].state = "none"
    BY <1>4, <1>5, <1>8 DEF HttpFrames
  <2>4. Head(down[h]) = <<"http.request", f[2]>>
    BY <1>5, <1>8 DEF f
  <2> QED
    BY <2>1, <2>2, <2>3, <2>4, RequestTaken
<1>9. CASE f[1] = "http.body"
  <2>1. desktop' = TakeBody(h, f[2])[1] /\ up' = [up EXCEPT ![h] = @ \o TakeBody(h, f[2])[2]]
    BY <1>6, <1>9
  <2>2. Takes(h, TakeBody(h, f[2])[2])
    BY <1>1, <1>7, <2>1 DEF Takes
  <2>3. f[2] \in Requests /\ To(f[2]) = h /\ desktop.job[f[2]].bytes = 0
    BY <1>4, <1>5, <1>9 DEF HttpFrames
  <2>4. Head(down[h]) = <<"http.body", f[2]>>
    BY <1>5, <1>9 DEF f
  <2> QED
    BY <2>1, <2>2, <2>3, <2>4, BodyIsTaken
<1>10. CASE f[1] = "http.end"
  <2>1. desktop' = TakeEnd(f[2])[1] /\ up' = [up EXCEPT ![h] = @ \o TakeEnd(f[2])[2]]
    BY <1>6, <1>10
  <2>2. Takes(h, TakeEnd(f[2])[2])
    BY <1>1, <1>7, <2>1 DEF Takes
  <2>3. f[2] \in Requests /\ To(f[2]) = h
    BY <1>4, <1>5, <1>10 DEF HttpFrames
  <2>4. Head(down[h]) = <<"http.end", f[2]>>
    BY <1>5, <1>10 DEF f
  <2> QED
    BY <2>1, <2>2, <2>3, <2>4, EndIsTaken
<1>11. CASE f[1] \in {"ws.open", "ws.close"}
  <2> DEFINE Q == IF f[1] = "ws.open" THEN TakeOpen(h, f[2], opens) ELSE TakeClose(h, f[2])
  <2>1. desktop' = Q[1] /\ up' = [up EXCEPT ![h] = @ \o Q[2]]
    BY <1>6, <1>11
  <2>2. \/ Head(down[h]) = <<"ws.open", f[2]>> /\ Q = TakeOpen(h, f[2], opens)
        \/ Head(down[h]) = <<"ws.close", f[2]>> /\ Q = TakeClose(h, f[2])
    BY <1>5, <1>11 DEF f
  <2>3. f[2] \in Players
    BY <1>5, <1>11
  <2> HIDE DEF Q
  <2>4. Takes(h, Q[2])
    BY <1>1, <1>7, <2>1 DEF Takes
  <2> QED
    BY <2>1, <2>2, <2>3, <2>4, PlayerTaken
<1> QED
  BY <1>4, <1>8, <1>9, <1>10, <1>11

\* What the close of its socket makes of a job: what is being received is cut, the
\* others are told to stop.
Cut(h) == {r \in Jobs(h) : desktop.job[r].state = "receiving"}
CutBytes(h) == [r \in Cut(h) |-> desktop.job[r].bytes]
CutJob(h, r) ==
  IF r \notin Jobs(h) THEN desktop.job[r]
  ELSE LET j == IF r \in Cut(h) THEN [desktop.job[r] EXCEPT !.bytes = 0, !.state = "ended"] ELSE desktop.job[r]
       IN [j EXCEPT !.aborted = TRUE]

\* The fields of a job at such a close.
LEMMA CutFields ==
  ASSUME NEW h \in Hosts, NEW r \in Requests, desktop.job[r] \in JobShape
  PROVE  /\ CutJob(h, r) \in JobShape /\ CutJob(h, r).sent = desktop.job[r].sent
         /\ CutJob(h, r).bytes = IF r \in Cut(h) THEN 0 ELSE desktop.job[r].bytes
         /\ CutJob(h, r).state = IF r \in Cut(h) THEN "ended" ELSE desktop.job[r].state
         /\ r \notin Jobs(h) => CutJob(h, r) = desktop.job[r]
<1> DEFINE q == desktop.job[r]
           e == [q EXCEPT !.bytes = 0]
           i == [e EXCEPT !.state = "ended"]
           j == IF r \in Cut(h) THEN i ELSE q
           c == [j EXCEPT !.aborted = TRUE]
<1>1. q \in JobShape /\ 0 \in 0..1
  OBVIOUS
<1> HIDE DEF q
<1>2. e \in JobShape /\ e.bytes = 0 /\ e.sent = q.sent
  BY <1>1 DEF JobShape
<1> HIDE DEF e
<1>3. i \in JobShape /\ i.bytes = 0 /\ i.state = "ended" /\ i.sent = q.sent
  BY <1>2 DEF JobShape
<1> HIDE DEF i
<1>4. /\ j \in JobShape /\ j.sent = q.sent /\ j.bytes = IF r \in Cut(h) THEN 0 ELSE q.bytes
      /\ j.state = IF r \in Cut(h) THEN "ended" ELSE q.state
  BY <1>1, <1>3
<1>5. CutJob(h, r) = IF r \in Jobs(h) THEN c ELSE q
  BY DEF CutJob, i, e, q
<1> HIDE DEF j
<1>6. c \in JobShape /\ c.sent = j.sent /\ c.bytes = j.bytes /\ c.state = j.state
  BY <1>4 DEF JobShape
<1> HIDE DEF c
<1>7. r \in Cut(h) => r \in Jobs(h)
  BY DEF Cut
<1>8. CASE r \in Jobs(h)
  BY <1>4, <1>5, <1>6, <1>8 DEF q
<1>9. CASE r \notin Jobs(h)
  BY <1>1, <1>5, <1>7, <1>9 DEF q
<1> QED
  BY <1>8, <1>9

\* What is cut is counted, and is missing then.
LEMMA CutCounted ==
  ASSUME TunnelInv, NEW h \in Hosts
  PROVE  /\ Total(CutBytes(h)) \in Nat /\ desktop.bytes[h] \in Nat
         /\ desktop.bytes[h] - Total(CutBytes(h)) \in Nat
         /\ \A m \in [Requests -> Nat] :
              (\A r \in Requests : m[r] = IF r \in Cut(h) THEN 0 ELSE OwnBytes(h)[r]) =>
                IsFiniteSet(Units(m)) /\ Total(m) = desktop.bytes[h] - Total(CutBytes(h))
<1> DEFINE n == OwnBytes(h)
           S == Cut(h)
           k == CutBytes(h)
<1>1. \A r \in Requests : desktop.job[r].bytes \in Nat
  <2>1. \A r \in Requests : desktop.job[r] \in JobShape
    BY DEF TunnelInv, Typed, DesktopShape
  <2> QED
    BY <2>1 DEF JobShape
<1>2. n \in [Requests -> Nat] /\ \A r \in S : To(r) = h /\ r \in Requests
  BY <1>1 DEF OwnBytes, Cut, Jobs
<1>3. S \in SUBSET Requests /\ k \in [S -> Nat] /\ \A r \in S : k[r] = n[r]
  BY <1>1, <1>2 DEF CutBytes, OwnBytes
<1>4. IsFiniteSet(Units(n)) /\ desktop.bytes[h] = Total(n) /\ desktop.bytes[h] \in Nat
  BY DEF TunnelInv, DesktopBooks, Typed, DesktopShape
<1> HIDE DEF n, S, k
<1>5. ASSUME NEW m \in [Requests -> Nat], \A r \in Requests : m[r] = IF r \in S THEN 0 ELSE n[r]
      PROVE  /\ IsFiniteSet(Units(m)) /\ Total(m) = Total(n) - Total(k)
             /\ Total(n) \in Nat /\ Total(k) \in Nat /\ Total(m) \in Nat
  BY <1>2, <1>3, <1>4, <1>5, TotalClear
<1>6. Total(k) \in Nat /\ Total(n) - Total(k) \in Nat
  <2> DEFINE m == [r \in Requests |-> IF r \in S THEN 0 ELSE n[r]]
  <2>1. m \in [Requests -> Nat] /\ \A r \in Requests : m[r] = IF r \in S THEN 0 ELSE n[r]
    BY <1>2
  <2> HIDE DEF m
  <2> QED
    BY <1>5, <2>1
<1> QED
  BY <1>4, <1>5, <1>6 DEF n, S, k

\* What the close makes of the desktop's end.
LEMMA DesktopCloseFields ==
  ASSUME TunnelInv, NEW h \in Hosts, DesktopClose(h)
  PROVE  /\ desktop' \in DesktopShape
         /\ \A r \in Requests : desktop'.job[r] = CutJob(h, r)
         /\ desktop'.bytes[h] = Least0(desktop.bytes[h] - Total(CutBytes(h)))
         /\ desktop'.local[h] = {}
         /\ \A g \in Hosts \ {h} : /\ desktop'.bytes[g] = desktop.bytes[g]
                                   /\ desktop'.local[g] = desktop.local[g]
<1> DEFINE b == Least0(desktop.bytes[h] - Total(CutBytes(h)))
           job == [r \in Requests |->
                     IF r \in Cut(h) THEN [desktop.job[r] EXCEPT !.bytes = 0, !.state = "ended"]
                     ELSE desktop.job[r]]
           d == [desktop EXCEPT !.bytes = [@ EXCEPT ![h] = b], !.job = job]
           last == [r \in Requests |-> CutJob(h, r)]
<1>1. desktop \in DesktopShape /\ \A r \in Requests : desktop.job[r] \in JobShape
  BY DEF TunnelInv, Typed, DesktopShape
<1>2. last \in [Requests -> JobShape] /\ \A r \in Requests : last[r] = CutJob(h, r)
  BY <1>1, CutFields
<1>3. b \in Nat
  BY CutCounted, LeastType
<1>4. job \in [Requests -> JobShape]
  <2>1. ASSUME NEW r \in Requests
        PROVE  job[r] \in JobShape
    <3> DEFINE q == desktop.job[r]
               e == [q EXCEPT !.bytes = 0]
    <3>1. q \in JobShape /\ 0 \in 0..1
      BY <1>1
    <3> HIDE DEF q
    <3>2. e \in JobShape
      BY <3>1 DEF JobShape
    <3> HIDE DEF e
    <3>3. [e EXCEPT !.state = "ended"] \in JobShape
      BY <3>2 DEF JobShape
    <3>4. [q EXCEPT !.bytes = 0, !.state = "ended"] \in JobShape
      BY <3>3 DEF e
    <3> QED
      BY <3>1, <3>4 DEF q
  <2> QED
    BY <2>1
<1>5. ClearPending(desktop, h) = d
  <2>1. Cut(h) = {r \in Jobs(h) : desktop.job[r].state = "receiving"}
    BY DEF Cut
  <2>2. CutBytes(h) = [r \in {q \in Jobs(h) : desktop.job[q].state = "receiving"} |-> desktop.job[r].bytes]
    BY <2>1 DEF CutBytes
  <2> QED
    BY <1>1, <2>1, <2>2 DEF ClearPending, DesktopShape
<1>6. /\ d.job = job /\ d.local = desktop.local /\ d.socket = desktop.socket /\ d \in DesktopShape
      /\ d.bytes[h] = b /\ \A g \in Hosts \ {h} : d.bytes[g] = desktop.bytes[g]
  BY <1>1, <1>3, <1>4 DEF DesktopShape
<1>7. [r \in Requests |-> IF r \in Jobs(h) THEN [job[r] EXCEPT !.aborted = TRUE] ELSE job[r]] = last
  BY DEF CutJob, Cut
<1> HIDE DEF b, job, d, last
<1>8. AbortAll(d, h) = [d EXCEPT !.job = last]
  BY <1>6, <1>7 DEF AbortAll
<1> DEFINE a == [d EXCEPT !.job = last]
<1>9. /\ a \in DesktopShape /\ a.job = last /\ a.bytes = d.bytes /\ a.local = desktop.local
      /\ a.socket = desktop.socket
  BY <1>2, <1>6 DEF DesktopShape
<1>10. desktop' = [a EXCEPT !.socket[h] = "closed", !.local[h] = {}]
  BY <1>5, <1>8 DEF DesktopClose
<1> HIDE DEF a
<1> DEFINE s == [desktop.socket EXCEPT ![h] = "closed"]
           l == [desktop.local EXCEPT ![h] = {}]
<1>11. s \in [Hosts -> {"absent", "open", "closed"}] /\ l \in [Hosts -> SUBSET Players]
  BY <1>1 DEF DesktopShape
<1>12. desktop' = [a EXCEPT !.socket = s, !.local = l]
  BY <1>9, <1>10 DEF DesktopShape
<1>13. desktop'.local[h] = l[h] /\ l[h] = {} /\ \A g \in Hosts \ {h} : l[g] = desktop.local[g]
  BY <1>1, <1>9, <1>12 DEF DesktopShape
<1> HIDE DEF s, l
<1>14. /\ desktop' \in DesktopShape /\ desktop'.job = last /\ desktop'.bytes = d.bytes
       /\ desktop'.local = l
  BY <1>9, <1>11, <1>12 DEF DesktopShape
<1> QED
  BY <1>2, <1>6, <1>13, <1>14 DEF b

\* Follows and Stops: the close of a host socket at the desktop
LEMMA DesktopCloseKeeps ==
  ASSUME TunnelInv, NEW h \in Hosts, DesktopClose(h), faults' \in 0..MaxFaults
  PROVE  TunnelInv' /\ NoneAnswered
<1>1. /\ desktop' \in DesktopShape
      /\ \A r \in Requests : desktop'.job[r] = CutJob(h, r)
      /\ desktop'.bytes[h] = Least0(desktop.bytes[h] - Total(CutBytes(h)))
      /\ desktop'.local[h] = {}
      /\ \A g \in Hosts \ {h} : /\ desktop'.bytes[g] = desktop.bytes[g]
                                /\ desktop'.local[g] = desktop.local[g]
  BY DesktopCloseFields
<1>2. /\ UNCHANGED <<relay, up>> /\ down' = [down EXCEPT ![h] = <<>>]
      /\ down \in [Hosts -> Seq(Frames)] /\ up \in [Hosts -> Seq(Frames)]
  BY DEF DesktopClose, TunnelInv, Typed
<1>3. ASSUME NEW r \in Requests
      PROVE  /\ desktop'.job[r] \in JobShape /\ desktop'.job[r].sent = desktop.job[r].sent
             /\ desktop'.job[r].bytes = IF r \in Cut(h) THEN 0 ELSE desktop.job[r].bytes
             /\ desktop'.job[r].state = IF r \in Cut(h) THEN "ended" ELSE desktop.job[r].state
             /\ r \notin Jobs(h) => desktop'.job[r] = desktop.job[r]
             /\ desktop.job[r] \in JobShape /\ desktop.job[r].bytes \in Nat /\ desktop.job[r].sent \in Nat
  <2>1. desktop.job[r] \in JobShape
    BY DEF TunnelInv, Typed, DesktopShape
  <2>2. desktop.job[r].bytes \in Nat /\ desktop.job[r].sent \in Nat
    BY <2>1, TunnelAssumption DEF JobShape
  <2> QED
    BY <1>1, <2>1, <2>2, CutFields
<1>4. \A r \in Requests : /\ r \in Cut(h) => r \in Jobs(h) /\ desktop.job[r].state = "receiving"
                          /\ r \in Jobs(h) => To(r) = h
  BY DEF Cut, Jobs
<1>5. h # None
  BY TunnelAssumption
<1>6. Orders' /\ Locals'
  <2>1. GoOn(<<>>)
    BY <1>3, <1>4 DEF GoOn
  <2>2. \A g \in Hosts : OnItsWay(g)
    BY <1>1, <1>2 DEF OnItsWay
  <2> QED
    BY <1>2, <2>1, <2>2, OrdersStay
<1>7. AnswerFrames' /\ Stream'
  <2>1. up' = [up EXCEPT ![h] = @ \o <<>>]
    <3>1. up[h] \o <<>> = up[h]
      BY <1>2, NoFrames
    <3> QED
      BY <1>2, <3>1
  <2>2. \A q \in Requests : /\ desktop.job[q].state = "ended" => desktop'.job[q].state = "ended"
                            /\ desktop'.job[q].sent = desktop.job[q].sent
                            /\ To(q) = None => desktop'.job[q] = desktop.job[q]
    BY <1>3, <1>4, <1>5
  <2>3. Says(h, <<>>)
    BY <2>2, SaysRefusal
  <2> QED
    BY <1>2, <2>1, <2>3, SaysKeeps
<1>8. DesktopBooks'
  <2>1. \A q \in Requests : To(q)' = To(q)
    BY <1>2 DEF To
  <2>2. /\ OwnBytes(h)' \in [Requests -> Nat]
        /\ \A r \in Requests : OwnBytes(h)'[r] = IF r \in Cut(h) THEN 0 ELSE OwnBytes(h)[r]
    <3>1. \A r \in Requests : desktop'.job[r].bytes \in Nat
      BY <1>3
    <3> QED
      BY <1>3, <1>4, <2>1, <3>1 DEF OwnBytes
  <2>3. /\ IsFiniteSet(Units(OwnBytes(h)')) /\ Total(OwnBytes(h)') = desktop.bytes[h] - Total(CutBytes(h))
        /\ desktop.bytes[h] - Total(CutBytes(h)) \in Nat
    BY <2>2, CutCounted
  <2>4. desktop'.bytes[h] = Total(OwnBytes(h)')
    <3> DEFINE x == desktop.bytes[h] - Total(CutBytes(h))
    <3>1. x \in Nat
      BY <2>3
    <3>2. Least0(x) = x
      <4> HIDE DEF x
      <4>1. x \in Int
        BY <3>1
      <4> QED
        BY <3>1, <4>1, LeastType
    <3> QED
      BY <1>1, <2>3, <3>2
  <2>5. ASSUME NEW g \in Hosts, g # h
        PROVE  OwnBytes(g)' = OwnBytes(g) /\ desktop'.bytes[g] = desktop.bytes[g]
    BY <1>1, <1>3, <1>4, <2>1, <2>5 DEF OwnBytes
  <2>6. ASSUME NEW g \in Hosts, g # h
        PROVE  IsFiniteSet(Units(OwnBytes(g))) /\ desktop.bytes[g] = Total(OwnBytes(g))
    BY DEF DesktopBooks, TunnelInv
  <2>7. ASSUME NEW g \in Hosts
        PROVE  IsFiniteSet(Units(OwnBytes(g)')) /\ desktop'.bytes[g] = Total(OwnBytes(g)')
    BY <2>3, <2>4, <2>5, <2>6
  <2> QED
    BY <2>7 DEF DesktopBooks, Units, Total
<1>9. Typed' /\ RelayInv(relay') /\ NoneAnswered
  <2>1. down' \in [Hosts -> Seq(Frames)]
    <3>1. <<>> \in Seq(Frames)
      OBVIOUS
    <3> QED
      BY <1>2, <3>1
  <2> QED
    BY <1>1, <1>2, <2>1 DEF Typed, TunnelInv, NoneAnswered, Unanswered
<1> QED
  BY <1>6, <1>7, <1>8, <1>9 DEF TunnelInv

\* Every step.
LEMMA StepKeeps ==
  ASSUME TunnelInv, Next
  PROVE  TunnelInv' /\ (NoneAnswered \/ Whole)
<1>1. ASSUME NEW h \in Hosts, Follows(h) \/ Stops(h)
      PROVE  TunnelInv' /\ NoneAnswered
  <2>1. DesktopClose(h) /\ faults' \in 0..MaxFaults
    BY <1>1, TunnelAssumption DEF Follows, Stops, TunnelInv
  <2> QED
    BY <2>1, DesktopCloseKeeps
<1>2. ASSUME NEW h \in Hosts,
             \/ Listen(h) \/ RelayClose(h) \/ DesktopReceive(h)
             \/ AcceptHost(h) \/ BreaksUnheard(h) \/ RelaySocketError(h)
      PROVE  TunnelInv' /\ NoneAnswered
  BY <1>2, ListenKeeps, RelayCloseKeeps, DesktopReceiveKeeps, AcceptKeeps, BreaksUnheardKeeps,
     SocketErrorKeeps
<1>3. ASSUME NEW h \in Hosts, RelayReceive(h)
      PROVE  TunnelInv' /\ Whole
  BY <1>3, RelayReceiveKeeps
<1>4. ASSUME NEW r \in Requests,
             Reserve(r) \/ BodyIsIn(r) \/ UploadBreaks(r) \/ Timeout(r) \/ Begin(r)
      PROVE  TunnelInv' /\ NoneAnswered
  BY <1>4, ReserveKeeps, BodyIsInKeeps, UploadBreaksKeeps, TimeoutKeeps, BeginKeeps
<1>5. ASSUME NEW r \in Requests, NEW n \in 1..MaxAnswer, ReadAnswer(r, n)
      PROVE  TunnelInv' /\ NoneAnswered
  BY <1>5, ReadKeeps
<1>6. ASSUME NEW r \in Requests,
             BackendAnswers(r) \/ SendChunk(r) \/ SendEnd(r) \/ BackendFails(r) \/ AbortEnds(r)
      PROVE  TunnelInv' /\ NoneAnswered
  BY <1>6, BackendAnswersKeeps, SendChunkKeeps, SendEndKeeps, BackendFailsKeeps, AbortEndsKeeps
<1>7. ASSUME NEW p \in Players, PlayerConnects(p) \/ PlayerCloses(p)
      PROVE  TunnelInv' /\ NoneAnswered
  BY <1>7, PlayerConnectsKeeps, PlayerClosesKeeps
<1>8. ASSUME NEW p \in Players, NEW h \in Hosts, LocalCloses(h, p)
      PROVE  TunnelInv' /\ NoneAnswered
  BY <1>8, LocalClosesKeeps
<1> QED
  BY <1>1, <1>2, <1>3, <1>4, <1>5, <1>6, <1>7, <1>8 DEF Next, Progress

\* Nothing happens.
LEMMA StutterKeeps ==
  ASSUME TunnelInv, UNCHANGED vars
  PROVE  TunnelInv' /\ NoneAnswered
<1>1. UNCHANGED <<relay, desktop, down, up, faults>>
  BY DEF vars
<1>2. Quiet(relay, relay')
  BY <1>1, RelayTypes, TunnelAssumption DEF Quiet, Steady, RelayShape, HttpShape
<1>3. RelayInv(relay') /\ faults' \in 0..MaxFaults /\ NoneAnswered
  BY <1>1 DEF TunnelInv, NoneAnswered, Unanswered
<1> QED
  BY <1>1, <1>2, <1>3, QuietStep

\* Nothing is counted where there is nothing.
LEMMA TotalZero ==
  ASSUME NEW D, NEW n \in [D -> Nat], \A r \in D : n[r] = 0
  PROVE  IsFiniteSet(Units(n)) /\ Total(n) = 0
<1>1. Units(n) = {}
  BY UnitsOf
<1> QED
  BY <1>1, FS_EmptySet DEF Total

\* The initial state satisfies the invariant.
LEMMA InitHolds ==
  ASSUME Init
  PROVE  TunnelInv
<1> DEFINE q0 == [state |-> "new", reserved |-> 0, to |-> None, response |-> FALSE, bytes |-> 0,
                  unread |-> 0, answer |-> "none"]
           j0 == [state |-> "none", bytes |-> 0, sent |-> 0, aborted |-> FALSE]
<1>1. /\ relay.host = None /\ relay.socket = [h \in Hosts |-> "absent"] /\ relay.active = 0
      /\ relay.uploaded = 0 /\ relay.buffered = 0 /\ relay.client = [p \in Players |-> "new"]
      /\ relay.players = {} /\ relay.http = [r \in Requests |-> q0]
      /\ desktop.bytes = [h \in Hosts |-> 0] /\ desktop.job = [r \in Requests |-> j0]
      /\ desktop.local = [h \in Hosts |-> {}] /\ desktop.socket = [h \in Hosts |-> "absent"]
      /\ down = [h \in Hosts |-> <<>>] /\ up = [h \in Hosts |-> <<>>] /\ faults = 0
  BY DEF Init
<1>2. q0 \in HttpShape /\ RequestOK(q0)
  BY DEF HttpShape, RequestOK, Answers
<1>3. j0 \in JobShape
  BY TunnelAssumption DEF JobShape
<1>4. relay \in RelayShape
  <2>1. [r \in Requests |-> q0] \in [Requests -> HttpShape]
    BY <1>2
  <2> QED
    BY <2>1 DEF Init, RelayShape
<1>5. desktop \in DesktopShape
  <2>1. [r \in Requests |-> j0] \in [Requests -> JobShape]
    BY <1>3
  <2> QED
    BY <2>1 DEF Init, DesktopShape
<1>6. \A r \in Requests :
        /\ relay.http[r].state = "new" /\ relay.http[r].reserved = 0 /\ relay.http[r].bytes = 0
        /\ relay.http[r].unread = 0 /\ relay.http[r].answer = "none" /\ relay.http[r].to = None
        /\ RequestOK(relay.http[r])
  BY <1>1, <1>2
<1>7. \A r \in Requests : desktop.job[r].state = "none" /\ desktop.job[r].bytes = 0 /\ desktop.job[r].sent = 0
  BY <1>1
<1>8. Books(relay)
  <2>1. Active(relay) = {}
    BY <1>6 DEF Active
  <2>2. Reserved(relay) \in [Requests -> Nat] /\ \A r \in Requests : Reserved(relay)[r] = 0
    BY <1>6 DEF Reserved
  <2>3. Held(relay) \in [Requests -> Nat] /\ \A r \in Requests : Held(relay)[r] = 0
    BY <1>6 DEF Held
  <2>4. IsFiniteSet({}) /\ Cardinality({}) = 0
    BY FS_EmptySet
  <2>5. IsFiniteSet(Units(Reserved(relay))) /\ Total(Reserved(relay)) = 0
    BY <2>2, TotalZero
  <2>6. IsFiniteSet(Units(Held(relay))) /\ Total(Held(relay)) = 0
    BY <2>3, TotalZero
  <2> QED
    BY <1>1, <1>4, <1>6, <2>1, <2>4, <2>5, <2>6 DEF Books
<1>9. HostsKnown(relay)
  BY <1>1, <1>6 DEF HostsKnown
<1>10. Typed
  <2>1. <<>> \in Seq(Frames)
    OBVIOUS
  <2> QED
    BY <1>1, <1>5, <2>1 DEF Typed
<1>11. \A h \in Hosts : down[h] = <<>> /\ up[h] = <<>> /\ desktop.local[h] = {} /\ desktop.bytes[h] = 0
  BY <1>1
<1>12. \A i : i \notin DOMAIN <<>>
  OBVIOUS
<1>13. Orders /\ Locals /\ AnswerFrames
  <2>1. ASSUME NEW h \in Hosts
        PROVE  DOMAIN down[h] = {} /\ DOMAIN up[h] = {}
    BY <1>11
  <2> QED
    BY <1>11, <2>1 DEF Orders, Locals, AnswerFrames
<1>14. Stream
  BY <1>6, <1>7, TunnelAssumption DEF Stream, To
<1>15. DesktopBooks
  <2> SUFFICES ASSUME NEW h \in Hosts
               PROVE  IsFiniteSet(Units(OwnBytes(h))) /\ desktop.bytes[h] = Total(OwnBytes(h))
    BY DEF DesktopBooks
  <2>1. OwnBytes(h) \in [Requests -> Nat] /\ \A r \in Requests : OwnBytes(h)[r] = 0
    BY <1>7 DEF OwnBytes
  <2>2. IsFiniteSet(Units(OwnBytes(h))) /\ Total(OwnBytes(h)) = 0
    BY <2>1, TotalZero
  <2> QED
    BY <1>11, <2>2
<1>16. faults \in 0..MaxFaults
  BY <1>1, TunnelAssumption
<1> QED
  BY <1>8, <1>9, <1>10, <1>13, <1>14, <1>15, <1>16 DEF TunnelInv, RelayInv

-------------------------------------------------------------------------------
(***************************************************************************)
(* The properties.                                                         *)
(***************************************************************************)

\* The relay's books are exact, what it knows of its hosts is true, and the frames
\* under way, the desktop's jobs and the answers fit together, in every reachable state.
THEOREM TunnelSound == Spec => []TunnelInv
<1>1. Init => TunnelInv
  BY InitHolds
<1>2. TunnelInv /\ [Next]_vars => TunnelInv'
  BY StepKeeps, StutterKeeps
<1> QED
  BY <1>1, <1>2, PTL DEF Spec

\* What the invariant says of the budgets.
LEMMA BudgetsFollow ==
  ASSUME TunnelInv
  PROVE  BudgetsAreExact
<1>1. TypeOK
  <2>1. \A r \in Requests : relay.http[r].bytes \in 0..MaxAnswer /\ relay.http[r].unread \in 0..MaxAnswer
    <3> SUFFICES ASSUME NEW r \in Requests
                 PROVE  relay.http[r].bytes \in 0..MaxAnswer /\ relay.http[r].unread \in 0..MaxAnswer
      OBVIOUS
    <3>1. relay.http[r].bytes \in Nat /\ relay.http[r].unread \in Nat /\ MaxAnswer \in Nat
      BY RelayTypes, TunnelAssumption DEF HttpShape
    <3>2. relay.http[r].bytes + relay.http[r].unread <= MaxAnswer
      BY DEF TunnelInv, Stream
    <3> QED
      BY <3>1, <3>2
  <2> DEFINE Q == [state : {"new", "uploading", "pending", "ended"}, reserved : 0..1, to : Hosts \cup {None},
                   response : BOOLEAN, bytes : 0..MaxAnswer, unread : 0..MaxAnswer, answer : Answers]
  <2>2. relay.http \in [Requests -> Q]
    <3>1. ASSUME NEW r \in Requests
          PROVE  relay.http[r] \in Q
      <4>1. relay.http[r] \in HttpShape
        BY RelayTypes
      <4> QED
        BY <2>1, <4>1 DEF HttpShape
    <3> QED
      BY <3>1, RelayTypes
  <2> HIDE DEF Q
  <2>3. relay \in [host : Hosts \cup {None},
                   socket : [Hosts -> {"absent", "accepted", "open", "closing", "closed"}],
                   active : Nat, uploaded : Nat, buffered : Nat,
                   client : [Players -> {"new", "open", "gone"}], players : SUBSET Players,
                   http : [Requests -> Q]]
    BY <2>2, RelayTypes DEF RelayShape
  <2> QED
    BY <2>3 DEF TypeOK, Q, TunnelInv, Typed, DesktopShape, JobShape
<1>2. RelayBudgetsExact
  BY DEF RelayBudgetsExact, TunnelInv, RelayInv, Books, Active, Reserved, Held
<1>3. DesktopBudgetExact
  <2> SUFFICES ASSUME NEW h \in Hosts
               PROVE  desktop.bytes[h] = Total([r \in {q \in Requests : To(q) = h} |-> desktop.job[r].bytes])
    BY DEF DesktopBudgetExact
  <2> DEFINE E == {q \in Requests : To(q) = h}
             m == [r \in E |-> desktop.job[r].bytes]
             n == OwnBytes(h)
  <2>1. \A r \in Requests : desktop.job[r].bytes \in Nat
    <3>1. \A r \in Requests : desktop.job[r] \in JobShape
      BY DEF TunnelInv, Typed, DesktopShape
    <3> QED
      BY <3>1 DEF JobShape
  <2>2. /\ n \in [Requests -> Nat] /\ m \in [E -> Nat] /\ E \subseteq Requests
        /\ \A q \in E : m[q] = n[q]
        /\ \A q \in Requests \ E : n[q] = 0
    BY <2>1 DEF OwnBytes
  <2> HIDE DEF E, m, n
  <2>3. Total(m) = Total(n)
    BY <2>2, TotalSame
  <2>4. desktop.bytes[h] = Total(n)
    BY DEF TunnelInv, DesktopBooks, n
  <2> QED
    BY <2>3, <2>4 DEF m, E
<1> QED
  BY <1>1, <1>2, <1>3 DEF BudgetsAreExact

\* The budgets of the relay and of each host socket are what is really outstanding:
\* no release is clipped at zero, none is forgotten.
THEOREM BudgetsExact == Spec => []BudgetsAreExact
BY TunnelSound, BudgetsFollow, PTL

\* What waits for a host waits for the present one, and the local sockets follow
\* the players: a replaced socket's late close takes no one else with it.
THEOREM HostsAgree == Spec => []SidesAgree
<1>1. ASSUME TunnelInv
      PROVE  SidesAgree
  <2>1. WaitsForItsHost
    BY <1>1 DEF WaitsForItsHost, TunnelInv, RelayInv, HostsKnown
  <2>2. LocalsFollowPlayers
    BY <1>1 DEF LocalsFollowPlayers, TunnelInv, Locals, Leaving, ToSet
  <2> QED
    BY <2>1, <2>2 DEF SidesAgree
<1> QED
  BY <1>1, TunnelSound, PTL

\* An answer that is passed on as good is complete: the backend had ended it, and
\* every unit that it sent has come in.
THEOREM AnswersWhole == Spec => AnswersAreWhole
<1>1. ASSUME TunnelInv, [Next]_vars
      PROVE  \A r \in Requests :
               relay'.http[r].answer = "ok" /\ relay.http[r].answer # "ok" =>
                 desktop.job[r].state = "ended" /\ relay.http[r].bytes = desktop.job[r].sent
  <2>1. NoneAnswered \/ Whole
    BY <1>1, StepKeeps, StutterKeeps
  <2> QED
    BY <2>1 DEF NoneAnswered, Unanswered, Whole
<1> QED
  BY <1>1, TunnelSound, PTL DEF AnswersAreWhole, Spec
===============================================================================
