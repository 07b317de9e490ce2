--------------------------- MODULE AtomicMutations ---------------------------
(***************************************************************************)
(* What the durable mutation pipeline promises its clients, without gate,  *)
(* hooks, flights or coalesced writes: a mutation becomes durable at once  *)
(* and for good, and an answer says truthfully whether it did.             *)
(***************************************************************************)
CONSTANTS
  Requests,
  Same,        \* pairs of requests that are one keyed request and its retry
  Recorded,    \* requests whose answer is kept for replay
  Traceless    \* requests that leave nothing behind when they fail

VARIABLES
  committed,   \* the requests whose mutation is durable
  answer       \* what each request was told

Answers == {"ok", "replay", "failed", "other", "lost"}

Init == committed = {} /\ answer = [r \in Requests |-> "none"]

\* A retry of a recorded request is never carried out twice.
MayCommit(r) ==
  answer[r] = "none" /\ (r \in Recorded => \A s \in committed \cap Recorded : <<r, s>> \notin Same)

Truthful(r, a) ==
  /\ a = "ok" => r \in committed'
  /\ a = "replay" => \E s \in committed' : <<r, s>> \in Same
  /\ a = "failed" /\ r \in Traceless => r \notin committed'

Commit(r) == MayCommit(r) /\ committed' = committed \cup {r} /\ UNCHANGED answer

Reply(r, a) ==
  /\ answer[r] = "none" /\ answer' = [answer EXCEPT ![r] = a]
  /\ \/ UNCHANGED committed
     \/ MayCommit(r) /\ committed' = committed \cup {r}
  /\ Truthful(r, a)

\* A restart: some answers never leave, what was durable stays.
Restart ==
  /\ answer' \in [Requests -> Answers \cup {"none"}]
  /\ \A r \in Requests : answer'[r] # answer[r] => answer[r] = "none" /\ answer'[r] = "lost"
  /\ UNCHANGED committed

Next == Restart \/ \E r \in Requests : Commit(r) \/ \E a \in Answers : Reply(r, a)

Spec == Init /\ [][Next]_<<committed, answer>>
===============================================================================
