------------------------------ MODULE PasswordAuth ------------------------------
(***************************************************************************)
(* Password authentication of the API server: the bounded pool that does   *)
(* the password work (apps/api/src/auth-security.ts), the routes of app.ts *)
(* that wait for it outside the durable mutation gate and decide in a      *)
(* short phase inside it, and the sessions those phases hand out.          *)
(*                                                                         *)
(* One account, with a password.  A request reads the account, waits for   *)
(* its password work, then waits for the gate; between any two of these an *)
(* administrator, another request or the session's own owner may change    *)
(* what it read.  A phase inside the gate is one action, which a failing   *)
(* flush takes back (runPhasedAuthMutation), and so is a gated request.    *)
(***************************************************************************)
EXTENDS Naturals, FiniteSets, Sequences

CONSTANTS
  Requests,       \* requests that need password work, numbered in the order they come in
  Cookies,        \* ids of the sessions that a cookie upgrade creates, taken from the smallest
  Tokens,         \* password reset tokens
  Original,       \* id of the account's first session, and its first password
  None,
  MaxConcurrent,  \* BoundedPasswordVerifier.maxConcurrent
  MaxQueue,       \* BoundedPasswordVerifier.maxQueue
  MaxSiblings,    \* upgrades of one session that may await confirmation (4)
  MaxAdmin        \* bound on the administrators' steps

ASSUME PasswordAssumption ==
  /\ MaxConcurrent \in Nat \ {0} /\ {MaxQueue, MaxSiblings, MaxAdmin} \subseteq Nat
  /\ Original \notin Requests \cup Cookies /\ None \notin Requests \cup Cookies \cup {Original}
  /\ Requests \cap Cookies = {} /\ Requests \cup Cookies \subseteq Nat /\ IsFiniteSet(Requests)

VARIABLES
  active,    \* BoundedPasswordVerifier.active
  queue,     \* BoundedPasswordVerifier.queue
  stage,     \* how far each request is
  job,       \* what each request holds in its local variables
  user,      \* User.passwordHash, disabledAt and passwordResetRequired
  sessions,  \* EngineState.sessions that have not expired
  tokens,    \* EngineState.passwordResetTokens, with how often each set a password
  invite,    \* the one campaign invite, with how many sessions it opened
  admin      \* how much of MaxAdmin was used

pool == <<active, queue>>
account == <<user, sessions, tokens, invite>>
vars == <<active, queue, stage, job, user, sessions, tokens, invite, admin>>

Passwords == Requests \cup {Original}
SessionIds == Requests \cup Cookies \cup {Original}
Kinds == {"login", "invite", "change", "reset"}
Waiting == {"queued", "running", "deciding"}
Answers == {"done", "refused"}   \* refused: 401, 403, 409, a failed flush, or no capacity
Stages == {"unsent"} \cup Waiting \cup Answers

Unused == [kind |-> None, work |-> None, verified |-> None, expected |-> None, key |-> None]
Jobs == [kind : Kinds, work : {"verify", "hash"}, verified : Passwords \cup {None},
         expected : Passwords \cup {None}, key : SessionIds \cup Tokens \cup {None}]

\* proof is the password that was shown for the session, via the kind of request that opened
\* it, family the session it was upgraded from: kept for the properties alone.
Sessions == [id : SessionIds, parent : SessionIds \cup {None}, confirmed : BOOLEAN,
             proof : Passwords, via : Kinds, family : SessionIds]
Session(id, proof, via) ==
  [id |-> id, parent |-> None, confirmed |-> FALSE, proof |-> proof, via |-> via, family |-> id]

TypeOK ==
  /\ active \in Nat
  /\ queue \in Seq(Requests)
  /\ stage \in [Requests -> Stages]
  /\ job \in [Requests -> Jobs \cup {Unused}]
  /\ user \in [hash : Passwords, disabled : BOOLEAN, resetRequired : BOOLEAN]
  /\ sessions \subseteq Sessions
  /\ tokens \in [Tokens -> [state : {"unissued", "usable", "used"}, uses : Nat]]
  /\ invite \in [accepted : BOOLEAN, uses : Nat]
  /\ admin \in 0..MaxAdmin

Init ==
  /\ active = 0 /\ queue = <<>>
  /\ stage = [r \in Requests |-> "unsent"]
  /\ job = [r \in Requests |-> Unused]
  /\ user = [hash |-> Original, disabled |-> FALSE, resetRequired |-> FALSE]
  /\ sessions = {Session(Original, Original, "login")}
  /\ tokens = [t \in Tokens |-> [state |-> "unissued", uses |-> 0]]
  /\ invite = [accepted |-> FALSE, uses |-> 0]
  /\ admin = 0

-----------------------------------------------------------------------------
(* The pool: work runs at once, waits in the queue, or is turned away.     *)

\* What enqueue does of a request when n slots are taken and q waits.
Entry(n, q) ==
  IF n < MaxConcurrent THEN "running" ELSE IF Len(q) >= MaxQueue THEN "refused" ELSE "queued"

Taken(n, s) == IF s = "running" THEN n + 1 ELSE n
Joined(q, r, s) == IF s = "queued" THEN Append(q, r) ELSE q

\* The request r enters the pool, straight from its route, with job j.
Enters(r, j) ==
  LET s == Entry(active, queue)
  IN /\ active' = Taken(active, s)
     /\ queue' = Joined(queue, r, s)
     /\ stage' = [stage EXCEPT ![r] = s]
     /\ job' = [job EXCEPT ![r] = IF s = "refused" THEN Unused ELSE j]
     /\ UNCHANGED <<user, sessions, tokens, invite, admin>>

\* drain: as many of the queue as there are slots, once n are taken.
\* A slip: the queue is drained before the slot is given back.
StartsLate(n) == 0
Starts(n) == IF MaxConcurrent - n < Len(queue) THEN MaxConcurrent - n ELSE Len(queue)

\* The timer of a queued request.
\* A slip: the request is answered and stays in the queue.
TimesOutInPlace(r) ==
  /\ stage[r] = "queued"
  /\ stage' = [stage EXCEPT ![r] = "refused"]
  /\ job' = [job EXCEPT ![r] = Unused]
  /\ UNCHANGED <<active, queue, user, sessions, tokens, invite, admin>>
TimesOut(r) ==
  \E i \in 1..Len(queue) :
    /\ queue[i] = r
    /\ queue' = SubSeq(queue, 1, i - 1) \o SubSeq(queue, i + 1, Len(queue))
    /\ stage' = [stage EXCEPT ![r] = "refused"]
    /\ job' = [job EXCEPT ![r] = Unused]
    /\ UNCHANGED <<active, user, sessions, tokens, invite, admin>>

-----------------------------------------------------------------------------
(* The routes up to their password work.                                   *)

Arrives(r) ==
  stage[r] = "unsent" /\ \A q \in Requests : q < r => stage[q] # "unsent"

Verify(kind, key) ==
  [kind |-> kind, work |-> "verify", verified |-> user.hash, expected |-> user.hash, key |-> key]

\* POST /auth/login keeps the hash it is about to verify.
Login(r) == Arrives(r) /\ Enters(r, Verify("login", None))

\* POST /invites/accept with an e-mail address and a password of an account.
AcceptInvite(r) ==
  /\ Arrives(r) /\ ~invite.accepted /\ ~user.resetRequired
  /\ Enters(r, Verify("invite", None))

\* POST /auth/password/change, from a live session.
ChangePassword(r) ==
  /\ Arrives(r) /\ ~user.disabled
  /\ \E s \in sessions : Enters(r, Verify("change", s.id))

\* POST /auth/password-reset/confirm, with a token that is usable when the request comes in.
ConfirmReset(r) ==
  /\ Arrives(r)
  /\ \E t \in Tokens :
       /\ tokens[t].state = "usable"
       /\ Enters(r, [kind |-> "reset", work |-> "hash", verified |-> None, expected |-> None,
                     key |-> t])

\* What a request does next when its work succeeded and n slots are taken, q waiting: a
\* change goes back to the pool for the new hash, the others wait for the gate.
Next1(r, n, q) ==
  IF job[r].kind = "change" /\ job[r].work = "verify" THEN Entry(n, q) ELSE "deciding"

\* What it then holds: prepareInviteAuthentication reads the hash that its phase will expect
\* only now, after the verification.
Carries(r) ==
  CASE job[r].kind = "change" -> [job[r] EXCEPT !.work = "hash"]
    [] job[r].kind = "invite" -> [job[r] EXCEPT !.expected = user.hash]
    [] OTHER -> job[r]

\* The work of a request ends: the slot is given back, the queue drained, and the request
\* goes on, or is refused (a wrong password, work that threw).  A login's refusal is audited
\* in a phase that changes nothing else.
WorkEnds(r) ==
  /\ stage[r] = "running"
  /\ LET n == active - 1
         k == Starts(n)
         rest == SubSeq(queue, k + 1, Len(queue))
         started == {queue[i] : i \in 1..k}
     IN \E s \in {Next1(r, n + k, rest), "refused"} :
          /\ active' = Taken(n + k, s)
          /\ queue' = Joined(rest, r, s)
          /\ stage' = [q \in Requests |->
                         IF q = r THEN s ELSE IF q \in started THEN "running" ELSE stage[q]]
          /\ job' = [job EXCEPT ![r] = IF s \in Waiting THEN Carries(r) ELSE Unused]
  /\ UNCHANGED <<user, sessions, tokens, invite, admin>>

-----------------------------------------------------------------------------
(* The phases inside the gate.                                             *)

Answer(r, a) ==
  /\ stage' = [stage EXCEPT ![r] = a]
  /\ job' = [job EXCEPT ![r] = Unused]

\* A flush that fails, and every check that refuses after the ones below (the second factor):
\* what the phase changed is taken back.
Refused(r) ==
  /\ stage[r] = "deciding"
  /\ Answer(r, "refused")
  /\ UNCHANGED <<active, queue, user, sessions, tokens, invite, admin>>

Decides(r, kind) == stage[r] = "deciding" /\ job[r].kind = kind

\* A slip: the route does not look at the account again after the verification.
MayEnterUnseen(r) == TRUE
\* A slip: an account that was disabled meanwhile is let in.
MayEnterDisabled(r) == user.hash = job[r].expected /\ ~user.resetRequired
MayEnter(r) == user.hash = job[r].expected /\ ~user.disabled /\ ~user.resetRequired

FinishLogin(r) ==
  /\ Decides(r, "login") /\ MayEnter(r)
  /\ sessions' = sessions \cup {Session(r, job[r].verified, "login")}
  /\ Answer(r, "done")
  /\ UNCHANGED <<active, queue, user, tokens, invite, admin>>

FinishInvite(r) ==
  /\ Decides(r, "invite") /\ ~invite.accepted /\ MayEnter(r)
  /\ invite' = [accepted |-> TRUE, uses |-> invite.uses + 1]
  /\ sessions' = sessions \cup {Session(r, job[r].verified, "invite")}
  /\ Answer(r, "done")
  /\ UNCHANGED <<active, queue, user, tokens, admin>>

\* setUserPasswordHash, the end of every session of the account, and a new one.
SetPassword(r, via) ==
  /\ user' = [user EXCEPT !.hash = r, !.resetRequired = FALSE]
  /\ sessions' = {Session(r, r, via)}

FinishChange(r) ==
  /\ Decides(r, "change")
  /\ \E s \in sessions : s.id = job[r].key
  /\ user.hash = job[r].expected /\ ~user.disabled
  /\ SetPassword(r, "change")
  /\ Answer(r, "done")
  /\ UNCHANGED <<active, queue, tokens, invite, admin>>

\* confirmPasswordReset looks at the token a second time.
\* A slip: it relies on the look before the hash.
ResetUnchecked(r) ==
  /\ Decides(r, "reset") /\ ~user.disabled
  /\ tokens' = [tokens EXCEPT ![job[r].key] = [state |-> "used", uses |-> @.uses + 1]]
  /\ SetPassword(r, "reset")
  /\ Answer(r, "done")
  /\ UNCHANGED <<active, queue, invite, admin>>
FinishReset(r) ==
  /\ Decides(r, "reset") /\ tokens[job[r].key].state = "usable"
  /\ ResetUnchecked(r)

Decide(r) == Refused(r) \/ FinishLogin(r) \/ FinishInvite(r) \/ FinishChange(r) \/ FinishReset(r)

-----------------------------------------------------------------------------
(* Gated requests that need no password work.                              *)

Others == <<active, queue, stage, job>>

\* POST /auth/session/upgrade-cookie: a bearer session gets a sibling that its browser has to
\* confirm.  A confirmed sibling is known to its cookie alone and is never a bearer.
UpgradeCookie ==
  /\ \E s \in sessions, c \in Cookies :
       /\ s.parent = None /\ ~s.confirmed
       /\ Cardinality({t \in sessions : t.parent = s.id}) < MaxSiblings
       /\ {k \in Cookies : k <= c} \ {t.id : t \in sessions} = {c}
       /\ sessions' = sessions \cup {[s EXCEPT !.id = c, !.parent = s.id]}
  /\ UNCHANGED <<Others, user, tokens, invite, admin>>

Family(root) == {s \in sessions : s.id = root \/ s.parent = root}

\* POST /auth/session/upgrade-cookie/confirm: the sibling takes the place of its parent and of
\* every other sibling.  A confirmation that is repeated changes nothing.
\* A slip: the other siblings are kept.
ConfirmKeepingSiblings ==
  /\ \E s \in sessions :
       /\ \E p \in sessions : p.id = s.parent
       /\ sessions' = {t \in sessions : t.id \notin {s.id, s.parent}}
                        \cup {[s EXCEPT !.parent = None, !.confirmed = TRUE]}
  /\ UNCHANGED <<Others, user, tokens, invite, admin>>
ConfirmUpgrade ==
  /\ \E s \in sessions :
       /\ \E p \in sessions : p.id = s.parent
       /\ sessions' = (sessions \ Family(s.parent))
                        \cup {[s EXCEPT !.parent = None, !.confirmed = TRUE]}
  /\ UNCHANGED <<Others, user, tokens, invite, admin>>

\* POST /auth/logout, DELETE /auth/sessions/{sessionId}: revokeSessionFamily.
Logout ==
  /\ \E s \in sessions :
       sessions' = sessions \ Family(IF s.parent = None THEN s.id ELSE s.parent)
  /\ UNCHANGED <<Others, user, tokens, invite, admin>>

\* A session, or an upgrade that was not confirmed in five minutes, expires.
SessionExpires ==
  /\ \E s \in sessions : sessions' = sessions \ {s}
  /\ UNCHANGED <<Others, user, tokens, invite, admin>>

\* POST /auth/password-reset/request.
IssueReset ==
  /\ ~user.disabled
  /\ \E t \in Tokens :
       /\ tokens[t].state = "unissued"
       /\ tokens' = [tokens EXCEPT ![t].state = "usable"]
  /\ UNCHANGED <<Others, user, sessions, invite, admin>>

AdminActs == admin < MaxAdmin /\ admin' = admin + 1

\* PATCH /admin/users/{userId}: setUserDisabled.
Disable ==
  /\ AdminActs /\ ~user.disabled
  /\ user' = [user EXCEPT !.disabled = TRUE]
  /\ sessions' = {}
  /\ UNCHANGED <<Others, tokens, invite>>

Enable ==
  /\ AdminActs /\ user.disabled
  /\ user' = [user EXCEPT !.disabled = FALSE]
  /\ UNCHANGED <<Others, sessions, tokens, invite>>

RequireReset ==
  /\ AdminActs /\ ~user.resetRequired
  /\ user' = [user EXCEPT !.resetRequired = TRUE]
  /\ UNCHANGED <<Others, sessions, tokens, invite>>

-----------------------------------------------------------------------------
Next ==
  \/ \E r \in Requests :
       \/ Login(r) \/ AcceptInvite(r) \/ ChangePassword(r) \/ ConfirmReset(r)
       \/ WorkEnds(r) \/ TimesOut(r) \/ Decide(r)
  \/ UpgradeCookie \/ ConfirmUpgrade \/ Logout \/ SessionExpires
  \/ IssueReset \/ Disable \/ Enable \/ RequireReset

Spec == Init /\ [][Next]_vars

\* scrypt ends, and the gate comes round to those that wait for it: the least that the code
\* gives, and enough, as a request never comes back.
FairSpec ==
  Spec /\ WF_vars(\E r \in Requests : WorkEnds(r)) /\ WF_vars(\E r \in Requests : Decide(r))

-----------------------------------------------------------------------------
(* Properties                                                              *)

Staged(s) == {r \in Requests : stage[r] = s}

\* The pool's counter is the number of requests whose work runs, and its queue holds exactly
\* the requests that wait, each once, whichever of a freed slot, a timer and a new request
\* comes first (BoundedPasswordVerifier.enqueue, run and drain).
PoolIsExact ==
  /\ active = Cardinality(Staged("running"))
  /\ {queue[i] : i \in 1..Len(queue)} = Staged("queued")
  /\ \A i, j \in 1..Len(queue) : queue[i] = queue[j] => i = j
\* No more than maxConcurrent hashes run and no more than maxQueue requests wait, and none
\* waits beside a free slot: a slot that comes free is handed on in the same step.
PoolIsBounded ==
  /\ active <= MaxConcurrent
  /\ Len(queue) <= MaxQueue
  /\ queue # <<>> => active = MaxConcurrent
\* The two together, and the types.
PoolInv == TypeOK /\ PoolIsExact /\ PoolIsBounded

\* Every session of a login, a change or a reset, and every cookie it was upgraded to, was
\* opened with the password the account has now, however long its request waited in between:
\* a new password ends the sessions of the old one and the logins that were under way.
SessionsShowThePassword ==
  \A s \in sessions : s.via # "invite" => s.proof = user.hash

\* The same of the sessions that an accepted invite opens, whose phase refuses a request that
\* was verified against another password ("Login credentials changed", app.ts:3486).
InvitesShowThePassword == \A s \in sessions : s.proof = user.hash

\* An account that is disabled has no session, also when a login, a change, a reset or an
\* upgrade of its was under way when the administrator disabled it (setUserDisabled).
DisabledMeansSignedOut == user.disabled => sessions = {}

\* A reset token sets one password and an invite opens one session, however many requests
\* with it passed the first look and wait for their password work (confirmPasswordReset,
\* POST /invites/accept).
UsedOnce == invite.uses <= 1 /\ \A t \in Tokens : tokens[t].uses <= 1

\* Once an upgrade is confirmed, the session it came from and its other siblings are gone for
\* good: no two browsers are left with one sign-in (upgrade-cookie/confirm).
UpgradeTakesThePlace ==
  \A s \in sessions : s.confirmed => \A t \in sessions \ {s} : t.family # s.family

\* Every request that asks for password work is answered, if need be that there is no room:
\* the pool and the gate empty again and again.
EveryRequestAnswered == []<>(\A r \in Requests : stage[r] \notin Waiting)
=============================================================================
