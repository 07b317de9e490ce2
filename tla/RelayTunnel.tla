----------------------------- MODULE RelayTunnel ------------------------------
(***************************************************************************)
(* A shared table: the relay's TableTunnel (apps/relay/src/index.ts), the  *)
(* desktop's end of each host socket (apps/desktop/src/tunnel-client.ts),  *)
(* the frames between them, and the table's HTTP clients and players.      *)
(*                                                                         *)
(* Bodies are counted in units.  A JavaScript turn is one action: what a   *)
(* promise's settlement makes of its waiting handler happens before the    *)
(* next event.                                                             *)
(***************************************************************************)
EXTENDS Integers, Sequences, FiniteSets, SequencesExt

CONSTANTS
  Requests,         \* HTTP requests of the table's clients
  Uploads,          \* those with a body, of one unit
  Players,          \* players' sockets
  Hosts,            \* host sockets, each opened at most once
  None,
  MaxRequests,      \* maxPendingHttpRequestsPerTable, relayPendingHttpRequestMax
  MaxPlayers,       \* maxClientWebSocketsPerTable
  MaxUploadBytes,   \* maxBufferedHttpRequestBytesPerTable
  MaxAnswer,        \* bound on the units of a backend's response
  MaxAnswerBytes,   \* maxBufferedHttpResponseBytesPerTable
  MaxClients,       \* bound on the requests and players' sockets that come at all
  MaxFaults         \* bound on sends that throw and sockets that break

ASSUME TunnelAssumption ==
  /\ Uploads \subseteq Requests /\ None \notin Hosts
  /\ {MaxRequests, MaxPlayers, MaxUploadBytes, MaxAnswer, MaxAnswerBytes, MaxClients, MaxFaults} \subseteq Nat

VARIABLES
  relay,    \* the TableTunnel object, see TypeOK
  desktop,  \* the sessions' ends
  down,     \* frames on their way to a host
  up,       \* frames on their way to the relay
  faults

vars == <<relay, desktop, down, up, faults>>

\* "error" is every refusal and failure but host_disconnected.
Answers == {"none", "ok", "disconnected", "error"}
HttpFrames == {"http.request", "http.body", "http.end", "http.response", "http.error"}
Frames == (HttpFrames \X Requests) \cup ({"ws.open", "ws.close"} \X Players)
TypeOK ==
  /\ relay \in [host : Hosts \cup {None},      \* hostSocket
                socket : [Hosts -> {"absent", "accepted", "open", "closing", "closed"}],
                active : Nat,                  \* activeHttpRequests
                uploaded : Nat,                \* bufferedHttpRequestBytes
                buffered : Nat,                \* bufferedHttpResponseBytes
                client : [Players -> {"new", "open", "gone"}],
                players : SUBSET Players,      \* playerSockets
                http : [Requests -> [state : {"new", "uploading", "pending", "ended"},
                                     reserved : 0..1, to : Hosts \cup {None},
                                     response : BOOLEAN, bytes : 0..MaxAnswer,
                                     unread : 0..MaxAnswer,  \* of the answer's stream
                                     answer : Answers]]]
  /\ desktop \in [socket : [Hosts -> {"absent", "open", "closed"}],
                  bytes : [Hosts -> Nat],      \* bufferedHttpRequestBytes
                  job : [Requests -> [state : {"none", "receiving", "fetching", "answering", "ended"},
                                      bytes : 0..1, sent : 0..MaxAnswer, aborted : BOOLEAN]],
                  local : [Hosts -> SUBSET Players]]   \* localSockets
  /\ down \in [Hosts -> Seq(Frames)] /\ up \in [Hosts -> Seq(Frames)]
  /\ faults \in 0..MaxFaults

Init ==
  /\ relay = [host |-> None, socket |-> [h \in Hosts |-> "absent"],
              active |-> 0, uploaded |-> 0, buffered |-> 0,
              client |-> [p \in Players |-> "new"], players |-> {},
              http |-> [r \in Requests |-> [state |-> "new", reserved |-> 0, to |-> None,
                                            response |-> FALSE, bytes |-> 0, unread |-> 0,
                                            answer |-> "none"]]]
  /\ desktop = [socket |-> [h \in Hosts |-> "absent"], bytes |-> [h \in Hosts |-> 0],
                job |-> [r \in Requests |-> [state |-> "none", bytes |-> 0, sent |-> 0,
                                             aborted |-> FALSE]],
                local |-> [h \in Hosts |-> {}]]
  /\ down = [h \in Hosts |-> <<>>] /\ up = [h \in Hosts |-> <<>>] /\ faults = 0
-------------------------------------------------------------------------------
(***************************************************************************)
(* The relay's object.  Each operator is what one call makes of it.        *)
(***************************************************************************)
Least0(n) == IF n < 0 THEN 0 ELSE n
\* The sum of a function's values, as a number of units.
Units(count) == UNION {{x} \X (1..count[x]) : x \in DOMAIN count}
Total(count) == Cardinality(Units(count))
Connected(t) == t.host # None /\ t.socket[t.host] \in {"accepted", "open"}
Pending(t) == {r \in Requests : t.http[r].state = "pending"}

\* The handler of a request returns: its finally block gives back the slot and
\* the upload.
Answered(t, r, answer) ==
  [t EXCEPT !.http[r] = [@ EXCEPT !.state = "ended", !.answer = answer, !.reserved = 0],
            !.uploaded = Least0(@ - t.http[r].reserved), !.active = Least0(@ - 1)]
\* takePendingHttpResponse and releaseBufferedHttpResponseBytes
TakePending(t, r) ==
  [t EXCEPT !.http[r].bytes = 0, !.buffered = Least0(@ - t.http[r].bytes)]
Settled(t, r, answer) == Answered(TakePending(t, r), r, answer)

\* The table is without a host: what waited for h ends, and h is closed.
LoseHost(t, h) ==
  LET lost == Pending(t)
  IN [t EXCEPT !.host = None, !.players = {},
               !.socket[h] = IF @ \in {"accepted", "open"} THEN "closing" ELSE @,
               !.http = [r \in Requests |->
                           IF r \notin lost THEN t.http[r]
                           ELSE [t.http[r] EXCEPT !.state = "ended", !.answer = "disconnected",
                                                  !.reserved = 0, !.bytes = 0]],
               !.active = Least0(@ - Cardinality(lost)),
               !.uploaded = Least0(@ - Total([r \in lost |-> t.http[r].reserved])),
               !.buffered = Least0(@ - Total([r \in lost |-> t.http[r].bytes]))]
\* A slip: any host socket that closes takes the table down.
CloseAnyHost(t, h) == LoseHost(t, h)
\* closeHost: only the current host takes its requests and players with it.
CloseHost(t, h) == IF t.host # h THEN t ELSE LoseHost(t, h)

AnotherClient ==
  MaxClients > Cardinality({r \in Requests : relay.http[r].state # "new"})
                 + Cardinality({p \in Players : relay.client[p] # "new"})
\* Frames sent to h, or a send that throws, which closes h.
Sent(h, frames, t) ==
  /\ relay' = t /\ down' = [down EXCEPT ![h] = @ \o frames] /\ UNCHANGED <<desktop, up, faults>>
SendThrows(t) ==
  /\ faults < MaxFaults /\ faults' = faults + 1 /\ relay' = t /\ UNCHANGED <<desktop, down, up>>
\* The send of one of the frames throws, after those before it have gone to h.
PartlySent(h, frames, t) ==
  /\ faults < MaxFaults /\ faults' = faults + 1 /\ relay' = t /\ UNCHANGED <<desktop, up>>
  /\ \E n \in 1..Len(frames) : down' = [down EXCEPT ![h] = @ \o SubSeq(frames, 1, n - 1)]
RelayOnly(t) == relay' = t /\ UNCHANGED <<desktop, down, up, faults>>
-------------------------------------------------------------------------------
(***************************************************************************)
(* Host sockets at the relay.                                              *)
(***************************************************************************)

\* acceptHost up to its await: the new socket replaces the old one, which is
\* closed with what depends on it.
AcceptHost(h) ==
  /\ relay.socket[h] = "absent"
  /\ LET t == IF relay.host = None THEN relay ELSE CloseHost(relay, relay.host)
     IN RelayOnly([t EXCEPT !.host = h, !.socket[h] = "accepted"])
\* The table is renewed, the listeners are attached, the upgrade is answered and
\* the desktop's socket opens.
Listen(h) ==
  /\ relay.socket[h] = "accepted"
  /\ relay' = [relay EXCEPT !.socket[h] = "open"]
  /\ desktop' = [desktop EXCEPT !.socket[h] = "open"] /\ UNCHANGED <<down, up, faults>>
\* The socket breaks before the listeners are attached: nobody is told.
BreaksUnheard(h) ==
  /\ relay.socket[h] = "accepted" /\ SendThrows([relay EXCEPT !.socket[h] = "closed"])
\* The socket's error event
RelaySocketError(h) == relay.socket[h] = "open" /\ SendThrows(CloseHost(relay, h))
\* The socket's close event; frames that did not come in before it are lost.
RelayClose(h) ==
  /\ relay.socket[h] \in {"open", "closing"} /\ desktop.socket[h] # "open"
  /\ relay' = [CloseHost(relay, h) EXCEPT !.socket[h] = "closed"]
  /\ up' = [up EXCEPT ![h] = <<>>] /\ UNCHANGED <<desktop, down, faults>>
-------------------------------------------------------------------------------
(***************************************************************************)
(* HTTP at the relay (proxyHttp, handleHostMessage).                       *)
(***************************************************************************)
HttpRequest(r) ==
  <<<<"http.request", r>>>> \o (IF r \in Uploads THEN <<<<"http.body", r>>>> ELSE <<>>)
    \o <<<<"http.end", r>>>>
\* Once the body is in, the whole request goes to whoever is the host by then.
Forward(t, r) ==
  IF ~Connected(t) THEN RelayOnly(Answered(t, r, "error"))
  ELSE LET h == t.host
           u == [t EXCEPT !.http[r] = [@ EXCEPT !.state = "pending", !.to = h]]
       IN \/ Sent(h, HttpRequest(r), u)
          \/ PartlySent(h, HttpRequest(r), [CloseHost(u, h) EXCEPT !.http[r].answer = "error"])

\* The limit counts requests whose body is still coming in as well.
Admits(t) == t.active < MaxRequests /\ Cardinality(Pending(t)) < MaxRequests
Begin(r) ==
  /\ relay.http[r].state = "new" /\ AnotherClient
  /\ LET t == [relay EXCEPT !.active = @ + 1, !.http[r].state = "uploading"]
     IN IF ~Connected(relay) \/ ~Admits(relay)
        THEN RelayOnly([relay EXCEPT !.http[r] = [@ EXCEPT !.state = "ended", !.answer = "error"]])
        ELSE IF r \in Uploads THEN RelayOnly(t) ELSE Forward(t, r)
\* A unit of the body comes in (readBoundedRequestBody).
Reserve(r) ==
  /\ relay.http[r].state = "uploading" /\ relay.http[r].reserved = 0
  /\ RelayOnly(IF relay.uploaded + 1 > MaxUploadBytes THEN Answered(relay, r, "error")
               ELSE [relay EXCEPT !.uploaded = @ + 1, !.http[r].reserved = 1])
BodyIsIn(r) ==
  relay.http[r].state = "uploading" /\ relay.http[r].reserved = 1 /\ Forward(relay, r)
\* The client goes away while it uploads.
UploadBreaks(r) == relay.http[r].state = "uploading" /\ RelayOnly(Answered(relay, r, "error"))
\* A slip: a lost host is left to answer for its requests.
TimeoutWhileConnected(r) ==
  r \in Pending(relay) /\ Connected(relay) /\ RelayOnly(Settled(relay, r, "error"))
Timeout(r) == r \in Pending(relay) /\ RelayOnly(Settled(relay, r, "error"))

\* A slip: a unit that does not fit is left out.
BufferWhatFits(t, r) ==
  IF t.buffered + 1 > MaxAnswerBytes THEN t
  ELSE [t EXCEPT !.http[r].bytes = @ + 1, !.buffered = @ + 1]
Buffer(t, r) ==
  IF t.buffered + 1 > MaxAnswerBytes THEN Settled(t, r, "error")
  ELSE [t EXCEPT !.http[r].bytes = @ + 1, !.buffered = @ + 1]
\* http.end: the buffer becomes the answer's stream; an answer that may have no
\* body, or that is no valid response, gives it back.
EndResponse(t, r, result) ==
  IF ~t.http[r].response THEN Settled(t, r, "error")
  ELSE IF result # "stream" THEN Settled(t, r, IF result = "bodiless" THEN "ok" ELSE "error")
  ELSE Answered([t EXCEPT !.http[r] = [@ EXCEPT !.unread = t.http[r].bytes, !.bytes = 0]], r, "ok")
Handle(t, f, result) ==
  CASE f[1] = "ws.close" -> [t EXCEPT !.players = @ \ {f[2]}]
    [] f[1] \in HttpFrames ->
         IF f[2] \notin Pending(t) THEN t
         ELSE CASE f[1] = "http.response" -> [t EXCEPT !.http[f[2]].response = TRUE]
                [] f[1] = "http.body" -> Buffer(t, f[2])
                [] f[1] = "http.end" -> EndResponse(t, f[2], result)
                [] f[1] = "http.error" -> Settled(t, f[2], "error")
\* A frame from the current host is handled, one from a replaced host is not.
RelayReceive(h) ==
  /\ relay.socket[h] \in {"open", "closing"} /\ up[h] # <<>>
  /\ \E result \in {"stream", "bodiless", "rejected"} :
       relay' = IF relay.host = h THEN Handle(relay, Head(up[h]), result) ELSE relay
  /\ up' = [up EXCEPT ![h] = Tail(@)] /\ UNCHANGED <<desktop, down, faults>>
\* The client reads a unit of its answer, or cancels it.
ReadAnswer(r, n) ==
  /\ n \in 1..relay.http[r].unread
  /\ RelayOnly([relay EXCEPT !.http[r].unread = @ - n, !.buffered = Least0(@ - n)])
-------------------------------------------------------------------------------
(***************************************************************************)
(* Players' sockets at the relay.                                          *)
(***************************************************************************)
PlayerConnects(p) ==
  /\ relay.client[p] = "new" /\ AnotherClient /\ Connected(relay)
  /\ Cardinality(relay.players) < MaxPlayers
  /\ \/ Sent(relay.host, <<<<"ws.open", p>>>>,
             [relay EXCEPT !.client[p] = "open", !.players = @ \cup {p}])
     \/ SendThrows(CloseHost([relay EXCEPT !.client[p] = "gone"], relay.host))
\* The socket's close event, whoever closed it.
PlayerCloses(p) ==
  /\ relay.client[p] = "open"
  /\ LET t == [relay EXCEPT !.client[p] = "gone", !.players = @ \ {p}]
     IN IF Connected(t)
        THEN Sent(t.host, <<<<"ws.close", p>>>>, t) \/ SendThrows(CloseHost(t, t.host))
        ELSE RelayOnly(t)
-------------------------------------------------------------------------------
(***************************************************************************)
(* The desktop's end of a host socket (RelayTunnelSession).                *)
(***************************************************************************)
To(r) == relay.http[r].to
Jobs(h) == {r \in Requests : To(r) = h /\ desktop.job[r].state \in {"receiving", "fetching", "answering"}}

\* The desktop changes to d and sends frames on its socket.
Replies(h, d, frames) ==
  /\ desktop' = d /\ up' = [up EXCEPT ![h] = @ \o frames] /\ UNCHANGED <<relay, down, faults>>
\* A request leaves the session: its body is given back.
JobEnds(d, h, r) ==
  [d EXCEPT !.bytes[h] = Least0(@ - d.job[r].bytes), !.job[r].bytes = 0, !.job[r].state = "ended"]

\* handleRelayMessage
TakeRequest(h, r) ==
  IF Cardinality(Jobs(h)) >= MaxRequests THEN <<desktop, <<<<"http.error", r>>>>>>
  ELSE <<[desktop EXCEPT !.job[r].state = "receiving"], <<>>>>
TakeBody(h, r) ==
  IF desktop.job[r].state # "receiving" THEN <<desktop, <<>>>>
  ELSE IF desktop.bytes[h] + 1 > MaxUploadBytes
       THEN <<JobEnds(desktop, h, r), <<<<"http.error", r>>>>>>
       ELSE <<[desktop EXCEPT !.job[r].bytes = 1, !.bytes[h] = @ + 1], <<>>>>
TakeEnd(r) ==
  <<IF desktop.job[r].state = "receiving" THEN [desktop EXCEPT !.job[r].state = "fetching"]
    ELSE desktop, <<>>>>
\* A local socket that cannot be opened only puts the session's status to error.
TakeOpen(h, p, opens) ==
  <<IF opens THEN [desktop EXCEPT !.local[h] = @ \cup {p}] ELSE desktop, <<>>>>
TakeClose(h, p) == <<[desktop EXCEPT !.local[h] = @ \ {p}], <<>>>>
DesktopReceive(h) ==
  /\ desktop.socket[h] = "open" /\ down[h] # <<>>
  /\ \E opens \in BOOLEAN :
       LET f == Head(down[h])
           result == CASE f[1] = "http.request" -> TakeRequest(h, f[2])
                       [] f[1] = "http.body" -> TakeBody(h, f[2])
                       [] f[1] = "http.end" -> TakeEnd(f[2])
                       [] f[1] = "ws.open" -> TakeOpen(h, f[2], opens)
                       [] f[1] = "ws.close" -> TakeClose(h, f[2])
       IN desktop' = result[1] /\ up' = [up EXCEPT ![h] = @ \o result[2]]
  /\ down' = [down EXCEPT ![h] = Tail(@)] /\ UNCHANGED <<relay, faults>>

\* forwardHttpRequest: the local backend answers, in pieces, or fails.
Running(r, states) == desktop.job[r].state \in states /\ ~desktop.job[r].aborted
BackendAnswers(r) ==
  /\ Running(r, {"fetching"})
  /\ Replies(To(r), [desktop EXCEPT !.job[r].state = "answering"], <<<<"http.response", r>>>>)
SendChunk(r) ==
  /\ Running(r, {"answering"}) /\ desktop.job[r].sent < MaxAnswer
  /\ Replies(To(r), [desktop EXCEPT !.job[r].sent = @ + 1], <<<<"http.body", r>>>>)
SendEnd(r) ==
  /\ Running(r, {"answering"}) /\ Replies(To(r), JobEnds(desktop, To(r), r), <<<<"http.end", r>>>>)
BackendFails(r) ==
  /\ Running(r, {"fetching", "answering"})
  /\ Replies(To(r), JobEnds(desktop, To(r), r), <<<<"http.error", r>>>>)
AbortEnds(r) ==
  /\ desktop.job[r].aborted /\ desktop.job[r].state \in {"fetching", "answering"}
  /\ Replies(To(r), JobEnds(desktop, To(r), r), <<>>)
\* The local end of a player's socket closes.
LocalCloses(h, p) ==
  /\ p \in desktop.local[h]
  /\ Replies(h, [desktop EXCEPT !.local[h] = @ \ {p}], <<<<"ws.close", p>>>>)

\* A slip: requests that were being received stay counted.
ForgetReceived(d, h) ==
  [d EXCEPT !.job = [r \in Requests |-> IF To(r) = h /\ d.job[r].state = "receiving"
                                        THEN [d.job[r] EXCEPT !.state = "ended", !.bytes = 0]
                                        ELSE d.job[r]]]
\* clearPendingHttpRequests
ClearPending(d, h) ==
  LET cut == {r \in Jobs(h) : d.job[r].state = "receiving"}
  IN [d EXCEPT !.bytes[h] = Least0(@ - Total([r \in cut |-> d.job[r].bytes])),
               !.job = [r \in Requests |-> IF r \in cut THEN [d.job[r] EXCEPT !.bytes = 0, !.state = "ended"]
                                           ELSE d.job[r]]]
\* What runs is told to stop.
AbortAll(d, h) ==
  [d EXCEPT !.job = [r \in Requests |-> IF r \in Jobs(h) THEN [d.job[r] EXCEPT !.aborted = TRUE]
                                        ELSE d.job[r]]]
\* The host socket closes at the desktop: the relay closed it, or (a fault) the
\* user stops sharing or the network fails.  Frames not received yet are lost.
DesktopClose(h) ==
  /\ desktop.socket[h] = "open"
  /\ desktop' = [AbortAll(ClearPending(desktop, h), h) EXCEPT !.socket[h] = "closed", !.local[h] = {}]
  /\ down' = [down EXCEPT ![h] = <<>>] /\ UNCHANGED <<relay, up>>
Follows(h) == relay.socket[h] \in {"closing", "closed"} /\ DesktopClose(h) /\ UNCHANGED faults
Stops(h) == faults < MaxFaults /\ faults' = faults + 1 /\ DesktopClose(h)
-------------------------------------------------------------------------------
Progress ==
  \/ \E h \in Hosts : Listen(h) \/ RelayClose(h) \/ RelayReceive(h) \/ DesktopReceive(h) \/ Follows(h)
  \/ \E r \in Requests :
       \/ Reserve(r) \/ BodyIsIn(r) \/ UploadBreaks(r) \/ Timeout(r)
       \/ \E n \in 1..MaxAnswer : ReadAnswer(r, n)
       \/ BackendAnswers(r) \/ SendChunk(r) \/ SendEnd(r) \/ BackendFails(r) \/ AbortEnds(r)
Next ==
  \/ Progress
  \/ \E h \in Hosts : AcceptHost(h) \/ BreaksUnheard(h) \/ RelaySocketError(h) \/ Stops(h)
  \/ \E r \in Requests : Begin(r)
  \/ \E p \in Players : PlayerConnects(p) \/ PlayerCloses(p) \/ \E h \in Hosts : LocalCloses(h, p)

Spec == Init /\ [][Next]_vars
\* Frames arrive, timers fire, clients read or cancel, the backend answers or fails.
FairSpec == Spec /\ WF_vars(Progress)
-------------------------------------------------------------------------------
\* The relay's three budgets are what is really outstanding, in every interleaving
\* of uploads, frames, timeouts, lost hosts and readers: the releases are clipped
\* at zero (Math.max), which would hide a double one, and a leak would lock the
\* table with 429 and 502 answers for good.  So is the desktop's, over what each
\* request of its sockets has received, runs with or was aborted at.
RelayBudgetsExact ==
  /\ relay.active = Cardinality({r \in Requests : relay.http[r].state \in {"uploading", "pending"}})
  /\ relay.uploaded = Total([r \in Requests |-> relay.http[r].reserved])
  /\ relay.buffered = Total([r \in Requests |-> relay.http[r].bytes + relay.http[r].unread])
DesktopBudgetExact ==
  \A h \in Hosts :
    desktop.bytes[h] = Total([r \in {q \in Requests : To(q) = h} |-> desktop.job[r].bytes])
BudgetsAreExact == TypeOK /\ RelayBudgetsExact /\ DesktopBudgetExact

\* What waits for a host waits for the present one, and a request fails with
\* "host_disconnected" only when the host it was sent to is gone: a replaced
\* socket's late close does not take the new host's requests with it.
WaitsForItsHost ==
  \A r \in Requests :
    /\ relay.http[r].state = "pending" => relay.http[r].to = relay.host
    /\ relay.http[r].answer = "disconnected" => relay.socket[relay.http[r].to] \notin {"accepted", "open"}

\* An answer passed on as good is whole: the backend had finished it, and the
\* relay has every unit of it.
AnswersAreWhole ==
  [][\A r \in Requests :
       relay'.http[r].answer = "ok" /\ relay.http[r].answer # "ok" =>
         desktop.job[r].state = "ended" /\ relay.http[r].bytes = desktop.job[r].sent]_vars

\* A local socket whose player the relay has let go of is closed: the order is
\* under way, or the host socket is on its way down.
LocalsFollowPlayers ==
  \A h \in Hosts : \A p \in desktop.local[h] :
    \/ p \in relay.players
    \/ <<"ws.close", p>> \in ToSet(down[h])
    \/ relay.client[p] = "open"
    \/ relay.socket[h] \in {"closing", "closed"}

\* Both sides follow the socket that serves a player: a replaced or lost host
\* takes its own requests and local sockets with it, and no others.
SidesAgree == WaitsForItsHost /\ LocalsFollowPlayers

\* Whatever hosts, clients and the network do, all that was reserved is given back
\* and every request is answered.
TunnelDrains ==
  <>[](/\ relay.active = 0 /\ relay.uploaded = 0 /\ relay.buffered = 0
       /\ \A h \in Hosts : desktop.bytes[h] = 0)
===============================================================================
