-------------------------------- MODULE Relay --------------------------------
(***************************************************************************)
(* Remote access: the relay that web requests reach, the client inside the *)
(* control plane that dials the relay, and the socket between them.  The   *)
(* relay keeps one runtime, the connection whose hello it accepted last,   *)
(* and one channel per request it forwards to it; the client keeps one     *)
(* socket and one channel per request it hands to the local server.        *)
(* Either end may close a socket or lose it; the other hears of it later.  *)
(***************************************************************************)
EXTENDS Naturals, Sequences

CONSTANTS
    Requests,        \* web requests
    Bodies,          \* those that have a body
    NoRequest,       \* the absence of a request
    MaxBody,         \* bound: chunks of a request's body
    MaxReply,        \* bound: chunks of a reply
    MaxConnections,  \* bound: sockets the client opens
    MaxReconfigs     \* bound: changes of the client's configuration

ASSUME RelayAssumption ==
    /\ Bodies \subseteq Requests
    /\ NoRequest \notin Requests
    /\ {MaxBody, MaxReply, MaxConnections, MaxReconfigs} \subseteq Nat

VARIABLES
    web,        \* what the caller of each request has seen
    \* the relay
    runtime,    \* the connection of ActiveRuntime, 0 if there is none
    epochs,     \* connectionEpoch
    epoch,      \* the epoch given to each connection, 0 before its hello
    chan,       \* the relay's channel of each request
    on,         \* the connection it was opened on
    got,        \* chunks of the response passed on: channel.sequence
    pump,       \* the task that reads the request's body
    pumped,     \* chunks of the body it has sent
    idle,       \* has the time of each channel's timer run out since it was armed
    revoked,    \* is the device revoked
    \* the sockets
    relayEnd, clientEnd,   \* each connection as either end sees it
    up, down,              \* messages on their way to the relay and to the client
    \* the client
    cur,        \* this.socket, 0 if there is none
    ident,      \* the epoch in this.identity, 0 if there is none
    channels,   \* the requests in this.channels
    taken,      \* chunks of the body taken: channel.sequence
    fwd,        \* the call of forward for each request
    under,      \* the epoch forward captured
    sent,       \* chunks of the reply it has produced
    reconfigs,
    \* history
    cut,        \* requests cut short, or whose connection was
    refused     \* requests about which an end raised a protocol error

relay   == <<runtime, epochs, epoch, chan, on, got, revoked>>
pumps   == <<pump, pumped, idle>>
sockets == <<relayEnd, clientEnd, up, down>>
client  == <<cur, ident, channels, taken, fwd, under, sent, reconfigs>>
history == <<cut, refused>>
vars    == <<web, relay, pumps, sockets, client, history>>

Connection == 1 .. MaxConnections

-----------------------------------------------------------------------------
SocketMessage  == {"hello", "hello_ack", "close"}
ChannelMessage == {"request_open", "request_chunk", "request_end", "request_cancel",
                   "response_open", "response_chunk", "response_end", "response_error"}
Message == [type : SocketMessage, req : {NoRequest}, n : Nat, epoch : Nat]
           \cup [type : ChannelMessage, req : Requests, n : Nat, epoch : Nat]

Msg(type, r, n, e) == [type |-> type, req |-> r, n |-> n, epoch |-> e]
Close == Msg("close", NoRequest, 0, 0)

TypeOK ==
    /\ web \in [Requests -> {"new", "waiting", "streaming", "whole", "broken", "failed", "gone"}]
    /\ runtime \in 0 .. MaxConnections
    /\ epochs \in Nat
    /\ epoch \in [Connection -> Nat]
    /\ chan \in [Requests -> {"none", "waiting", "open", "done"}]
    /\ on \in [Requests -> 0 .. MaxConnections]
    /\ got \in [Requests -> Nat]
    /\ pump \in [Requests -> {"none", "reading", "over"}]
    /\ pumped \in [Requests -> Nat]
    /\ idle \in [Requests -> BOOLEAN]
    /\ revoked \in BOOLEAN
    /\ relayEnd \in [Connection -> {"none", "open", "closing", "closed"}]
    /\ clientEnd \in [Connection -> {"none", "connecting", "open", "closing", "closed"}]
    /\ up \in [Connection -> Seq(Message)]
    /\ down \in [Connection -> Seq(Message)]
    /\ cur \in 0 .. MaxConnections
    /\ ident \in Nat
    /\ channels \subseteq Requests
    /\ taken \in [Requests -> Nat]
    /\ fwd \in [Requests -> {"none", "fetching", "streaming", "ended", "over"}]
    /\ under \in [Requests -> Nat]
    /\ sent \in [Requests -> Nat]
    /\ reconfigs \in Nat
    /\ cut \subseteq Requests
    /\ refused \subseteq Requests \cup {NoRequest}

Init ==
    /\ web = [r \in Requests |-> "new"]
    /\ runtime = 0
    /\ epochs = 0
    /\ epoch = [c \in Connection |-> 0]
    /\ chan = [r \in Requests |-> "none"]
    /\ on = [r \in Requests |-> 0]
    /\ got = [r \in Requests |-> 0]
    /\ pump = [r \in Requests |-> "none"]
    /\ pumped = [r \in Requests |-> 0]
    /\ idle = [r \in Requests |-> FALSE]
    /\ revoked = FALSE
    /\ relayEnd = [c \in Connection |-> "none"]
    /\ clientEnd = [c \in Connection |-> "none"]
    /\ up = [c \in Connection |-> <<>>]
    /\ down = [c \in Connection |-> <<>>]
    /\ cur = 0
    /\ ident = 0
    /\ channels = {}
    /\ taken = [r \in Requests |-> 0]
    /\ fwd = [r \in Requests |-> "none"]
    /\ under = [r \in Requests |-> 0]
    /\ sent = [r \in Requests |-> 0]
    /\ reconfigs = 0
    /\ cut = {}
    /\ refused = {}

-----------------------------------------------------------------------------
(* The sockets.  What is sent to an end that is no longer open is lost.    *)

ToClient(c, ms) == IF relayEnd[c] = "open" /\ clientEnd[c] = "open" THEN down[c] \o ms ELSE down[c]
ToRelay(c, ms)  == IF clientEnd[c] = "open" /\ relayEnd[c] = "open" THEN up[c] \o ms ELSE up[c]

\* An end calls close: it takes no more messages, and the other end hears of it
\* after what was sent before.
RelayCloses(c) ==
    /\ relayEnd' = [relayEnd EXCEPT ![c] = IF @ = "open" THEN "closing" ELSE @]
    /\ down' = [down EXCEPT ![c] = ToClient(c, <<Close>>)]
    /\ up' = [up EXCEPT ![c] = <<>>]
    /\ UNCHANGED clientEnd

ClientCloses(c) ==
    /\ clientEnd' = [clientEnd EXCEPT ![c] = IF @ \in {"connecting", "open"} THEN "closing" ELSE @]
    /\ up' = [up EXCEPT ![c] = IF clientEnd[c] \in {"connecting", "open"} /\ relayEnd[c] = "open"
                               THEN Append(@, Close) ELSE @]
    /\ down' = [down EXCEPT ![c] = <<>>]
    /\ UNCHANGED relayEnd

\* The network drops the connection: both ends get a close event, some time.
Lose(c) ==
    /\ clientEnd[c] \in {"connecting", "open"}
    /\ clientEnd' = [clientEnd EXCEPT ![c] = "closing"]
    /\ relayEnd' = [relayEnd EXCEPT ![c] = IF @ = "open" THEN "closing" ELSE @]
    /\ up' = [up EXCEPT ![c] = <<>>]
    /\ down' = [down EXCEPT ![c] = <<>>]
    /\ UNCHANGED <<web, relay, pumps, client, history>>

-----------------------------------------------------------------------------
(* The relay and its web requests.                                         *)

Live(r) == chan[r] \in {"waiting", "open"}

\* armChannelTimeout starts the timer of a channel again, finishChannel clears it.
ResetTimer(r) == idle' = [idle EXCEPT ![r] = FALSE]

\* Mutation: the stream of a failed channel is closed like that of a whole one.
FailedAsWhole(r) == IF chan[r] = "open" THEN "whole" ELSE "failed"

\* failChannel: an error status before the head, a broken stream after it.
Failed(r) == IF chan[r] = "open" THEN "broken" ELSE "failed"

\* failChannel and finishChannel of one request.
FailChannel(r) ==
    /\ chan' = [chan EXCEPT ![r] = IF Live(r) THEN "done" ELSE @]
    /\ web' = [web EXCEPT ![r] = IF Live(r) THEN Failed(r) ELSE @]
    /\ ResetTimer(r)

\* The channels of a runtime.
ChannelsOf(c) == {r \in Requests : Live(r) /\ on[r] = c}

\* closeRuntime, unless another connection has become the runtime.
FailChannels(c) ==
    /\ chan' = [r \in Requests |-> IF r \in ChannelsOf(c) THEN "done" ELSE chan[r]]
    /\ web' = [r \in Requests |-> IF r \in ChannelsOf(c) THEN Failed(r) ELSE web[r]]
    /\ idle' = [r \in Requests |-> idle[r] /\ r \notin ChannelsOf(c)]
    /\ cut' = cut \cup ChannelsOf(c)

\* A request arrives: a channel is made and the request is sent on, at once with
\* its end if it has no body.
WebRequest(r) ==
    /\ web[r] = "new"
    /\ IF runtime = 0
       THEN /\ web' = [web EXCEPT ![r] = "failed"]
            /\ UNCHANGED <<chan, on, pump, idle, down>>
       ELSE /\ web' = [web EXCEPT ![r] = "waiting"]
            /\ chan' = [chan EXCEPT ![r] = "waiting"]
            /\ on' = [on EXCEPT ![r] = runtime]
            /\ ResetTimer(r)
            /\ LET opened == Msg("request_open", r, 0, epoch[runtime])
                   ended  == Msg("request_end", r, 0, epoch[runtime])
               IN down' = [down EXCEPT ![runtime] =
                             ToClient(runtime, IF r \in Bodies THEN <<opened>> ELSE <<opened, ended>>)]
            /\ pump' = [pump EXCEPT ![r] = IF r \in Bodies THEN "reading" ELSE "over"]
    /\ UNCHANGED <<runtime, epochs, epoch, got, revoked, pumped, relayEnd, clientEnd, up, client, history>>

\* The task that reads the body sends to whatever runtime there is, under that
\* runtime's identity; without one it throws, and its channel is over by then.
PumpChunk(r) ==
    /\ pump[r] = "reading"
    /\ pumped[r] < MaxBody
    /\ ResetTimer(r)
    /\ IF runtime = 0
       THEN pump' = [pump EXCEPT ![r] = "over"] /\ UNCHANGED <<pumped, down>>
       ELSE /\ down' = [down EXCEPT ![runtime] =
                          ToClient(runtime, <<Msg("request_chunk", r, pumped[r], epoch[runtime])>>)]
            /\ pumped' = [pumped EXCEPT ![r] = @ + 1]
            /\ UNCHANGED pump
    /\ UNCHANGED <<web, relay, relayEnd, clientEnd, up, client, history>>

PumpEnd(r) ==
    /\ pump[r] = "reading"
    /\ pump' = [pump EXCEPT ![r] = "over"]
    /\ down' = IF runtime = 0 THEN down
               ELSE [down EXCEPT ![runtime] = ToClient(runtime, <<Msg("request_end", r, 0, epoch[runtime])>>)]
    /\ UNCHANGED <<web, relay, pumped, idle, relayEnd, clientEnd, up, client, history>>

\* request_cancel, to the runtime of the channel.
SendCancel(r) ==
    down' = [down EXCEPT ![runtime] = ToClient(runtime, <<Msg("request_cancel", r, 0, epoch[runtime])>>)]

\* The body breaks off or is too large.
PumpFails(r) ==
    /\ pump[r] = "reading"
    /\ pump' = [pump EXCEPT ![r] = "over"]
    /\ IF Live(r) /\ runtime = on[r] THEN SendCancel(r) ELSE UNCHANGED down
    /\ FailChannel(r)
    /\ cut' = cut \cup {r}
    /\ UNCHANGED <<runtime, epochs, epoch, on, got, revoked, pumped, relayEnd, clientEnd, up, client, refused>>

\* The caller goes away: the abort of the request, the cancel of the response.
WebGone(r) ==
    /\ Live(r)
    /\ runtime = on[r]
    /\ SendCancel(r)
    /\ web' = [web EXCEPT ![r] = "gone"]
    /\ chan' = [chan EXCEPT ![r] = "done"]
    /\ ResetTimer(r)
    /\ cut' = cut \cup {r}
    /\ UNCHANGED <<runtime, epochs, epoch, on, got, revoked, pump, pumped, relayEnd, clientEnd, up, client, refused>>

\* The time of the timer runs out, if nothing arms it again.
TimePasses(r) ==
    /\ Live(r)
    /\ ~idle[r]
    /\ idle' = [idle EXCEPT ![r] = TRUE]
    /\ UNCHANGED <<web, relay, pump, pumped, sockets, client, history>>

\* Mutation: the timer is not armed again once the response is open.
NoIdleTimer(r) ==
    /\ chan[r] = "waiting"
    /\ idle[r]
    /\ runtime = on[r]
    /\ SendCancel(r)
    /\ FailChannel(r)
    /\ cut' = cut \cup {r}
    /\ UNCHANGED <<runtime, epochs, epoch, on, got, revoked, pump, pumped, relayEnd, clientEnd, up, client, refused>>

\* The timer of a channel: it looks the channel up in the runtime there is.
TimerFires(r) ==
    /\ Live(r)
    /\ idle[r]
    /\ runtime = on[r]
    /\ SendCancel(r)
    /\ FailChannel(r)
    /\ cut' = cut \cup {r}
    /\ UNCHANGED <<runtime, epochs, epoch, on, got, revoked, pump, pumped, relayEnd, clientEnd, up, client, refused>>

-----------------------------------------------------------------------------
(* What the relay does with a message of a socket.                         *)

Arrived(c, type) == relayEnd[c] = "open" /\ up[c] # <<>> /\ Head(up[c]).type = type
Read(c) == up' = [up EXCEPT ![c] = Tail(@)]

\* The message is of the runtime there is, under the identity that it was given.
FromRuntime(c) == runtime = c /\ Head(up[c]).epoch = epoch[c]

\* A hello makes its connection the runtime; the one before it is closed, and
\* its channels fail.
Hello(c) ==
    /\ Arrived(c, "hello")
    /\ ~revoked
    /\ Read(c)
    /\ epochs' = epochs + 1
    /\ epoch' = [epoch EXCEPT ![c] = epochs + 1]
    /\ runtime' = c
    /\ LET replaced == {runtime} \ {0}
       IN /\ relayEnd' = [d \in Connection |-> IF d \in replaced /\ relayEnd[d] = "open"
                                               THEN "closing" ELSE relayEnd[d]]
          /\ down' = [d \in Connection |->
                        CASE d = c -> ToClient(c, <<Msg("hello_ack", NoRequest, 0, epochs + 1)>>)
                          [] d \in replaced -> ToClient(d, <<Close>>)
                          [] OTHER -> down[d]]
    /\ FailChannels(runtime)
    /\ UNCHANGED <<on, got, revoked, pump, pumped, clientEnd, client, refused>>

\* The token of a revoked device is unknown.
HelloRefused(c) ==
    /\ Arrived(c, "hello")
    /\ revoked
    /\ RelayCloses(c)
    /\ UNCHANGED <<web, relay, pumps, client, history>>

\* A second head of a response, or one of a channel that is over, is ignored.
ReceiveHead(c) ==
    /\ Arrived(c, "response_open")
    /\ FromRuntime(c)
    /\ Read(c)
    /\ LET r == Head(up[c]).req
           opens == r \in ChannelsOf(c) /\ chan[r] = "waiting"
       IN /\ chan' = [chan EXCEPT ![r] = IF opens THEN "open" ELSE @]
          /\ web' = [web EXCEPT ![r] = IF opens THEN "streaming" ELSE @]
          /\ idle' = [idle EXCEPT ![r] = @ /\ ~opens]
    /\ UNCHANGED <<runtime, epochs, epoch, on, got, revoked, pump, pumped, relayEnd, clientEnd, down, client, history>>

\* A chunk is for an open channel and the next of its sequence.
Expected(c) ==
    LET m == Head(up[c]) IN m.req \in ChannelsOf(c) /\ chan[m.req] = "open" /\ got[m.req] = m.n

ReceiveChunk(c) ==
    /\ Arrived(c, "response_chunk")
    /\ FromRuntime(c)
    /\ Expected(c)
    /\ Read(c)
    /\ got' = [got EXCEPT ![Head(up[c]).req] = @ + 1]
    /\ ResetTimer(Head(up[c]).req)
    /\ UNCHANGED <<web, runtime, epochs, epoch, chan, on, revoked, pump, pumped, relayEnd, clientEnd, down, client, history>>

\* The end of a response closes its stream, if the head has made one.
ReceiveEnd(c) ==
    /\ Arrived(c, "response_end")
    /\ FromRuntime(c)
    /\ Read(c)
    /\ LET r == Head(up[c]).req
       IN IF r \notin ChannelsOf(c) THEN UNCHANGED <<chan, web, idle>>
          ELSE /\ chan' = [chan EXCEPT ![r] = "done"]
               /\ ResetTimer(r)
               /\ web' = [web EXCEPT ![r] = IF chan[r] = "open" THEN "whole" ELSE @]
    /\ UNCHANGED <<runtime, epochs, epoch, on, got, revoked, pump, pumped, relayEnd, clientEnd, down, client, history>>

ReceiveError(c) ==
    /\ Arrived(c, "response_error")
    /\ FromRuntime(c)
    /\ Read(c)
    /\ LET r == Head(up[c]).req
       IN IF r \in ChannelsOf(c) THEN FailChannel(r) ELSE UNCHANGED <<chan, web, idle>>
    /\ UNCHANGED <<runtime, epochs, epoch, on, got, revoked, pump, pumped, relayEnd, clientEnd, down, client, history>>

\* Anything else is a protocol error, and closes the socket.
RelayRefuses(c) ==
    /\ relayEnd[c] = "open"
    /\ up[c] # <<>>
    /\ Head(up[c]).type \notin {"hello", "close"}
    /\ FromRuntime(c) => Head(up[c]).type = "response_chunk" /\ ~Expected(c)
    /\ RelayCloses(c)
    /\ refused' = refused \cup {Head(up[c]).req}
    /\ UNCHANGED <<web, relay, pumps, client, cut>>

\* onClose, onError and closeRuntime.
RelayClosed(c) ==
    /\ relayEnd[c] = "closing" \/ Arrived(c, "close")
    /\ relayEnd' = [relayEnd EXCEPT ![c] = "closed"]
    /\ up' = [up EXCEPT ![c] = <<>>]
    /\ IF runtime = c THEN runtime' = 0 /\ FailChannels(c) ELSE UNCHANGED <<runtime, chan, web, idle, cut>>
    /\ UNCHANGED <<epochs, epoch, on, got, revoked, pump, pumped, clientEnd, down, client, refused>>

\* No heartbeat for three intervals.
HeartbeatTimeout ==
    /\ runtime # 0
    /\ RelayCloses(runtime)
    /\ runtime' = 0
    /\ FailChannels(runtime)
    /\ UNCHANGED <<epochs, epoch, on, got, revoked, pump, pumped, client, refused>>

\* The channels are left to the close event.
Revoke ==
    /\ ~revoked
    /\ revoked' = TRUE
    /\ IF runtime = 0 THEN UNCHANGED sockets ELSE RelayCloses(runtime)
    /\ UNCHANGED <<web, runtime, epochs, epoch, chan, on, got, pumps, client, history>>

-----------------------------------------------------------------------------
(* The client and its socket.                                              *)

\* connect, at once or by the timer of scheduleReconnect.
Connect(c) ==
    /\ cur = 0
    /\ clientEnd[c] = "none"
    /\ \A d \in 1 .. (c - 1) : clientEnd[d] # "none"
    /\ cur' = c
    /\ clientEnd' = [clientEnd EXCEPT ![c] = "connecting"]
    /\ relayEnd' = [relayEnd EXCEPT ![c] = "open"]
    /\ UNCHANGED <<web, relay, pumps, up, down, ident, channels, taken, fwd, under, sent, reconfigs, history>>

Open(c) ==
    /\ clientEnd[c] = "connecting"
    /\ clientEnd' = [clientEnd EXCEPT ![c] = "open"]
    /\ up' = IF cur = c /\ relayEnd[c] = "open"
             THEN [up EXCEPT ![c] = Append(@, Msg("hello", NoRequest, 0, 0))] ELSE up
    /\ UNCHANGED <<web, relay, pumps, relayEnd, down, client, history>>

\* disconnect of refreshConfig.  The channels are kept.
Reconfigure ==
    /\ reconfigs < MaxReconfigs
    /\ cur # 0
    /\ reconfigs' = reconfigs + 1
    /\ cur' = 0
    /\ ident' = 0
    /\ ClientCloses(cur)
    /\ cut' = cut \cup channels
    /\ UNCHANGED <<web, relay, pumps, channels, taken, fwd, under, sent, refused>>

Working == {"fetching", "streaming"}

\* The abort of a channel reaches its fetch or the stream of its response.
Aborted(R) == [r \in Requests |-> IF r \in R /\ fwd[r] \in Working THEN "over" ELSE fwd[r]]

\* The close event of the client's socket.
ClientClosed(c) ==
    /\ clientEnd[c] = "closing" \/ (clientEnd[c] = "open" /\ down[c] # <<>> /\ Head(down[c]).type = "close")
    /\ clientEnd' = [clientEnd EXCEPT ![c] = "closed"]
    /\ down' = [down EXCEPT ![c] = <<>>]
    /\ IF cur = c
       THEN /\ cur' = 0
            /\ ident' = 0
            /\ fwd' = Aborted(channels)
            /\ channels' = {}
       ELSE UNCHANGED <<cur, ident, fwd, channels>>
    /\ UNCHANGED <<web, relay, pumps, relayEnd, up, taken, under, sent, reconfigs, history>>

Delivered(c, type) ==
    clientEnd[c] = "open" /\ cur = c /\ down[c] # <<>> /\ Head(down[c]).type = type
Take(c) == down' = [down EXCEPT ![c] = Tail(@)]

\* The message is under the identity of the client.
FromRelay(c) == ident # 0 /\ Head(down[c]).epoch = ident

TakeAck(c) ==
    /\ Delivered(c, "hello_ack")
    /\ Take(c)
    /\ ident' = Head(down[c]).epoch
    /\ UNCHANGED <<web, relay, pumps, relayEnd, clientEnd, up, cur, channels, taken, fwd, under, sent, reconfigs, history>>

\* request_open: a channel is made, and forward asks the local server.
TakeOpen(c) ==
    /\ Delivered(c, "request_open")
    /\ FromRelay(c)
    /\ Take(c)
    /\ LET r == Head(down[c]).req
       IN /\ r \notin channels
          /\ channels' = channels \cup {r}
          /\ fwd' = [fwd EXCEPT ![r] = "fetching"]
          /\ under' = [under EXCEPT ![r] = ident]
    /\ UNCHANGED <<web, relay, pumps, relayEnd, clientEnd, up, cur, ident, taken, sent, reconfigs, history>>

\* Mutation: the sequence is counted from one.
AwaitedFromOne(c) ==
    LET m == Head(down[c]) IN m.req \in channels \cap Bodies /\ taken[m.req] + 1 = m.n

\* A chunk of a body is for a channel that has one, and the next of its sequence.
Awaited(c) ==
    LET m == Head(down[c]) IN m.req \in channels \cap Bodies /\ taken[m.req] = m.n

TakeChunk(c) ==
    /\ Delivered(c, "request_chunk")
    /\ FromRelay(c)
    /\ Awaited(c)
    /\ Take(c)
    /\ taken' = [taken EXCEPT ![Head(down[c]).req] = @ + 1]
    /\ UNCHANGED <<web, relay, pumps, relayEnd, clientEnd, up, cur, ident, channels, fwd, under, sent, reconfigs, history>>

TakeEnd(c) ==
    /\ Delivered(c, "request_end")
    /\ FromRelay(c)
    /\ Take(c)
    /\ UNCHANGED <<web, relay, pumps, relayEnd, clientEnd, up, client, history>>

\* send of the client: it throws unless the socket it has is open.
CanSend == cur # 0 /\ clientEnd[cur] = "open"
Sends(m) == up' = [up EXCEPT ![cur] = ToRelay(cur, <<m>>)]

\* Mutation: the channel is deleted and nothing is aborted.
CancelForgets(c) ==
    /\ Delivered(c, "request_cancel")
    /\ FromRelay(c)
    /\ Take(c)
    /\ channels' = channels \ {Head(down[c]).req}
    /\ UNCHANGED <<web, relay, pumps, relayEnd, clientEnd, up, cur, ident, taken, fwd, under, sent, reconfigs, history>>

\* request_cancel.  The call of forward that it aborts may still report an error
\* while the channel is there.
TakeCancel(c) ==
    /\ Delivered(c, "request_cancel")
    /\ FromRelay(c)
    /\ Take(c)
    /\ LET r == Head(down[c]).req
       IN /\ channels' = channels \ {r}
          /\ IF r \notin channels THEN UNCHANGED <<fwd, up>>
             ELSE /\ fwd' = Aborted({r})
                  /\ \/ UNCHANGED up
                     \/ fwd[r] \in Working /\ Sends(Msg("response_error", r, 0, under[r]))
    /\ UNCHANGED <<web, relay, pumps, relayEnd, clientEnd, cur, ident, taken, under, sent, reconfigs, history>>

\* A message under another identity, a channel that exists or does not, a chunk
\* out of sequence, or a write to a body that the local server, having answered,
\* reads no more.
ClientRefuses(c) ==
    /\ clientEnd[c] = "open"
    /\ cur = c
    /\ down[c] # <<>>
    /\ LET m == Head(down[c])
       IN /\ m.type \notin {"hello_ack", "close"}
          /\ \/ ~FromRelay(c)
             \/ m.type = "request_open" /\ m.req \in channels
             \/ m.type = "request_chunk" /\ ~Awaited(c)
             \/ /\ m.type \in {"request_chunk", "request_end"}
                /\ m.req \in channels \cap Bodies
                /\ fwd[m.req] = "streaming"
          /\ refused' = refused \cup {m.req}
    /\ ClientCloses(c)
    /\ UNCHANGED <<web, relay, pumps, client, cut>>

-----------------------------------------------------------------------------
(* forward, and the local server.                                          *)

\* Part of the body has not reached the client.
Unread(r) ==
    /\ r \in Bodies
    /\ \/ pump[r] = "reading"
       \/ \E c \in Connection : \E i \in DOMAIN down[c] :
              down[c][i].req = r /\ down[c][i].type \in {"request_chunk", "request_end"}

AnsweredEarly(r) == cut' = IF Unread(r) THEN cut \cup {r} ELSE cut

\* forward sends m and goes on; if it cannot, it rejects, and leaves the channel
\* for the close event.
Forwards(r, m, next) ==
    IF CanSend
    THEN Sends(m) /\ fwd' = [fwd EXCEPT ![r] = next]
    ELSE fwd' = [fwd EXCEPT ![r] = "over"] /\ UNCHANGED up

FetchAnswers(r) ==
    /\ fwd[r] = "fetching"
    /\ Forwards(r, Msg("response_open", r, 0, under[r]), "streaming")
    /\ AnsweredEarly(r)
    /\ UNCHANGED <<web, relay, pumps, relayEnd, clientEnd, down, cur, ident, channels, taken, under, sent, reconfigs, refused>>

FetchFails(r) ==
    /\ fwd[r] = "fetching"
    /\ Forwards(r, Msg("response_error", r, 0, under[r]), "over")
    /\ channels' = IF CanSend THEN channels \ {r} ELSE channels
    /\ AnsweredEarly(r)
    /\ UNCHANGED <<web, relay, pumps, relayEnd, clientEnd, down, cur, ident, taken, under, sent, reconfigs, refused>>

ReplyChunk(r) ==
    /\ fwd[r] = "streaming"
    /\ sent[r] < MaxReply
    /\ Forwards(r, Msg("response_chunk", r, sent[r], under[r]), "streaming")
    /\ sent' = [sent EXCEPT ![r] = IF CanSend THEN @ + 1 ELSE @]
    /\ UNCHANGED <<web, relay, pumps, relayEnd, clientEnd, down, cur, ident, channels, taken, under, reconfigs, history>>

\* The reply goes on beyond MaxReply: such a chunk is sent and received in one step
\* and is not counted, but it arms the timer of its channel.
ReplyLasts(r) ==
    /\ fwd[r] = "streaming"
    /\ chan[r] = "open"
    /\ got[r] = MaxReply
    /\ CanSend
    /\ on[r] = cur
    /\ relayEnd[cur] = "open"
    /\ ResetTimer(r)
    /\ UNCHANGED <<web, relay, pump, pumped, sockets, client, history>>

ReplyEnds(r) ==
    /\ fwd[r] = "streaming"
    /\ Forwards(r, Msg("response_end", r, 0, under[r]), "ended")
    /\ channels' = IF CanSend THEN channels \ {r} ELSE channels
    /\ UNCHANGED <<web, relay, pumps, relayEnd, clientEnd, down, cur, ident, taken, under, sent, reconfigs, history>>

\* The reply breaks off: the error is reported under the identity of now.
ReplyFails(r) ==
    /\ fwd[r] = "streaming"
    /\ fwd' = [fwd EXCEPT ![r] = "over"]
    /\ IF ident # 0 /\ r \in channels /\ CanSend
       THEN Sends(Msg("response_error", r, 0, ident)) /\ channels' = channels \ {r}
       ELSE UNCHANGED <<up, channels>>
    /\ UNCHANGED <<web, relay, pumps, relayEnd, clientEnd, down, cur, ident, taken, under, sent, reconfigs, history>>

-----------------------------------------------------------------------------
RelayReceives(c) ==
    \/ Hello(c) \/ HelloRefused(c)
    \/ ReceiveHead(c) \/ ReceiveChunk(c) \/ ReceiveEnd(c) \/ ReceiveError(c)
    \/ RelayRefuses(c)
    \/ RelayClosed(c)

ClientReceives(c) ==
    \/ Open(c)
    \/ TakeAck(c) \/ TakeOpen(c) \/ TakeChunk(c) \/ TakeEnd(c) \/ TakeCancel(c)
    \/ ClientRefuses(c)
    \/ ClientClosed(c)

Web(r) == WebRequest(r) \/ PumpChunk(r) \/ PumpEnd(r) \/ PumpFails(r) \/ WebGone(r) \/ TimerFires(r)

Forward(r) == FetchAnswers(r) \/ FetchFails(r) \/ ReplyChunk(r) \/ ReplyEnds(r) \/ ReplyFails(r)

\* What moves only the time of a channel.
Time(r) == TimePasses(r) \/ ReplyLasts(r)

Next ==
    \/ \E r \in Requests : Web(r) \/ Forward(r) \/ Time(r)
    \/ \E c \in Connection : RelayReceives(c) \/ ClientReceives(c) \/ Connect(c) \/ Lose(c)
    \/ HeartbeatTimeout
    \/ Revoke
    \/ Reconfigure

Spec == Init /\ [][Next]_vars

\* What a socket carries is handled in the end, and so is its close; the timer of
\* a channel on which nothing comes any more fires.  Callers, the local server and
\* the network owe nothing: a reply that goes on arms its timer for ever.
Fairness ==
    /\ \A c \in Connection : WF_vars(RelayReceives(c)) /\ WF_vars(ClientReceives(c))
    /\ \A r \in Requests : WF_vars(TimePasses(r)) /\ WF_vars(TimerFires(r))

FairSpec == Spec /\ Fairness

-----------------------------------------------------------------------------
\* The reply a caller gets is a prefix of what the local server produced, and one
\* that ends well is the whole of it, whatever becomes of sockets and timers
\* (server.ts:371-385, client.ts:295-324).
Promise == INSTANCE Exchange WITH received <- got, produced <- sent,
                                  complete <- {r \in Requests : fwd[r] = "ended"}
ImplementsExchange == Promise!Spec

\* Every channel that waits for a response is one of the runtime there is: a
\* runtime that is replaced, times out or is closed leaves none behind
\* (closeRuntime, server.ts:296-301; hello, server.ts:311-315).
ChannelsAreCurrent == \A r \in Requests : Live(r) => runtime = on[r] /\ runtime # 0

\* The two ends agree on the protocol: a socket is closed for a protocol error
\* only about a request that was cut short, answered before its body was read,
\* or whose connection was lost (server.ts:373, client.ts:246).
RefusalsAreOfCutRequests == refused \subseteq cut

\* Every request is answered or fails, whatever the control plane does, unless its
\* reply goes on for ever: each chunk arms the timer again (server.ts:279-301, 377).
RequestsEnd ==
    \A r \in Requests :
        \/ []<><<ReplyLasts(r)>>_vars
        \/ web[r] \in {"waiting", "streaming"} ~> web[r] \in {"whole", "broken", "failed", "gone"}

\* When a request is over at the relay, the local server does not go on with it,
\* unless the client was reconfigured (client.ts:145-154, 258-265).
LocalWorkStops ==
    \A r \in Requests : (chan[r] = "done") ~> (fwd[r] \notin Working \/ reconfigs > 0)
=============================================================================
