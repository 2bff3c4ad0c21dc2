----------------------------- MODULE RelayProofs -----------------------------
(***************************************************************************)
(* Proofs about Relay, for any number of requests, connections and chunks: *)
(* its types, that no channel of the relay outlives its runtime, that      *)
(* Relay implements Exchange, and that neither end of a socket takes what  *)
(* the other sends for a protocol error, unless it is about a request that *)
(* was cut short.                                                          *)
(***************************************************************************)
EXTENDS Relay, Integers, TLAPS

SocketTypes ==
    /\ relayEnd \in [Connection -> {"none", "open", "closing", "closed"}]
    /\ clientEnd \in [Connection -> {"none", "connecting", "open", "closing", "closed"}]
    /\ up \in [Connection -> Seq(Message)]
    /\ down \in [Connection -> Seq(Message)]

WebTypes ==
    /\ web \in [Requests -> {"new", "waiting", "streaming", "whole", "broken", "failed", "gone"}]
    /\ chan \in [Requests -> {"none", "waiting", "open", "done"}]
    /\ on \in [Requests -> 0 .. MaxConnections]
    /\ got \in [Requests -> Nat]
    /\ pump \in [Requests -> {"none", "reading", "over"}]
    /\ pumped \in [Requests -> Nat]
    /\ idle \in [Requests -> BOOLEAN]
    /\ cut \subseteq Requests

RuntimeTypes ==
    /\ runtime \in 0 .. MaxConnections
    /\ epochs \in Nat
    /\ epoch \in [Connection -> Nat]
    /\ revoked \in BOOLEAN
    /\ refused \subseteq Requests \cup {NoRequest}

ClientTypes ==
    /\ cur \in 0 .. MaxConnections
    /\ ident \in Nat
    /\ channels \subseteq Requests
    /\ taken \in [Requests -> Nat]
    /\ fwd \in [Requests -> {"none", "fetching", "streaming", "ended", "over"}]
    /\ under \in [Requests -> Nat]
    /\ sent \in [Requests -> Nat]
    /\ reconfigs \in Nat

\* The types are those of the sockets, the web, the runtime and the client.
LEMMA TypeParts == TypeOK <=> SocketTypes /\ WebTypes /\ RuntimeTypes /\ ClientTypes
  BY DEF TypeOK, SocketTypes, WebTypes, RuntimeTypes, ClientTypes

LEMMA TypePartsNext == TypeOK' <=> SocketTypes' /\ WebTypes' /\ RuntimeTypes' /\ ClientTypes'
  BY DEF TypeOK, SocketTypes, WebTypes, RuntimeTypes, ClientTypes

-----------------------------------------------------------------------------
(* Messages and sockets.                                                   *)

\* What the ends send are messages.
LEMMA MsgIsMessage ==
  ASSUME NEW t \in ChannelMessage, NEW r \in Requests, NEW n \in Nat, NEW e \in Nat
  PROVE  Msg(t, r, n, e) \in Message
  BY DEF Msg, Message

LEMMA SocketMsgIsMessage ==
  ASSUME NEW t \in SocketMessage, NEW n \in Nat, NEW e \in Nat
  PROVE  Msg(t, NoRequest, n, e) \in Message
  BY DEF Msg, Message

LEMMA CloseIsMessage == Close \in Message
  BY SocketMsgIsMessage DEF Close, SocketMessage

\* What an end reads is a message, and what is left are messages.
LEMMA ReadingMessages ==
  ASSUME NEW s \in Seq(Message), s # <<>>
  PROVE  /\ Tail(s) \in Seq(Message)
         /\ Head(s) \in Message
         /\ Head(s).req \in Requests \cup {NoRequest}
         /\ Head(s).n \in Nat
         /\ Head(s).epoch \in Nat
         /\ Head(s).type \in ChannelMessage => Head(s).req \in Requests
  <1>1. Tail(s) \in Seq(Message) /\ Head(s) \in Message
    OBVIOUS
  <1> QED BY <1>1 DEF Message, SocketMessage, ChannelMessage

\* Sending keeps a socket one of messages.
LEMMA SendingMessages ==
  ASSUME SocketTypes, NEW c \in Connection, NEW ms \in Seq(Message)
  PROVE  ToClient(c, ms) \in Seq(Message) /\ ToRelay(c, ms) \in Seq(Message)
  BY DEF SocketTypes, ToClient, ToRelay

LEMMA SendingOne ==
  ASSUME SocketTypes, NEW c \in Connection, NEW m \in Message
  PROVE  ToClient(c, <<m>>) \in Seq(Message) /\ ToRelay(c, <<m>>) \in Seq(Message)
  <1>1. <<m>> \in Seq(Message)
    OBVIOUS
  <1> QED BY <1>1, SendingMessages

\* Closing an end, and reading from it, keep the types of the sockets.
LEMMA RelayClosesType ==
  ASSUME SocketTypes, NEW c \in Connection, RelayCloses(c)
  PROVE  SocketTypes'
  <1>1. ToClient(c, <<Close>>) \in Seq(Message)
    BY CloseIsMessage, SendingOne
  <1>2. <<>> \in Seq(Message)
    OBVIOUS
  <1> QED BY <1>1, <1>2 DEF SocketTypes, RelayCloses

LEMMA ClientClosesType ==
  ASSUME SocketTypes, NEW c \in Connection, ClientCloses(c)
  PROVE  SocketTypes'
  <1>1. Append(up[c], Close) \in Seq(Message)
    BY CloseIsMessage DEF SocketTypes
  <1>2. <<>> \in Seq(Message)
    OBVIOUS
  <1> QED BY <1>1, <1>2 DEF SocketTypes, ClientCloses

LEMMA ReadType ==
  ASSUME SocketTypes, NEW c \in Connection, up[c] # <<>>, Read(c), UNCHANGED <<relayEnd, clientEnd, down>>
  PROVE  SocketTypes'
  <1>1. Tail(up[c]) \in Seq(Message)
    BY ReadingMessages DEF SocketTypes
  <1> QED BY <1>1 DEF SocketTypes, Read

LEMMA TakeType ==
  ASSUME SocketTypes, NEW c \in Connection, down[c] # <<>>, Take(c), UNCHANGED <<relayEnd, clientEnd, up>>
  PROVE  SocketTypes'
  <1>1. Tail(down[c]) \in Seq(Message)
    BY ReadingMessages DEF SocketTypes
  <1> QED BY <1>1 DEF SocketTypes, Take

-----------------------------------------------------------------------------
(* Channels.                                                               *)

\* What an action does to the channels: none comes back to life or moves, and
\* the runtime stays unless the channels of the one before are over.
ChannelStep ==
    \A r \in Requests : Live(r)' => \/ Live(r) /\ on'[r] = on[r] /\ runtime' = runtime
                                    \/ runtime' # 0 /\ on'[r] = runtime'

\* Such an action leaves every channel with its runtime.
LEMMA ChannelsStay ==
  ASSUME ChannelsAreCurrent, ChannelStep
  PROVE  ChannelsAreCurrent'
  BY DEF ChannelsAreCurrent, ChannelStep

\* Failing one channel.
LEMMA FailChannelStep ==
  ASSUME WebTypes, ChannelsAreCurrent, NEW r \in Requests, FailChannel(r),
         cut' = cut \/ cut' = cut \cup {r},
         pump' \in [Requests -> {"none", "reading", "over"}],
         UNCHANGED <<runtime, on, got, pumped>>
  PROVE  WebTypes' /\ ChannelsAreCurrent'
  <1>1. WebTypes'
    BY DEF WebTypes, FailChannel, Failed, Live, ResetTimer
  <1>2. ChannelStep
    BY DEF WebTypes, FailChannel, Live, ChannelStep
  <1> QED BY <1>1, <1>2, ChannelsStay

\* Failing all the channels of the runtime leaves none, whatever comes next.
LEMMA FailChannelsStep ==
  ASSUME WebTypes, ChannelsAreCurrent, FailChannels(runtime), UNCHANGED <<on, got, pump, pumped>>
  PROVE  WebTypes' /\ ChannelsAreCurrent'
  <1>1. WebTypes'
    BY DEF WebTypes, FailChannels, ChannelsOf, Failed, Live
  <1>2. \A r \in Requests : ~Live(r)'
    BY DEF WebTypes, FailChannels, ChannelsOf, Live, ChannelsAreCurrent
  <1> QED BY <1>1, <1>2 DEF ChannelsAreCurrent

-----------------------------------------------------------------------------
IInv == TypeOK /\ ChannelsAreCurrent

LEMMA InitInv == Init => IInv
  <1> SUFFICES ASSUME Init PROVE IInv
    OBVIOUS
  <1>1. <<>> \in Seq(Message)
    OBVIOUS
  <1>2. MaxConnections \in Nat
    BY RelayAssumption
  <1>3. SocketTypes
    BY <1>1 DEF Init, SocketTypes
  <1>4. WebTypes /\ RuntimeTypes /\ ClientTypes
    <2>1. 0 \in 0 .. MaxConnections
      BY <1>2
    <2>2. WebTypes
      BY <2>1 DEF Init, WebTypes
    <2>3. RuntimeTypes
      BY <2>1 DEF Init, RuntimeTypes
    <2>4. ClientTypes
      BY <2>1 DEF Init, ClientTypes
    <2> QED BY <2>2, <2>3, <2>4
  <1>5. ChannelsAreCurrent
    BY DEF Init, ChannelsAreCurrent, Live
  <1> QED BY <1>3, <1>4, <1>5, TypeParts DEF IInv

\* What the callers and the timers do.
LEMMA WebInv ==
  ASSUME IInv, NEW r \in Requests, Web(r)
  PROVE  IInv'
  <1> USE RelayAssumption
  <1>0. SocketTypes /\ WebTypes /\ RuntimeTypes /\ ClientTypes /\ ChannelsAreCurrent
    BY TypeParts DEF IInv
  <1>a. SUFFICES SocketTypes' /\ WebTypes' /\ RuntimeTypes' /\ ClientTypes' /\ ChannelsAreCurrent'
    BY TypePartsNext DEF IInv
  <1>b. ASSUME runtime # 0 PROVE runtime \in Connection /\ epoch[runtime] \in Nat
    BY <1>0, <1>b DEF RuntimeTypes, Connection
  <1>c. ASSUME runtime # 0, SendCancel(r), UNCHANGED <<relayEnd, clientEnd, up>> PROVE SocketTypes'
    <2>1. Msg("request_cancel", r, 0, epoch[runtime]) \in Message
      BY <1>b, <1>c, MsgIsMessage DEF ChannelMessage
    <2>2. ToClient(runtime, <<Msg("request_cancel", r, 0, epoch[runtime])>>) \in Seq(Message)
      BY <1>0, <1>b, <1>c, <2>1, SendingOne
    <2> QED BY <1>0, <1>c, <2>2 DEF SendCancel, SocketTypes
  <1>1. CASE WebRequest(r)
    <2>0. RuntimeTypes' /\ ClientTypes'
      <3>1. RuntimeTypes'
        BY <1>0, <1>1 DEF WebRequest, RuntimeTypes, history
      <3>2. ClientTypes'
        BY <1>0, <1>1 DEF WebRequest, ClientTypes, client
      <3> QED BY <3>1, <3>2
    <2>1. CASE runtime = 0
      <3>1. SocketTypes'
        BY <1>0, <1>1, <2>1 DEF WebRequest, SocketTypes
      <3>2. WebTypes'
        BY <1>0, <1>1, <2>1 DEF WebRequest, WebTypes, history
      <3>3. ChannelsAreCurrent'
        BY <1>0, <1>1, <2>1 DEF WebRequest, ChannelsAreCurrent, Live
      <3> QED BY <2>0, <3>1, <3>2, <3>3
    <2>2. CASE runtime # 0
      <3> DEFINE opened == Msg("request_open", r, 0, epoch[runtime])
                 ended  == Msg("request_end", r, 0, epoch[runtime])
      <3>1. opened \in Message /\ ended \in Message
        BY <1>b, <2>2, MsgIsMessage DEF ChannelMessage
      <3> HIDE DEF opened, ended
      <3>2. <<opened>> \in Seq(Message) /\ <<opened, ended>> \in Seq(Message)
        BY <3>1
      <3>3. ToClient(runtime, <<opened>>) \in Seq(Message) /\ ToClient(runtime, <<opened, ended>>) \in Seq(Message)
        BY <1>0, <1>b, <2>2, <3>2, SendingMessages
      <3>4. SocketTypes'
        BY <1>0, <1>1, <2>2, <3>3 DEF WebRequest, SocketTypes, opened, ended
      <3>5. WebTypes'
        <4>1. runtime \in 0 .. MaxConnections
          BY <1>0 DEF RuntimeTypes
        <4>2. idle' \in [Requests -> BOOLEAN]
          BY <1>0, <1>1, <2>2 DEF WebRequest, WebTypes, ResetTimer
        <4>3. UNCHANGED <<got, pumped, cut>>
          BY <1>1 DEF WebRequest, history
        <4>4. chan' \in [Requests -> {"none", "waiting", "open", "done"}]
          BY <1>0, <1>1, <2>2 DEF WebRequest, WebTypes
        <4>5. web' \in [Requests -> {"new", "waiting", "streaming", "whole", "broken", "failed", "gone"}]
          BY <1>0, <1>1, <2>2 DEF WebRequest, WebTypes
        <4>6. /\ on' \in [Requests -> 0 .. MaxConnections]
              /\ pump' \in [Requests -> {"none", "reading", "over"}]
          BY <1>0, <1>1, <2>2, <4>1 DEF WebRequest, WebTypes
        <4> QED BY <1>0, <4>2, <4>3, <4>4, <4>5, <4>6 DEF WebTypes
      <3>6. ChannelStep
        BY <1>0, <1>1, <2>2 DEF WebRequest, WebTypes, Live, ChannelStep
      <3> QED BY <1>0, <2>0, <3>4, <3>5, <3>6, ChannelsStay
    <2> QED BY <2>1, <2>2
  <1>2. CASE PumpChunk(r)
    <2>1. SocketTypes'
      <3>1. CASE runtime = 0
        BY <1>0, <1>2, <3>1 DEF PumpChunk, SocketTypes
      <3>2. CASE runtime # 0
        <4> DEFINE chunk == Msg("request_chunk", r, pumped[r], epoch[runtime])
        <4>1. chunk \in Message
          BY <1>0, <1>b, <3>2, MsgIsMessage DEF ChannelMessage, WebTypes
        <4> HIDE DEF chunk
        <4>2. ToClient(runtime, <<chunk>>) \in Seq(Message)
          BY <1>0, <1>b, <3>2, <4>1, SendingOne
        <4> QED BY <1>0, <1>2, <3>2, <4>2 DEF PumpChunk, SocketTypes, chunk
      <3> QED BY <3>1, <3>2
    <2>2. WebTypes' /\ RuntimeTypes' /\ ClientTypes' /\ ChannelsAreCurrent'
      BY <1>0, <1>2 DEF PumpChunk, ResetTimer, WebTypes, RuntimeTypes, ClientTypes, ChannelsAreCurrent, Live, relay, client, history
    <2> QED BY <2>1, <2>2
  <1>3. CASE PumpEnd(r)
    <2>1. SocketTypes'
      <3>1. CASE runtime = 0
        BY <1>0, <1>3, <3>1 DEF PumpEnd, SocketTypes
      <3>2. CASE runtime # 0
        <4> DEFINE last == Msg("request_end", r, 0, epoch[runtime])
        <4>1. last \in Message
          BY <1>b, <3>2, MsgIsMessage DEF ChannelMessage
        <4> HIDE DEF last
        <4>2. ToClient(runtime, <<last>>) \in Seq(Message)
          BY <1>0, <1>b, <3>2, <4>1, SendingOne
        <4> QED BY <1>0, <1>3, <3>2, <4>2 DEF PumpEnd, SocketTypes, last
      <3> QED BY <3>1, <3>2
    <2>2. WebTypes' /\ RuntimeTypes' /\ ClientTypes' /\ ChannelsAreCurrent'
      BY <1>0, <1>3 DEF PumpEnd, WebTypes, RuntimeTypes, ClientTypes, ChannelsAreCurrent, Live, relay, client, history
    <2> QED BY <2>1, <2>2
  <1>4. CASE PumpFails(r)
    <2>1. SocketTypes'
      <3>1. CASE Live(r) /\ runtime = on[r]
        <4>1. runtime # 0
          BY <1>0, <3>1 DEF ChannelsAreCurrent
        <4> QED BY <1>4, <1>c, <3>1, <4>1 DEF PumpFails
      <3>2. CASE ~(Live(r) /\ runtime = on[r])
        BY <1>0, <1>4, <3>2 DEF PumpFails, SocketTypes
      <3> QED BY <3>1, <3>2
    <2>2. pump' \in [Requests -> {"none", "reading", "over"}]
      BY <1>0, <1>4 DEF PumpFails, WebTypes
    <2>3. WebTypes' /\ ChannelsAreCurrent'
      BY <1>0, <1>4, <2>2, FailChannelStep DEF PumpFails
    <2>4. RuntimeTypes' /\ ClientTypes'
      BY <1>0, <1>4 DEF PumpFails, RuntimeTypes, ClientTypes, client
    <2> QED BY <2>1, <2>3, <2>4
  <1>5. CASE WebGone(r)
    <2>1. runtime # 0
      BY <1>0, <1>5 DEF WebGone, ChannelsAreCurrent
    <2>2. SocketTypes'
      BY <1>5, <1>c, <2>1 DEF WebGone
    <2>3. WebTypes' /\ RuntimeTypes' /\ ClientTypes'
      BY <1>0, <1>5 DEF WebGone, ResetTimer, WebTypes, RuntimeTypes, ClientTypes, client, pumps
    <2>4. ChannelStep
      BY <1>0, <1>5 DEF WebGone, WebTypes, Live, ChannelStep
    <2> QED BY <1>0, <2>2, <2>3, <2>4, ChannelsStay
  <1>6. CASE TimerFires(r)
    <2>1. runtime # 0
      BY <1>0, <1>6 DEF TimerFires, ChannelsAreCurrent
    <2>2. SocketTypes'
      BY <1>6, <1>c, <2>1 DEF TimerFires
    <2>3. WebTypes' /\ ChannelsAreCurrent'
      <3>1. pump' \in [Requests -> {"none", "reading", "over"}]
        BY <1>0, <1>6 DEF TimerFires, WebTypes, pumps
      <3> QED BY <1>0, <1>6, <3>1, FailChannelStep DEF TimerFires, pumps
    <2>4. RuntimeTypes' /\ ClientTypes'
      BY <1>0, <1>6 DEF TimerFires, RuntimeTypes, ClientTypes, client
    <2> QED BY <2>2, <2>3, <2>4
  <1> QED BY <1>1, <1>2, <1>3, <1>4, <1>5, <1>6 DEF Web

\* What the relay does with a message of a socket, and with its close.
LEMMA RelayInv ==
  ASSUME IInv, NEW c \in Connection, RelayReceives(c)
  PROVE  IInv'
  <1>0. SocketTypes /\ WebTypes /\ RuntimeTypes /\ ClientTypes /\ ChannelsAreCurrent
    BY TypeParts DEF IInv
  <1>a. SUFFICES SocketTypes' /\ WebTypes' /\ RuntimeTypes' /\ ClientTypes' /\ ChannelsAreCurrent'
    BY TypePartsNext DEF IInv
  <1>b. ASSUME UNCHANGED client PROVE ClientTypes'
    BY <1>0, <1>b DEF ClientTypes, client
  <1>c. ASSUME UNCHANGED <<runtime, epochs, epoch, revoked>>, refused' \subseteq Requests \cup {NoRequest}
        PROVE RuntimeTypes'
    BY <1>0, <1>c DEF RuntimeTypes
  <1>d. ASSUME UNCHANGED <<web, chan, on, got, pumps, cut>> PROVE WebTypes'
    BY <1>0, <1>d DEF WebTypes, pumps
  <1>e. ASSUME UNCHANGED <<chan, on, runtime>> PROVE ChannelsAreCurrent'
    BY <1>0, <1>e DEF ChannelsAreCurrent, Live
  <1>f. refused \subseteq Requests \cup {NoRequest}
    BY <1>0 DEF RuntimeTypes
  <1>1. CASE Hello(c)
    <2>1. /\ ToClient(c, <<Msg("hello_ack", NoRequest, 0, epochs + 1)>>) \in Seq(Message)
          /\ \A d \in Connection : ToClient(d, <<Close>>) \in Seq(Message)
      <3>1. Msg("hello_ack", NoRequest, 0, epochs + 1) \in Message
        BY <1>0, SocketMsgIsMessage DEF SocketMessage, RuntimeTypes
      <3> QED BY <1>0, <3>1, CloseIsMessage, SendingOne
    <2>2. SocketTypes'
      <3>1. Tail(up[c]) \in Seq(Message)
        BY <1>0, <1>1, ReadingMessages DEF Hello, Arrived, SocketTypes
      <3>2. up' \in [Connection -> Seq(Message)]
        BY <1>0, <1>1, <3>1 DEF Hello, Read, SocketTypes
      <3>3. relayEnd' \in [Connection -> {"none", "open", "closing", "closed"}]
        BY <1>0, <1>1 DEF Hello, SocketTypes
      <3>4. down' \in [Connection -> Seq(Message)]
        BY <1>0, <1>1, <2>1 DEF Hello, SocketTypes
      <3> QED BY <1>0, <1>1, <3>2, <3>3, <3>4 DEF Hello, SocketTypes
    <2>3. WebTypes' /\ ChannelsAreCurrent'
      BY <1>0, <1>1, FailChannelsStep DEF Hello, pumps
    <2>4. RuntimeTypes'
      BY <1>0, <1>1 DEF Hello, RuntimeTypes, Connection
    <2>5. ClientTypes'
      BY <1>1, <1>b DEF Hello
    <2> QED BY <2>2, <2>3, <2>4, <2>5
  <1>2. CASE HelloRefused(c)
    BY <1>0, <1>2, <1>b, <1>c, <1>d, <1>e, <1>f, RelayClosesType DEF HelloRefused, relay, history
  <1>3. CASE ReceiveHead(c)
    <2>1. SocketTypes'
      BY <1>0, <1>3, ReadType DEF ReceiveHead, Arrived
    <2>2. WebTypes'
      BY <1>0, <1>3 DEF ReceiveHead, WebTypes, pumps, history
    <2>3. RuntimeTypes' /\ ClientTypes'
      BY <1>3, <1>b, <1>c, <1>f DEF ReceiveHead, history
    <2>4. ChannelStep
      BY <1>0, <1>3 DEF ReceiveHead, WebTypes, Live, ChannelStep
    <2> QED BY <1>0, <2>1, <2>2, <2>3, <2>4, ChannelsStay
  <1>4. CASE ReceiveChunk(c)
    <2>1. SocketTypes'
      BY <1>0, <1>4, ReadType DEF ReceiveChunk, Arrived
    <2>2. WebTypes'
      BY <1>0, <1>4 DEF ReceiveChunk, ResetTimer, Expected, ChannelsOf, WebTypes, pumps, history
    <2>3. RuntimeTypes' /\ ClientTypes' /\ ChannelsAreCurrent'
      BY <1>4, <1>b, <1>c, <1>e, <1>f DEF ReceiveChunk, history
    <2> QED BY <2>1, <2>2, <2>3
  <1>5. CASE ReceiveEnd(c)
    <2>1. SocketTypes'
      BY <1>0, <1>5, ReadType DEF ReceiveEnd, Arrived
    <2>2. WebTypes'
      <3>1. idle' \in [Requests -> BOOLEAN]
        BY <1>0, <1>5 DEF ReceiveEnd, ResetTimer, WebTypes
      <3>2. UNCHANGED <<on, got, pump, pumped, cut>>
        BY <1>5 DEF ReceiveEnd, history
      <3>3. chan' \in [Requests -> {"none", "waiting", "open", "done"}]
        BY <1>0, <1>5 DEF ReceiveEnd, WebTypes
      <3>4. web' \in [Requests -> {"new", "waiting", "streaming", "whole", "broken", "failed", "gone"}]
        BY <1>0, <1>5 DEF ReceiveEnd, WebTypes
      <3> QED BY <1>0, <3>1, <3>2, <3>3, <3>4 DEF WebTypes
    <2>3. RuntimeTypes' /\ ClientTypes'
      BY <1>5, <1>b, <1>c, <1>f DEF ReceiveEnd, history
    <2>4. ChannelStep
      BY <1>0, <1>5 DEF ReceiveEnd, WebTypes, Live, ChannelStep
    <2> QED BY <1>0, <2>1, <2>2, <2>3, <2>4, ChannelsStay
  <1>6. CASE ReceiveError(c)
    <2>1. SocketTypes'
      BY <1>0, <1>6, ReadType DEF ReceiveError, Arrived
    <2>2. RuntimeTypes' /\ ClientTypes'
      BY <1>6, <1>b, <1>c, <1>f DEF ReceiveError, history
    <2>3. WebTypes' /\ ChannelsAreCurrent'
      <3>1. CASE Head(up[c]).req \in ChannelsOf(c)
        <4>1. Head(up[c]).req \in Requests /\ FailChannel(Head(up[c]).req)
          BY <1>6, <3>1 DEF ReceiveError, ChannelsOf
        <4>2. pump' \in [Requests -> {"none", "reading", "over"}]
          BY <1>0, <1>6 DEF ReceiveError, WebTypes, pumps
        <4> QED BY <1>0, <1>6, <4>1, <4>2, FailChannelStep DEF ReceiveError, pumps, history
      <3>2. CASE Head(up[c]).req \notin ChannelsOf(c)
        BY <1>6, <3>2, <1>d, <1>e DEF ReceiveError, pumps, history
      <3> QED BY <3>1, <3>2
    <2> QED BY <2>1, <2>2, <2>3
  <1>7. CASE RelayRefuses(c)
    <2>1. Head(up[c]).req \in Requests \cup {NoRequest}
      BY <1>0, <1>7, ReadingMessages DEF RelayRefuses, SocketTypes
    <2>2. refused' \subseteq Requests \cup {NoRequest}
      BY <1>7, <1>f, <2>1 DEF RelayRefuses
    <2> QED BY <1>0, <1>7, <2>2, <1>b, <1>c, <1>d, <1>e, RelayClosesType DEF RelayRefuses, relay
  <1>8. CASE RelayClosed(c)
    <2>1. SocketTypes'
      <3>1. <<>> \in Seq(Message)
        OBVIOUS
      <3> QED BY <1>0, <1>8, <3>1 DEF RelayClosed, SocketTypes
    <2>2. ClientTypes'
      BY <1>8, <1>b DEF RelayClosed
    <2>3. WebTypes' /\ ChannelsAreCurrent'
      <3>1. CASE runtime = c
        BY <1>0, <1>8, <3>1, FailChannelsStep DEF RelayClosed, pumps
      <3>2. CASE runtime # c
        BY <1>8, <3>2, <1>d, <1>e DEF RelayClosed, pumps
      <3> QED BY <3>1, <3>2
    <2>4. RuntimeTypes'
      BY <1>0, <1>8, RelayAssumption DEF RelayClosed, RuntimeTypes
    <2> QED BY <2>1, <2>2, <2>3, <2>4
  <1> QED BY <1>1, <1>2, <1>3, <1>4, <1>5, <1>6, <1>7, <1>8 DEF RelayReceives

\* What the client does with a message of its socket, and with its close.
LEMMA ClientInv ==
  ASSUME IInv, NEW c \in Connection, ClientReceives(c)
  PROVE  IInv'
  <1>0. SocketTypes /\ WebTypes /\ RuntimeTypes /\ ClientTypes /\ ChannelsAreCurrent
    BY TypeParts DEF IInv
  <1>a. SUFFICES SocketTypes' /\ WebTypes' /\ RuntimeTypes' /\ ClientTypes' /\ ChannelsAreCurrent'
    BY TypePartsNext DEF IInv
  <1>b. ASSUME UNCHANGED <<web, relay, pumps, cut>>, refused' \subseteq Requests \cup {NoRequest}
        PROVE WebTypes' /\ RuntimeTypes' /\ ChannelsAreCurrent'
    BY <1>0, <1>b DEF WebTypes, RuntimeTypes, ChannelsAreCurrent, Live, relay, pumps
  <1>c. ASSUME UNCHANGED <<web, relay, pumps, history>> PROVE WebTypes' /\ RuntimeTypes' /\ ChannelsAreCurrent'
    BY <1>0, <1>b, <1>c DEF RuntimeTypes, history
  <1>d. ASSUME UNCHANGED client PROVE ClientTypes'
    BY <1>0, <1>d DEF ClientTypes, client
  <1>e. ASSUME NEW t, Delivered(c, t)
        PROVE /\ down[c] # <<>>
              /\ t \in ChannelMessage => Head(down[c]).req \in Requests
              /\ Head(down[c]).req \in Requests \cup {NoRequest}
              /\ Head(down[c]).epoch \in Nat
    BY <1>0, <1>e, ReadingMessages DEF Delivered, SocketTypes
  <1>1. CASE Open(c)
    <2>1. Append(up[c], Msg("hello", NoRequest, 0, 0)) \in Seq(Message)
      <3>1. Msg("hello", NoRequest, 0, 0) \in Message
        BY SocketMsgIsMessage DEF SocketMessage
      <3> QED BY <1>0, <3>1 DEF SocketTypes
    <2>2. SocketTypes'
      BY <1>0, <1>1, <2>1 DEF Open, SocketTypes
    <2> QED BY <1>1, <1>c, <1>d, <2>2 DEF Open
  <1>2. CASE TakeAck(c)
    <2>1. SocketTypes'
      BY <1>0, <1>2, <1>e, TakeType DEF TakeAck
    <2>2. ClientTypes'
      BY <1>0, <1>2, <1>e DEF TakeAck, ClientTypes
    <2> QED BY <1>2, <1>c, <2>1, <2>2 DEF TakeAck
  <1>3. CASE TakeOpen(c)
    <2>1. SocketTypes'
      BY <1>0, <1>3, <1>e, TakeType DEF TakeOpen
    <2>2. ClientTypes'
      <3> DEFINE r == Head(down[c]).req
      <3>1. r \in Requests
        BY <1>3, <1>e DEF TakeOpen, ChannelMessage
      <3> QED BY <1>0, <1>3, <3>1 DEF TakeOpen, ClientTypes
    <2> QED BY <1>3, <1>c, <2>1, <2>2 DEF TakeOpen
  <1>4. CASE TakeChunk(c)
    <2>1. SocketTypes'
      BY <1>0, <1>4, <1>e, TakeType DEF TakeChunk
    <2>2. ClientTypes'
      BY <1>0, <1>4 DEF TakeChunk, Awaited, ClientTypes
    <2> QED BY <1>4, <1>c, <2>1, <2>2 DEF TakeChunk
  <1>5. CASE TakeEnd(c)
    <2>1. SocketTypes'
      BY <1>0, <1>5, <1>e, TakeType DEF TakeEnd
    <2> QED BY <1>5, <1>c, <1>d, <2>1 DEF TakeEnd
  <1>6. CASE TakeCancel(c)
    <2> DEFINE r == Head(down[c]).req
    <2>0. r \in Requests /\ down[c] # <<>>
      BY <1>6, <1>e DEF TakeCancel, ChannelMessage
    <2>1. down' \in [Connection -> Seq(Message)]
      <3>1. Tail(down[c]) \in Seq(Message)
        BY <1>0, <2>0, ReadingMessages DEF SocketTypes
      <3> QED BY <1>0, <1>6, <3>1 DEF TakeCancel, Take, SocketTypes
    <2>2. up' \in [Connection -> Seq(Message)]
      <3>1. Msg("response_error", r, 0, under[r]) \in Message
        BY <1>0, <2>0, MsgIsMessage DEF ChannelMessage, ClientTypes
      <3>2. cur \in Connection
        BY <1>6 DEF TakeCancel, Delivered
      <3>3. ToRelay(cur, <<Msg("response_error", r, 0, under[r])>>) \in Seq(Message)
        BY <1>0, <3>1, <3>2, SendingOne
      <3>4. CASE UNCHANGED up
        BY <1>0, <3>4 DEF SocketTypes
      <3>5. CASE Sends(Msg("response_error", r, 0, under[r]))
        BY <1>0, <3>3, <3>5 DEF Sends, SocketTypes
      <3> QED BY <1>6, <3>4, <3>5 DEF TakeCancel
    <2>3. SocketTypes'
      BY <1>0, <1>6, <2>1, <2>2 DEF TakeCancel, SocketTypes
    <2>4. ClientTypes'
      <3>1. fwd' \in [Requests -> {"none", "fetching", "streaming", "ended", "over"}]
        BY <1>0, <1>6 DEF TakeCancel, Aborted, ClientTypes
      <3> QED BY <1>0, <1>6, <3>1 DEF TakeCancel, ClientTypes
    <2> QED BY <1>6, <1>c, <2>3, <2>4 DEF TakeCancel
  <1>7. CASE ClientRefuses(c)
    <2>1. Head(down[c]).req \in Requests \cup {NoRequest}
      BY <1>0, <1>7, ReadingMessages DEF ClientRefuses, SocketTypes
    <2>2. refused' \subseteq Requests \cup {NoRequest}
      BY <1>0, <1>7, <2>1 DEF ClientRefuses, RuntimeTypes
    <2> QED BY <1>0, <1>7, <1>b, <1>d, <2>2, ClientClosesType DEF ClientRefuses
  <1>8. CASE ClientClosed(c)
    <2>1. SocketTypes'
      <3>1. <<>> \in Seq(Message)
        OBVIOUS
      <3> QED BY <1>0, <1>8, <3>1 DEF ClientClosed, SocketTypes
    <2>2. ClientTypes'
      <3>1. CASE cur = c
        BY <1>0, <1>8, <3>1, RelayAssumption DEF ClientClosed, ClientTypes, Aborted
      <3>2. CASE cur # c
        BY <1>0, <1>8, <3>2 DEF ClientClosed, ClientTypes
      <3> QED BY <3>1, <3>2
    <2> QED BY <1>8, <1>c, <2>1, <2>2 DEF ClientClosed
  <1> QED BY <1>1, <1>2, <1>3, <1>4, <1>5, <1>6, <1>7, <1>8 DEF ClientReceives

\* What forward does with the local server's reply.
LEMMA ForwardInv ==
  ASSUME IInv, NEW r \in Requests, Forward(r)
  PROVE  IInv'
  <1>0. SocketTypes /\ WebTypes /\ RuntimeTypes /\ ClientTypes /\ ChannelsAreCurrent
    BY TypeParts DEF IInv
  <1>a. SUFFICES SocketTypes' /\ WebTypes' /\ RuntimeTypes' /\ ClientTypes' /\ ChannelsAreCurrent'
    BY TypePartsNext DEF IInv
  <1>b. ASSUME UNCHANGED <<web, relay, pumps, refused>>, cut' \subseteq Requests
        PROVE WebTypes' /\ RuntimeTypes' /\ ChannelsAreCurrent'
    BY <1>0, <1>b DEF WebTypes, RuntimeTypes, ChannelsAreCurrent, Live, relay, pumps
  <1>c. ASSUME AnsweredEarly(r) PROVE cut' \subseteq Requests
    BY <1>0, <1>c DEF AnsweredEarly, WebTypes
  <1>d. ASSUME NEW m \in Message, Sends(m), CanSend, UNCHANGED <<relayEnd, clientEnd, down>> PROVE SocketTypes'
    <2>1. cur \in Connection
      BY <1>0, <1>d DEF CanSend, ClientTypes, Connection
    <2>2. ToRelay(cur, <<m>>) \in Seq(Message)
      BY <1>0, <1>d, <2>1, SendingOne
    <2> QED BY <1>0, <1>d, <2>2 DEF Sends, SocketTypes
  <1>e. ASSUME NEW m \in Message, NEW next \in {"streaming", "ended", "over"}, Forwards(r, m, next),
               UNCHANGED <<relayEnd, clientEnd, down>>
        PROVE SocketTypes' /\ fwd' \in [Requests -> {"none", "fetching", "streaming", "ended", "over"}]
    <2>1. CASE CanSend
      BY <1>0, <1>d, <1>e, <2>1 DEF Forwards, ClientTypes
    <2>2. CASE ~CanSend
      BY <1>0, <1>e, <2>2 DEF Forwards, ClientTypes, SocketTypes
    <2> QED BY <2>1, <2>2
  <1>f. \A t \in ChannelMessage, n \in Nat : Msg(t, r, n, under[r]) \in Message /\ Msg(t, r, n, ident) \in Message
    BY <1>0, MsgIsMessage DEF ClientTypes
  <1>g. cut \subseteq Requests
    BY <1>0 DEF WebTypes
  <1>1. CASE FetchAnswers(r)
    <2>1. Msg("response_open", r, 0, under[r]) \in Message
      BY <1>f DEF ChannelMessage
    <2>2. SocketTypes' /\ fwd' \in [Requests -> {"none", "fetching", "streaming", "ended", "over"}]
      BY <1>1, <1>e, <2>1 DEF FetchAnswers
    <2>3. ClientTypes'
      BY <1>0, <1>1, <2>2 DEF FetchAnswers, ClientTypes
    <2> QED BY <1>1, <1>b, <1>c, <2>2, <2>3 DEF FetchAnswers
  <1>2. CASE FetchFails(r)
    <2>1. Msg("response_error", r, 0, under[r]) \in Message
      BY <1>f DEF ChannelMessage
    <2>2. SocketTypes' /\ fwd' \in [Requests -> {"none", "fetching", "streaming", "ended", "over"}]
      BY <1>2, <1>e, <2>1 DEF FetchFails
    <2>3. ClientTypes'
      BY <1>0, <1>2, <2>2 DEF FetchFails, ClientTypes
    <2> QED BY <1>2, <1>b, <1>c, <2>2, <2>3 DEF FetchFails
  <1>3. CASE ReplyChunk(r)
    <2>1. Msg("response_chunk", r, sent[r], under[r]) \in Message
      BY <1>0, <1>f DEF ChannelMessage, ClientTypes
    <2>2. SocketTypes' /\ fwd' \in [Requests -> {"none", "fetching", "streaming", "ended", "over"}]
      BY <1>3, <1>e, <2>1 DEF ReplyChunk
    <2>3. ClientTypes'
      <3>1. sent' \in [Requests -> Nat]
        <4>1. (IF CanSend THEN sent[r] + 1 ELSE sent[r]) \in Nat
          BY <1>0 DEF ClientTypes
        <4>2. sent' = [sent EXCEPT ![r] = IF CanSend THEN sent[r] + 1 ELSE sent[r]]
          BY <1>3 DEF ReplyChunk
        <4> HIDE DEF CanSend
        <4> QED BY <1>0, <4>1, <4>2 DEF ClientTypes
      <3> QED BY <1>0, <1>3, <2>2, <3>1 DEF ReplyChunk, ClientTypes
    <2> QED BY <1>3, <1>b, <1>g, <2>2, <2>3 DEF ReplyChunk, history
  <1>4. CASE ReplyEnds(r)
    <2>1. Msg("response_end", r, 0, under[r]) \in Message
      BY <1>f DEF ChannelMessage
    <2>2. SocketTypes' /\ fwd' \in [Requests -> {"none", "fetching", "streaming", "ended", "over"}]
      BY <1>4, <1>e, <2>1 DEF ReplyEnds
    <2>3. ClientTypes'
      BY <1>0, <1>4, <2>2 DEF ReplyEnds, ClientTypes
    <2> QED BY <1>4, <1>b, <1>g, <2>2, <2>3 DEF ReplyEnds, history
  <1>5. CASE ReplyFails(r)
    <2>1. Msg("response_error", r, 0, ident) \in Message
      BY <1>f DEF ChannelMessage
    <2>2. SocketTypes'
      BY <1>0, <1>5, <1>d, <2>1 DEF ReplyFails, SocketTypes
    <2>3. ClientTypes'
      BY <1>0, <1>5 DEF ReplyFails, ClientTypes
    <2> QED BY <1>5, <1>b, <1>g, <2>2, <2>3 DEF ReplyFails, history
  <1> QED BY <1>1, <1>2, <1>3, <1>4, <1>5 DEF Forward

\* What happens to the sockets and the configuration.
LEMMA OtherInv ==
  ASSUME IInv,
         \/ \E c \in Connection : Connect(c) \/ Lose(c)
         \/ HeartbeatTimeout \/ Revoke \/ Reconfigure
  PROVE  IInv'
  <1>0. SocketTypes /\ WebTypes /\ RuntimeTypes /\ ClientTypes /\ ChannelsAreCurrent
    BY TypeParts DEF IInv
  <1>a. SUFFICES SocketTypes' /\ WebTypes' /\ RuntimeTypes' /\ ClientTypes' /\ ChannelsAreCurrent'
    BY TypePartsNext DEF IInv
  <1>b. ASSUME UNCHANGED <<web, relay, pumps, refused>>, cut' \subseteq Requests
        PROVE WebTypes' /\ RuntimeTypes' /\ ChannelsAreCurrent'
    BY <1>0, <1>b DEF WebTypes, RuntimeTypes, ChannelsAreCurrent, Live, relay, pumps
  <1>c. ASSUME UNCHANGED client PROVE ClientTypes'
    BY <1>0, <1>c DEF ClientTypes, client
  <1>d. cut \subseteq Requests
    BY <1>0 DEF WebTypes
  <1>e. <<>> \in Seq(Message)
    OBVIOUS
  <1>1. ASSUME NEW c \in Connection, Connect(c)
        PROVE SocketTypes' /\ WebTypes' /\ RuntimeTypes' /\ ClientTypes' /\ ChannelsAreCurrent'
    <2>1. SocketTypes'
      BY <1>0, <1>1 DEF Connect, SocketTypes
    <2>2. ClientTypes'
      BY <1>0, <1>1 DEF Connect, ClientTypes, Connection
    <2> QED BY <1>1, <1>b, <1>d, <2>1, <2>2 DEF Connect, history
  <1>2. ASSUME NEW c \in Connection, Lose(c)
        PROVE SocketTypes' /\ WebTypes' /\ RuntimeTypes' /\ ClientTypes' /\ ChannelsAreCurrent'
    <2>1. SocketTypes'
      BY <1>0, <1>2, <1>e DEF Lose, SocketTypes
    <2> QED BY <1>2, <1>b, <1>c, <1>d, <2>1 DEF Lose, history
  <1>3. CASE HeartbeatTimeout
    <2>1. runtime \in Connection
      BY <1>0, <1>3 DEF HeartbeatTimeout, RuntimeTypes, Connection
    <2>2. SocketTypes'
      BY <1>0, <1>3, <2>1, RelayClosesType DEF HeartbeatTimeout
    <2>3. WebTypes' /\ ChannelsAreCurrent'
      BY <1>0, <1>3, FailChannelsStep DEF HeartbeatTimeout, pumps
    <2>4. RuntimeTypes'
      BY <1>0, <1>3, RelayAssumption DEF HeartbeatTimeout, RuntimeTypes
    <2> QED BY <1>3, <1>c, <2>2, <2>3, <2>4 DEF HeartbeatTimeout
  <1>4. CASE Revoke
    <2>1. SocketTypes'
      <3>1. CASE runtime = 0
        BY <1>0, <1>4, <3>1 DEF Revoke, SocketTypes, sockets
      <3>2. CASE runtime # 0
        BY <1>0, <1>4, <3>2, RelayClosesType DEF Revoke, RuntimeTypes, Connection
      <3> QED BY <3>1, <3>2
    <2>2. WebTypes' /\ ChannelsAreCurrent'
      BY <1>0, <1>4 DEF Revoke, WebTypes, ChannelsAreCurrent, Live, pumps, history
    <2>3. RuntimeTypes'
      BY <1>0, <1>4 DEF Revoke, RuntimeTypes, history
    <2> QED BY <1>4, <1>c, <2>1, <2>2, <2>3 DEF Revoke
  <1>5. CASE Reconfigure
    <2>1. cur \in Connection
      BY <1>0, <1>5 DEF Reconfigure, ClientTypes, Connection
    <2>2. SocketTypes'
      BY <1>0, <1>5, <2>1, ClientClosesType DEF Reconfigure
    <2>3. ClientTypes'
      BY <1>0, <1>5, RelayAssumption DEF Reconfigure, ClientTypes
    <2>4. cut' \subseteq Requests
      BY <1>0, <1>5, <1>d DEF Reconfigure, ClientTypes
    <2> QED BY <1>5, <1>b, <2>2, <2>3, <2>4 DEF Reconfigure
  <1> QED BY <1>1, <1>2, <1>3, <1>4, <1>5

\* The passing of time touches nothing but the timers.
rest == <<web, relay, pump, pumped, sockets, client, history>>

LEMMA TimeMovesNothing ==
  ASSUME UNCHANGED vars \/ \E r \in Requests : Time(r)
  PROVE  UNCHANGED rest
  BY DEF Time, TimePasses, ReplyLasts, rest, vars, pumps

LEMMA InvInductive == IInv /\ [Next]_vars => IInv'
  <1> SUFFICES ASSUME IInv, [Next]_vars PROVE IInv'
    OBVIOUS
  <1>1. ASSUME NEW r \in Requests, Web(r) \/ Forward(r) PROVE IInv'
    BY <1>1, WebInv, ForwardInv
  <1>2. ASSUME NEW c \in Connection, RelayReceives(c) \/ ClientReceives(c) \/ Connect(c) \/ Lose(c) PROVE IInv'
    BY <1>2, RelayInv, ClientInv, OtherInv
  <1>3. CASE HeartbeatTimeout \/ Revoke \/ Reconfigure
    BY <1>3, OtherInv
  <1>4. CASE UNCHANGED vars \/ \E r \in Requests : Time(r)
    <2>1. idle' \in [Requests -> BOOLEAN]
      BY <1>4 DEF IInv, TypeOK, Time, TimePasses, ReplyLasts, ResetTimer, vars, pumps
    <2>2. UNCHANGED rest
      BY <1>4, TimeMovesNothing
    <2> QED BY <2>1, <2>2 DEF IInv, TypeOK, ChannelsAreCurrent, Live, rest, relay, sockets, client, history
  <1> QED BY <1>1, <1>2, <1>3, <1>4 DEF Next

THEOREM InvHolds == Spec => []IInv
  <1> QED BY InitInv, InvInductive, PTL DEF Spec

\* Every variable keeps its type, however many requests and connections there
\* are (server.ts and client.ts).
THEOREM TypeCorrect == Spec => []TypeOK
  <1>1. IInv => TypeOK
    BY DEF IInv
  <1> QED BY <1>1, InvHolds, PTL

\* No channel outlives the runtime it was opened on: whatever replaces a runtime,
\* or closes it, fails its channels in the same step (server.ts:296-315).
THEOREM ChannelsFollowTheRuntime == Spec => []ChannelsAreCurrent
  <1>1. IInv => ChannelsAreCurrent
    BY DEF IInv
  <1> QED BY <1>1, InvHolds, PTL

-----------------------------------------------------------------------------
(***************************************************************************)
(* Relay implements Exchange.  Three things make it so: what a connection  *)
(* still carries is told from what another carries by its epoch; what      *)
(* forward has sent of a reply, and the caller has not got, is on its way  *)
(* as long as the connection lives; and the end of a reply is behind all   *)
(* of it.                                                                  *)
(***************************************************************************)
Unopened == {"none", "connecting"}

Opens(m) == m.type = "request_open"
Acks(m)  == m.type = "hello_ack"
IsChunk(m) == m.type = "response_chunk"
IsEnd(m)   == m.type = "response_end"

\* No epoch is known to anybody before it was given.
EpochsAreGiven ==
    /\ ident <= epochs
    /\ \A r \in Requests : under[r] <= epochs /\ (fwd[r] # "none" => under[r] # 0)
    /\ \A c \in Connection : \A i \in DOMAIN down[c] : Acks(down[c][i]) => down[c][i].epoch <= epochs
    /\ \A c \in Connection : \A i \in DOMAIN up[c] : IsEnd(up[c][i]) => up[c][i].epoch <= epochs

\* A socket that has not opened was given no epoch and carries nothing.
UnopenedIsBlank == \A c \in Connection : clientEnd[c] \in Unopened => epoch[c] = 0 /\ up[c] = <<>>

\* A request is opened once.
OpensOnce ==
    /\ \A r \in Requests : web[r] = "new" => fwd[r] = "none"
    /\ \A c \in Connection : \A i \in DOMAIN down[c] : Opens(down[c][i]) =>
           LET r == down[c][i].req
           IN /\ fwd[r] = "none" /\ web[r] # "new" /\ on[r] = c
              /\ \A j \in DOMAIN down[c] : Opens(down[c][j]) /\ down[c][j].req = r => j = i

\* Nothing arrives that was not sent.
ChunksAreSent ==
    /\ \A r \in Requests : got[r] <= sent[r] /\ (fwd[r] \in {"none", "fetching"} => sent[r] = 0)
    /\ \A c \in Connection : \A i \in DOMAIN up[c] : IsChunk(up[c][i]) => up[c][i].n < sent[up[c][i].req]

\* Chunk n of r is in s, before k.
Carries(s, k, r, n) == \E i \in DOMAIN s : i < k /\ IsChunk(s[i]) /\ s[i].req = r /\ s[i].n = n

\* What the caller has still to get is on its way.
Carried(r, c, k) == \A n \in Nat : got[r] <= n /\ n < sent[r] => Carries(up[c], k, r, n)

StreamIsCarried ==
    \A r \in Requests, c \in Connection :
        /\ relayEnd[c] = "open" /\ clientEnd[c] = "open" /\ cur = c
        /\ fwd[r] = "streaming" /\ under[r] = epoch[c]
        => Carried(r, c, Len(up[c]) + 1)

EndIsLast ==
    \A c \in Connection : \A j \in DOMAIN up[c] :
        relayEnd[c] = "open" /\ IsEnd(up[c][j]) /\ up[c][j].epoch = epoch[c]
        => fwd[up[c][j].req] = "ended" /\ Carried(up[c][j].req, c, j)

\* The relay's channels and what the callers have seen of them.
WebFollows ==
    \A r \in Requests : /\ chan[r] = "waiting" => web[r] = "waiting"
                        /\ chan[r] = "open" => web[r] = "streaming"

StreamInv == StreamIsCarried /\ EndIsLast
SocketInv == EpochsAreGiven /\ UnopenedIsBlank /\ OpensOnce /\ ChunksAreSent /\ StreamInv

-----------------------------------------------------------------------------
(* What a step does to the messages of a socket.                           *)

\* t has no message with the property P but those of s, moved by at most one.
OldAt(s, t, k, type) == \A j \in DOMAIN t : t[j].type = type => j + k \in DOMAIN s /\ s[j + k] = t[j]
Old(s, t, type) == \E k \in {0, 1} : OldAt(s, t, k, type)

\* And chunks and ends stay, in their order.
KeptAt(s, t, k) ==
    /\ OldAt(s, t, k, "response_chunk")
    /\ OldAt(s, t, k, "response_end")
    /\ \A i \in DOMAIN s : IsChunk(s[i]) => i - k \in DOMAIN t /\ t[i - k] = s[i]
Kept(s, t) == \E k \in {0, 1} : KeptAt(s, t, k)

LEMMA TailFacts ==
  ASSUME NEW s \in Seq(Message), s # <<>>
  PROVE  /\ Len(s) \in Nat /\ Len(s) >= 1 /\ DOMAIN s = 1 .. Len(s) /\ Head(s) = s[1]
         /\ DOMAIN Tail(s) = 1 .. (Len(s) - 1)
         /\ \A i \in 1 .. (Len(s) - 1) : Tail(s)[i] = s[i + 1]
  OBVIOUS

LEMMA AppendFacts ==
  ASSUME NEW s \in Seq(Message), NEW m \in Message
  PROVE  /\ Len(s) \in Nat /\ DOMAIN s = 1 .. Len(s)
         /\ s \o <<m>> \in Seq(Message)
         /\ Append(s, m) = s \o <<m>>
         /\ Len(s \o <<m>>) = Len(s) + 1
         /\ DOMAIN (s \o <<m>>) = 1 .. (Len(s) + 1)
         /\ \A i \in 1 .. Len(s) : (s \o <<m>>)[i] = s[i]
         /\ (s \o <<m>>)[Len(s) + 1] = m
  <1>1. <<m>> \in Seq(Message) /\ Len(<<m>>) = 1 /\ <<m>>[1] = m
    OBVIOUS
  <1>2. Append(s, m) = s \o <<m>>
    BY <1>1
  <1> QED BY <1>1, <1>2

LEMMA TwoFacts ==
  ASSUME NEW s \in Seq(Message), NEW m1 \in Message, NEW m2 \in Message, NEW j \in DOMAIN (s \o <<m1, m2>>)
  PROVE  \/ j \in DOMAIN s /\ (s \o <<m1, m2>>)[j] = s[j]
         \/ j = Len(s) + 1 /\ (s \o <<m1, m2>>)[j] = m1
         \/ (s \o <<m1, m2>>)[j] = m2
  <1>1. <<m1, m2>> \in Seq(Message) /\ Len(<<m1, m2>>) = 2
    OBVIOUS
  <1>2. Len(s) \in Nat /\ DOMAIN s = 1 .. Len(s) /\ j \in 1 .. (Len(s) + 2)
    BY <1>1
  <1>3. CASE j \in 1 .. Len(s)
    BY <1>1, <1>2, <1>3
  <1>4. CASE j = Len(s) + 1
    BY <1>1, <1>2, <1>4
  <1>5. CASE j = Len(s) + 2
    BY <1>1, <1>2, <1>5
  <1> QED BY <1>2, <1>3, <1>4, <1>5

\* Nothing new comes with what is left, lost or taken.
LEMMA OldCases ==
  ASSUME NEW s \in Seq(Message), NEW type
  PROVE  /\ Old(s, s, type)
         /\ Old(s, <<>>, type)
         /\ s # <<>> => Old(s, Tail(s), type)
         /\ \A m \in Message : m.type # type => Old(s, s \o <<m>>, type) /\ Old(s, Append(s, m), type)
  <1>1. OldAt(s, s, 0, type)
    <2>1. DOMAIN s = 1 .. Len(s)
      OBVIOUS
    <2> QED BY <2>1 DEF OldAt
  <1>2. OldAt(s, <<>>, 0, type)
    BY DEF OldAt
  <1>3. ASSUME s # <<>> PROVE OldAt(s, Tail(s), 1, type)
    BY <1>3, TailFacts DEF OldAt
  <1>4. ASSUME NEW m \in Message, m.type # type PROVE OldAt(s, s \o <<m>>, 0, type) /\ Append(s, m) = s \o <<m>>
    <2>1. Append(s, m) = s \o <<m>> /\ DOMAIN s = 1 .. Len(s) /\ Len(s) \in Nat
      BY AppendFacts
    <2>2. ASSUME NEW j \in DOMAIN (s \o <<m>>), (s \o <<m>>)[j].type = type
          PROVE  j + 0 \in DOMAIN s /\ s[j + 0] = (s \o <<m>>)[j]
      <3>1. j \in 1 .. (Len(s) + 1) /\ j # Len(s) + 1
        BY <1>4, <2>2, AppendFacts
      <3> QED BY <2>1, <3>1, AppendFacts
    <2> QED BY <2>1, <2>2 DEF OldAt
  <1> QED BY <1>1, <1>2, <1>3, <1>4 DEF Old

\* Chunks and ends are kept by what touches neither.
LEMMA KeptCases ==
  ASSUME NEW s \in Seq(Message)
  PROVE  /\ Kept(s, s)
         /\ s # <<>> /\ ~ IsChunk(Head(s)) => Kept(s, Tail(s))
         /\ \A m \in Message : ~ IsChunk(m) /\ ~ IsEnd(m) => Kept(s, s \o <<m>>) /\ Kept(s, Append(s, m))
  <1>1. KeptAt(s, s, 0)
    <2>1. DOMAIN s = 1 .. Len(s)
      OBVIOUS
    <2> QED BY <2>1 DEF KeptAt, OldAt
  <1>2. ASSUME s # <<>>, ~ IsChunk(Head(s)) PROVE KeptAt(s, Tail(s), 1)
    <2>1. OldAt(s, Tail(s), 1, "response_chunk") /\ OldAt(s, Tail(s), 1, "response_end")
      BY <1>2, TailFacts DEF OldAt
    <2>2. ASSUME NEW i \in DOMAIN s, IsChunk(s[i]) PROVE i - 1 \in DOMAIN Tail(s) /\ Tail(s)[i - 1] = s[i]
      <3>1. i # 1 /\ i \in 1 .. Len(s) /\ Len(s) \in Nat
        BY <1>2, <2>2, TailFacts
      <3>2. i - 1 \in 1 .. (Len(s) - 1) /\ (i - 1) + 1 = i
        BY <3>1
      <3> QED BY <1>2, <3>2, TailFacts
    <2> QED BY <2>1, <2>2 DEF KeptAt
  <1>3. ASSUME NEW m \in Message, ~ IsChunk(m), ~ IsEnd(m) PROVE KeptAt(s, s \o <<m>>, 0) /\ Append(s, m) = s \o <<m>>
    <2>1. Append(s, m) = s \o <<m>> /\ DOMAIN s = 1 .. Len(s) /\ Len(s) \in Nat
      BY AppendFacts
    <2>2. ASSUME NEW j \in DOMAIN (s \o <<m>>), IsChunk((s \o <<m>>)[j]) \/ IsEnd((s \o <<m>>)[j])
          PROVE  j + 0 \in DOMAIN s /\ s[j + 0] = (s \o <<m>>)[j]
      <3>1. j \in 1 .. (Len(s) + 1) /\ j # Len(s) + 1
        BY <1>3, <2>2, AppendFacts
      <3> QED BY <2>1, <3>1, AppendFacts
    <2>3. \A i \in DOMAIN s : i - 0 \in DOMAIN (s \o <<m>>) /\ (s \o <<m>>)[i - 0] = s[i]
      BY <2>1, AppendFacts
    <2> QED BY <2>1, <2>2, <2>3 DEF KeptAt, OldAt, IsChunk, IsEnd
  <1> QED BY <1>1, <1>2, <1>3 DEF Kept

-----------------------------------------------------------------------------
(* Steps that add nothing to a reply and open no request.                  *)

\* No message of a type comes to any socket.
NoneDown(type) == \A c \in Connection : Old(down[c], down'[c], type)
NoneUp(type)   == \A c \in Connection : Old(up[c], up'[c], type)

DownQuiet == NoneDown("request_open") /\ NoneDown("hello_ack")

UpQuiet == \A c \in Connection : Kept(up[c], up'[c]) \/ (up'[c] = <<>> /\ relayEnd'[c] # "open")

EndsQuiet ==
    \A c \in Connection : \/ clientEnd[c] \in Unopened
                          \/ /\ relayEnd'[c] = "open" => relayEnd[c] = "open"
                             /\ clientEnd'[c] = "open" /\ cur' = c => clientEnd[c] = "open" /\ cur = c

BlankQuiet ==
    \A c \in Connection : clientEnd'[c] \in Unopened =>
        clientEnd[c] \in Unopened /\ up'[c] \in {up[c], <<>>} /\ epoch'[c] = epoch[c]

FwdQuiet ==
    \A r \in Requests : \/ fwd'[r] = fwd[r]
                        \/ fwd[r] \in Working /\ fwd'[r] = "over"
                        \/ fwd[r] = "fetching" /\ fwd'[r] = "streaming"

WebQuiet == on' = on /\ \A r \in Requests : web'[r] = "new" => web[r] = "new"

Quiet ==
    /\ DownQuiet /\ UpQuiet /\ EndsQuiet /\ BlankQuiet /\ FwdQuiet /\ WebQuiet
    /\ UNCHANGED <<got, sent, under, epoch, epochs>>

\* What every step but TakeOpen does with forward.
FwdGoesOn ==
    \A r \in Requests : fwd'[r] = fwd[r] \/ (fwd[r] \in Working /\ fwd'[r] \in {"streaming", "ended", "over"})

LEMMA QuietIsWeaker ==
  ASSUME IInv, UpQuiet, FwdQuiet
  PROVE  FwdGoesOn /\ NoneUp("response_chunk") /\ NoneUp("response_end")
  <1>1. FwdGoesOn
    BY DEF FwdQuiet, FwdGoesOn, Working
  <1>2. ASSUME NEW c \in Connection
        PROVE  Old(up[c], up'[c], "response_chunk") /\ Old(up[c], up'[c], "response_end")
    <2>1. up[c] \in Seq(Message)
      BY DEF IInv, TypeOK
    <2> QED BY <2>1, OldCases DEF UpQuiet, Kept, KeptAt, Old
  <1> QED BY <1>1, <1>2 DEF NoneUp

LEMMA QuietEpochs ==
  ASSUME EpochsAreGiven, NoneDown("hello_ack"), NoneUp("response_end"), FwdGoesOn,
         UNCHANGED <<under, epochs>>, ident' <= epochs
  PROVE  EpochsAreGiven'
  <1>1. \A r \in Requests : under'[r] <= epochs /\ (fwd'[r] # "none" => under'[r] # 0)
    BY DEF EpochsAreGiven, FwdGoesOn, Working
  <1>2. ASSUME NEW c \in Connection, NEW i \in DOMAIN down'[c], Acks(down'[c][i]) PROVE down'[c][i].epoch <= epochs
    BY <1>2 DEF EpochsAreGiven, NoneDown, Old, OldAt, Acks
  <1>3. ASSUME NEW c \in Connection, NEW i \in DOMAIN up'[c], IsEnd(up'[c][i]) PROVE up'[c][i].epoch <= epochs
    BY <1>3 DEF EpochsAreGiven, NoneUp, Old, OldAt, IsEnd
  <1> QED BY <1>1, <1>2, <1>3 DEF EpochsAreGiven, Acks, IsEnd

LEMMA QuietBlank ==
  ASSUME UnopenedIsBlank, BlankQuiet
  PROVE  UnopenedIsBlank'
  BY DEF UnopenedIsBlank, BlankQuiet

LEMMA DownTypes ==
  ASSUME TypeOK', NEW c \in Connection, NEW i \in DOMAIN down'[c]
  PROVE  i \in Nat /\ (Opens(down'[c][i]) => down'[c][i].req \in Requests)
  <1>1. down'[c] \in Seq(Message)
    BY DEF TypeOK
  <1>2. down'[c][i] \in Message /\ i \in Nat
    BY <1>1
  <1> QED BY <1>2 DEF Message, SocketMessage, Opens

LEMMA QuietOpens ==
  ASSUME TypeOK', OpensOnce, NoneDown("request_open"), FwdGoesOn, WebQuiet
  PROVE  OpensOnce'
  <1>1. \A r \in Requests : web'[r] = "new" => fwd'[r] = "none"
    BY DEF OpensOnce, FwdGoesOn, WebQuiet, Working
  <1>2. ASSUME NEW c \in Connection, NEW i \in DOMAIN down'[c], Opens(down'[c][i])
        PROVE  LET r == down'[c][i].req
               IN /\ fwd'[r] = "none" /\ web'[r] # "new" /\ on'[r] = c
                  /\ \A j \in DOMAIN down'[c] : Opens(down'[c][j]) /\ down'[c][j].req = r => j = i
    <2>1. PICK k \in {0, 1} : OldAt(down[c], down'[c], k, "request_open")
      BY DEF NoneDown, Old
    <2> DEFINE r == down'[c][i].req
    <2>2. r \in Requests
      BY <1>2, DownTypes DEF Opens
    <2>3. i + k \in DOMAIN down[c] /\ down[c][i + k] = down'[c][i]
      BY <1>2, <2>1 DEF OldAt, Opens
    <2>4. fwd[r] = "none" /\ web[r] # "new" /\ on[r] = c
      BY <1>2, <2>3 DEF OpensOnce, Opens
    <2>5. fwd'[r] = "none" /\ web'[r] # "new" /\ on'[r] = c
      BY <2>2, <2>4 DEF FwdGoesOn, WebQuiet, Working
    <2>6. ASSUME NEW j \in DOMAIN down'[c], Opens(down'[c][j]), down'[c][j].req = r PROVE j = i
      <3>1. j + k \in DOMAIN down[c] /\ down[c][j + k] = down'[c][j]
        BY <2>1, <2>6 DEF OldAt, Opens
      <3>2. j + k = i + k
        BY <1>2, <2>3, <2>6, <3>1 DEF OpensOnce, Opens
      <3>3. i \in Int /\ j \in Int
        BY <2>6, DownTypes
      <3> QED BY <3>2, <3>3
    <2> QED BY <2>5, <2>6
  <1> QED BY <1>1, <1>2 DEF OpensOnce, Opens

LEMMA QuietChunks ==
  ASSUME ChunksAreSent, NoneUp("response_chunk"), FwdGoesOn, UNCHANGED <<got, sent>>
  PROVE  ChunksAreSent'
  <1>1. \A r \in Requests : got'[r] <= sent'[r] /\ (fwd'[r] \in {"none", "fetching"} => sent'[r] = 0)
    BY DEF ChunksAreSent, FwdGoesOn, Working
  <1>2. ASSUME NEW c \in Connection, NEW i \in DOMAIN up'[c], IsChunk(up'[c][i])
        PROVE  up'[c][i].n < sent'[up'[c][i].req]
    BY <1>2 DEF ChunksAreSent, NoneUp, Old, OldAt, IsChunk
  <1> QED BY <1>1, <1>2 DEF ChunksAreSent, IsChunk

\* Chunks stay in front of what they were in front of.
LEMMA CarriesOn ==
  ASSUME NEW s \in Seq(Message), NEW t \in Seq(Message), NEW k \in {0, 1}, KeptAt(s, t, k),
         NEW p \in Int, NEW r, NEW n, Carries(s, p, r, n)
  PROVE  Carries(t, p - k, r, n)
  <1>1. PICK i \in DOMAIN s : i < p /\ IsChunk(s[i]) /\ s[i].req = r /\ s[i].n = n
    BY DEF Carries
  <1>2. i \in Int
    OBVIOUS
  <1>3. i - k \in DOMAIN t /\ t[i - k] = s[i] /\ i - k < p - k
    BY <1>1, <1>2 DEF KeptAt
  <1> QED BY <1>1, <1>3 DEF Carries

\* There is nothing in front of s but what is in s.
LEMMA CarriesAny ==
  ASSUME NEW s \in Seq(Message), NEW p \in Int, NEW q \in Int, NEW r, NEW n, Carries(s, p, r, n),
         p <= q \/ q > Len(s)
  PROVE  Carries(s, q, r, n)
  <1>1. PICK i \in DOMAIN s : i < p /\ IsChunk(s[i]) /\ s[i].req = r /\ s[i].n = n
    BY DEF Carries
  <1>2. i \in Int /\ i <= Len(s) /\ Len(s) \in Nat
    OBVIOUS
  <1>3. i < q
    BY <1>1, <1>2
  <1> QED BY <1>1, <1>3 DEF Carries

LEMMA QuietStream ==
  ASSUME IInv, IInv', EpochsAreGiven, UnopenedIsBlank, ChunksAreSent, StreamInv, UpQuiet, EndsQuiet, FwdQuiet, UNCHANGED <<got, sent, under, epoch>>
  PROVE  StreamInv'
  <1>0. ASSUME NEW c \in Connection PROVE up[c] \in Seq(Message) /\ up'[c] \in Seq(Message)
    BY <1>0 DEF IInv, TypeOK
  <1>1. ASSUME NEW r \in Requests, NEW c \in Connection,
               relayEnd'[c] = "open", clientEnd'[c] = "open", cur' = c,
               fwd'[r] = "streaming", under'[r] = epoch'[c]
        PROVE  Carried(r, c, Len(up[c]) + 1)'
    <2>1. Kept(up[c], up'[c])
      BY <1>1 DEF UpQuiet
    <2>2. PICK k \in {0, 1} : KeptAt(up[c], up'[c], k)
      BY <2>1 DEF Kept
    <2>3. Carried(r, c, Len(up[c]) + 1)
      <3>1. CASE clientEnd[c] \in Unopened
        <4>1. under[r] = 0
          BY <1>1, <3>1 DEF UnopenedIsBlank
        <4>2. fwd[r] # "none"
          BY <1>1 DEF FwdQuiet
        <4> QED BY <4>1, <4>2 DEF EpochsAreGiven
      <3>2. CASE clientEnd[c] \notin Unopened /\ fwd[r] = "streaming"
        BY <1>1, <3>2 DEF StreamInv, StreamIsCarried, EndsQuiet
      <3>3. CASE fwd[r] # "streaming"
        <4>1. sent[r] = 0
          BY <1>1, <3>3 DEF FwdQuiet, ChunksAreSent
        <4> QED BY <4>1 DEF Carried
      <3> QED BY <3>1, <3>2, <3>3
    <2>4. ASSUME NEW n \in Nat, got[r] <= n, n < sent[r] PROVE Carries(up'[c], Len(up'[c]) + 1, r, n)
      <3>1. Carries(up[c], Len(up[c]) + 1, r, n)
        BY <2>3, <2>4 DEF Carried
      <3>2. Len(up[c]) + 1 \in Int /\ Len(up'[c]) + 1 \in Int
        BY <1>0
      <3>3. Carries(up'[c], Len(up[c]) + 1 - k, r, n)
        BY <1>0, <2>2, <3>1, <3>2, CarriesOn
      <3>4. Len(up[c]) + 1 - k \in Int /\ Len(up'[c]) + 1 > Len(up'[c])
        BY <1>0
      <3> QED BY <1>0, <3>2, <3>3, <3>4, CarriesAny
    <2> QED BY <2>4 DEF Carried
  <1>2. ASSUME NEW c \in Connection, NEW j \in DOMAIN up'[c],
               relayEnd'[c] = "open", IsEnd(up'[c][j]), up'[c][j].epoch = epoch'[c]
        PROVE  fwd'[up'[c][j].req] = "ended" /\ Carried(up[c][j].req, c, j)'
    <2>1. Kept(up[c], up'[c])
      BY <1>2 DEF UpQuiet
    <2>2. PICK k \in {0, 1} : KeptAt(up[c], up'[c], k)
      BY <2>1 DEF Kept
    <2>3. j + k \in DOMAIN up[c] /\ up[c][j + k] = up'[c][j]
      BY <1>2, <2>2 DEF KeptAt, OldAt, IsEnd
    <2> DEFINE r == up'[c][j].req
    <2>4. fwd[r] = "ended" /\ Carried(r, c, j + k)
      <3>1. up[c] # <<>>
        BY <2>3
      <3> QED BY <1>2, <2>3, <3>1 DEF StreamInv, EndIsLast, EndsQuiet, UnopenedIsBlank
    <2>5. r \in Requests
      <3>1. up'[c][j] \in Message
        BY <1>0, <1>2
      <3> QED BY <1>2, <3>1 DEF IsEnd, Message, SocketMessage
    <2>6. fwd'[r] = "ended"
      BY <2>4, <2>5 DEF FwdQuiet, Working
    <2>7. ASSUME NEW n \in Nat, got[r] <= n, n < sent[r] PROVE Carries(up'[c], j, r, n)
      <3>1. Carries(up[c], j + k, r, n)
        BY <2>4, <2>7 DEF Carried
      <3>2. j \in Int /\ j + k \in Int /\ (j + k) - k = j
        BY <1>0, <1>2
      <3>3. Carries(up'[c], (j + k) - k, r, n)
        BY <1>0, <2>2, <3>1, <3>2, CarriesOn
      <3> QED BY <3>2, <3>3
    <2> QED BY <2>6, <2>7 DEF Carried
  <1> QED BY <1>1, <1>2 DEF StreamInv, StreamIsCarried, EndIsLast, IsEnd

\* A quiet step keeps the whole.
LEMMA QuietStep ==
  ASSUME IInv, IInv', SocketInv, Quiet, ident' \in {ident, 0} \/ ident' <= epochs
  PROVE  SocketInv'
  <1>1. ident' <= epochs
    BY DEF SocketInv, EpochsAreGiven, IInv, TypeOK
  <1>0. FwdGoesOn /\ NoneUp("response_chunk") /\ NoneUp("response_end") /\ UNCHANGED <<under, epochs, got, sent>>
    BY QuietIsWeaker DEF Quiet
  <1>2. EpochsAreGiven'
    BY <1>0, <1>1, QuietEpochs DEF SocketInv, Quiet, DownQuiet
  <1>3. UnopenedIsBlank'
    BY QuietBlank DEF SocketInv, Quiet
  <1>4. OpensOnce'
    BY <1>0, QuietOpens DEF SocketInv, Quiet, DownQuiet, IInv
  <1>5. ChunksAreSent'
    BY <1>0, QuietChunks DEF SocketInv
  <1>6. StreamInv'
    BY QuietStream DEF SocketInv, Quiet
  <1> QED BY <1>2, <1>3, <1>4, <1>5, <1>6 DEF SocketInv

-----------------------------------------------------------------------------
(* What the ends do with a socket is quiet.                                *)

LEMMA SameQuiet ==
  ASSUME TypeOK
  PROVE  /\ UNCHANGED down => DownQuiet
         /\ UNCHANGED up => UpQuiet
         /\ UNCHANGED <<relayEnd, clientEnd, cur>> => EndsQuiet
         /\ UNCHANGED <<clientEnd, up, epoch>> => BlankQuiet
         /\ UNCHANGED fwd => FwdQuiet
         /\ UNCHANGED <<on, web>> => WebQuiet
  <1>1. \A c \in Connection : up[c] \in Seq(Message) /\ down[c] \in Seq(Message)
    BY DEF TypeOK
  <1>2. ASSUME UNCHANGED down PROVE DownQuiet
    BY <1>1, <1>2, OldCases DEF DownQuiet, NoneDown
  <1>3. ASSUME UNCHANGED up PROVE UpQuiet
    BY <1>1, <1>3, KeptCases DEF UpQuiet
  <1> QED BY <1>2, <1>3 DEF EndsQuiet, BlankQuiet, FwdQuiet, WebQuiet

LEMMA ToClientQuiet ==
  ASSUME TypeOK, NEW c \in Connection, NEW m \in Message, ~ Opens(m), ~ Acks(m)
  PROVE  Old(down[c], ToClient(c, <<m>>), "request_open") /\ Old(down[c], ToClient(c, <<m>>), "hello_ack")
  <1>1. down[c] \in Seq(Message)
    BY DEF TypeOK
  <1> QED BY <1>1, OldCases DEF ToClient, Opens, Acks

LEMMA ToRelayQuiet ==
  ASSUME TypeOK, NEW c \in Connection, NEW m \in Message, ~ IsChunk(m), ~ IsEnd(m)
  PROVE  Kept(up[c], ToRelay(c, <<m>>)) /\ Kept(up[c], Append(up[c], m))
  <1>1. up[c] \in Seq(Message)
    BY DEF TypeOK
  <1> QED BY <1>1, KeptCases DEF ToRelay

LEMMA CloseIsQuiet == ~ Opens(Close) /\ ~ Acks(Close) /\ ~ IsChunk(Close) /\ ~ IsEnd(Close)
  BY DEF Close, Msg, Opens, Acks, IsChunk, IsEnd

LEMMA RelayClosesQuiet ==
  ASSUME TypeOK, NEW c \in Connection, RelayCloses(c), UNCHANGED <<cur, epoch>>
  PROVE  DownQuiet /\ UpQuiet /\ EndsQuiet /\ BlankQuiet
  <1>1. \A d \in Connection : up[d] \in Seq(Message) /\ down[d] \in Seq(Message)
    BY DEF TypeOK
  <1>2. DownQuiet
    <2>1. Old(down[c], ToClient(c, <<Close>>), "request_open") /\ Old(down[c], ToClient(c, <<Close>>), "hello_ack")
      BY CloseIsMessage, CloseIsQuiet, ToClientQuiet
    <2>2. \A d \in Connection : down'[d] = IF d = c THEN ToClient(c, <<Close>>) ELSE down[d]
      BY DEF RelayCloses, TypeOK
    <2> QED BY <1>1, <2>1, <2>2, OldCases DEF DownQuiet, NoneDown
  <1>3. UpQuiet
    <2>1. \A d \in Connection : up'[d] = IF d = c THEN <<>> ELSE up[d]
      BY DEF RelayCloses, TypeOK
    <2>2. relayEnd'[c] # "open"
      BY DEF RelayCloses, TypeOK
    <2> QED BY <1>1, <2>1, <2>2, KeptCases DEF UpQuiet
  <1>4. EndsQuiet /\ BlankQuiet
    BY DEF RelayCloses, TypeOK, EndsQuiet, BlankQuiet
  <1> QED BY <1>2, <1>3, <1>4

LEMMA ClientClosesQuiet ==
  ASSUME TypeOK, NEW c \in Connection, ClientCloses(c), cur' \in {cur, 0}, UNCHANGED epoch
  PROVE  DownQuiet /\ UpQuiet /\ EndsQuiet /\ BlankQuiet
  <1>1. \A d \in Connection : up[d] \in Seq(Message) /\ down[d] \in Seq(Message)
    BY DEF TypeOK
  <1>2. DownQuiet
    <2>1. \A d \in Connection : down'[d] = IF d = c THEN <<>> ELSE down[d]
      BY DEF ClientCloses, TypeOK
    <2> QED BY <1>1, <2>1, OldCases DEF DownQuiet, NoneDown
  <1>3. UpQuiet
    <2>1. \A d \in Connection : up'[d] = up[d] \/ (d = c /\ up'[d] = Append(up[c], Close))
      BY DEF ClientCloses, TypeOK
    <2>2. Kept(up[c], Append(up[c], Close))
      BY CloseIsMessage, CloseIsQuiet, ToRelayQuiet
    <2> QED BY <1>1, <2>1, <2>2, KeptCases DEF UpQuiet
  <1>4. EndsQuiet
    <2>1. 0 \notin Connection
      BY DEF Connection
    <2> QED BY <2>1 DEF ClientCloses, TypeOK, EndsQuiet
  <1>5. BlankQuiet
    BY DEF ClientCloses, TypeOK, BlankQuiet, Unopened
  <1> QED BY <1>2, <1>3, <1>4, <1>5

LEMMA ReadQuiet ==
  ASSUME TypeOK, UnopenedIsBlank, NEW c \in Connection, up[c] # <<>>, ~ IsChunk(Head(up[c])), Read(c),
         UNCHANGED <<clientEnd, epoch>>
  PROVE  UpQuiet /\ BlankQuiet
  <1>1. \A d \in Connection : up[d] \in Seq(Message)
    BY DEF TypeOK
  <1>2. \A d \in Connection : up'[d] = IF d = c THEN Tail(up[c]) ELSE up[d]
    BY DEF Read, TypeOK
  <1>3. UpQuiet
    BY <1>1, <1>2, KeptCases DEF UpQuiet
  <1>4. BlankQuiet
    BY <1>2 DEF BlankQuiet, UnopenedIsBlank
  <1> QED BY <1>3, <1>4

LEMMA TakeQuiet ==
  ASSUME TypeOK, NEW c \in Connection, down[c] # <<>>, Take(c)
  PROVE  DownQuiet
  <1>1. \A d \in Connection : down[d] \in Seq(Message)
    BY DEF TypeOK
  <1>2. \A d \in Connection : down'[d] = IF d = c THEN Tail(down[c]) ELSE down[d]
    BY DEF Take, TypeOK
  <1> QED BY <1>1, <1>2, OldCases DEF DownQuiet, NoneDown

\* A message to the runtime that neither opens a request nor answers a hello.
LEMMA ToRuntimeQuiet ==
  ASSUME TypeOK, runtime # 0, NEW m \in Message, ~ Opens(m), ~ Acks(m),
         down' = [down EXCEPT ![runtime] = ToClient(runtime, <<m>>)]
  PROVE  DownQuiet
  <1>1. \A d \in Connection : down[d] \in Seq(Message)
    BY DEF TypeOK
  <1>2. runtime \in Connection
    BY DEF TypeOK, Connection
  <1>3. \A d \in Connection : down'[d] = IF d = runtime THEN ToClient(runtime, <<m>>) ELSE down[d]
    BY <1>2 DEF TypeOK
  <1> QED BY <1>1, <1>2, <1>3, OldCases, ToClientQuiet DEF DownQuiet, NoneDown

\* A message of the client that is no part of a reply.
LEMMA SendsQuiet ==
  ASSUME TypeOK, cur \in Connection, NEW m \in Message, ~ IsChunk(m), ~ IsEnd(m), Sends(m),
         UNCHANGED <<clientEnd, epoch>>
  PROVE  UpQuiet /\ BlankQuiet
  <1>1. \A d \in Connection : up[d] \in Seq(Message)
    BY DEF TypeOK
  <1>2. \A d \in Connection : up'[d] = IF d = cur THEN ToRelay(cur, <<m>>) ELSE up[d]
    BY DEF Sends, TypeOK
  <1>3. UpQuiet
    BY <1>1, <1>2, KeptCases, ToRelayQuiet DEF UpQuiet
  <1>4. BlankQuiet
    BY <1>2 DEF BlankQuiet, ToRelay, Unopened
  <1> QED BY <1>3, <1>4

-----------------------------------------------------------------------------
(* The quiet steps.                                                        *)

LEMMA QuietParts ==
  ASSUME DownQuiet, UpQuiet, EndsQuiet, BlankQuiet, FwdQuiet, WebQuiet,
         UNCHANGED <<got, sent, under, epoch, epochs>>
  PROVE  Quiet
  BY DEF Quiet

LEMMA CancelQuiet ==
  ASSUME IInv, NEW r \in Requests, runtime # 0, SendCancel(r)
  PROVE  DownQuiet
  <1>0. TypeOK
    BY DEF IInv
  <1>1. epoch[runtime] \in Nat
    <2>1. runtime \in Connection /\ epoch \in [Connection -> Nat]
      BY <1>0 DEF TypeOK, Connection
    <2> QED BY <2>1
  <1>2. Msg("request_cancel", r, 0, epoch[runtime]) \in Message
    BY <1>1, MsgIsMessage DEF ChannelMessage
  <1> QED BY <1>0, <1>2, ToRuntimeQuiet DEF SendCancel, Msg, Opens, Acks

LEMMA QuietWeb ==
  ASSUME IInv, NEW r \in Requests, PumpChunk(r) \/ PumpEnd(r) \/ PumpFails(r) \/ WebGone(r) \/ TimerFires(r)
  PROVE  Quiet /\ ident' = ident
  <1>0. TypeOK
    BY DEF IInv
  <1>a. UNCHANGED <<got, sent, under, epoch, epochs, on, ident, up, relayEnd, clientEnd, cur, fwd>>
    BY DEF PumpChunk, PumpEnd, PumpFails, WebGone, TimerFires, client, relay
  <1>b. UpQuiet /\ EndsQuiet /\ BlankQuiet /\ FwdQuiet
    BY <1>0, <1>a, SameQuiet
  <1>c. runtime # 0 => epoch[runtime] \in Nat
    BY <1>0 DEF TypeOK, Connection
  <1>d. runtime = on[r] /\ Live(r) => runtime # 0
    BY DEF IInv, ChannelsAreCurrent
  <1>1. ASSUME PumpChunk(r) PROVE DownQuiet /\ WebQuiet
    <2>1. CASE runtime = 0
      BY <1>0, <1>1, <2>1, SameQuiet DEF PumpChunk, relay
    <2>2. CASE runtime # 0
      <3>1. Msg("request_chunk", r, pumped[r], epoch[runtime]) \in Message
        BY <1>0, <1>c, <2>2, MsgIsMessage DEF ChannelMessage, TypeOK
      <3>2. DownQuiet
        BY <1>0, <1>1, <2>2, <3>1, ToRuntimeQuiet DEF PumpChunk, Msg, Opens, Acks
      <3> QED BY <1>0, <1>1, <3>2, SameQuiet DEF PumpChunk, relay
    <2> QED BY <2>1, <2>2
  <1>2. ASSUME PumpEnd(r) PROVE DownQuiet /\ WebQuiet
    <2>1. CASE runtime = 0
      BY <1>0, <1>2, <2>1, SameQuiet DEF PumpEnd, relay
    <2>2. CASE runtime # 0
      <3>1. Msg("request_end", r, 0, epoch[runtime]) \in Message
        BY <1>0, <1>c, <2>2, MsgIsMessage DEF ChannelMessage
      <3>2. DownQuiet
        BY <1>0, <1>2, <2>2, <3>1, ToRuntimeQuiet DEF PumpEnd, Msg, Opens, Acks
      <3> QED BY <1>0, <1>2, <3>2, SameQuiet DEF PumpEnd, relay
    <2> QED BY <2>1, <2>2
  <1>3. ASSUME PumpFails(r) PROVE DownQuiet /\ WebQuiet
    <2>1. DownQuiet
      <3>1. CASE Live(r) /\ runtime = on[r]
        BY <1>3, <1>d, <3>1, CancelQuiet DEF PumpFails
      <3>2. CASE ~ (Live(r) /\ runtime = on[r])
        BY <1>0, <1>3, <3>2, SameQuiet DEF PumpFails
      <3> QED BY <3>1, <3>2
    <2>2. WebQuiet
      BY <1>0, <1>3 DEF PumpFails, FailChannel, Failed, WebQuiet, TypeOK
    <2> QED BY <2>1, <2>2
  <1>4. ASSUME WebGone(r) PROVE DownQuiet /\ WebQuiet
    <2>1. DownQuiet
      BY <1>4, <1>d, CancelQuiet DEF WebGone
    <2>2. WebQuiet
      BY <1>0, <1>4 DEF WebGone, WebQuiet, TypeOK
    <2> QED BY <2>1, <2>2
  <1>5. ASSUME TimerFires(r) PROVE DownQuiet /\ WebQuiet
    <2>1. DownQuiet
      BY <1>5, <1>d, CancelQuiet DEF TimerFires
    <2>2. WebQuiet
      BY <1>0, <1>5 DEF TimerFires, FailChannel, Failed, WebQuiet, TypeOK
    <2> QED BY <2>1, <2>2
  <1> QED BY <1>1, <1>2, <1>3, <1>4, <1>5, <1>a, <1>b, QuietParts

LEMMA QuietRelay ==
  ASSUME IInv, UnopenedIsBlank, NEW c \in Connection,
         \/ HelloRefused(c) \/ RelayRefuses(c) \/ RelayClosed(c)
         \/ ReceiveHead(c) \/ ReceiveEnd(c) \/ ReceiveError(c)
  PROVE  Quiet /\ ident' = ident
  <1>0. TypeOK
    BY DEF IInv
  <1>a. UNCHANGED <<got, sent, under, epoch, epochs, on, ident, clientEnd, cur, fwd>>
    BY DEF HelloRefused, RelayRefuses, RelayClosed, ReceiveHead, ReceiveEnd, ReceiveError, client, relay, RelayCloses
  <1>b. FwdQuiet
    BY <1>0, <1>a, SameQuiet
  <1>1. ASSUME HelloRefused(c) \/ RelayRefuses(c) PROVE DownQuiet /\ UpQuiet /\ EndsQuiet /\ BlankQuiet /\ WebQuiet
    <2>1. RelayCloses(c) /\ UNCHANGED <<on, web>>
      BY <1>1 DEF HelloRefused, RelayRefuses, relay
    <2> QED BY <1>0, <1>a, <2>1, RelayClosesQuiet, SameQuiet
  <1>2. ASSUME RelayClosed(c) PROVE DownQuiet /\ UpQuiet /\ EndsQuiet /\ BlankQuiet /\ WebQuiet
    <2>1. DownQuiet
      BY <1>0, <1>2, SameQuiet DEF RelayClosed
    <2>2. UpQuiet
      <3>1. \A d \in Connection : up'[d] = IF d = c THEN <<>> ELSE up[d]
        BY <1>0, <1>2 DEF RelayClosed, TypeOK
      <3>2. relayEnd'[c] # "open"
        BY <1>0, <1>2 DEF RelayClosed, TypeOK
      <3>3. \A d \in Connection : Kept(up[d], up[d])
        BY <1>0, KeptCases DEF TypeOK
      <3> QED BY <3>1, <3>2, <3>3 DEF UpQuiet
    <2>3. EndsQuiet /\ BlankQuiet
      BY <1>0, <1>2, <1>a DEF RelayClosed, TypeOK, EndsQuiet, BlankQuiet
    <2>4. WebQuiet
      <3>1. CASE runtime = c
        BY <1>2, <1>a, <3>1 DEF RelayClosed, FailChannels, Failed, WebQuiet
      <3>2. CASE runtime # c
        BY <1>2, <1>a, <3>2 DEF RelayClosed, WebQuiet
      <3> QED BY <3>1, <3>2
    <2> QED BY <2>1, <2>2, <2>3, <2>4
  <1>3. ASSUME ReceiveHead(c) \/ ReceiveEnd(c) \/ ReceiveError(c)
        PROVE  DownQuiet /\ UpQuiet /\ EndsQuiet /\ BlankQuiet /\ WebQuiet
    <2>1. Read(c) /\ up[c] # <<>> /\ ~ IsChunk(Head(up[c])) /\ UNCHANGED <<relayEnd, down>>
      BY <1>3 DEF ReceiveHead, ReceiveEnd, ReceiveError, Arrived, IsChunk
    <2>2. UpQuiet /\ BlankQuiet
      BY <1>0, <1>a, <2>1, ReadQuiet
    <2>3. WebQuiet
      <3> DEFINE r == Head(up[c]).req
      <3> DEFINE Seen(seen) == web' = [web EXCEPT ![r] = seen]
      <3>1. UNCHANGED web \/ Seen(web[r]) \/ \E seen \in {"streaming", "whole", "broken", "failed"} : Seen(seen)
        <4>1. CASE ReceiveHead(c)
          <5>1. CASE r \in ChannelsOf(c) /\ chan[r] = "waiting"
            BY <4>1, <5>1 DEF ReceiveHead
          <5>2. CASE ~ (r \in ChannelsOf(c) /\ chan[r] = "waiting")
            BY <4>1, <5>2 DEF ReceiveHead
          <5> QED BY <5>1, <5>2
        <4>2. CASE ReceiveEnd(c)
          <5>1. CASE r \in ChannelsOf(c) /\ chan[r] = "open"
            BY <4>2, <5>1 DEF ReceiveEnd
          <5>2. CASE ~ (r \in ChannelsOf(c) /\ chan[r] = "open")
            BY <4>2, <5>2 DEF ReceiveEnd
          <5> QED BY <5>1, <5>2
        <4>3. CASE ReceiveError(c)
          <5>1. CASE r \in ChannelsOf(c)
            BY <4>3, <5>1 DEF ReceiveError, FailChannel, Failed, ChannelsOf
          <5>2. CASE r \notin ChannelsOf(c)
            BY <4>3, <5>2 DEF ReceiveError
          <5> QED BY <5>1, <5>2
        <4> QED BY <1>3, <4>1, <4>2, <4>3
      <3> QED BY <1>0, <1>a, <3>1 DEF WebQuiet, TypeOK
    <2> QED BY <1>0, <1>a, <2>1, <2>2, <2>3, SameQuiet
  <1> QED BY <1>1, <1>2, <1>3, <1>a, <1>b, QuietParts

LEMMA QuietClient ==
  ASSUME IInv, NEW c \in Connection,
         TakeChunk(c) \/ TakeEnd(c) \/ TakeCancel(c) \/ ClientRefuses(c) \/ ClientClosed(c) \/ Lose(c)
  PROVE  Quiet /\ ident' \in {ident, 0}
  <1>0. TypeOK
    BY DEF IInv
  <1>a. UNCHANGED <<got, sent, under, epoch, epochs, on, web>> /\ ident' \in {ident, 0} /\ cur' \in {cur, 0}
    BY DEF TakeChunk, TakeEnd, TakeCancel, ClientRefuses, ClientClosed, Lose, client, relay
  <1>b. WebQuiet
    BY <1>0, <1>a, SameQuiet
  <1>c. \A R : FwdQuiet \/ fwd' # Aborted(R)
    BY <1>0 DEF TypeOK, Aborted, FwdQuiet
  <1>1. ASSUME TakeChunk(c) \/ TakeEnd(c) PROVE DownQuiet /\ UpQuiet /\ EndsQuiet /\ BlankQuiet /\ FwdQuiet
    <2>1. Take(c) /\ down[c] # <<>> /\ UNCHANGED <<relayEnd, clientEnd, up, cur, fwd>>
      BY <1>1 DEF TakeChunk, TakeEnd, Delivered, client
    <2> QED BY <1>0, <1>a, <2>1, TakeQuiet, SameQuiet
  <1>2. ASSUME TakeCancel(c) PROVE DownQuiet /\ UpQuiet /\ EndsQuiet /\ BlankQuiet /\ FwdQuiet
    <2>1. Take(c) /\ down[c] # <<>> /\ cur = c /\ UNCHANGED <<relayEnd, clientEnd, cur>>
      BY <1>2 DEF TakeCancel, Delivered
    <2>2. DownQuiet /\ EndsQuiet
      BY <1>0, <2>1, TakeQuiet, SameQuiet
    <2> DEFINE r == Head(down[c]).req
    <2>3. r \in Requests
      BY <1>0, <1>2, ReadingMessages DEF TakeCancel, Delivered, ChannelMessage, TypeOK
    <2>4. FwdQuiet
      <3>1. UNCHANGED fwd \/ fwd' = Aborted({r})
        BY <1>2 DEF TakeCancel
      <3> QED BY <1>0, <1>c, <3>1, SameQuiet
    <2>5. UpQuiet /\ BlankQuiet
      <3>1. UNCHANGED up \/ Sends(Msg("response_error", r, 0, under[r]))
        BY <1>2 DEF TakeCancel
      <3>2. Msg("response_error", r, 0, under[r]) \in Message
        BY <1>0, <2>3, MsgIsMessage DEF ChannelMessage, TypeOK
      <3>3. CASE Sends(Msg("response_error", r, 0, under[r]))
        BY <1>0, <1>a, <2>1, <3>2, <3>3, SendsQuiet DEF Msg, IsChunk, IsEnd
      <3> QED BY <1>0, <1>a, <2>1, <3>1, <3>3, SameQuiet
    <2> QED BY <2>2, <2>4, <2>5
  <1>3. ASSUME ClientRefuses(c) PROVE DownQuiet /\ UpQuiet /\ EndsQuiet /\ BlankQuiet /\ FwdQuiet
    BY <1>0, <1>3, <1>a, ClientClosesQuiet, SameQuiet DEF ClientRefuses, client
  <1>4. ASSUME ClientClosed(c) PROVE DownQuiet /\ UpQuiet /\ EndsQuiet /\ BlankQuiet /\ FwdQuiet
    <2>1. DownQuiet
      <3>1. \A d \in Connection : down'[d] = IF d = c THEN <<>> ELSE down[d]
        BY <1>0, <1>4 DEF ClientClosed, TypeOK
      <3> QED BY <1>0, <3>1, OldCases DEF DownQuiet, NoneDown, TypeOK
    <2>2. UpQuiet
      BY <1>0, <1>4, SameQuiet DEF ClientClosed
    <2>3. EndsQuiet
      <3>1. 0 \notin Connection
        BY DEF Connection
      <3> QED BY <1>0, <1>4, <1>a, <3>1 DEF ClientClosed, TypeOK, EndsQuiet
    <2>4. BlankQuiet
      BY <1>0, <1>4, <1>a DEF ClientClosed, TypeOK, BlankQuiet, Unopened
    <2>5. FwdQuiet
      <3>1. UNCHANGED fwd \/ fwd' = Aborted(channels)
        BY <1>4 DEF ClientClosed
      <3> QED BY <1>0, <1>c, <3>1, SameQuiet
    <2> QED BY <2>1, <2>2, <2>3, <2>4, <2>5
  <1>5. ASSUME Lose(c) PROVE DownQuiet /\ UpQuiet /\ EndsQuiet /\ BlankQuiet /\ FwdQuiet
    <2>1. \A d \in Connection : /\ down'[d] = IF d = c THEN <<>> ELSE down[d]
                                /\ up'[d] = IF d = c THEN <<>> ELSE up[d]
      BY <1>0, <1>5 DEF Lose, TypeOK
    <2>2. relayEnd'[c] # "open"
      BY <1>0, <1>5 DEF Lose, TypeOK
    <2>3. DownQuiet
      BY <1>0, <2>1, OldCases DEF DownQuiet, NoneDown, TypeOK
    <2>4. UpQuiet
      BY <1>0, <2>1, <2>2, KeptCases DEF UpQuiet, TypeOK
    <2>5. EndsQuiet /\ BlankQuiet
      BY <1>0, <1>5, <1>a, <2>1 DEF Lose, TypeOK, EndsQuiet, BlankQuiet, Unopened, client
    <2>6. FwdQuiet
      BY <1>0, <1>5, SameQuiet DEF Lose, client
    <2> QED BY <2>3, <2>4, <2>5, <2>6
  <1> QED BY <1>1, <1>2, <1>3, <1>4, <1>5, <1>a, <1>b, QuietParts

LEMMA QuietConnect ==
  ASSUME IInv, NEW c \in Connection, Connect(c) \/ Open(c)
  PROVE  Quiet /\ ident' = ident
  <1>0. TypeOK
    BY DEF IInv
  <1>a. UNCHANGED <<got, sent, under, epoch, epochs, on, web, ident, fwd, down>>
    BY DEF Connect, Open, client, relay
  <1>b. DownQuiet /\ FwdQuiet /\ WebQuiet
    BY <1>0, <1>a, SameQuiet
  <1>c. clientEnd[c] \in Unopened
    BY DEF Connect, Open, Unopened
  <1>d. UpQuiet /\ BlankQuiet
    <2>1. CASE up' = up
      <3>1. BlankQuiet
        BY <1>0, <1>a, <1>c, <2>1 DEF Connect, Open, BlankQuiet, TypeOK
      <3> QED BY <1>0, <2>1, <3>1, SameQuiet
    <2>2. CASE Open(c) /\ up' = [up EXCEPT ![c] = Append(@, Msg("hello", NoRequest, 0, 0))]
      <3>1. Msg("hello", NoRequest, 0, 0) \in Message
        BY SocketMsgIsMessage DEF SocketMessage
      <3>2. Kept(up[c], Append(up[c], Msg("hello", NoRequest, 0, 0)))
        BY <1>0, <3>1, ToRelayQuiet DEF Msg, IsChunk, IsEnd
      <3>3. UpQuiet
        BY <1>0, <2>2, <3>2, KeptCases DEF UpQuiet, TypeOK
      <3>4. BlankQuiet
        BY <1>0, <1>a, <2>2 DEF Open, BlankQuiet, TypeOK, Unopened
      <3> QED BY <3>3, <3>4
    <2> QED BY <2>1, <2>2 DEF Connect, Open
  <1>e. EndsQuiet
    BY <1>0, <1>c DEF Connect, Open, EndsQuiet, TypeOK, client
  <1> QED BY <1>a, <1>b, <1>d, <1>e, QuietParts

LEMMA QuietOthers ==
  ASSUME IInv, HeartbeatTimeout \/ Revoke \/ Reconfigure
  PROVE  Quiet /\ ident' \in {ident, 0}
  <1>0. TypeOK
    BY DEF IInv
  <1>a. UNCHANGED <<got, sent, under, epoch, epochs, on, fwd>> /\ ident' \in {ident, 0}
    BY DEF HeartbeatTimeout, Revoke, Reconfigure, client, relay
  <1>b. FwdQuiet
    BY <1>0, <1>a, SameQuiet
  <1>c. runtime \in {0} \cup Connection /\ cur \in {0} \cup Connection
    BY <1>0 DEF TypeOK, Connection
  <1>1. CASE HeartbeatTimeout
    <2>1. DownQuiet /\ UpQuiet /\ EndsQuiet /\ BlankQuiet
      BY <1>0, <1>a, <1>c, <1>1, RelayClosesQuiet DEF HeartbeatTimeout, client
    <2>2. WebQuiet
      BY <1>1, <1>a DEF HeartbeatTimeout, FailChannels, Failed, WebQuiet
    <2> QED BY <1>a, <1>b, <2>1, <2>2, QuietParts
  <1>2. CASE Revoke
    <2>1. DownQuiet /\ UpQuiet /\ EndsQuiet /\ BlankQuiet
      <3>1. UNCHANGED <<cur, epoch>>
        BY <1>2 DEF Revoke, client
      <3>2. CASE runtime = 0
        BY <1>0, <1>2, <3>1, <3>2, SameQuiet DEF Revoke, sockets
      <3>3. CASE runtime # 0
        BY <1>0, <1>2, <1>c, <3>1, <3>3, RelayClosesQuiet DEF Revoke
      <3> QED BY <3>2, <3>3
    <2>2. WebQuiet
      BY <1>0, <1>2, <1>a, SameQuiet DEF Revoke
    <2> QED BY <1>a, <1>b, <2>1, <2>2, QuietParts
  <1>3. CASE Reconfigure
    <2>1. DownQuiet /\ UpQuiet /\ EndsQuiet /\ BlankQuiet
      BY <1>0, <1>a, <1>c, <1>3, ClientClosesQuiet DEF Reconfigure
    <2>2. WebQuiet
      BY <1>0, <1>3, <1>a, SameQuiet DEF Reconfigure
    <2> QED BY <1>a, <1>b, <2>1, <2>2, QuietParts
  <1> QED BY <1>1, <1>2, <1>3

\* Whatever forward cannot send, and the head and the errors it sends.
LEMMA QuietForward ==
  ASSUME IInv, NEW r \in Requests,
         \/ FetchAnswers(r) \/ FetchFails(r) \/ ReplyFails(r)
         \/ ~ CanSend /\ (ReplyChunk(r) \/ ReplyEnds(r))
  PROVE  Quiet /\ ident' = ident
  <1>0. TypeOK
    BY DEF IInv
  <1>a. UNCHANGED <<got, under, epoch, epochs, on, web, ident, down, relayEnd, clientEnd, cur>>
    BY DEF FetchAnswers, FetchFails, ReplyFails, ReplyChunk, ReplyEnds, relay
  <1>b. DownQuiet /\ EndsQuiet /\ WebQuiet
    BY <1>0, <1>a, SameQuiet
  <1>c. UNCHANGED sent
    <2>1. CASE ReplyChunk(r)
      BY <1>0, <2>1 DEF ReplyChunk, TypeOK, FetchAnswers, FetchFails, ReplyFails
    <2> QED BY <2>1 DEF FetchAnswers, FetchFails, ReplyFails, ReplyEnds
  <1>d. FwdQuiet
    BY <1>0 DEF FetchAnswers, FetchFails, ReplyFails, ReplyChunk, ReplyEnds, Forwards, FwdQuiet, Working, TypeOK
  <1>e. UpQuiet /\ BlankQuiet
    <2>1. CASE UNCHANGED up
      BY <1>0, <1>a, <2>1, SameQuiet
    <2>2. ASSUME NEW m \in Message, CanSend, Sends(m), ~ IsChunk(m), ~ IsEnd(m) PROVE UpQuiet /\ BlankQuiet
      <3>1. cur \in Connection
        BY <1>0, <2>2 DEF CanSend, TypeOK, Connection
      <3> QED BY <1>0, <1>a, <2>2, <3>1, SendsQuiet
    <2>3. \A type \in {"response_open", "response_error"} :
            /\ Msg(type, r, 0, under[r]) \in Message /\ Msg(type, r, 0, ident) \in Message
            /\ \A n, e : ~ IsChunk(Msg(type, r, n, e)) /\ ~ IsEnd(Msg(type, r, n, e))
      BY <1>0, MsgIsMessage DEF ChannelMessage, TypeOK, Msg, IsChunk, IsEnd
    <2>4. \/ UNCHANGED up
          \/ CanSend /\ \E type \in {"response_open", "response_error"} :
                            Sends(Msg(type, r, 0, under[r])) \/ Sends(Msg(type, r, 0, ident))
      BY DEF FetchAnswers, FetchFails, ReplyFails, ReplyChunk, ReplyEnds, Forwards
    <2> QED BY <2>1, <2>2, <2>3, <2>4
  <1> QED BY <1>a, <1>b, <1>c, <1>d, <1>e, QuietParts

-----------------------------------------------------------------------------
(* The steps that are not quiet.                                           *)

LEMMA AckKeeps ==
  ASSUME IInv, IInv', SocketInv, NEW c \in Connection, TakeAck(c)
  PROVE  SocketInv'
  <1>0. TypeOK /\ Take(c) /\ down[c] # <<>>
    BY DEF IInv, TakeAck, Delivered
  <1>1. UNCHANGED <<got, sent, under, epoch, epochs, on, web, fwd, up, relayEnd, clientEnd, cur>>
    BY DEF TakeAck, relay
  <1>2. Quiet
    BY <1>0, <1>1, TakeQuiet, SameQuiet, QuietParts
  <1>3. ident' <= epochs
    <2>1. down[c] \in Seq(Message)
      BY <1>0 DEF TypeOK
    <2>2. 1 \in DOMAIN down[c] /\ Head(down[c]) = down[c][1]
      BY <1>0, <2>1, TailFacts
    <2> QED BY <2>2 DEF SocketInv, EpochsAreGiven, TakeAck, Delivered, Acks
  <1> QED BY <1>2, <1>3, QuietStep

\* What is sent on about a new request opens it, once.
LEMMA RequestKeeps ==
  ASSUME IInv, IInv', SocketInv, NEW r \in Requests, WebRequest(r)
  PROVE  SocketInv'
  <1>0. TypeOK
    BY DEF IInv
  <1>1. UNCHANGED <<got, sent, under, epoch, epochs, fwd, up, relayEnd, clientEnd, cur, ident>>
    BY DEF WebRequest, client
  <1>2. UpQuiet /\ EndsQuiet /\ BlankQuiet /\ FwdQuiet
    BY <1>0, <1>1, SameQuiet
  <1>3. CASE runtime = 0
    <2>1. DownQuiet
      BY <1>0, <1>3, SameQuiet DEF WebRequest
    <2>2. WebQuiet
      BY <1>0, <1>3 DEF WebRequest, WebQuiet, TypeOK
    <2> QED BY <1>1, <1>2, <2>1, <2>2, QuietParts, QuietStep
  <1>4. CASE runtime # 0
    <2> DEFINE opened == Msg("request_open", r, 0, epoch[runtime])
               ended  == Msg("request_end", r, 0, epoch[runtime])
               s == down[runtime]
    <2>1. runtime \in Connection /\ epoch[runtime] \in Nat
      <3>1. runtime \in Connection
        BY <1>0, <1>4 DEF TypeOK, Connection
      <3> QED BY <1>0, <3>1 DEF TypeOK
    <2>2. opened \in Message /\ ended \in Message
      BY <2>1, MsgIsMessage DEF ChannelMessage
    <2>3. Opens(opened) /\ opened.req = r /\ ~ Acks(opened) /\ ~ Opens(ended) /\ ~ Acks(ended)
      BY DEF Msg, Opens, Acks
    <2>4. s \in Seq(Message)
      BY <1>0, <2>1 DEF TypeOK
    <2>5. /\ \A d \in Connection : d # runtime => down'[d] = down[d]
          /\ down'[runtime] \in {s, s \o <<opened>>, s \o <<opened, ended>>}
      BY <1>0, <1>4, <2>1 DEF WebRequest, ToClient, TypeOK
    <2>6. ASSUME NEW j \in DOMAIN down'[runtime]
          PROVE  \/ j \in DOMAIN s /\ down'[runtime][j] = s[j]
                 \/ j = Len(s) + 1 /\ down'[runtime][j] = opened
                 \/ down'[runtime][j] = ended
      <3> HIDE DEF opened, ended, s
      <3>1. CASE down'[runtime] = s
        BY <2>6, <3>1
      <3>2. CASE down'[runtime] = s \o <<opened>>
        <4>1. j \in 1 .. (Len(s) + 1) /\ DOMAIN s = 1 .. Len(s) /\ Len(s) \in Nat
          BY <2>2, <2>4, <2>6, <3>2, AppendFacts
        <4>2. j \in 1 .. Len(s) \/ j = Len(s) + 1
          BY <4>1
        <4> QED BY <2>2, <2>4, <3>2, <4>1, <4>2, AppendFacts
      <3>3. CASE down'[runtime] = s \o <<opened, ended>>
        BY <2>2, <2>4, <2>6, <3>3, TwoFacts
      <3> QED BY <2>5, <3>1, <3>2, <3>3
    <2>7. NoneDown("hello_ack")
      <3>1. ASSUME NEW d \in Connection PROVE OldAt(down[d], down'[d], 0, "hello_ack")
        <4>1. down[d] \in Seq(Message)
          BY <1>0 DEF TypeOK
        <4>2. ASSUME NEW j \in DOMAIN down'[d], down'[d][j].type = "hello_ack"
              PROVE  j \in DOMAIN down[d] /\ down[d][j] = down'[d][j]
          BY <2>3, <2>5, <2>6, <4>2 DEF Acks
        <4>3. \A j \in DOMAIN down[d] : j + 0 = j
          BY <4>1
        <4> QED BY <4>2, <4>3 DEF OldAt
      <3> QED BY <3>1 DEF NoneDown, Old
    <2>8. OpensOnce'
      <3>1. /\ web' = [web EXCEPT ![r] = "waiting"]
            /\ on' = [on EXCEPT ![r] = runtime]
            /\ web[r] = "new"
        BY <1>4 DEF WebRequest
      <3>2. \A q \in Requests : /\ web'[q] = IF q = r THEN "waiting" ELSE web[q]
                                /\ on'[q] = IF q = r THEN runtime ELSE on[q]
        BY <1>0, <3>1 DEF TypeOK
      <3>3. ASSUME NEW d \in Connection, NEW j \in DOMAIN down'[d], Opens(down'[d][j])
            PROVE  \/ j \in DOMAIN down[d] /\ down'[d][j] = down[d][j]
                   \/ d = runtime /\ j = Len(s) + 1 /\ down'[d][j].req = r
        BY <2>3, <2>5, <2>6, <3>3
      <3>4. ASSUME NEW d \in Connection, NEW i \in DOMAIN down'[d], Opens(down'[d][i])
            PROVE  LET q == down'[d][i].req
                   IN /\ fwd'[q] = "none" /\ web'[q] # "new" /\ on'[q] = d
                      /\ \A j \in DOMAIN down'[d] : Opens(down'[d][j]) /\ down'[d][j].req = q => j = i
        <4> DEFINE q == down'[d][i].req
        <4>0. q \in Requests
          BY <3>4, DownTypes DEF IInv
        <4>1. CASE i \in DOMAIN down[d] /\ down'[d][i] = down[d][i]
          <5>1. fwd[q] = "none" /\ web[q] # "new" /\ on[q] = d
            BY <3>4, <4>1 DEF SocketInv, OpensOnce
          <5>2. q # r
            BY <3>1, <5>1
          <5>3. ASSUME NEW j \in DOMAIN down'[d], Opens(down'[d][j]), down'[d][j].req = q PROVE j = i
            <6>1. j \in DOMAIN down[d] /\ down'[d][j] = down[d][j]
              BY <3>3, <5>2, <5>3
            <6> QED BY <3>4, <4>1, <5>3, <6>1 DEF SocketInv, OpensOnce
          <5> QED BY <1>1, <3>2, <4>0, <5>1, <5>2, <5>3
        <4>2. CASE d = runtime /\ i = Len(s) + 1 /\ q = r
          <5>1. fwd[r] = "none"
            BY <3>1 DEF SocketInv, OpensOnce
          <5>2. ASSUME NEW j \in DOMAIN down'[d], Opens(down'[d][j]), down'[d][j].req = r PROVE j = i
            <6>1. CASE j \in DOMAIN down[d] /\ down'[d][j] = down[d][j]
              BY <3>1, <5>2, <6>1 DEF SocketInv, OpensOnce
            <6> QED BY <3>3, <4>2, <5>2, <6>1
          <5> QED BY <1>1, <3>2, <4>2, <5>1, <5>2
        <4> QED BY <3>3, <3>4, <4>1, <4>2
      <3>5. \A q \in Requests : web'[q] = "new" => fwd'[q] = "none"
        BY <1>1, <3>2 DEF SocketInv, OpensOnce
      <3> QED BY <3>4, <3>5 DEF OpensOnce, Opens
    <2>9. FwdGoesOn /\ NoneUp("response_chunk") /\ NoneUp("response_end")
      BY <1>2, QuietIsWeaker
    <2>10. ident' <= epochs
      BY <1>1 DEF SocketInv, EpochsAreGiven
    <2>11. EpochsAreGiven' /\ ChunksAreSent'
      BY <1>1, <2>7, <2>9, <2>10, QuietEpochs, QuietChunks DEF SocketInv
    <2>12. UnopenedIsBlank' /\ StreamInv'
      BY <1>1, <1>2, QuietBlank, QuietStream DEF SocketInv
    <2> QED BY <2>8, <2>11, <2>12 DEF SocketInv
  <1> QED BY <1>3, <1>4

LEMMA OpenKeeps ==
  ASSUME IInv, IInv', SocketInv, NEW c \in Connection, TakeOpen(c)
  PROVE  SocketInv'
  <1> DEFINE s == down[c]
             r == Head(s).req
  <1>0. TypeOK /\ Take(c) /\ s # <<>> /\ Opens(Head(s)) /\ s \in Seq(Message)
    BY DEF IInv, TakeOpen, Delivered, Opens, TypeOK
  <1>1. UNCHANGED <<got, sent, epoch, epochs, on, web, ident, up, relayEnd, clientEnd, cur>>
    BY DEF TakeOpen, relay
  <1>2. r \in Requests /\ ident # 0
    BY <1>0, ReadingMessages DEF TakeOpen, FromRelay, Opens, ChannelMessage
  <1>3. \A q \in Requests : /\ fwd'[q] = IF q = r THEN "fetching" ELSE fwd[q]
                            /\ under'[q] = IF q = r THEN ident ELSE under[q]
    BY <1>0 DEF TakeOpen, TypeOK
  <1>4. \A d \in Connection : down'[d] = IF d = c THEN Tail(s) ELSE down[d]
    BY <1>0 DEF Take, TypeOK
  <1>5. /\ 1 \in DOMAIN s /\ Head(s) = s[1]
        /\ DOMAIN s = 1 .. Len(s) /\ Len(s) \in Nat /\ Len(s) >= 1
        /\ DOMAIN Tail(s) = 1 .. (Len(s) - 1)
        /\ \A i \in 1 .. (Len(s) - 1) : Tail(s)[i] = s[i + 1]
    BY <1>0, TailFacts
  <1>6. /\ fwd[r] = "none" /\ web[r] # "new" /\ on[r] = c
        /\ \A j \in DOMAIN s : Opens(s[j]) /\ s[j].req = r => j = 1
    BY <1>0, <1>5 DEF SocketInv, OpensOnce, Opens
  <1> HIDE DEF s, r
  <1>7. EpochsAreGiven'
    <2>1. \A q \in Requests : under'[q] <= epochs' /\ (fwd'[q] # "none" => under'[q] # 0)
      BY <1>1, <1>2, <1>3 DEF SocketInv, EpochsAreGiven
    <2>2. ASSUME NEW d \in Connection, NEW i \in DOMAIN down'[d], Acks(down'[d][i]) PROVE down'[d][i].epoch <= epochs'
      <3>1. NoneDown("hello_ack")
        BY <1>0, TakeQuiet DEF DownQuiet, s
      <3> QED BY <1>1, <2>2, <3>1 DEF SocketInv, EpochsAreGiven, NoneDown, Old, OldAt, Acks
    <2>3. \A d \in Connection : \A i \in DOMAIN up'[d] : IsEnd(up'[d][i]) => up'[d][i].epoch <= epochs'
      BY <1>1 DEF SocketInv, EpochsAreGiven
    <2>4. ident' <= epochs'
      BY <1>1 DEF SocketInv, EpochsAreGiven
    <2> QED BY <2>1, <2>2, <2>3, <2>4 DEF EpochsAreGiven, Acks, IsEnd
  <1>8. UnopenedIsBlank'
    BY <1>1 DEF SocketInv, UnopenedIsBlank
  <1>9. OpensOnce'
    <2>1. \A q \in Requests : web'[q] = "new" => fwd'[q] = "none"
      BY <1>1, <1>3, <1>6 DEF SocketInv, OpensOnce
    <2>2. ASSUME NEW d \in Connection, NEW i \in DOMAIN down'[d], Opens(down'[d][i])
          PROVE  LET q == down'[d][i].req
                 IN /\ fwd'[q] = "none" /\ web'[q] # "new" /\ on'[q] = d
                    /\ \A j \in DOMAIN down'[d] : Opens(down'[d][j]) /\ down'[d][j].req = q => j = i
      <3> DEFINE q == down'[d][i].req
      <3>0. q \in Requests
        BY <2>2, DownTypes DEF IInv
      <3>1. CASE d = c
        <4>0. DOMAIN down'[c] = 1 .. (Len(s) - 1)
          BY <1>4, <1>5
        <4>1. \A j \in DOMAIN down'[c] : j + 1 \in DOMAIN s /\ down'[c][j] = s[j + 1] /\ j + 1 # 1 /\ j \in Nat
          <5>1. down'[c] = Tail(s)
            BY <1>4
          <5>2. \A j \in 1 .. (Len(s) - 1) : j + 1 \in 1 .. Len(s) /\ j + 1 # 1 /\ j \in Nat
            BY <1>5
          <5> QED BY <1>5, <4>0, <5>1, <5>2
        <4>2. i + 1 \in DOMAIN s /\ Opens(s[i + 1]) /\ s[i + 1].req = q /\ i \in Nat
          BY <2>2, <3>1, <4>1
        <4>3. q # r
          BY <1>6, <3>1, <4>1, <4>2
        <4>4. /\ fwd[q] = "none" /\ web[q] # "new" /\ on[q] = c
              /\ \A j \in DOMAIN s : Opens(s[j]) /\ s[j].req = q => j = i + 1
          BY <4>2 DEF SocketInv, OpensOnce, s, Opens
        <4>5. ASSUME NEW j \in DOMAIN down'[d], Opens(down'[d][j]), down'[d][j].req = q PROVE j = i
          <5>1. j + 1 = i + 1 /\ j \in Nat
            BY <3>1, <4>1, <4>4, <4>5
          <5> QED BY <4>2, <5>1
        <4> QED BY <1>1, <1>3, <3>0, <3>1, <4>3, <4>4, <4>5
      <3>2. CASE d # c
        <4>1. down'[d] = down[d]
          BY <1>4, <3>2
        <4>2. /\ fwd[q] = "none" /\ web[q] # "new" /\ on[q] = d
              /\ \A j \in DOMAIN down[d] : Opens(down[d][j]) /\ down[d][j].req = q => j = i
          BY <2>2, <4>1 DEF SocketInv, OpensOnce, Opens
        <4>3. q # r
          BY <1>6, <3>2, <4>2
        <4> QED BY <1>1, <1>3, <3>0, <4>1, <4>2, <4>3
      <3> QED BY <3>1, <3>2
    <2> QED BY <2>1, <2>2 DEF OpensOnce, Opens
  <1>10. ChunksAreSent'
    BY <1>1, <1>2, <1>3, <1>6 DEF SocketInv, ChunksAreSent
  <1>11. StreamInv'
    <2>1. ASSUME NEW q \in Requests, fwd'[q] \in {"streaming", "ended"}
          PROVE  fwd'[q] = fwd[q] /\ under'[q] = under[q]
      BY <1>3, <2>1
    <2>2. StreamIsCarried'
      BY <1>1, <2>1 DEF SocketInv, StreamInv, StreamIsCarried, Carried, Carries
    <2>3. EndIsLast'
      <3>1. ASSUME NEW d \in Connection, NEW j \in DOMAIN up[d], relayEnd[d] = "open", IsEnd(up[d][j]), up[d][j].epoch = epoch[d]
            PROVE  fwd'[up[d][j].req] = "ended" /\ Carried(up[d][j].req, d, j)
        <4>1. fwd[up[d][j].req] = "ended" /\ Carried(up[d][j].req, d, j)
          BY <3>1 DEF SocketInv, StreamInv, EndIsLast
        <4>2. up[d][j] \in Message
          BY <1>0 DEF TypeOK
        <4>3. up[d][j].req \in Requests
          BY <3>1, <4>2 DEF IsEnd, Message, SocketMessage
        <4> QED BY <1>3, <1>6, <4>1, <4>3
      <3> QED BY <1>1, <3>1 DEF EndIsLast, IsEnd, Carried, Carries
    <2> QED BY <2>2, <2>3 DEF StreamInv
  <1> QED BY <1>7, <1>8, <1>9, <1>10, <1>11 DEF SocketInv

\* A hello makes what is under way on its connection another connection's.
LEMMA HelloKeeps ==
  ASSUME IInv, IInv', SocketInv, NEW c \in Connection, Hello(c)
  PROVE  SocketInv'
  <1>0. TypeOK /\ Read(c) /\ up[c] # <<>> /\ ~ IsChunk(Head(up[c])) /\ epochs \in Nat
    BY DEF IInv, Hello, Arrived, IsChunk, TypeOK
  <1>1. UNCHANGED <<got, sent, under, on, ident, fwd, clientEnd, cur>> /\ epochs' = epochs + 1
    BY DEF Hello, client
  <1>2. \A d \in Connection : epoch'[d] = IF d = c THEN epochs + 1 ELSE epoch[d]
    BY <1>0 DEF Hello, TypeOK
  <1>3. \A d \in Connection : up'[d] = IF d = c THEN Tail(up[c]) ELSE up[d]
    BY <1>0 DEF Read, TypeOK
  <1>4. \A d \in Connection : relayEnd'[d] = "open" => relayEnd[d] = "open"
    BY <1>0 DEF Hello, TypeOK
  <1>5. \A d \in Connection : up[d] \in Seq(Message) /\ down[d] \in Seq(Message)
    BY <1>0 DEF TypeOK
  <1>6. UpQuiet
    BY <1>0, <1>3, <1>5, KeptCases DEF UpQuiet
  <1>7. FwdQuiet
    BY <1>0, <1>1, SameQuiet
  <1>8. FwdGoesOn /\ NoneUp("response_chunk") /\ NoneUp("response_end")
    BY <1>6, <1>7, QuietIsWeaker
  <1> DEFINE ack == Msg("hello_ack", NoRequest, 0, epochs + 1)
  <1>9. \A d \in Connection : down'[d] \in {down[d], down[d] \o <<ack>>, down[d] \o <<Close>>}
    BY <1>0 DEF Hello, ToClient, TypeOK
  <1>10. ack \in Message /\ ~ Opens(ack) /\ ack.epoch = epochs + 1
    <2>1. ack \in Message
      BY <1>0, SocketMsgIsMessage DEF SocketMessage
    <2> QED BY <2>1 DEF Msg, Opens
  <1> HIDE DEF ack
  <1>11. NoneDown("request_open")
    BY <1>5, <1>9, <1>10, CloseIsMessage, CloseIsQuiet, OldCases DEF NoneDown, Opens
  <1>12. EpochsAreGiven'
    <2>1. \A r \in Requests : under'[r] <= epochs' /\ (fwd'[r] # "none" => under'[r] # 0)
      BY <1>0, <1>1 DEF SocketInv, EpochsAreGiven, TypeOK
    <2>2. ASSUME NEW d \in Connection, NEW i \in DOMAIN down'[d], Acks(down'[d][i]) PROVE down'[d][i].epoch <= epochs'
      <3>1. ASSUME NEW m \in Message, down'[d] = down[d] \o <<m>>, Acks(m) => m.epoch = epochs + 1
            PROVE  down'[d][i].epoch <= epochs'
        <4>1. i \in 1 .. Len(down[d]) \/ i = Len(down[d]) + 1
          <5>1. i \in 1 .. (Len(down[d]) + 1) /\ Len(down[d]) \in Nat
            BY <1>5, <2>2, <3>1, AppendFacts
          <5> QED BY <5>1
        <4>2. CASE i \in 1 .. Len(down[d])
          <5>1. i \in DOMAIN down[d] /\ down'[d][i] = down[d][i] /\ down[d][i] \in Message
            BY <1>5, <3>1, <4>2, AppendFacts
          <5>2. down[d][i].epoch <= epochs /\ down[d][i].epoch \in Nat
            BY <2>2, <5>1 DEF SocketInv, EpochsAreGiven, Acks, Message
          <5> QED BY <1>0, <1>1, <5>1, <5>2
        <4>3. CASE i = Len(down[d]) + 1
          <5>1. down'[d][i] = m
            BY <1>5, <3>1, <4>3, AppendFacts
          <5> QED BY <1>0, <1>1, <2>2, <3>1, <5>1
        <4> QED BY <4>1, <4>2, <4>3
      <3>2. CASE down'[d] = down[d]
        <4>1. down[d][i].epoch <= epochs /\ down[d][i] \in Message
          BY <1>5, <2>2, <3>2 DEF SocketInv, EpochsAreGiven, Acks
        <4> QED BY <1>0, <1>1, <3>2, <4>1 DEF Message
      <3> QED BY <1>9, <1>10, <3>1, <3>2, CloseIsMessage, CloseIsQuiet
    <2>3. ASSUME NEW d \in Connection, NEW i \in DOMAIN up'[d], IsEnd(up'[d][i]) PROVE up'[d][i].epoch <= epochs'
      <3>1. up'[d][i].epoch <= epochs
        BY <1>8, <2>3 DEF SocketInv, EpochsAreGiven, NoneUp, Old, OldAt, IsEnd
      <3>2. up'[d][i] \in Message
        <4>1. up' \in [Connection -> Seq(Message)]
          BY DEF IInv, TypeOK
        <4> QED BY <2>3, <4>1
      <3> QED BY <1>0, <1>1, <3>1, <3>2 DEF Message
    <2>4. ident' <= epochs'
      BY <1>0, <1>1 DEF SocketInv, EpochsAreGiven, TypeOK
    <2> QED BY <2>1, <2>2, <2>3, <2>4 DEF EpochsAreGiven, Acks, IsEnd
  <1>13. clientEnd[c] \notin Unopened
    BY <1>0 DEF SocketInv, UnopenedIsBlank
  <1>14. UnopenedIsBlank'
    BY <1>1, <1>2, <1>3, <1>13 DEF SocketInv, UnopenedIsBlank
  <1>15. OpensOnce'
    <2>1. WebQuiet
      BY <1>1 DEF Hello, FailChannels, Failed, WebQuiet
    <2> QED BY <1>8, <1>11, <2>1, QuietOpens DEF SocketInv, IInv
  <1>16. ChunksAreSent'
    BY <1>1, <1>8, QuietChunks DEF SocketInv
  <1>17. StreamInv'
    <2>1. StreamIsCarried'
      <3>1. ASSUME NEW r \in Requests, NEW d \in Connection, relayEnd'[d] = "open", clientEnd'[d] = "open", cur' = d,
                   fwd'[r] = "streaming", under'[r] = epoch'[d]
            PROVE  Carried(r, d, Len(up[d]) + 1)'
        <4>1. d # c
          BY <1>0, <1>1, <1>2, <3>1 DEF SocketInv, EpochsAreGiven, TypeOK
        <4>2. Carried(r, d, Len(up[d]) + 1)
          BY <1>1, <1>2, <1>4, <3>1, <4>1 DEF SocketInv, StreamInv, StreamIsCarried
        <4> QED BY <1>1, <1>3, <4>1, <4>2 DEF Carried, Carries
      <3> QED BY <3>1 DEF StreamIsCarried
    <2>2. EndIsLast'
      <3>1. ASSUME NEW d \in Connection, NEW j \in DOMAIN up'[d], relayEnd'[d] = "open", IsEnd(up'[d][j]),
                   up'[d][j].epoch = epoch'[d]
            PROVE  fwd'[up'[d][j].req] = "ended" /\ Carried(up[d][j].req, d, j)'
        <4>1. up'[d][j].epoch <= epochs
          BY <1>8, <3>1 DEF SocketInv, EpochsAreGiven, NoneUp, Old, OldAt, IsEnd
        <4>2. d # c
          BY <1>0, <1>2, <3>1, <4>1
        <4>3. up'[d] = up[d]
          BY <1>3, <4>2
        <4>4. fwd[up[d][j].req] = "ended" /\ Carried(up[d][j].req, d, j)
          BY <1>2, <1>4, <3>1, <4>2, <4>3 DEF SocketInv, StreamInv, EndIsLast, IsEnd
        <4> QED BY <1>1, <4>3, <4>4 DEF Carried, Carries
      <3> QED BY <3>1 DEF EndIsLast, IsEnd
    <2> QED BY <2>1, <2>2 DEF StreamInv
  <1> QED BY <1>12, <1>14, <1>15, <1>16, <1>17 DEF SocketInv

\* The chunk that is read is the one the caller has to get next.
LEMMA ChunkKeeps ==
  ASSUME IInv, IInv', SocketInv, NEW c \in Connection, ReceiveChunk(c)
  PROVE  SocketInv'
  <1> DEFINE s == up[c]
             r == Head(s).req
  <1>0. TypeOK /\ Read(c) /\ s # <<>> /\ IsChunk(Head(s)) /\ s \in Seq(Message)
    BY DEF IInv, ReceiveChunk, Arrived, IsChunk, TypeOK
  <1>1. UNCHANGED <<sent, under, epoch, epochs, on, web, ident, fwd, down, relayEnd, clientEnd, cur>>
    BY DEF ReceiveChunk, client
  <1>2. r \in Requests
    BY <1>0, ReadingMessages DEF IsChunk, ChannelMessage
  <1>3. \A q \in Requests : got'[q] = IF q = r THEN got[r] + 1 ELSE got[q]
    BY <1>0 DEF ReceiveChunk, TypeOK
  <1>4. \A d \in Connection : up'[d] = IF d = c THEN Tail(s) ELSE up[d]
    BY <1>0 DEF Read, TypeOK
  <1>5. /\ 1 \in DOMAIN s /\ Head(s) = s[1]
        /\ DOMAIN s = 1 .. Len(s) /\ Len(s) \in Nat /\ Len(s) >= 1
        /\ DOMAIN Tail(s) = 1 .. (Len(s) - 1)
        /\ \A i \in 1 .. (Len(s) - 1) : Tail(s)[i] = s[i + 1]
    BY <1>0, TailFacts
  <1>6. s[1].n = got[r] /\ s[1].req = r /\ IsChunk(s[1]) /\ got[r] < sent[r] /\ got[r] \in Nat /\ sent[r] \in Nat
    <2>1. Head(s).n = got[r]
      BY DEF ReceiveChunk, Expected
    <2>2. s[1] = Head(s) /\ s[1].req = r /\ IsChunk(s[1])
      BY <1>0, <1>5
    <2>3. s[1].n < sent[r]
      BY <1>5, <2>2 DEF SocketInv, ChunksAreSent, IsChunk
    <2>4. got[r] \in Nat /\ sent[r] \in Nat
      BY <1>0, <1>2 DEF TypeOK
    <2> QED BY <2>1, <2>2, <2>3, <2>4
  <1>7. \A d \in Connection : up[d] \in Seq(Message)
    BY <1>0 DEF TypeOK
  <1> HIDE DEF s, r
  <1>8. DownQuiet /\ FwdQuiet /\ WebQuiet
    BY <1>0, <1>1, SameQuiet
  <1>9. FwdGoesOn
    BY <1>1 DEF FwdGoesOn
  <1>10. NoneUp("response_chunk") /\ NoneUp("response_end")
    BY <1>0, <1>4, <1>7, OldCases DEF NoneUp, s
  <1>11. EpochsAreGiven'
    <2>1. ident' <= epochs
      BY <1>1 DEF SocketInv, EpochsAreGiven
    <2> QED BY <1>1, <1>8, <1>9, <1>10, <2>1, QuietEpochs DEF SocketInv, DownQuiet
  <1>12. UnopenedIsBlank'
    BY <1>0, <1>1, <1>4 DEF SocketInv, UnopenedIsBlank, s
  <1>13. OpensOnce'
    BY <1>8, <1>9, QuietOpens DEF SocketInv, DownQuiet, IInv
  <1>14. ChunksAreSent'
    <2>1. \A q \in Requests : got'[q] <= sent'[q] /\ (fwd'[q] \in {"none", "fetching"} => sent'[q] = 0)
      BY <1>1, <1>3, <1>6 DEF SocketInv, ChunksAreSent
    <2>2. ASSUME NEW d \in Connection, NEW i \in DOMAIN up'[d], IsChunk(up'[d][i])
          PROVE  up'[d][i].n < sent'[up'[d][i].req]
      BY <1>1, <1>10, <2>2 DEF SocketInv, ChunksAreSent, NoneUp, Old, OldAt, IsChunk
    <2> QED BY <2>1, <2>2 DEF ChunksAreSent, IsChunk
  <1>15. ASSUME NEW q \in Requests, NEW p \in Int, Carried(q, c, p)
         PROVE  \A n \in Nat : got'[q] <= n /\ n < sent[q] => Carries(up'[c], p - 1, q, n)
    <2>1. ASSUME NEW n \in Nat, got'[q] <= n, n < sent[q] PROVE Carries(up'[c], p - 1, q, n)
      <3>1. got[q] <= n /\ (q = r => n # got[r])
        <4>1. got[q] \in Nat
          BY <1>0 DEF TypeOK
        <4> QED BY <1>3, <1>6, <2>1, <4>1
      <3>2. PICK i \in DOMAIN s : i < p /\ IsChunk(s[i]) /\ s[i].req = q /\ s[i].n = n
        BY <1>15, <2>1, <3>1 DEF Carried, Carries, s
      <3>3. i # 1
        BY <1>6, <3>1, <3>2
      <3>4. i - 1 \in 1 .. (Len(s) - 1) /\ (i - 1) + 1 = i /\ i - 1 < p - 1
        BY <1>5, <3>2, <3>3
      <3>5. i - 1 \in DOMAIN up'[c] /\ up'[c][i - 1] = s[i]
        BY <1>4, <1>5, <3>4
      <3> QED BY <3>2, <3>4, <3>5 DEF Carries
    <2> QED BY <2>1
  <1>16. ASSUME NEW q \in Requests, NEW d \in Connection, d # c, NEW p, Carried(q, d, p)
         PROVE  \A n \in Nat : got'[q] <= n /\ n < sent[q] => Carries(up'[d], p, q, n)
    <2>0. got[q] \in Nat
      BY <1>0 DEF TypeOK
    <2>1. \A n \in Nat : got'[q] <= n => got[q] <= n
      BY <1>3, <1>6, <2>0
    <2> QED BY <1>4, <1>16, <2>1 DEF Carried
  <1>17. StreamIsCarried'
    <2>1. ASSUME NEW q \in Requests, NEW d \in Connection, relayEnd[d] = "open", clientEnd[d] = "open", cur = d,
                 fwd[q] = "streaming", under[q] = epoch[d]
          PROVE  Carried(q, d, Len(up[d]) + 1)'
      <3>1. Carried(q, d, Len(up[d]) + 1) /\ Len(up[d]) + 1 \in Int
        BY <1>7, <2>1 DEF SocketInv, StreamInv, StreamIsCarried
      <3>2. CASE d = c
        <4>1. Len(Tail(s)) = Len(s) - 1
          BY <1>0
        <4>2. (Len(up[c]) + 1) - 1 = Len(up'[c]) + 1
          <5>1. up'[c] = Tail(s)
            BY <1>4
          <5>2. (Len(s) + 1) - 1 = Len(Tail(s)) + 1
            BY <1>5, <4>1
          <5> QED BY <5>1, <5>2 DEF s
        <4> QED BY <1>1, <1>15, <3>1, <3>2, <4>2 DEF Carried
      <3>3. CASE d # c
        <4>1. up'[d] = up[d]
          BY <1>4, <3>3
        <4> QED BY <1>1, <1>16, <3>1, <3>3, <4>1 DEF Carried
      <3> QED BY <3>2, <3>3
    <2> QED BY <1>1, <2>1 DEF StreamIsCarried
  <1>18. EndIsLast'
    <2>1. ASSUME NEW d \in Connection, NEW j \in DOMAIN up'[d], relayEnd[d] = "open", IsEnd(up'[d][j]),
                 up'[d][j].epoch = epoch[d]
          PROVE  fwd[up'[d][j].req] = "ended" /\ Carried(up[d][j].req, d, j)'
      <3>0. up'[d][j] \in Message /\ j \in Int
        <4>1. up' \in [Connection -> Seq(Message)]
          BY DEF IInv, TypeOK
        <4> QED BY <2>1, <4>1
      <3>1. up'[d][j].req \in Requests
        BY <2>1, <3>0 DEF IsEnd, Message, SocketMessage
      <3>2. CASE d = c
        <4>1. j \in 1 .. (Len(s) - 1)
          BY <1>4, <1>5, <2>1, <3>2
        <4>2. j + 1 \in DOMAIN s /\ up'[c][j] = s[j + 1] /\ (j + 1) - 1 = j /\ j + 1 \in Int
          <5>1. j + 1 \in 1 .. Len(s) /\ (j + 1) - 1 = j /\ j + 1 \in Int
            BY <1>5, <4>1
          <5>2. up'[c] = Tail(s)
            BY <1>4
          <5> QED BY <1>5, <4>1, <5>1, <5>2
        <4>3. fwd[s[j + 1].req] = "ended" /\ Carried(s[j + 1].req, c, j + 1)
          BY <2>1, <3>2, <4>2 DEF SocketInv, StreamInv, EndIsLast, IsEnd, s
        <4>4. Carried(up'[d][j].req, c, j + 1)
          BY <3>2, <4>2, <4>3
        <4>5. \A n \in Nat : got'[up'[d][j].req] <= n /\ n < sent[up'[d][j].req]
                                => Carries(up'[c], (j + 1) - 1, up'[d][j].req, n)
          BY <1>15, <3>1, <4>2, <4>4
        <4> QED BY <1>1, <3>2, <4>2, <4>3, <4>5 DEF Carried
      <3>3. CASE d # c
        <4>1. up'[d] = up[d]
          BY <1>4, <3>3
        <4>2. fwd[up[d][j].req] = "ended" /\ Carried(up[d][j].req, d, j)
          BY <2>1, <4>1 DEF SocketInv, StreamInv, EndIsLast, IsEnd
        <4> QED BY <1>1, <1>16, <3>1, <3>3, <4>1, <4>2 DEF Carried
      <3> QED BY <3>2, <3>3
    <2> QED BY <1>1, <2>1 DEF EndIsLast, IsEnd
  <1> QED BY <1>11, <1>12, <1>13, <1>14, <1>17, <1>18 DEF SocketInv, StreamInv

\* What is in a socket stays where it is when something is sent.
LEMMA SendKeepsCarried ==
  ASSUME TypeOK, NEW m \in Message, Sends(m), cur \in Connection,
         NEW q \in Requests, NEW d \in Connection, NEW p \in Int, NEW n, Carries(up[d], p, q, n)
  PROVE  Carries(up'[d], p, q, n)
  <1>1. up[d] \in Seq(Message)
    BY DEF TypeOK
  <1>2. up'[d] = up[d] \/ up'[d] = up[d] \o <<m>>
    BY DEF Sends, ToRelay, TypeOK
  <1>3. \A i \in DOMAIN up[d] : i \in DOMAIN up'[d] /\ up'[d][i] = up[d][i]
    <2>1. Len(up[d]) \in Nat /\ DOMAIN up[d] = 1 .. Len(up[d])
      BY <1>1
    <2>2. \A i \in 1 .. Len(up[d]) : i \in 1 .. (Len(up[d]) + 1)
      BY <2>1
    <2> QED BY <1>1, <1>2, <2>1, <2>2, AppendFacts
  <1> QED BY <1>3 DEF Carries

\* What is in a socket after something was sent.
LEMMA AfterSend ==
  ASSUME TypeOK, NEW m \in Message, Sends(m), cur \in Connection, CanSend,
         NEW d \in Connection, NEW j \in DOMAIN up'[d]
  PROVE  \/ j \in DOMAIN up[d] /\ up'[d][j] = up[d][j]
         \/ d = cur /\ relayEnd[d] = "open" /\ j = Len(up[d]) + 1 /\ up'[d][j] = m
  <1>1. up[d] \in Seq(Message)
    BY DEF TypeOK
  <1>2. up'[d] = up[d] \/ (d = cur /\ relayEnd[d] = "open" /\ up'[d] = up[d] \o <<m>>)
    BY DEF Sends, ToRelay, TypeOK
  <1>3. CASE up'[d] = up[d]
    BY <1>3
  <1>4. CASE up'[d] # up[d]
    <2>1. up'[d] = up[d] \o <<m>> /\ Len(up[d]) \in Nat /\ DOMAIN up[d] = 1 .. Len(up[d])
      BY <1>1, <1>2, <1>4
    <2>2. j \in 1 .. (Len(up[d]) + 1)
      BY <1>1, <2>1, AppendFacts
    <2>3. j \in 1 .. Len(up[d]) \/ j = Len(up[d]) + 1
      BY <2>1, <2>2
    <2> QED BY <1>1, <1>2, <1>4, <2>1, <2>3, AppendFacts
  <1> QED BY <1>3, <1>4

\* A part of a reply goes behind what there is of it.
LEMMA ReplyKeeps ==
  ASSUME IInv, IInv', SocketInv, NEW r \in Requests, CanSend, ReplyChunk(r) \/ ReplyEnds(r)
  PROVE  SocketInv'
  <1> DEFINE chunk == Msg("response_chunk", r, sent[r], under[r])
             end   == Msg("response_end", r, 0, under[r])
             m     == IF ReplyChunk(r) THEN chunk ELSE end
  <1>0. TypeOK /\ cur \in Connection /\ clientEnd[cur] = "open" /\ fwd[r] = "streaming"
    <2>1. cur \in Connection
      BY DEF IInv, CanSend, TypeOK, Connection
    <2> QED BY <2>1 DEF IInv, CanSend, ReplyChunk, ReplyEnds
  <1>1. UNCHANGED <<got, under, epoch, epochs, on, web, ident, down, relayEnd, clientEnd, cur>>
    BY DEF ReplyChunk, ReplyEnds, relay
  <1>2. under[r] \in Nat /\ sent[r] \in Nat /\ \A q \in Requests : sent[q] \in Nat /\ got[q] \in Nat
    BY <1>0 DEF TypeOK
  <1>3. chunk \in Message /\ end \in Message
    BY <1>2, MsgIsMessage DEF ChannelMessage
  <1>4. /\ chunk.type = "response_chunk" /\ chunk.req = r /\ chunk.n = sent[r]
        /\ end.type = "response_end" /\ end.req = r /\ end.epoch = under[r]
    BY DEF Msg
  <1>5. \/ m = chunk /\ UNCHANGED fwd /\ sent' = [sent EXCEPT ![r] = @ + 1]
        \/ m = end /\ fwd' = [fwd EXCEPT ![r] = "ended"] /\ UNCHANGED sent
    <2>1. CASE ReplyChunk(r)
      <3>1. fwd' = fwd
        BY <1>0, <2>1 DEF ReplyChunk, Forwards, TypeOK
      <3> QED BY <2>1, <3>1 DEF ReplyChunk
    <2>2. CASE ~ ReplyChunk(r)
      BY <2>2 DEF ReplyEnds, Forwards
    <2> QED BY <2>1, <2>2
  <1>6. Sends(m)
    BY DEF ReplyChunk, ReplyEnds, Forwards
  <1> HIDE DEF chunk, end, m
  <1>7. m \in Message
    BY <1>3, <1>5
  <1>8. DownQuiet /\ EndsQuiet /\ WebQuiet
    BY <1>0, <1>1, SameQuiet
  <1>9. FwdGoesOn
    BY <1>0, <1>5 DEF FwdGoesOn, Working, TypeOK
  <1>10. \A d \in Connection : up[d] \in Seq(Message) /\ up'[d] \in Seq(Message)
    BY DEF IInv, TypeOK
  <1>11. \A q \in Requests : /\ sent'[q] = IF q = r /\ m = chunk THEN sent[r] + 1 ELSE sent[q]
                             /\ fwd'[q] = IF q = r /\ m = end THEN "ended" ELSE fwd[q]
    <2>1. DOMAIN sent = Requests /\ DOMAIN fwd = Requests /\ chunk # end
      BY <1>0, <1>4 DEF TypeOK
    <2>2. \A q \in Requests : [sent EXCEPT ![r] = @ + 1][q] = IF q = r THEN sent[r] + 1 ELSE sent[q]
      BY <2>1
    <2>3. \A q \in Requests : [fwd EXCEPT ![r] = "ended"][q] = IF q = r THEN "ended" ELSE fwd[q]
      BY <2>1
    <2> QED BY <1>5, <2>1, <2>2, <2>3
  <1>12. EpochsAreGiven'
    <2>1. \A q \in Requests : under'[q] <= epochs' /\ (fwd'[q] # "none" => under'[q] # 0)
      BY <1>1, <1>9 DEF SocketInv, EpochsAreGiven, FwdGoesOn, Working
    <2>2. \A d \in Connection : \A i \in DOMAIN down'[d] : Acks(down'[d][i]) => down'[d][i].epoch <= epochs'
      BY <1>1 DEF SocketInv, EpochsAreGiven
    <2>3. ASSUME NEW d \in Connection, NEW i \in DOMAIN up'[d], IsEnd(up'[d][i]) PROVE up'[d][i].epoch <= epochs'
      <3>1. CASE i \in DOMAIN up[d] /\ up'[d][i] = up[d][i]
        BY <1>1, <2>3, <3>1 DEF SocketInv, EpochsAreGiven, IsEnd
      <3>2. CASE up'[d][i] = m
        <4>1. m = end
          BY <1>4, <1>5, <2>3, <3>2 DEF IsEnd
        <4> QED BY <1>1, <1>4, <3>2, <4>1 DEF SocketInv, EpochsAreGiven
      <3> QED BY <1>0, <1>6, <1>7, <3>1, <3>2, AfterSend
    <2>4. ident' <= epochs'
      BY <1>1 DEF SocketInv, EpochsAreGiven
    <2> QED BY <2>1, <2>2, <2>3, <2>4 DEF EpochsAreGiven, Acks, IsEnd
  <1>13. UnopenedIsBlank'
    <2>1. \A d \in Connection : d # cur => up'[d] = up[d]
      BY <1>0, <1>6 DEF Sends, TypeOK
    <2> QED BY <1>0, <1>1, <2>1 DEF SocketInv, UnopenedIsBlank, Unopened
  <1>14. OpensOnce'
    BY <1>8, <1>9, QuietOpens DEF SocketInv, DownQuiet, IInv
  <1>15. ChunksAreSent'
    <2>1. \A q \in Requests : got'[q] <= sent'[q] /\ (fwd'[q] \in {"none", "fetching"} => sent'[q] = 0)
      BY <1>0, <1>1, <1>2, <1>11 DEF SocketInv, ChunksAreSent
    <2>2. ASSUME NEW d \in Connection, NEW i \in DOMAIN up'[d], IsChunk(up'[d][i])
          PROVE  up'[d][i].n < sent'[up'[d][i].req]
      <3>0. up'[d][i] \in Message
        BY <1>10, <2>2
      <3>1. up'[d][i].req \in Requests /\ up'[d][i].n \in Nat
        BY <2>2, <3>0 DEF IsChunk, Message, SocketMessage
      <3>2. CASE i \in DOMAIN up[d] /\ up'[d][i] = up[d][i]
        <4>1. up'[d][i].n < sent[up'[d][i].req]
          BY <2>2, <3>2 DEF SocketInv, ChunksAreSent, IsChunk
        <4> QED BY <1>2, <1>11, <3>1, <4>1
      <3>3. CASE up'[d][i] = m
        <4>1. m = chunk
          BY <1>4, <1>5, <2>2, <3>3 DEF IsChunk
        <4> QED BY <1>2, <1>4, <1>11, <3>3, <4>1
      <3> QED BY <1>0, <1>6, <1>7, <3>2, <3>3, AfterSend
    <2> QED BY <2>1, <2>2 DEF ChunksAreSent, IsChunk
  <1>16. ASSUME NEW q \in Requests, NEW d \in Connection, NEW p \in Int, Carried(q, d, p)
         PROVE  \A n \in Nat : got[q] <= n /\ n < sent[q] => Carries(up'[d], p, q, n)
    BY <1>0, <1>6, <1>7, <1>16, SendKeepsCarried DEF Carried
  <1>17. StreamIsCarried'
    <2>1. ASSUME NEW q \in Requests, NEW d \in Connection, relayEnd[d] = "open", clientEnd[d] = "open", cur = d,
                 fwd'[q] = "streaming", under[q] = epoch[d]
          PROVE  \A n \in Nat : got[q] <= n /\ n < sent'[q] => Carries(up'[d], Len(up'[d]) + 1, q, n)
      <3>1. fwd[q] = "streaming"
        BY <1>11, <2>1
      <3>2. Carried(q, d, Len(up[d]) + 1) /\ Len(up[d]) + 1 \in Int /\ Len(up'[d]) + 1 \in Int
        BY <1>10, <2>1, <3>1 DEF SocketInv, StreamInv, StreamIsCarried
      <3>3. up'[d] = up[d] \o <<m>>
        BY <1>0, <1>6, <2>1 DEF Sends, ToRelay, TypeOK
      <3>4. /\ Len(up[d]) \in Nat /\ Len(up'[d]) = Len(up[d]) + 1
            /\ DOMAIN up'[d] = 1 .. (Len(up[d]) + 1) /\ up'[d][Len(up[d]) + 1] = m
        BY <1>7, <1>10, <3>3, AppendFacts
      <3>5. ASSUME NEW n \in Nat, got[q] <= n, n < sent'[q] PROVE Carries(up'[d], Len(up'[d]) + 1, q, n)
        <4>1. CASE n < sent[q]
          <5>1. Carries(up'[d], Len(up[d]) + 1, q, n)
            BY <1>16, <3>2, <3>5, <4>1
          <5>2. Len(up[d]) + 1 <= Len(up'[d]) + 1
            BY <3>4
          <5> QED BY <1>10, <3>2, <5>1, <5>2, CarriesAny
        <4>2. CASE ~ (n < sent[q])
          <5>1. q = r /\ m = chunk /\ n = sent[r]
            BY <1>2, <1>11, <3>5, <4>2
          <5>2. Len(up[d]) + 1 \in DOMAIN up'[d] /\ Len(up[d]) + 1 < Len(up'[d]) + 1
            BY <3>4
          <5> QED BY <1>4, <3>4, <5>1, <5>2 DEF Carries, IsChunk
        <4> QED BY <4>1, <4>2
      <3> QED BY <3>5
    <2> QED BY <1>1, <2>1 DEF StreamIsCarried, Carried
  <1>18. EndIsLast'
    <2>1. ASSUME NEW d \in Connection, NEW j \in DOMAIN up'[d], relayEnd[d] = "open", IsEnd(up'[d][j]),
                 up'[d][j].epoch = epoch[d]
          PROVE  /\ fwd'[up'[d][j].req] = "ended"
                 /\ \A n \in Nat : got[up'[d][j].req] <= n /\ n < sent'[up'[d][j].req] => Carries(up'[d], j, up'[d][j].req, n)
      <3> DEFINE q == up'[d][j].req
      <3>0. up'[d][j] \in Message /\ j \in Int
        BY <1>10
      <3>1. q \in Requests
        BY <2>1, <3>0 DEF IsEnd, Message, SocketMessage
      <3>2. CASE j \in DOMAIN up[d] /\ up'[d][j] = up[d][j]
        <4>1. fwd[q] = "ended" /\ Carried(q, d, j)
          BY <2>1, <3>2 DEF SocketInv, StreamInv, EndIsLast, IsEnd
        <4>2. q # r /\ fwd'[q] = "ended" /\ sent'[q] = sent[q]
          BY <1>0, <1>11, <3>1, <4>1
        <4> QED BY <1>16, <3>0, <3>1, <4>1, <4>2
      <3>3. CASE d = cur /\ j = Len(up[d]) + 1 /\ up'[d][j] = m
        <4>1. m = end /\ q = r
          BY <1>4, <1>5, <2>1, <3>3 DEF IsEnd
        <4>2. m # chunk
          BY <1>4, <4>1
        <4>3. fwd'[r] = "ended" /\ sent'[r] = sent[r]
          BY <1>11, <4>1, <4>2
        <4>4. under[r] = epoch[d]
          BY <1>4, <2>1, <3>3, <4>1
        <4>5. Carried(r, d, Len(up[d]) + 1)
          BY <1>0, <2>1, <3>3, <4>4 DEF SocketInv, StreamInv, StreamIsCarried
        <4> QED BY <1>16, <3>0, <3>3, <4>1, <4>3, <4>5
      <3> QED BY <1>0, <1>6, <1>7, <3>2, <3>3, AfterSend
    <2> QED BY <1>1, <2>1 DEF EndIsLast, IsEnd, Carried
  <1> QED BY <1>12, <1>13, <1>14, <1>15, <1>17, <1>18 DEF SocketInv, StreamInv

-----------------------------------------------------------------------------
(* The invariant.                                                          *)

LEMMA SocketInit == Init => SocketInv /\ WebFollows
  <1> SUFFICES ASSUME Init PROVE SocketInv /\ WebFollows
    OBVIOUS
  <1>1. DOMAIN <<>> = {}
    OBVIOUS
  <1>2. EpochsAreGiven /\ UnopenedIsBlank /\ OpensOnce /\ ChunksAreSent /\ WebFollows
    BY <1>1 DEF Init, EpochsAreGiven, UnopenedIsBlank, OpensOnce, ChunksAreSent, WebFollows
  <1>3. StreamInv
    BY <1>1 DEF Init, StreamInv, StreamIsCarried, EndIsLast
  <1> QED BY <1>2, <1>3 DEF SocketInv

LEMMA SocketStep == IInv /\ SocketInv /\ [Next]_vars => SocketInv'
  <1> SUFFICES ASSUME IInv, SocketInv, [Next]_vars PROVE SocketInv'
    OBVIOUS
  <1>0. IInv' /\ TypeOK /\ UnopenedIsBlank
    BY InvInductive DEF IInv, SocketInv
  <1>1. ASSUME NEW r \in Requests, Web(r) PROVE SocketInv'
    BY <1>0, <1>1, RequestKeeps, QuietWeb, QuietStep DEF Web
  <1>2. ASSUME NEW r \in Requests, Forward(r) PROVE SocketInv'
    <2>1. CASE CanSend /\ (ReplyChunk(r) \/ ReplyEnds(r))
      BY <1>0, <2>1, ReplyKeeps
    <2>2. CASE ~ (CanSend /\ (ReplyChunk(r) \/ ReplyEnds(r)))
      BY <1>0, <1>2, <2>2, QuietForward, QuietStep DEF Forward
    <2> QED BY <2>1, <2>2
  <1>3. ASSUME NEW c \in Connection, RelayReceives(c) PROVE SocketInv'
    BY <1>0, <1>3, HelloKeeps, ChunkKeeps, QuietRelay, QuietStep DEF RelayReceives
  <1>4. ASSUME NEW c \in Connection, ClientReceives(c) \/ Connect(c) \/ Lose(c) PROVE SocketInv'
    BY <1>0, <1>4, AckKeeps, OpenKeeps, QuietClient, QuietConnect, QuietStep DEF ClientReceives
  <1>5. CASE HeartbeatTimeout \/ Revoke \/ Reconfigure
    BY <1>0, <1>5, QuietOthers, QuietStep
  <1>6. CASE UNCHANGED rest
    <2>1. UNCHANGED <<got, sent, under, epoch, epochs, on, web, ident, fwd, up, down, relayEnd, clientEnd, cur>>
      BY <1>6 DEF rest, relay, sockets, client
    <2> QED BY <1>0, <2>1, SameQuiet, QuietParts, QuietStep
  <1> QED BY <1>1, <1>2, <1>3, <1>4, <1>5, <1>6, TimeMovesNothing DEF Next

-----------------------------------------------------------------------------
(* The steps of Exchange.                                                  *)

\* What a step of the relay is to the callers.
Shown == WebFollows' /\ [Promise!Next]_(Promise!vars)

LEMMA NothingShown ==
  ASSUME WebFollows, UNCHANGED <<web, chan, got, sent>>, FwdQuiet
  PROVE  Shown
  <1>1. {r \in Requests : fwd'[r] = "ended"} = {r \in Requests : fwd[r] = "ended"}
    BY DEF FwdQuiet, Working
  <1> QED BY <1>1 DEF Shown, WebFollows, Promise!vars

\* Live requests that fail together.
LEMMA FailShown ==
  ASSUME IInv, WebFollows, NEW R \in SUBSET Requests, \A r \in R : Live(r),
         \A r \in Requests : chan'[r] = IF r \in R THEN "done" ELSE chan[r],
         web' = [r \in Requests |-> IF r \in R THEN Failed(r) ELSE web[r]],
         UNCHANGED <<got, sent, fwd>>
  PROVE  Shown
  <1>1. \A r \in R : IF chan[r] = "open" THEN web[r] = "streaming" ELSE web[r] = "waiting"
    BY DEF WebFollows, Live
  <1>2. Promise!Fail(R)
    BY <1>1 DEF Promise!Fail, Promise!Over, Failed
  <1>3. WebFollows'
    BY DEF WebFollows
  <1> QED BY <1>2, <1>3 DEF Shown, Promise!Next

LEMMA FailChannelShown ==
  ASSUME IInv, WebFollows, NEW r \in Requests, FailChannel(r), UNCHANGED <<got, sent, fwd>>
  PROVE  Shown
  <1> DEFINE R == IF Live(r) THEN {r} ELSE {}
  <1>1. R \in SUBSET Requests /\ \A q \in R : Live(q)
    OBVIOUS
  <1>2. /\ \A q \in Requests : chan'[q] = IF q \in R THEN "done" ELSE chan[q]
        /\ web' = [q \in Requests |-> IF q \in R THEN Failed(q) ELSE web[q]]
    BY DEF FailChannel, IInv, TypeOK
  <1> QED BY <1>1, <1>2, FailShown

LEMMA FailChannelsShown ==
  ASSUME IInv, WebFollows, NEW c, FailChannels(c), UNCHANGED <<got, sent, fwd>>
  PROVE  Shown
  <1>1. ChannelsOf(c) \in SUBSET Requests /\ \A q \in ChannelsOf(c) : Live(q)
    BY DEF ChannelsOf
  <1>2. /\ \A q \in Requests : chan'[q] = IF q \in ChannelsOf(c) THEN "done" ELSE chan[q]
        /\ web' = [q \in Requests |-> IF q \in ChannelsOf(c) THEN Failed(q) ELSE web[q]]
    BY DEF FailChannels
  <1> QED BY <1>1, <1>2, FailShown

LEMMA WebShown ==
  ASSUME IInv, WebFollows, NEW r \in Requests, Web(r)
  PROVE  Shown
  <1>0. TypeOK /\ UNCHANGED <<got, sent, fwd>>
    BY DEF IInv, Web, WebRequest, PumpChunk, PumpEnd, PumpFails, WebGone, TimerFires, client, relay
  <1>1. CASE WebRequest(r)
    <2>1. web[r] = "new" /\ chan[r] \notin {"waiting", "open"}
      BY <1>1 DEF WebRequest, WebFollows
    <2>2. CASE runtime = 0
      <3>1. web' = [web EXCEPT ![r] = "failed"] /\ UNCHANGED chan
        BY <1>1, <2>2 DEF WebRequest
      <3>2. Promise!Fail({r})
        BY <1>0, <2>1, <3>1 DEF Promise!Fail, Promise!Over, TypeOK
      <3>3. WebFollows'
        BY <1>0, <2>1, <3>1 DEF WebFollows, TypeOK
      <3> QED BY <3>2, <3>3 DEF Shown, Promise!Next
    <2>3. CASE runtime # 0
      <3>1. web' = [web EXCEPT ![r] = "waiting"] /\ chan' = [chan EXCEPT ![r] = "waiting"]
        BY <1>1, <2>3 DEF WebRequest
      <3>2. Promise!Ask(r)
        BY <1>0, <2>1, <3>1 DEF Promise!Ask
      <3>3. WebFollows'
        BY <1>0, <3>1 DEF WebFollows, TypeOK
      <3> QED BY <3>2, <3>3 DEF Shown, Promise!Next
    <2> QED BY <2>2, <2>3
  <1>2. CASE PumpChunk(r) \/ PumpEnd(r)
    <2>1. UNCHANGED <<web, chan>> /\ FwdQuiet
      BY <1>0, <1>2, SameQuiet DEF PumpChunk, PumpEnd, relay
    <2> QED BY <1>0, <2>1, NothingShown
  <1>3. CASE PumpFails(r) \/ TimerFires(r)
    BY <1>0, <1>3, FailChannelShown DEF PumpFails, TimerFires
  <1>4. CASE WebGone(r)
    <2>1. web[r] \in {"waiting", "streaming"}
      BY <1>4 DEF WebGone, Live, WebFollows
    <2>2. Promise!Leave(r)
      BY <1>0, <1>4, <2>1 DEF WebGone, Promise!Leave
    <2>3. WebFollows'
      BY <1>0, <1>4 DEF WebGone, WebFollows, TypeOK
    <2> QED BY <2>2, <2>3 DEF Shown, Promise!Next
  <1> QED BY <1>1, <1>2, <1>3, <1>4 DEF Web

LEMMA RelayShown ==
  ASSUME IInv, SocketInv, WebFollows, NEW c \in Connection, RelayReceives(c)
  PROVE  Shown
  <1> DEFINE m == Head(up[c])
             r == m.req
  <1>0. TypeOK /\ UNCHANGED <<sent, fwd>>
    BY DEF IInv, RelayReceives, Hello, HelloRefused, RelayRefuses, RelayClosed,
           ReceiveHead, ReceiveChunk, ReceiveEnd, ReceiveError, client
  <1>a. FwdQuiet
    BY <1>0, SameQuiet
  <1>b. up[c] \in Seq(Message)
    BY <1>0 DEF TypeOK
  <1>1. CASE Hello(c)
    BY <1>0, <1>1, FailChannelsShown DEF Hello
  <1>2. CASE HelloRefused(c) \/ RelayRefuses(c)
    <2>1. UNCHANGED <<web, chan, got>>
      BY <1>2 DEF HelloRefused, RelayRefuses, relay
    <2> QED BY <1>0, <1>a, <2>1, NothingShown
  <1>3. CASE RelayClosed(c)
    <2>1. CASE runtime = c
      BY <1>0, <1>3, <2>1, FailChannelsShown DEF RelayClosed
    <2>2. CASE runtime # c
      BY <1>0, <1>3, <1>a, <2>2, NothingShown DEF RelayClosed
    <2> QED BY <2>1, <2>2
  <1>4. CASE ReceiveHead(c)
    <2>1. UNCHANGED got
      BY <1>4 DEF ReceiveHead
    <2>2. CASE r \in ChannelsOf(c) /\ chan[r] = "waiting"
      <3>1. web' = [web EXCEPT ![r] = "streaming"] /\ chan' = [chan EXCEPT ![r] = "open"]
        BY <1>4, <2>2 DEF ReceiveHead
      <3>2. r \in Requests /\ web[r] = "waiting"
        BY <2>2 DEF ChannelsOf, WebFollows
      <3>3. Promise!ReceiveHead(r)
        BY <1>0, <2>1, <3>1, <3>2 DEF Promise!ReceiveHead
      <3>4. WebFollows'
        BY <1>0, <3>1 DEF WebFollows, TypeOK
      <3> QED BY <3>2, <3>3, <3>4 DEF Shown, Promise!Next
    <2>3. CASE ~ (r \in ChannelsOf(c) /\ chan[r] = "waiting")
      <3>1. UNCHANGED <<web, chan>>
        BY <1>0, <1>4, <2>3 DEF ReceiveHead, TypeOK
      <3> QED BY <1>0, <1>a, <2>1, <3>1, NothingShown
    <2> QED BY <2>2, <2>3
  <1>5. CASE ReceiveChunk(c)
    <2>1. UNCHANGED <<web, chan>> /\ got' = [got EXCEPT ![r] = @ + 1]
      BY <1>5 DEF ReceiveChunk
    <2>2. r \in Requests /\ chan[r] = "open" /\ got[r] = m.n
      BY <1>5 DEF ReceiveChunk, Expected, ChannelsOf
    <2>3. got[r] < sent[r]
      <3>1. 1 \in DOMAIN up[c] /\ m = up[c][1]
        BY <1>5, <1>b, TailFacts DEF ReceiveChunk, Arrived
      <3>2. m.n < sent[r]
        BY <1>5, <3>1 DEF SocketInv, ChunksAreSent, IsChunk, ReceiveChunk, Arrived
      <3> QED BY <2>2, <3>2
    <2>4. Promise!ReceiveChunk(r)
      BY <1>0, <2>1, <2>2, <2>3 DEF Promise!ReceiveChunk, WebFollows
    <2>5. WebFollows'
      BY <2>1 DEF WebFollows
    <2> QED BY <2>2, <2>4, <2>5 DEF Shown, Promise!Next
  <1>6. CASE ReceiveEnd(c)
    <2>1. UNCHANGED got
      BY <1>6 DEF ReceiveEnd
    <2>2. CASE r \notin ChannelsOf(c)
      BY <1>0, <1>6, <1>a, <2>1, <2>2, NothingShown DEF ReceiveEnd
    <2>3. CASE r \in ChannelsOf(c) /\ chan[r] # "open"
      <3>1. web' = [web EXCEPT ![r] = web[r]] /\ chan' = [chan EXCEPT ![r] = "done"]
        BY <1>6, <2>3 DEF ReceiveEnd
      <3>2. web' = web
        BY <1>0, <3>1 DEF TypeOK
      <3>3. WebFollows'
        BY <1>0, <3>1, <3>2 DEF WebFollows, TypeOK
      <3> QED BY <1>0, <2>1, <3>2, <3>3 DEF Shown, Promise!vars
    <2>4. CASE r \in ChannelsOf(c) /\ chan[r] = "open"
      <3>1. web' = [web EXCEPT ![r] = "whole"] /\ chan' = [chan EXCEPT ![r] = "done"]
        BY <1>6, <2>4 DEF ReceiveEnd
      <3>2. r \in Requests /\ web[r] = "streaming"
        BY <2>4 DEF ChannelsOf, WebFollows
      <3>3. 1 \in DOMAIN up[c] /\ m = up[c][1]
        BY <1>6, <1>b, TailFacts DEF ReceiveEnd, Arrived
      <3>4. fwd[r] = "ended" /\ Carried(r, c, 1)
        BY <1>6, <3>3 DEF SocketInv, StreamInv, EndIsLast, IsEnd, ReceiveEnd, Arrived, FromRuntime
      <3>5. \A n : ~ Carries(up[c], 1, r, n)
        BY <1>b DEF Carries
      <3>6. got[r] \in Nat /\ sent[r] \in Nat /\ got[r] <= sent[r]
        BY <1>0, <3>2 DEF TypeOK, SocketInv, ChunksAreSent
      <3>7. ~ (got[r] < sent[r])
        BY <3>4, <3>5, <3>6 DEF Carried
      <3>8. got[r] = sent[r]
        BY <3>6, <3>7
      <3>9. Promise!ReceiveEnd(r)
        BY <1>0, <2>1, <3>1, <3>2, <3>4, <3>8 DEF Promise!ReceiveEnd
      <3>10. WebFollows'
        BY <1>0, <3>1 DEF WebFollows, TypeOK
      <3> QED BY <3>2, <3>9, <3>10 DEF Shown, Promise!Next
    <2> QED BY <2>2, <2>3, <2>4
  <1>7. CASE ReceiveError(c)
    <2>1. UNCHANGED got
      BY <1>7 DEF ReceiveError
    <2>2. CASE r \in ChannelsOf(c)
      BY <1>0, <1>7, <2>1, <2>2, FailChannelShown DEF ReceiveError, ChannelsOf
    <2>3. CASE r \notin ChannelsOf(c)
      BY <1>0, <1>7, <1>a, <2>1, <2>3, NothingShown DEF ReceiveError
    <2> QED BY <2>2, <2>3
  <1> QED BY <1>1, <1>2, <1>3, <1>4, <1>5, <1>6, <1>7 DEF RelayReceives

LEMMA ForwardShown ==
  ASSUME IInv, WebFollows, NEW r \in Requests, Forward(r)
  PROVE  Shown
  <1>0. TypeOK /\ UNCHANGED <<web, chan, got>>
    BY DEF IInv, Forward, FetchAnswers, FetchFails, ReplyChunk, ReplyEnds, ReplyFails, relay
  <1>1. CASE CanSend /\ ReplyChunk(r)
    <2>1. fwd[r] = "streaming" /\ fwd' = fwd /\ sent' = [sent EXCEPT ![r] = @ + 1]
      BY <1>0, <1>1 DEF ReplyChunk, Forwards, TypeOK
    <2>2. Promise!Produce(r)
      BY <1>0, <2>1 DEF Promise!Produce
    <2> QED BY <1>0, <2>2 DEF Shown, WebFollows, Promise!Next
  <1>2. CASE CanSend /\ ReplyEnds(r)
    <2>1. fwd' = [fwd EXCEPT ![r] = "ended"] /\ UNCHANGED sent
      BY <1>2 DEF ReplyEnds, Forwards
    <2>2. {q \in Requests : fwd'[q] = "ended"} = {q \in Requests : fwd[q] = "ended"} \cup {r}
      BY <1>0, <2>1 DEF TypeOK
    <2>3. Promise!Finish(r)
      BY <1>0, <2>1, <2>2 DEF Promise!Finish
    <2> QED BY <1>0, <2>3 DEF Shown, WebFollows, Promise!Next
  <1>3. CASE ~ (CanSend /\ (ReplyChunk(r) \/ ReplyEnds(r)))
    <2>1. Quiet
      BY <1>3, QuietForward DEF Forward
    <2> QED BY <1>0, <2>1, NothingShown DEF Quiet
  <1> QED BY <1>1, <1>2, <1>3

LEMMA OthersShown ==
  ASSUME IInv, SocketInv, WebFollows,
         \/ \E c \in Connection : ClientReceives(c) \/ Connect(c) \/ Lose(c)
         \/ HeartbeatTimeout \/ Revoke \/ Reconfigure
         \/ UNCHANGED rest
  PROVE  Shown
  <1>0. TypeOK /\ UNCHANGED <<got, sent>>
    BY DEF IInv, ClientReceives, Connect, Lose, Open, TakeAck, TakeOpen, TakeChunk, TakeEnd, TakeCancel,
           ClientRefuses, ClientClosed, HeartbeatTimeout, Revoke, Reconfigure, client, relay, rest
  <1>1. CASE HeartbeatTimeout
    BY <1>0, <1>1, FailChannelsShown DEF HeartbeatTimeout, client
  <1>2. ASSUME NEW c \in Connection, TakeOpen(c) PROVE Shown
    <2>1. UNCHANGED <<web, chan>>
      BY <1>2 DEF TakeOpen, relay
    <2> DEFINE r == Head(down[c]).req
    <2>2. fwd' = [fwd EXCEPT ![r] = "fetching"]
      BY <1>2 DEF TakeOpen
    <2>3. fwd[r] = "none"
      <3>1. down[c] \in Seq(Message)
        BY <1>0 DEF TypeOK
      <3>2. 1 \in DOMAIN down[c] /\ Head(down[c]) = down[c][1]
        BY <1>2, <3>1, TailFacts DEF TakeOpen, Delivered
      <3> QED BY <1>2, <3>2 DEF SocketInv, OpensOnce, Opens, TakeOpen, Delivered
    <2>4. {q \in Requests : fwd'[q] = "ended"} = {q \in Requests : fwd[q] = "ended"}
      BY <1>0, <2>2, <2>3 DEF TypeOK
    <2> QED BY <1>0, <2>1, <2>4 DEF Shown, WebFollows, Promise!vars
  <1>3. CASE /\ UNCHANGED <<web, chan>>
             /\ FwdQuiet
    BY <1>0, <1>3, NothingShown
  <1>4. ASSUME NEW c \in Connection, ClientReceives(c) \/ Connect(c) \/ Lose(c), ~ TakeOpen(c)
        PROVE  UNCHANGED <<web, chan>> /\ FwdQuiet
    <2>1. UNCHANGED <<web, chan>>
      BY <1>4 DEF ClientReceives, Connect, Lose, Open, TakeAck, TakeChunk, TakeEnd, TakeCancel,
                  ClientRefuses, ClientClosed, relay
    <2>2. CASE TakeAck(c)
      BY <1>0, <2>1, <2>2, SameQuiet DEF TakeAck
    <2>3. CASE ~ TakeAck(c)
      BY <1>4, <2>1, <2>3, QuietClient, QuietConnect DEF ClientReceives, Quiet
    <2> QED BY <2>1, <2>2, <2>3
  <1>5. ASSUME Revoke \/ Reconfigure \/ UNCHANGED rest PROVE UNCHANGED <<web, chan>> /\ FwdQuiet
    BY <1>0, <1>5, SameQuiet DEF Revoke, Reconfigure, rest, relay, client
  <1> QED BY <1>1, <1>2, <1>3, <1>4, <1>5

LEMMA StepShown == IInv /\ SocketInv /\ WebFollows /\ [Next]_vars => Shown
  BY WebShown, RelayShown, ForwardShown, OthersShown, TimeMovesNothing DEF Next

LEMMA InitShown == Init => Promise!Init
  BY DEF Init, Promise!Init

\* Whatever becomes of sockets, epochs, timers and runtimes, and however many
\* requests there are, a caller is given a prefix of the reply the local server
\* produced, in order, and a response that ends well is the whole of it
\* (server.ts:371-385, client.ts:295-324).
THEOREM RelayImplementsExchange == Spec => ImplementsExchange
  <1>1. IInv /\ SocketInv /\ WebFollows /\ [Next]_vars
          => (SocketInv /\ WebFollows)' /\ [Promise!Next]_(Promise!vars)
    BY SocketStep, StepShown DEF Shown
  <1> QED BY InvHolds, SocketInit, InitShown, <1>1, PTL DEF Spec, ImplementsExchange, Promise!Spec

-----------------------------------------------------------------------------
(* What the ends refuse.  A connection has one epoch, and what it carries  *)
(* is under it (ConnInv); what is still to come tells how far its request  *)
(* has got (ReqInv); and the chunks of a body and of a reply that was not  *)
(* cut short follow one another, none missing, from the last that was      *)
(* taken to the last that was sent (UncutInv).                             *)

-----------------------------------------------------------------------------
(* The connections, and the epochs that tell them apart.                   *)

BothOpen(c) == relayEnd[c] = "open" /\ clientEnd[c] = "open"

\* A connection says hello once, before it has an epoch.
HelloOnce ==
    \A c \in Connection : \A i \in DOMAIN up[c] :
        /\ up[c][i].type # "hello_ack"
        /\ up[c][i].type = "hello" =>
             epoch[c] = 0 /\ \A j \in DOMAIN up[c] : up[c][j].type = "hello" => j = i

\* An open connection that was given an epoch is the runtime.
RuntimeHasEpoch ==
    \A c \in Connection : /\ epoch[c] # 0 /\ relayEnd[c] = "open" => runtime = c
                          /\ runtime = c => epoch[c] # 0

\* What the relay sends is under the epoch of the connection; hello is not for
\* it to say.
DownIsOfEpoch ==
    \A c \in Connection : \A i \in DOMAIN down[c] :
        /\ down[c][i].type # "close" => down[c][i].epoch = epoch[c] /\ epoch[c] # 0
        /\ down[c][i].type # "hello"

\* The client has no identity, or that of its socket.
IdentIsEpoch ==
    /\ cur = 0 => ident = 0
    /\ ident # 0 => ident = epoch[cur]

AckLeads(s) == \A i \in DOMAIN s : s[i].type \notin {"hello_ack", "close"} => \E j \in DOMAIN s : j < i /\ Acks(s[j])

\* Until it has one, the ack is ahead of every request.
AckComesFirst ==
    cur # 0 /\ ident = 0 =>
        /\ AckLeads(down[cur])
        /\ epoch[cur] # 0 /\ BothOpen(cur) => \E j \in DOMAIN down[cur] : Acks(down[cur][j])

ConnInv == HelloOnce /\ RuntimeHasEpoch /\ DownIsOfEpoch /\ IdentIsEpoch /\ AckComesFirst

-----------------------------------------------------------------------------
(* What the messages tell of their requests.                               *)

Finishes(m) == m.type \in {"response_end", "response_error"}

Fresh(r) ==
    web[r] = "new" =>
        chan[r] = "none" /\ pump[r] = "none" /\ pumped[r] = 0 /\ taken[r] = 0

Known(r) ==
    /\ on[r] # 0 => chan[r] # "none"
    /\ pump[r] = "reading" => r \in Bodies
    /\ r \in channels => fwd[r] # "none"

DownTells(r) ==
    \A c \in Connection : \A i \in DOMAIN down[c] : down[c][i].req = r =>
        /\ web[r] # "new"
        /\ down[c][i].type = "request_chunk" => r \in Bodies
        /\ down[c][i].type = "request_cancel" => r \in cut

\* Nothing follows the end of a reply, or an error.
UpTells(r) ==
    \A c \in Connection : \A i \in DOMAIN up[c] : up[c][i].req = r =>
        /\ fwd[r] \notin {"none", "fetching"}
        /\ Finishes(up[c][i]) => /\ fwd[r] \in {"ended", "over"}
                                 /\ \A j \in DOMAIN up[c] : j > i => up[c][j].req # r

ReqInv == \A r \in Requests : Fresh(r) /\ Known(r) /\ DownTells(r) /\ UpTells(r)

-----------------------------------------------------------------------------
(* Requests that were not cut.                                             *)

About(m, type, r) == m.type = type /\ m.req = r

\* Chunk n of r is in s; it is there before p.
Has(s, type, r, n) == \E i \in DOMAIN s : About(s[i], type, r) /\ s[i].n = n
HasBefore(s, p, type, r, n) == \E i \in DOMAIN s : i < p /\ About(s[i], type, r) /\ s[i].n = n

\* The chunks of r in s are numbered from a, without a gap, in their order.
InOrder(s, type, r, a) ==
    \A i \in DOMAIN s : About(s[i], type, r) =>
        a <= s[i].n /\ \A k \in Nat : HasBefore(s, i, type, r, k) <=> (a <= k /\ k < s[i].n)

\* They are those from a to b.
AllOf(s, type, r, a, b) == a <= b /\ \A k \in Nat : Has(s, type, r, k) <=> (a <= k /\ k < b)

Sees(s, type, r) == \E j \in DOMAIN s : About(s[j], type, r)
Behind(s, type, r, first) ==
    \A i \in DOMAIN s : About(s[i], type, r) => \E j \in DOMAIN s : j < i /\ About(s[j], first, r)

Answered(r) ==
    \/ fwd[r] \in {"streaming", "ended"}
    \/ chan[r] = "done"
    \/ \E c \in Connection : \E i \in DOMAIN up[c] : up[c][i].req = r

\* Such a request was read before it was answered, and the client and its
\* socket are those it was taken on.
Steady(r) ==
    /\ Answered(r) => ~ Unread(r)
    /\ pump[r] = "reading" => Live(r)
    /\ r \in channels => cur # 0 /\ cur = on[r]
    /\ fwd[r] \in Working => r \in channels /\ ident # 0 /\ under[r] = ident
    /\ fwd[r] \in {"none", "fetching"} => chan[r] \in {"none", "waiting"}

\* The chunks of its body that are on their way are the next ones, behind the
\* message that opens it.
BodyComes(r) ==
    cur # 0 => /\ InOrder(down[cur], "request_chunk", r, taken[r])
               /\ r \in channels \/ Behind(down[cur], "request_chunk", r, "request_open")

\* As long as the socket is open nothing that was sent is lost.
BodyGoes(r) ==
    cur # 0 /\ cur = on[r] /\ BothOpen(cur) /\ pump[r] = "reading" =>
        /\ AllOf(down[cur], "request_chunk", r, taken[r], pumped[r])
        /\ r \in channels \/ Sees(down[cur], "request_open", r)

\* The same of its reply.
ReplyIsOfRuntime(r) ==
    \A c \in Connection : relayEnd[c] = "open" =>
        \A i \in DOMAIN up[c] : up[c][i].req = r => up[c][i].epoch = epoch[c] /\ epoch[c] # 0 /\ on[r] = c

ReplyComes(r) ==
    \A c \in Connection : relayEnd[c] = "open" =>
        /\ InOrder(up[c], "response_chunk", r, got[r])
        /\ Sees(up[c], "response_chunk", r) =>
             chan[r] = "open" \/ (chan[r] = "waiting" /\ Behind(up[c], "response_chunk", r, "response_open"))

ReplyGoes(r) ==
    fwd[r] = "streaming" /\ cur # 0 /\ BothOpen(cur) =>
        /\ AllOf(up[cur], "response_chunk", r, got[r], sent[r])
        /\ chan[r] = "open" \/ (chan[r] = "waiting" /\ Sees(up[cur], "response_open", r))

BodyInv(r)  == BodyComes(r) /\ BodyGoes(r)
ReplyInv(r) == ReplyIsOfRuntime(r) /\ ReplyComes(r) /\ ReplyGoes(r)
Uncut(r)    == Steady(r) /\ BodyInv(r) /\ ReplyInv(r)
UncutInv == \A r \in Requests \ cut : Uncut(r)

-----------------------------------------------------------------------------
(* What a step does to the messages about a request.                       *)

\* t is s with messages of M behind it.
Extends(s, t, M) ==
    /\ \A i \in DOMAIN s : i \in DOMAIN t /\ t[i] = s[i]
    /\ \A j \in DOMAIN t : j \in DOMAIN s \/ (t[j] \in M /\ \A i \in DOMAIN s : i < j)

\* t has the messages of s that are about r and of a type in T, moved by k.
BesideAt(s, t, k, r, T) ==
    /\ \A j \in DOMAIN t : t[j].type \in T /\ t[j].req = r => j + k \in DOMAIN s /\ s[j + k] = t[j]
    /\ \A i \in DOMAIN s : s[i].type \in T /\ s[i].req = r => i - k \in DOMAIN t /\ t[i - k] = s[i]
Beside(s, t, r, T) == \E k \in {0, 1} : BesideAt(s, t, k, r, T)

LEMMA ExtendsCases ==
  ASSUME NEW s \in Seq(Message), NEW M \in SUBSET Message
  PROVE  /\ Extends(s, s, M)
         /\ \A m \in M : Extends(s, s \o <<m>>, M) /\ Extends(s, Append(s, m), M)
         /\ \A m1, m2 \in M : Extends(s, s \o <<m1, m2>>, M)
  <1>0. DOMAIN s = 1 .. Len(s) /\ Len(s) \in Nat
    OBVIOUS
  <1>1. ASSUME NEW m \in M PROVE Extends(s, s \o <<m>>, M) /\ Append(s, m) = s \o <<m>>
    <2>1. /\ DOMAIN (s \o <<m>>) = 1 .. (Len(s) + 1)
          /\ \A i \in 1 .. Len(s) : (s \o <<m>>)[i] = s[i]
          /\ (s \o <<m>>)[Len(s) + 1] = m
          /\ Append(s, m) = s \o <<m>>
      BY AppendFacts
    <2>2. \A j \in 1 .. (Len(s) + 1) : j \in 1 .. Len(s) \/ j = Len(s) + 1
      BY <1>0
    <2>3. \A i \in 1 .. Len(s) : i \in 1 .. (Len(s) + 1) /\ i < Len(s) + 1
      BY <1>0
    <2> QED BY <1>0, <2>1, <2>2, <2>3 DEF Extends
  <1>2. ASSUME NEW m1 \in M, NEW m2 \in M PROVE Extends(s, s \o <<m1, m2>>, M)
    <2> DEFINE t == s \o <<m1, m2>>
    <2>1. <<m1, m2>> \in Seq(Message) /\ Len(<<m1, m2>>) = 2
      OBVIOUS
    <2>2. /\ DOMAIN t = 1 .. (Len(s) + 2)
          /\ \A i \in 1 .. Len(s) : t[i] = s[i]
      BY <1>0, <2>1
    <2>3. ASSUME NEW j \in DOMAIN t, j \notin DOMAIN s PROVE t[j] \in M /\ \A i \in DOMAIN s : i < j
      <3>1. t[j] \in M
        BY <2>3, TwoFacts
      <3>2. j \in 1 .. (Len(s) + 2) /\ j \notin 1 .. Len(s)
        BY <1>0, <2>2, <2>3
      <3>3. \A i \in 1 .. Len(s) : i < j
        BY <1>0, <3>2
      <3> QED BY <1>0, <3>1, <3>3
    <2>4. \A i \in 1 .. Len(s) : i \in 1 .. (Len(s) + 2)
      BY <1>0
    <2> QED BY <1>0, <2>2, <2>3, <2>4 DEF Extends
  <1> QED BY <1>0, <1>1, <1>2 DEF Extends

LEMMA BesideExtends ==
  ASSUME NEW s \in Seq(Message), NEW t \in Seq(Message), NEW M, Extends(s, t, M), NEW r, NEW T,
         \A m \in M : ~ (m.type \in T /\ m.req = r)
  PROVE  Beside(s, t, r, T)
  <1>1. \A i \in DOMAIN s : i + 0 = i /\ i - 0 = i
    OBVIOUS
  <1>2. \A j \in DOMAIN t : j + 0 = j
    OBVIOUS
  <1>3. BesideAt(s, t, 0, r, T)
    BY <1>1, <1>2 DEF Extends, BesideAt
  <1> QED BY <1>3 DEF Beside

LEMMA BesideTail ==
  ASSUME NEW s \in Seq(Message), s # <<>>, NEW r, NEW T, ~ (Head(s).type \in T /\ Head(s).req = r)
  PROVE  Beside(s, Tail(s), r, T)
  <1>1. \A j \in DOMAIN Tail(s) : j + 1 \in DOMAIN s /\ Tail(s)[j] = s[j + 1]
    BY TailFacts
  <1>2. ASSUME NEW i \in DOMAIN s, s[i].type \in T /\ s[i].req = r PROVE i - 1 \in DOMAIN Tail(s) /\ Tail(s)[i - 1] = s[i]
    <2>1. i # 1 /\ i \in 1 .. Len(s) /\ Len(s) \in Nat
      BY <1>2, TailFacts
    <2>2. i - 1 \in 1 .. (Len(s) - 1) /\ (i - 1) + 1 = i
      BY <2>1
    <2> QED BY <2>2, TailFacts
  <1>3. BesideAt(s, Tail(s), 1, r, T)
    BY <1>1, <1>2 DEF BesideAt
  <1> QED BY <1>3 DEF Beside

LEMMA BesideSame ==
  ASSUME NEW s \in Seq(Message), NEW r, NEW T
  PROVE  Beside(s, s, r, T)
  <1>1. Extends(s, s, {})
    BY ExtendsCases
  <1> QED BY <1>1, BesideExtends

LEMMA HasBeside ==
  ASSUME NEW s \in Seq(Message), NEW t \in Seq(Message), NEW k \in {0, 1}, NEW r, NEW T, BesideAt(s, t, k, r, T),
         NEW type \in T, NEW n, NEW p \in Int
  PROVE  HasBefore(t, p, type, r, n) <=> HasBefore(s, p + k, type, r, n)
  <1>0. \A i \in DOMAIN s : i \in Int /\ i - k \in Int /\ (i < p + k => i - k < p)
    OBVIOUS
  <1>1. \A j \in DOMAIN t : j \in Int /\ j + k \in Int /\ (j < p => j + k < p + k)
    OBVIOUS
  <1>2. ASSUME NEW j \in DOMAIN t, j < p, About(t[j], type, r), t[j].n = n PROVE HasBefore(s, p + k, type, r, n)
    BY <1>1, <1>2 DEF BesideAt, About, HasBefore
  <1>3. ASSUME NEW i \in DOMAIN s, i < p + k, About(s[i], type, r), s[i].n = n PROVE HasBefore(t, p, type, r, n)
    BY <1>0, <1>3 DEF BesideAt, About, HasBefore
  <1> QED BY <1>2, <1>3 DEF HasBefore

LEMMA InOrderBeside ==
  ASSUME NEW s \in Seq(Message), NEW t \in Seq(Message), NEW r, NEW T, Beside(s, t, r, T), NEW type \in T,
         NEW a, InOrder(s, type, r, a)
  PROVE  InOrder(t, type, r, a)
  <1>1. PICK k \in {0, 1} : BesideAt(s, t, k, r, T)
    BY DEF Beside
  <1>2. ASSUME NEW j \in DOMAIN t, About(t[j], type, r)
        PROVE  a <= t[j].n /\ \A n \in Nat : HasBefore(t, j, type, r, n) <=> (a <= n /\ n < t[j].n)
    <2>1. j + k \in DOMAIN s /\ s[j + k] = t[j] /\ j \in Int
      BY <1>1, <1>2 DEF BesideAt, About
    <2>2. a <= t[j].n /\ \A n \in Nat : HasBefore(s, j + k, type, r, n) <=> (a <= n /\ n < t[j].n)
      BY <1>2, <2>1 DEF InOrder
    <2> QED BY <1>1, <2>1, <2>2, HasBeside
  <1> QED BY <1>2 DEF InOrder

LEMMA SeesBeside ==
  ASSUME NEW s, NEW t, NEW r, NEW T, Beside(s, t, r, T), NEW type \in T
  PROVE  /\ Sees(t, type, r) <=> Sees(s, type, r)
         /\ \A n : Has(t, type, r, n) <=> Has(s, type, r, n)
  BY DEF Beside, BesideAt, Sees, Has, About

LEMMA AllOfBeside ==
  ASSUME NEW s, NEW t, NEW r, NEW T, Beside(s, t, r, T), NEW type \in T, NEW a, NEW b, AllOf(s, type, r, a, b)
  PROVE  AllOf(t, type, r, a, b)
  BY SeesBeside DEF AllOf

LEMMA BehindBeside ==
  ASSUME NEW s \in Seq(Message), NEW t \in Seq(Message), NEW r, NEW T, Beside(s, t, r, T),
         NEW type \in T, NEW first \in T, Behind(s, type, r, first)
  PROVE  Behind(t, type, r, first)
  <1>1. PICK k \in {0, 1} : BesideAt(s, t, k, r, T)
    BY DEF Beside
  <1>2. ASSUME NEW j \in DOMAIN t, About(t[j], type, r) PROVE \E i \in DOMAIN t : i < j /\ About(t[i], first, r)
    <2>1. j + k \in DOMAIN s /\ s[j + k] = t[j] /\ j \in Int
      BY <1>1, <1>2 DEF BesideAt, About
    <2>2. PICK i \in DOMAIN s : i < j + k /\ About(s[i], first, r)
      BY <1>2, <2>1 DEF Behind
    <2>3. i - k \in DOMAIN t /\ t[i - k] = s[i] /\ i \in Int
      BY <1>1, <2>2 DEF BesideAt, About
    <2>4. i - k < j
      BY <2>1, <2>2, <2>3
    <2> QED BY <2>2, <2>3, <2>4
  <1> QED BY <1>2 DEF Behind

\* A chunk follows all of those before it.
LEMMA OwnChunk ==
  ASSUME NEW s \in Seq(Message), NEW type, NEW r, NEW a \in Nat, NEW b \in Nat, NEW m \in Message,
         About(m, type, r), m.n = b, InOrder(s, type, r, a), AllOf(s, type, r, a, b)
  PROVE  InOrder(s \o <<m>>, type, r, a) /\ AllOf(s \o <<m>>, type, r, a, b + 1)
  <1> DEFINE t == s \o <<m>>
             l == Len(s) + 1
  <1>0. /\ Len(s) \in Nat /\ DOMAIN s = 1 .. Len(s) /\ DOMAIN t = 1 .. l
        /\ \A i \in 1 .. Len(s) : t[i] = s[i]
        /\ t[l] = m
    BY AppendFacts
  <1>1. \A j \in 1 .. l : j \in 1 .. Len(s) \/ j = l
    BY <1>0
  <1>2. \A j \in 1 .. Len(s) : j < l /\ j \in 1 .. l /\ ~ (l < j)
    BY <1>0
  <1>3. l \in 1 .. l /\ ~ (l < l)
    BY <1>0
  <1> HIDE DEF t, l
  <1>4. \A i \in 1 .. Len(s) : \A n : HasBefore(t, i, type, r, n) <=> HasBefore(s, i, type, r, n)
    BY <1>0, <1>1, <1>2 DEF HasBefore
  <1>5. \A n : HasBefore(t, l, type, r, n) <=> Has(s, type, r, n)
    BY <1>0, <1>1, <1>2, <1>3 DEF HasBefore, Has
  <1>6. \A n : Has(t, type, r, n) <=> Has(s, type, r, n) \/ n = b
    BY <1>0, <1>1, <1>2, <1>3 DEF Has
  <1>7. InOrder(t, type, r, a)
    <2>1. ASSUME NEW j \in 1 .. l, About(t[j], type, r)
          PROVE  a <= t[j].n /\ \A k \in Nat : HasBefore(t, j, type, r, k) <=> (a <= k /\ k < t[j].n)
      <3>1. CASE j \in 1 .. Len(s)
        BY <1>0, <1>4, <2>1, <3>1 DEF InOrder
      <3>2. CASE j = l
        BY <1>0, <1>5, <3>2 DEF AllOf
      <3> QED BY <1>1, <3>1, <3>2
    <2> QED BY <1>0, <2>1 DEF InOrder
  <1>8. AllOf(t, type, r, a, b + 1)
    <2>1. a <= b + 1
      BY DEF AllOf
    <2>2. \A k \in Nat : (a <= k /\ k < b + 1) <=> (a <= k /\ k < b) \/ k = b
      BY DEF AllOf
    <2> QED BY <1>6, <2>1, <2>2 DEF AllOf
  <1> QED BY <1>7, <1>8 DEF t

\* The first chunk is the next one, and then the one after it.
LEMMA OwnTail ==
  ASSUME NEW s \in Seq(Message), s # <<>>, NEW type, NEW r, NEW a \in Nat, About(Head(s), type, r), InOrder(s, type, r, a)
  PROVE  /\ Head(s).n = a
         /\ InOrder(Tail(s), type, r, a + 1)
         /\ \A b \in Nat : AllOf(s, type, r, a, b) => AllOf(Tail(s), type, r, a + 1, b)
  <1> DEFINE t == Tail(s)
             l == Len(s) - 1
  <1>0. /\ Len(s) \in Nat /\ Len(s) >= 1 /\ DOMAIN s = 1 .. Len(s) /\ Head(s) = s[1]
        /\ DOMAIN t = 1 .. l
        /\ \A i \in 1 .. l : t[i] = s[i + 1]
    BY TailFacts
  <1>00. l \in Nat
    BY <1>0
  <1>a. \A i \in 1 .. Len(s) : i = 1 \/ (i - 1 \in 1 .. l /\ (i - 1) + 1 = i /\ ~ (i < 1))
    BY <1>0
  <1>b. \A i \in 1 .. l : i + 1 \in 1 .. Len(s) /\ i + 1 > 1
    BY <1>0
  <1>c. \A i \in 1 .. Len(s) : s[i] \in Message
    BY <1>0
  <1>d. \A m \in Message : m.n \in Nat
    BY DEF Message
  <1>1. Head(s).n = a
    <2>1. 1 \in DOMAIN s /\ s[1].n \in Nat
      BY <1>0, <1>c, <1>d
    <2>2. ~ HasBefore(s, 1, type, r, a)
      BY <1>0, <1>a DEF HasBefore
    <2>3. a <= s[1].n /\ ~ (a < s[1].n)
      BY <1>0, <2>1, <2>2 DEF InOrder
    <2> QED BY <1>0, <2>1, <2>3
  <1>2. \A i \in 1 .. l, n \in Nat : HasBefore(s, i + 1, type, r, n) <=> HasBefore(t, i, type, r, n) \/ n = a
    <2> TAKE i \in 1 .. l, n \in Nat
    <2>1. ASSUME NEW j \in 1 .. Len(s), j < i + 1, About(s[j], type, r), s[j].n = n PROVE HasBefore(t, i, type, r, n) \/ n = a
      <3>1. CASE j = 1
        BY <1>0, <1>1, <2>1, <3>1
      <3>2. CASE j # 1
        <4>1. j - 1 \in 1 .. l /\ t[j - 1] = s[j] /\ j - 1 < i
          BY <1>0, <1>00, <1>a, <2>1, <3>2
        <4> QED BY <1>0, <2>1, <4>1 DEF HasBefore
      <3> QED BY <3>1, <3>2
    <2>2. ASSUME NEW j \in 1 .. l, j < i, About(t[j], type, r), t[j].n = n PROVE HasBefore(s, i + 1, type, r, n)
      <3>1. j + 1 \in 1 .. Len(s) /\ s[j + 1] = t[j] /\ j + 1 < i + 1
        BY <1>0, <1>00, <1>b, <2>2
      <3> QED BY <1>0, <2>2, <3>1 DEF HasBefore
    <2>3. n = a => HasBefore(s, i + 1, type, r, n)
      <3>1. 1 \in 1 .. Len(s) /\ 1 < i + 1
        BY <1>0, <1>00, <1>b
      <3> QED BY <1>0, <1>1, <3>1 DEF HasBefore
    <2> QED BY <1>0, <2>1, <2>2, <2>3 DEF HasBefore
  <1>3. \A i \in 1 .. l : ~ HasBefore(t, i, type, r, a)
    <2> SUFFICES ASSUME NEW i \in 1 .. l, NEW j \in 1 .. l, j < i, About(t[j], type, r), t[j].n = a PROVE FALSE
      BY <1>0 DEF HasBefore
    <2>1. j + 1 \in DOMAIN s /\ s[j + 1] = t[j] /\ 1 \in DOMAIN s /\ 1 < j + 1
      BY <1>0, <1>00, <1>b
    <2>2. HasBefore(s, j + 1, type, r, a)
      BY <1>0, <1>1, <2>1 DEF HasBefore
    <2>3. a < s[j + 1].n
      BY <2>1, <2>2 DEF InOrder
    <2> QED BY <2>1, <2>3
  <1>4. ASSUME NEW i \in 1 .. l, About(t[i], type, r)
        PROVE  a + 1 <= t[i].n /\ \A k \in Nat : HasBefore(t, i, type, r, k) <=> (a + 1 <= k /\ k < t[i].n)
    <2>1. i + 1 \in DOMAIN s /\ s[i + 1] = t[i]
      BY <1>0, <1>b
    <2>2. \A k \in Nat : HasBefore(s, i + 1, type, r, k) <=> (a <= k /\ k < t[i].n)
      BY <1>4, <2>1 DEF InOrder
    <2>3. a < t[i].n /\ t[i].n \in Nat
      BY <1>0, <1>2, <1>c, <1>d, <2>1, <2>2
    <2>4. \A k \in Nat : (a + 1 <= k /\ k < t[i].n) <=> (a <= k /\ k < t[i].n /\ k # a)
      OBVIOUS
    <2> QED BY <1>2, <1>3, <2>2, <2>3, <2>4
  <1>5. InOrder(t, type, r, a + 1)
    BY <1>0, <1>4 DEF InOrder
  <1>6. ASSUME NEW b \in Nat, AllOf(s, type, r, a, b) PROVE AllOf(t, type, r, a + 1, b)
    <2>1. Has(s, type, r, a)
      <3>1. 1 \in DOMAIN s
        BY <1>0
      <3> QED BY <1>0, <1>1, <3>1 DEF Has
    <2>2. a < b
      BY <1>6, <2>1 DEF AllOf
    <2>3. ~ Has(t, type, r, a)
      <3> SUFFICES ASSUME NEW j \in 1 .. l, About(t[j], type, r), t[j].n = a PROVE FALSE
        BY <1>0 DEF Has
      <3>1. a + 1 <= t[j].n
        BY <1>4
      <3> QED BY <3>1
    <2>4. \A k \in Nat : Has(s, type, r, k) <=> Has(t, type, r, k) \/ k = a
      <3> TAKE k \in Nat
      <3>1. ASSUME NEW j \in 1 .. Len(s), About(s[j], type, r), s[j].n = k PROVE Has(t, type, r, k) \/ k = a
        <4>1. CASE j = 1
          BY <1>0, <1>1, <3>1, <4>1
        <4>2. CASE j # 1
          <5>1. j - 1 \in 1 .. l /\ t[j - 1] = s[j]
            BY <1>0, <1>a, <3>1, <4>2
          <5> QED BY <1>0, <3>1, <5>1 DEF Has
        <4> QED BY <4>1, <4>2
      <3>2. ASSUME NEW j \in 1 .. l, About(t[j], type, r), t[j].n = k PROVE Has(s, type, r, k)
        <4>1. j + 1 \in 1 .. Len(s) /\ s[j + 1] = t[j]
          BY <1>0, <1>b
        <4> QED BY <1>0, <3>2, <4>1 DEF Has
      <3> QED BY <1>0, <2>1, <3>1, <3>2 DEF Has
    <2>5. \A k \in Nat : (a + 1 <= k /\ k < b) <=> (a <= k /\ k < b /\ k # a)
      OBVIOUS
    <2> QED BY <1>6, <2>2, <2>3, <2>4, <2>5 DEF AllOf
  <1> QED BY <1>1, <1>5, <1>6

-----------------------------------------------------------------------------
(* How the sockets change.                                                 *)

\* What the relay may send on c: a close, or, if it is the runtime, a message
\* of a type in T about a request in R.
NewDown(c, R, T) ==
    {m \in Message : \/ m = Close
                     \/ /\ c = runtime /\ BothOpen(c)
                        /\ m.type \in T /\ m.req \in R /\ m.epoch = epoch[c]}

DownGrows(R, T) ==
    \A c \in Connection : \/ down'[c] = <<>> /\ clientEnd'[c] # "open"
                          \/ Extends(down[c], down'[c], NewDown(c, R, T))

\* The client takes a message.
DownTaken(c) ==
    /\ cur = c /\ down[c] # <<>>
    /\ \A d \in Connection : down'[d] = IF d = c THEN Tail(down[c]) ELSE down[d]

\* What becomes of the rest of a connection.
EndsGoOn ==
    /\ UNCHANGED epoch
    /\ \A c \in Connection : /\ relayEnd'[c] = "open" => relayEnd[c] = "open" \/ epoch[c] = 0
                             /\ clientEnd'[c] = "open" => clientEnd[c] = "open" \/ epoch[c] = 0
    /\ runtime' = runtime \/ (runtime' = 0 /\ (runtime # 0 => relayEnd'[runtime] # "open"))

IdentGoesOn == (cur' = cur /\ ident' = ident) \/ (cur' = 0 /\ ident' = 0)

LEMMA CloseIsOfNobody == Close \in Message /\ Close.type = "close" /\ Close.req = NoRequest /\ NoRequest \notin Requests
  BY CloseIsMessage, RelayAssumption DEF Close, Msg

LEMMA ToClientExtends ==
  ASSUME TypeOK, NEW c \in Connection, NEW M \in SUBSET Message
  PROVE  /\ \A m \in M : Extends(down[c], ToClient(c, <<m>>), M)
         /\ \A m1, m2 \in M : Extends(down[c], ToClient(c, <<m1, m2>>), M)
  <1>1. down[c] \in Seq(Message)
    BY DEF TypeOK
  <1> QED BY <1>1, ExtendsCases DEF ToClient

\* A close, or nothing.
LEMMA DownSame ==
  ASSUME TypeOK, NEW R, NEW T
  PROVE  /\ UNCHANGED down => DownGrows(R, T)
         /\ \A c \in Connection : RelayCloses(c) => DownGrows(R, T)
         /\ \A c \in Connection : ClientCloses(c) => DownGrows(R, T)
         /\ \A c \in Connection :
              down' = [down EXCEPT ![c] = <<>>] /\ clientEnd'[c] # "open" => DownGrows(R, T)
  <1>0. \A d \in Connection : /\ down[d] \in Seq(Message) /\ NewDown(d, R, T) \in SUBSET Message
                              /\ Close \in NewDown(d, R, T)
    BY CloseIsMessage DEF TypeOK, NewDown
  <1>1. \A d \in Connection : Extends(down[d], down[d], NewDown(d, R, T))
    BY <1>0, ExtendsCases
  <1>2. ASSUME NEW c \in Connection, RelayCloses(c) PROVE DownGrows(R, T)
    <2>1. \A d \in Connection : down'[d] = IF d = c THEN ToClient(c, <<Close>>) ELSE down[d]
      BY <1>2 DEF RelayCloses, TypeOK
    <2>2. Extends(down[c], ToClient(c, <<Close>>), NewDown(c, R, T))
      BY <1>0, ToClientExtends
    <2> QED BY <1>1, <2>1, <2>2 DEF DownGrows
  <1>3. ASSUME NEW c \in Connection, down' = [down EXCEPT ![c] = <<>>], clientEnd'[c] # "open" PROVE DownGrows(R, T)
    <2>1. \A d \in Connection : down'[d] = IF d = c THEN <<>> ELSE down[d]
      BY <1>3 DEF TypeOK
    <2> QED BY <1>1, <1>3, <2>1 DEF DownGrows
  <1>4. ASSUME NEW c \in Connection, ClientCloses(c) PROVE DownGrows(R, T)
    <2>1. down' = [down EXCEPT ![c] = <<>>] /\ clientEnd'[c] # "open"
      BY <1>4 DEF ClientCloses, TypeOK
    <2> QED BY <1>3, <2>1
  <1> QED BY <1>1, <1>2, <1>3, <1>4 DEF DownGrows

\* Messages about a request, to the runtime.
LEMMA DownSent ==
  ASSUME TypeOK, NEW r \in Requests, runtime # 0, NEW m1 \in Message, NEW m2 \in Message, NEW T,
         \A m \in {m1, m2} : m.type \in T /\ m.req = r /\ m.epoch = epoch[runtime],
         \/ down' = [down EXCEPT ![runtime] = ToClient(runtime, <<m1>>)]
         \/ down' = [down EXCEPT ![runtime] = ToClient(runtime, <<m1, m2>>)]
  PROVE  DownGrows({r}, T)
  <1>0. \A d \in Connection : down[d] \in Seq(Message) /\ NewDown(d, {r}, T) \in SUBSET Message
    BY DEF TypeOK, NewDown
  <1>1. \A d \in Connection : Extends(down[d], down[d], NewDown(d, {r}, T))
    BY <1>0, ExtendsCases
  <1>2. runtime \in Connection
    BY DEF TypeOK, Connection
  <1>3. CASE ~ BothOpen(runtime)
    <2>1. \A d \in Connection : down'[d] = down[d]
      BY <1>2, <1>3 DEF ToClient, BothOpen, TypeOK
    <2> QED BY <1>1, <2>1 DEF DownGrows
  <1>4. CASE BothOpen(runtime)
    <2>1. m1 \in NewDown(runtime, {r}, T) /\ m2 \in NewDown(runtime, {r}, T)
      BY <1>4 DEF NewDown
    <2>2. /\ Extends(down[runtime], ToClient(runtime, <<m1>>), NewDown(runtime, {r}, T))
          /\ Extends(down[runtime], ToClient(runtime, <<m1, m2>>), NewDown(runtime, {r}, T))
      BY <1>0, <1>2, <2>1, ToClientExtends
    <2>3. \A d \in Connection : d # runtime => down'[d] = down[d]
      BY <1>2 DEF TypeOK
    <2>4. down'[runtime] \in {ToClient(runtime, <<m1>>), ToClient(runtime, <<m1, m2>>)}
      BY <1>2 DEF TypeOK
    <2> QED BY <1>1, <2>2, <2>3, <2>4 DEF DownGrows
  <1> QED BY <1>3, <1>4

LEMMA WebSends ==
  ASSUME IInv, NEW r \in Requests
  PROVE  /\ WebRequest(r) => DownGrows({r}, {"request_open", "request_end"})
         /\ PumpChunk(r) => DownGrows({r}, {"request_chunk"})
         /\ PumpEnd(r) => DownGrows({r}, {"request_end"})
         /\ PumpFails(r) \/ WebGone(r) \/ TimerFires(r) => DownGrows({r}, {"request_cancel"})
  <1>0. TypeOK /\ (Live(r) /\ runtime = on[r] => runtime # 0)
    BY DEF IInv, ChannelsAreCurrent
  <1>1. runtime # 0 => epoch[runtime] \in Nat
    BY <1>0 DEF TypeOK, Connection
  <1> DEFINE Tell(type, n) == Msg(type, r, n, epoch[runtime])
  <1>2. \A type \in ChannelMessage, n \in Nat : runtime # 0 =>
            Tell(type, n) \in Message /\ Tell(type, n).type = type /\ Tell(type, n).req = r /\ Tell(type, n).epoch = epoch[runtime]
    BY <1>1, MsgIsMessage DEF Msg
  <1> HIDE DEF Tell
  <1>3. \A t1, t2 \in ChannelMessage, n \in Nat : \A T :
            /\ runtime # 0 /\ t1 \in T /\ t2 \in T
            /\ \/ down' = [down EXCEPT ![runtime] = ToClient(runtime, <<Tell(t1, n)>>)]
               \/ down' = [down EXCEPT ![runtime] = ToClient(runtime, <<Tell(t1, n), Tell(t2, n)>>)]
            => DownGrows({r}, T)
    BY <1>0, <1>2, DownSent
  <1>4. \A T : UNCHANGED down => DownGrows({r}, T)
    BY <1>0, DownSame
  <1>5. {"request_open", "request_end", "request_cancel", "request_chunk"} \subseteq ChannelMessage
    BY DEF ChannelMessage
  <1>6. SendCancel(r) /\ runtime # 0 => DownGrows({r}, {"request_cancel"})
    BY <1>3, <1>5 DEF SendCancel, Tell
  <1>7. WebRequest(r) => DownGrows({r}, {"request_open", "request_end"})
    BY <1>3, <1>4, <1>5 DEF WebRequest, Tell
  <1>8. PumpChunk(r) => DownGrows({r}, {"request_chunk"})
    <2>1. pumped[r] \in Nat
      BY <1>0 DEF TypeOK
    <2> QED BY <1>3, <1>4, <1>5, <2>1 DEF PumpChunk, Tell
  <1>9. PumpEnd(r) => DownGrows({r}, {"request_end"})
    BY <1>3, <1>4, <1>5 DEF PumpEnd, Tell
  <1>10. PumpFails(r) \/ WebGone(r) \/ TimerFires(r) => DownGrows({r}, {"request_cancel"})
    BY <1>0, <1>4, <1>6 DEF PumpFails, WebGone, TimerFires
  <1> QED BY <1>7, <1>8, <1>9, <1>10

LEMMA TakenTail ==
  ASSUME TypeOK, NEW c \in Connection, Take(c), cur = c, down[c] # <<>>
  PROVE  DownTaken(c)
  BY DEF Take, TypeOK, DownTaken

-----------------------------------------------------------------------------
(* The epochs.                                                             *)

LEMMA HelloStays ==
  ASSUME TypeOK', HelloOnce, UNCHANGED epoch, NoneUp("hello"), NoneUp("hello_ack")
  PROVE  HelloOnce'
  <1>1. ASSUME NEW c \in Connection, NEW i \in DOMAIN up'[c] PROVE up'[c][i].type # "hello_ack" /\ i \in Int
    <2>1. PICK k \in {0, 1} : OldAt(up[c], up'[c], k, "hello_ack")
      BY DEF NoneUp, Old
    <2>2. up'[c][i].type # "hello_ack"
      BY <1>1, <2>1 DEF OldAt, HelloOnce
    <2>3. up'[c] \in Seq(Message)
      BY DEF TypeOK
    <2>4. i \in Int
      BY <2>3
    <2> QED BY <2>2, <2>4
  <1>2. ASSUME NEW c \in Connection, NEW i \in DOMAIN up'[c], up'[c][i].type = "hello"
        PROVE  epoch[c] = 0 /\ \A j \in DOMAIN up'[c] : up'[c][j].type = "hello" => j = i
    <2>1. PICK k \in {0, 1} : OldAt(up[c], up'[c], k, "hello")
      BY DEF NoneUp, Old
    <2>2. i + k \in DOMAIN up[c] /\ up[c][i + k].type = "hello"
      BY <1>2, <2>1 DEF OldAt
    <2>3. epoch[c] = 0
      BY <2>2 DEF HelloOnce
    <2>4. ASSUME NEW j \in DOMAIN up'[c], up'[c][j].type = "hello" PROVE j = i
      <3>1. j + k \in DOMAIN up[c] /\ up[c][j + k].type = "hello"
        BY <2>1, <2>4 DEF OldAt
      <3>2. j + k = i + k
        BY <2>2, <3>1 DEF HelloOnce
      <3>3. i \in Int /\ j \in Int
        BY <1>1
      <3> QED BY <3>2, <3>3
    <2> QED BY <2>3, <2>4
  <1> QED BY <1>1, <1>2 DEF HelloOnce

LEMMA RuntimeStays ==
  ASSUME TypeOK, RuntimeHasEpoch, EndsGoOn
  PROVE  RuntimeHasEpoch'
  <1>1. 0 \notin Connection
    BY DEF Connection
  <1> QED BY <1>1 DEF RuntimeHasEpoch, EndsGoOn

LEMMA GrowingConn ==
  ASSUME IInv, ConnInv, NEW R, NEW T, "hello" \notin T, DownGrows(R, T), EndsGoOn, IdentGoesOn
  PROVE  DownIsOfEpoch' /\ IdentIsEpoch' /\ AckComesFirst'
  <1>0. TypeOK /\ \A d \in Connection : d = runtime => epoch[d] # 0
    BY DEF IInv, ConnInv, RuntimeHasEpoch
  <1>1. \A d \in Connection : \A m \in NewDown(d, R, T) :
            /\ m.type = "close" \/ (m.epoch = epoch[d] /\ epoch[d] # 0 /\ BothOpen(d))
            /\ m.type # "hello"
    BY <1>0, CloseIsOfNobody DEF NewDown
  <1>2. DownIsOfEpoch'
    <2>1. ASSUME NEW d \in Connection, NEW i \in DOMAIN down'[d]
          PROVE  /\ down'[d][i].type # "close" => down'[d][i].epoch = epoch[d] /\ epoch[d] # 0
                 /\ down'[d][i].type # "hello"
      <3>0. down'[d] # <<>>
        OBVIOUS
      <3>1. Extends(down[d], down'[d], NewDown(d, R, T))
        BY <3>0 DEF DownGrows
      <3>2. CASE i \in DOMAIN down[d]
        BY <2>1, <3>1, <3>2 DEF Extends, ConnInv, DownIsOfEpoch
      <3>3. CASE i \notin DOMAIN down[d]
        BY <1>1, <2>1, <3>1, <3>3 DEF Extends
      <3> QED BY <3>2, <3>3
    <2> QED BY <2>1 DEF DownIsOfEpoch, EndsGoOn
  <1>3. IdentIsEpoch'
    BY DEF ConnInv, IdentIsEpoch, IdentGoesOn, EndsGoOn
  <1>4. ASSUME cur' # 0, ident' = 0
        PROVE  /\ AckLeads(down'[cur])
               /\ epoch[cur] # 0 /\ BothOpen(cur)' => \E j \in DOMAIN down'[cur] : Acks(down'[cur][j])
    <2>1. cur # 0 /\ ident = 0 /\ cur' = cur
      BY <1>4 DEF IdentGoesOn
    <2>2. cur \in Connection
      BY <1>0, <2>1 DEF TypeOK, Connection
    <2>3. AckLeads(down[cur])
      BY <2>1 DEF ConnInv, AckComesFirst
    <2>4. epoch[cur] # 0 /\ BothOpen(cur) => \E j \in DOMAIN down[cur] : Acks(down[cur][j])
      BY <2>1 DEF ConnInv, AckComesFirst
    <2>5. epoch[cur] # 0 /\ BothOpen(cur)' => BothOpen(cur)
      BY <2>1, <2>2 DEF EndsGoOn, BothOpen
    <2>6. CASE down'[cur] = <<>> /\ clientEnd'[cur] # "open"
      <3>1. DOMAIN down'[cur] = {}
        BY <2>6
      <3> QED BY <2>1, <2>6, <3>1 DEF AckLeads, BothOpen
    <2>7. CASE Extends(down[cur], down'[cur], NewDown(cur, R, T))
      <3>1. ASSUME NEW i \in DOMAIN down'[cur], down'[cur][i].type \notin {"hello_ack", "close"}
            PROVE  \E j \in DOMAIN down'[cur] : j < i /\ Acks(down'[cur][j])
        <4>1. CASE i \in DOMAIN down[cur]
          BY <2>3, <2>7, <3>1, <4>1 DEF Extends, AckLeads
        <4>2. CASE i \notin DOMAIN down[cur]
          <5>1. epoch[cur] # 0 /\ BothOpen(cur)
            BY <1>1, <2>2, <2>7, <3>1, <4>2 DEF Extends
          <5> QED BY <2>4, <2>7, <4>2, <5>1 DEF Extends
        <4> QED BY <4>1, <4>2
      <3> QED BY <2>4, <2>5, <2>7, <3>1 DEF Extends, AckLeads
    <2> QED BY <2>2, <2>6, <2>7 DEF DownGrows
  <1>5. AckComesFirst'
    <2>1. cur' # 0 /\ ident' = 0 => cur' = cur /\ epoch' = epoch
      BY DEF IdentGoesOn, EndsGoOn
    <2> QED BY <1>4, <2>1 DEF AckComesFirst
  <1> QED BY <1>2, <1>3, <1>5

\* After a message was taken the client has an identity.
LEMMA TakingConn ==
  ASSUME IInv, ConnInv, NEW c \in Connection, DownTaken(c), EndsGoOn, cur' = cur, ident' # 0,
         ident' = ident \/ ident' = epoch[c]
  PROVE  DownIsOfEpoch' /\ IdentIsEpoch' /\ AckComesFirst'
  <1>1. \A d \in Connection : down[d] \in Seq(Message)
    BY DEF IInv, TypeOK
  <1>2. DownIsOfEpoch'
    <2>1. ASSUME NEW d \in Connection, NEW i \in DOMAIN down'[d]
          PROVE  /\ down'[d][i].type # "close" => down'[d][i].epoch = epoch[d] /\ epoch[d] # 0
                 /\ down'[d][i].type # "hello"
      <3>1. CASE d = c
        <4>1. i + 1 \in DOMAIN down[c] /\ down'[c][i] = down[c][i + 1]
          <5>1. down[c] \in Seq(Message) /\ down[c] # <<>> /\ down'[c] = Tail(down[c])
            BY <1>1 DEF DownTaken
          <5>2. i \in 1 .. (Len(down[c]) - 1) /\ Len(down[c]) \in Nat
            BY <3>1, <5>1, TailFacts
          <5>3. i + 1 \in 1 .. Len(down[c])
            BY <5>2
          <5> QED BY <5>1, <5>2, <5>3, TailFacts
        <4> QED BY <2>1, <3>1, <4>1 DEF ConnInv, DownIsOfEpoch
      <3>2. CASE d # c
        BY <2>1, <3>2 DEF DownTaken, ConnInv, DownIsOfEpoch
      <3> QED BY <3>1, <3>2
    <2> QED BY <2>1 DEF DownIsOfEpoch, EndsGoOn
  <1>3. 0 \notin Connection
    BY DEF Connection
  <1> QED BY <1>2, <1>3 DEF ConnInv, IdentIsEpoch, AckComesFirst, EndsGoOn, DownTaken

-----------------------------------------------------------------------------
(* What the client sends and the relay reads.                              *)

UpSame == \A c \in Connection : up'[c] = up[c] \/ (up'[c] = <<>> /\ relayEnd'[c] # "open")
UpRead(c) == /\ relayEnd[c] = "open" /\ up[c] # <<>>
             /\ \A d \in Connection : up'[d] = IF d = c THEN Tail(up[c]) ELSE up[d]
UpSent(c, m) == \A d \in Connection : up'[d] = IF d = c THEN up[c] \o <<m>> ELSE up[d]

\* Nothing comes to a socket but what is sent.
LEMMA UpIsOld ==
  ASSUME TypeOK, NEW type,
         \/ UpSame
         \/ \E c \in Connection : UpRead(c)
         \/ \E c \in Connection : \E m \in Message : UpSent(c, m) /\ m.type # type
  PROVE  NoneUp(type)
  <1>0. \A c \in Connection : up[c] \in Seq(Message)
    BY DEF TypeOK
  <1> QED BY <1>0, OldCases DEF NoneUp, UpSame, UpRead, UpSent

LEMMA UpCases ==
  ASSUME TypeOK
  PROVE  /\ UNCHANGED up => UpSame
         /\ \A c \in Connection : RelayCloses(c) => UpSame
         /\ \A c \in Connection : up[c] # <<>> /\ relayEnd[c] = "open" /\ Read(c) => UpRead(c)
         /\ \A c \in Connection : ClientCloses(c) => UpSame \/ UpSent(c, Close)
         /\ cur \in Connection => \A m \in Message : Sends(m) => UpSame \/ (BothOpen(cur) /\ UpSent(cur, m))
  <1>0. \A c \in Connection : up[c] \in Seq(Message)
    BY DEF TypeOK
  <1>1. UNCHANGED up => UpSame
    BY DEF UpSame
  <1>2. ASSUME NEW c \in Connection, RelayCloses(c) PROVE UpSame
    BY <1>2 DEF RelayCloses, TypeOK, UpSame
  <1>3. ASSUME NEW c \in Connection, up[c] # <<>>, relayEnd[c] = "open", Read(c) PROVE UpRead(c)
    BY <1>3 DEF Read, TypeOK, UpRead
  <1>4. ASSUME NEW c \in Connection, ClientCloses(c) PROVE UpSame \/ UpSent(c, Close)
    <2>1. Append(up[c], Close) = up[c] \o <<Close>>
      BY <1>0, CloseIsMessage, AppendFacts
    <2>2. \A d \in Connection : up'[d] = IF d = c /\ clientEnd[c] \in {"connecting", "open"} /\ relayEnd[c] = "open"
                                         THEN Append(up[c], Close) ELSE up[d]
      BY <1>4 DEF ClientCloses, TypeOK
    <2> QED BY <2>1, <2>2 DEF UpSame, UpSent
  <1>5. ASSUME cur \in Connection, NEW m \in Message, Sends(m) PROVE UpSame \/ (BothOpen(cur) /\ UpSent(cur, m))
    <2>1. \A d \in Connection : up'[d] = IF d = cur THEN ToRelay(cur, <<m>>) ELSE up[d]
      BY <1>5 DEF Sends, TypeOK
    <2> QED BY <2>1 DEF ToRelay, BothOpen, UpSame, UpSent
  <1> QED BY <1>1, <1>2, <1>3, <1>4, <1>5

\* What forward says about r: nothing, or one message under the epoch it
\* captured or that of now.
Says(r, m) ==
    /\ m \in Message /\ m.req = r
    /\ m.type \in {"response_open", "response_chunk", "response_end", "response_error"}
    /\ m.epoch = under[r] \/ (m.type = "response_error" /\ r \in channels /\ m.epoch = ident)

LEMMA ForwardSays ==
  ASSUME IInv, NEW r \in Requests, Forward(r)
  PROVE  UpSame \/ \E m \in Message : cur \in Connection /\ BothOpen(cur) /\ UpSent(cur, m) /\ Says(r, m)
  <1>0. TypeOK
    BY DEF IInv
  <1>1. UNCHANGED up => UpSame
    BY <1>0, UpCases
  <1>2. CanSend => cur \in Connection
    BY <1>0 DEF CanSend, TypeOK, Connection
  <1>3. \A type \in ChannelMessage, n \in Nat : \A e \in {under[r], ident} : Msg(type, r, n, e) \in Message
    BY <1>0, MsgIsMessage DEF TypeOK
  <1>4. ASSUME NEW m \in Message, CanSend, Sends(m)
        PROVE UpSame \/ (cur \in Connection /\ BothOpen(cur) /\ UpSent(cur, m))
    BY <1>0, <1>2, <1>4, UpCases
  <1>5. ASSUME FetchAnswers(r) \/ FetchFails(r) \/ ReplyChunk(r) \/ ReplyEnds(r), ~ UNCHANGED up
        PROVE CanSend /\ \E m \in Message : Sends(m) /\ Says(r, m)
    <2>1. \A type \in {"response_open", "response_chunk", "response_end", "response_error"}, n \in Nat :
              Msg(type, r, n, under[r]) \in Message /\ Says(r, Msg(type, r, n, under[r]))
      BY <1>3 DEF ChannelMessage, Says, Msg
    <2>2. sent[r] \in Nat
      BY <1>0 DEF TypeOK
    <2> QED BY <1>5, <2>1, <2>2 DEF FetchAnswers, FetchFails, ReplyChunk, ReplyEnds, Forwards
  <1>6. ASSUME ReplyFails(r), ~ UNCHANGED up
        PROVE CanSend /\ \E m \in Message : Sends(m) /\ Says(r, m)
    <2>1. Msg("response_error", r, 0, ident) \in Message /\ (r \in channels => Says(r, Msg("response_error", r, 0, ident)))
      BY <1>3 DEF ChannelMessage, Says, Msg
    <2> QED BY <1>6, <2>1 DEF ReplyFails
  <1> QED BY <1>1, <1>4, <1>5, <1>6 DEF Forward

-----------------------------------------------------------------------------
(* The epochs in every step.                                               *)

LEMMA ConnStays ==
  ASSUME IInv, IInv', ConnInv, NEW R, NEW T, "hello" \notin T, DownGrows(R, T), EndsGoOn, IdentGoesOn, NoneUp("hello"), NoneUp("hello_ack")
  PROVE  ConnInv'
  <1>1. HelloOnce'
    BY HelloStays DEF ConnInv, EndsGoOn, IInv
  <1>2. RuntimeHasEpoch'
    BY RuntimeStays DEF ConnInv, IInv
  <1> QED BY <1>1, <1>2, GrowingConn DEF ConnInv

LEMMA WebConn ==
  ASSUME IInv, IInv', ConnInv, NEW r \in Requests, Web(r)
  PROVE  ConnInv'
  <1>1. UNCHANGED <<up, relayEnd, clientEnd, epoch, runtime, cur, ident>>
    BY DEF Web, WebRequest, PumpChunk, PumpEnd, PumpFails, WebGone, TimerFires, relay, client
  <1>2. EndsGoOn /\ IdentGoesOn
    BY <1>1 DEF EndsGoOn, IdentGoesOn
  <1>3. NoneUp("hello") /\ NoneUp("hello_ack")
    BY <1>1, UpIsOld, UpCases DEF IInv
  <1>4. \E T \in SUBSET ChannelMessage : DownGrows({r}, T)
    BY WebSends DEF Web, ChannelMessage
  <1>5. "hello" \notin ChannelMessage
    BY DEF ChannelMessage
  <1> QED BY <1>2, <1>3, <1>4, <1>5, ConnStays

LEMMA ForwardConn ==
  ASSUME IInv, IInv', ConnInv, NEW r \in Requests, Forward(r)
  PROVE  ConnInv'
  <1>1. UNCHANGED <<down, relayEnd, clientEnd, epoch, runtime, cur, ident>>
    BY DEF Forward, FetchAnswers, FetchFails, ReplyChunk, ReplyEnds, ReplyFails, relay
  <1>2. EndsGoOn /\ IdentGoesOn
    BY <1>1 DEF EndsGoOn, IdentGoesOn
  <1>3. NoneUp("hello") /\ NoneUp("hello_ack")
    BY ForwardSays, UpIsOld DEF IInv, Says
  <1>4. DownGrows({}, {})
    BY <1>1, DownSame DEF IInv
  <1> QED BY <1>2, <1>3, <1>4, ConnStays

\* The steps in which an end closes, or hears of it.
ClosingStep(c) == HelloRefused(c) \/ RelayRefuses(c) \/ RelayClosed(c) \/ ClientRefuses(c) \/ ClientClosed(c) \/ Lose(c)
ReadingStep(c) == ReceiveHead(c) \/ ReceiveChunk(c) \/ ReceiveEnd(c) \/ ReceiveError(c)
OthersStep == HeartbeatTimeout \/ Revoke \/ Reconfigure

\* What they do to the sockets.
LEMMA ClosingShape ==
  ASSUME IInv, \/ \E c \in Connection : ClosingStep(c)
               \/ OthersStep
  PROVE  /\ DownGrows({}, {}) /\ EndsGoOn /\ IdentGoesOn
         /\ UpSame \/ \E c \in Connection : UpSent(c, Close)
  <1>0. TypeOK /\ runtime \in {0} \cup Connection /\ cur \in {0} \cup Connection
    BY DEF IInv, TypeOK, Connection
  <1>1. ASSUME NEW c \in Connection, RelayCloses(c), UNCHANGED <<epoch, cur, ident>>, runtime' = runtime \/ (runtime = c /\ runtime' = 0)
        PROVE  DownGrows({}, {}) /\ EndsGoOn /\ IdentGoesOn /\ UpSame
    <2>1. EndsGoOn
      BY <1>0, <1>1 DEF RelayCloses, TypeOK, EndsGoOn
    <2> QED BY <1>0, <1>1, <2>1, DownSame, UpCases DEF IdentGoesOn
  <1>2. ASSUME NEW c \in Connection, ClientCloses(c), UNCHANGED <<epoch, runtime>>, IdentGoesOn
        PROVE  DownGrows({}, {}) /\ EndsGoOn /\ (UpSame \/ UpSent(c, Close))
    <2>1. EndsGoOn
      BY <1>0, <1>2 DEF ClientCloses, TypeOK, EndsGoOn
    <2> QED BY <1>0, <1>2, <2>1, DownSame, UpCases
  <1>3. ASSUME NEW c \in Connection, ClosingStep(c)
        PROVE  DownGrows({}, {}) /\ EndsGoOn /\ IdentGoesOn /\ (UpSame \/ \E d \in Connection : UpSent(d, Close))
    <2>1. CASE HelloRefused(c) \/ RelayRefuses(c)
      BY <1>1, <2>1 DEF HelloRefused, RelayRefuses, relay, client
    <2>2. CASE RelayClosed(c)
      <3>1. UNCHANGED <<down, epoch, cur, ident, clientEnd>> /\ (runtime' = runtime \/ (runtime = c /\ runtime' = 0))
        BY <2>2 DEF RelayClosed, client
      <3>2. EndsGoOn
        BY <1>0, <2>2, <3>1 DEF RelayClosed, TypeOK, EndsGoOn
      <3>3. UpSame
        BY <1>0, <2>2 DEF RelayClosed, TypeOK, UpSame
      <3> QED BY <1>0, <3>1, <3>2, <3>3, DownSame DEF IdentGoesOn
    <2>3. CASE ClientRefuses(c)
      <3>1. ClientCloses(c) /\ UNCHANGED <<epoch, runtime>> /\ IdentGoesOn
        BY <2>3 DEF ClientRefuses, relay, client, IdentGoesOn
      <3> QED BY <1>2, <3>1
    <2>4. CASE ClientClosed(c)
      <3>1. /\ UNCHANGED <<up, epoch, runtime, relayEnd>> /\ IdentGoesOn
            /\ down' = [down EXCEPT ![c] = <<>>] /\ clientEnd' = [clientEnd EXCEPT ![c] = "closed"]
        BY <2>4 DEF ClientClosed, relay, IdentGoesOn
      <3>2. EndsGoOn /\ clientEnd'[c] # "open"
        BY <1>0, <3>1 DEF TypeOK, EndsGoOn
      <3> QED BY <1>0, <3>1, <3>2, DownSame, UpCases
    <2>5. CASE Lose(c)
      <3>1. /\ UNCHANGED <<epoch, runtime, cur, ident>>
            /\ down' = [down EXCEPT ![c] = <<>>] /\ up' = [up EXCEPT ![c] = <<>>]
            /\ clientEnd' = [clientEnd EXCEPT ![c] = "closing"]
            /\ relayEnd' = [relayEnd EXCEPT ![c] = IF @ = "open" THEN "closing" ELSE @]
        BY <2>5 DEF Lose, relay, client
      <3>2. EndsGoOn /\ clientEnd'[c] # "open" /\ UpSame
        BY <1>0, <3>1 DEF TypeOK, EndsGoOn, UpSame
      <3> QED BY <1>0, <3>1, <3>2, DownSame DEF IdentGoesOn
    <2> QED BY <1>3, <2>1, <2>2, <2>3, <2>4, <2>5 DEF ClosingStep
  <1>4. CASE HeartbeatTimeout
    BY <1>0, <1>1, <1>4 DEF HeartbeatTimeout, client
  <1>5. CASE Revoke
    <2>1. UNCHANGED <<epoch, cur, ident, runtime>>
      BY <1>5 DEF Revoke, client
    <2>2. CASE runtime = 0
      <3>1. UNCHANGED <<down, up, relayEnd, clientEnd>>
        BY <1>5, <2>2 DEF Revoke, sockets
      <3> QED BY <1>0, <2>1, <3>1, DownSame, UpCases DEF EndsGoOn, IdentGoesOn
    <2>3. CASE runtime # 0
      BY <1>0, <1>1, <1>5, <2>1, <2>3 DEF Revoke
    <2> QED BY <2>2, <2>3
  <1>6. CASE Reconfigure
    <2>1. ClientCloses(cur) /\ cur \in Connection /\ UNCHANGED <<epoch, runtime>> /\ IdentGoesOn
      BY <1>0, <1>6 DEF Reconfigure, relay, IdentGoesOn
    <2> QED BY <1>2, <2>1
  <1> QED BY <1>3, <1>4, <1>5, <1>6 DEF OthersStep

LEMMA ClosingConn ==
  ASSUME IInv, IInv', ConnInv, \/ \E c \in Connection : ClosingStep(c)
                               \/ OthersStep
  PROVE  ConnInv'
  <1>1. NoneUp("hello") /\ NoneUp("hello_ack")
    BY ClosingShape, UpIsOld, CloseIsOfNobody DEF IInv
  <1> QED BY <1>1, ClosingShape, ConnStays

LEMMA ReadingShape ==
  ASSUME IInv, NEW c \in Connection, ReadingStep(c)
  PROVE  UNCHANGED <<down, relayEnd, clientEnd, epoch, runtime, client>> /\ UpRead(c)
  <1>0. TypeOK
    BY DEF IInv
  <1>1. UNCHANGED <<down, relayEnd, clientEnd, epoch, runtime, client>> /\ Read(c) /\ up[c] # <<>> /\ relayEnd[c] = "open"
    BY DEF ReadingStep, ReceiveHead, ReceiveChunk, ReceiveEnd, ReceiveError, Arrived
  <1> QED BY <1>0, <1>1, UpCases

LEMMA ReadingConn ==
  ASSUME IInv, IInv', ConnInv, NEW c \in Connection, ReadingStep(c)
  PROVE  ConnInv'
  <1>1. UNCHANGED <<down, relayEnd, clientEnd, epoch, runtime, cur, ident>> /\ UpRead(c)
    BY ReadingShape DEF client
  <1>2. EndsGoOn /\ IdentGoesOn /\ DownGrows({}, {})
    BY <1>1, DownSame DEF EndsGoOn, IdentGoesOn, IInv
  <1>3. NoneUp("hello") /\ NoneUp("hello_ack")
    BY <1>1, UpIsOld DEF IInv
  <1> QED BY <1>2, <1>3, ConnStays

TakingStep(c) == TakeOpen(c) \/ TakeChunk(c) \/ TakeEnd(c) \/ TakeCancel(c)

LEMMA TakingShape ==
  ASSUME IInv, NEW c \in Connection, TakingStep(c) \/ TakeAck(c)
  PROVE  /\ DownTaken(c) /\ UNCHANGED <<relayEnd, clientEnd, epoch, runtime, cur>> /\ EndsGoOn
         /\ TakingStep(c) => FromRelay(c) /\ ident' = ident
         /\ \/ UpSame
            \/ LET r == Head(down[c]).req
               IN /\ TakeCancel(c) /\ r \in channels /\ fwd[r] \in Working
                  /\ \E m \in Message : UpSent(c, m) /\ Says(r, m) /\ m.type = "response_error"
  <1>0. TypeOK
    BY DEF IInv
  <1>1. UNCHANGED <<relayEnd, clientEnd, epoch, runtime, cur>> /\ Take(c) /\ cur = c /\ down[c] # <<>>
    BY DEF TakingStep, TakeAck, TakeOpen, TakeChunk, TakeEnd, TakeCancel, Delivered, relay, client
  <1>2. DownTaken(c) /\ EndsGoOn
    BY <1>0, <1>1, TakenTail DEF EndsGoOn
  <1>3. TakingStep(c) => FromRelay(c) /\ ident' = ident
    BY DEF TakingStep, TakeOpen, TakeChunk, TakeEnd, TakeCancel, client
  <1>4. CASE UNCHANGED up
    BY <1>0, <1>1, <1>2, <1>3, <1>4, UpCases
  <1>5. CASE ~ UNCHANGED up
    <2> DEFINE r == Head(down[c]).req
               m == Msg("response_error", r, 0, under[r])
    <2>1. TakeCancel(c) /\ r \in channels /\ fwd[r] \in Working /\ Sends(m)
      BY <1>5 DEF TakingStep, TakeAck, TakeOpen, TakeChunk, TakeEnd, TakeCancel
    <2>2. r \in Requests /\ under[r] \in Nat
      BY <1>0, <2>1 DEF TypeOK
    <2>3. m \in Message /\ Says(r, m) /\ m.type = "response_error"
      <3>1. m \in Message
        BY <2>2, MsgIsMessage DEF ChannelMessage
      <3> QED BY <3>1 DEF Says, Msg
    <2> HIDE DEF m, r
    <2>4. UpSame \/ UpSent(c, m)
      BY <1>0, <1>1, <2>1, <2>3, UpCases
    <2> QED BY <1>1, <1>2, <1>3, <2>1, <2>3, <2>4 DEF r
  <1> QED BY <1>4, <1>5

LEMMA TakingKeepsConn ==
  ASSUME IInv, IInv', ConnInv, NEW c \in Connection, TakingStep(c) \/ TakeAck(c)
  PROVE  ConnInv'
  <1>1. /\ DownTaken(c) /\ UNCHANGED <<relayEnd, clientEnd, epoch, runtime, cur>> /\ EndsGoOn
        /\ TakingStep(c) => FromRelay(c) /\ ident' = ident
        /\ NoneUp("hello") /\ NoneUp("hello_ack")
    BY TakingShape, UpIsOld DEF IInv
  <1>2. ident' # 0 /\ (ident' = ident \/ ident' = epoch[c])
    <2>1. CASE TakingStep(c)
      BY <1>1, <2>1 DEF FromRelay
    <2>2. CASE TakeAck(c)
      <3>1. ident' = Head(down[c]).epoch /\ Head(down[c]).type = "hello_ack" /\ down[c] # <<>>
        BY <2>2 DEF TakeAck, Delivered
      <3>2. 1 \in DOMAIN down[c] /\ Head(down[c]) = down[c][1]
        BY <3>1, TailFacts DEF IInv, TypeOK
      <3> QED BY <3>1, <3>2 DEF ConnInv, DownIsOfEpoch
    <2> QED BY <2>1, <2>2
  <1>3. HelloOnce' /\ RuntimeHasEpoch'
    BY <1>1, HelloStays, RuntimeStays DEF ConnInv, IInv
  <1> QED BY <1>1, <1>2, <1>3, TakingConn DEF ConnInv

\* A hello, and what it makes of the other connections.
LEMMA HelloShape ==
  ASSUME IInv, ConnInv, NEW c \in Connection, Hello(c)
  PROVE  /\ epoch[c] = 0 /\ runtime # c /\ runtime' = c /\ UpRead(c)
         /\ UNCHANGED <<clientEnd, client>>
         /\ \A d \in Connection : /\ epoch'[d] = IF d = c THEN epochs + 1 ELSE epoch[d]
                                  /\ relayEnd'[d] = "open" => relayEnd[d] = "open" /\ d # runtime
                                  /\ d # c => Extends(down[d], down'[d], {Close})
         /\ Extends(down[c], down'[c], {Msg("hello_ack", NoRequest, 0, epochs + 1)})
         /\ BothOpen(c) => down'[c] = down[c] \o <<Msg("hello_ack", NoRequest, 0, epochs + 1)>>
  <1> DEFINE ack == Msg("hello_ack", NoRequest, 0, epochs + 1)
  <1>0. TypeOK /\ ack \in Message
    BY SocketMsgIsMessage DEF IInv, TypeOK, SocketMessage
  <1>1. relayEnd[c] = "open" /\ up[c] # <<>> /\ Head(up[c]).type = "hello" /\ Read(c) /\ UNCHANGED <<clientEnd, client>>
    BY DEF Hello, Arrived
  <1>2. UpRead(c)
    BY <1>0, <1>1, UpCases
  <1>3. epoch[c] = 0
    <2>1. 1 \in DOMAIN up[c] /\ Head(up[c]) = up[c][1]
      BY <1>0, <1>1, TailFacts DEF TypeOK
    <2> QED BY <1>1, <2>1 DEF ConnInv, HelloOnce
  <1>4. runtime # c /\ runtime' = c
    BY <1>3 DEF Hello, ConnInv, RuntimeHasEpoch
  <1>5. \A d \in Connection : epoch'[d] = IF d = c THEN epochs + 1 ELSE epoch[d]
    BY <1>0 DEF Hello, TypeOK
  <1>6. \A d \in Connection : relayEnd'[d] = IF d = runtime /\ relayEnd[d] = "open" THEN "closing" ELSE relayEnd[d]
    <2>1. 0 \notin Connection
      BY DEF Connection
    <2> QED BY <2>1 DEF Hello
  <1>7. /\ down'[c] = ToClient(c, <<ack>>)
        /\ \A d \in Connection : d # c => down'[d] \in {down[d], ToClient(d, <<Close>>)}
    <2> HIDE DEF ack
    <2>1. down' = [d \in Connection |-> CASE d = c -> ToClient(c, <<ack>>)
                                          [] d \in {runtime} \ {0} -> ToClient(d, <<Close>>)
                                          [] OTHER -> down[d]]
      BY DEF Hello, ack
    <2>2. down'[c] = ToClient(c, <<ack>>)
      BY <1>4, <2>1, Zenon
    <2>3. ASSUME NEW d \in Connection, d # c PROVE down'[d] \in {down[d], ToClient(d, <<Close>>)}
      <3>1. CASE d \in {runtime} \ {0}
        BY <2>1, <2>3, <3>1
      <3>2. CASE d \notin {runtime} \ {0}
        BY <2>1, <2>3, <3>2
      <3> QED BY <3>1, <3>2
    <2> QED BY <2>2, <2>3
  <1>8. \A d \in Connection : Extends(down[d], down[d], {Close}) /\ Extends(down[d], ToClient(d, <<Close>>), {Close})
    BY <1>0, CloseIsMessage, ToClientExtends, ExtendsCases DEF TypeOK
  <1>9. Extends(down[c], ToClient(c, <<ack>>), {ack})
    BY <1>0, ToClientExtends
  <1>10. BothOpen(c) => down'[c] = down[c] \o <<ack>>
    BY <1>7 DEF BothOpen, ToClient
  <1> QED BY <1>0, <1>1, <1>2, <1>3, <1>4, <1>5, <1>6, <1>7, <1>8, <1>9, <1>10

LEMMA HelloConn ==
  ASSUME IInv, IInv', ConnInv, NEW c \in Connection, Hello(c)
  PROVE  ConnInv'
  <1> DEFINE ack == Msg("hello_ack", NoRequest, 0, epochs + 1)
  <1>0. TypeOK /\ epochs + 1 # 0 /\ 0 \notin Connection
    <2>1. TypeOK /\ RuntimeTypes
      BY TypeParts DEF IInv
    <2> QED BY <2>1 DEF RuntimeTypes, Connection
  <1>1. /\ epoch[c] = 0 /\ runtime # c /\ runtime' = c /\ UpRead(c)
        /\ UNCHANGED <<clientEnd, cur, ident>>
        /\ \A d \in Connection : /\ epoch'[d] = IF d = c THEN epochs + 1 ELSE epoch[d]
                                 /\ relayEnd'[d] = "open" => relayEnd[d] = "open" /\ d # runtime
                                 /\ d # c => Extends(down[d], down'[d], {Close})
        /\ Extends(down[c], down'[c], {ack})
        /\ BothOpen(c) => down'[c] = down[c] \o <<ack>>
    BY HelloShape DEF client
  <1>2. ack.type = "hello_ack" /\ ack.epoch = epochs + 1 /\ Acks(ack)
    BY DEF Msg, Acks
  <1>a. ack \in Message
    BY <1>0, SocketMsgIsMessage DEF TypeOK, SocketMessage
  <1> HIDE DEF ack
  <1>3. HelloOnce'
    <2>1. \A d \in Connection : up[d] \in Seq(Message)
      BY <1>0 DEF TypeOK
    <2>2. ASSUME NEW i \in DOMAIN up'[c] PROVE up'[c][i].type # "hello_ack" /\ up'[c][i].type # "hello"
      <3>1. up[c] \in Seq(Message) /\ up[c] # <<>> /\ up'[c] = Tail(up[c])
        BY <1>1, <2>1 DEF UpRead
      <3>2. i \in 1 .. (Len(up[c]) - 1) /\ Len(up[c]) \in Nat /\ Len(up[c]) >= 1
        BY <2>2, <3>1, TailFacts
      <3>3. i + 1 \in 1 .. Len(up[c]) /\ 1 \in 1 .. Len(up[c]) /\ i + 1 # 1
        BY <3>2
      <3>4. i + 1 \in DOMAIN up[c] /\ 1 \in DOMAIN up[c] /\ up'[c][i] = up[c][i + 1] /\ Head(up[c]) = up[c][1]
        BY <3>1, <3>2, <3>3, TailFacts
      <3>5. up[c][1].type = "hello"
        BY <3>4 DEF Hello, Arrived
      <3> QED BY <3>3, <3>4, <3>5 DEF ConnInv, HelloOnce
    <2>3. \A d \in Connection : d # c => up'[d] = up[d] /\ epoch'[d] = epoch[d]
      BY <1>1 DEF UpRead
    <2> QED BY <2>2, <2>3 DEF ConnInv, HelloOnce
  <1>4. RuntimeHasEpoch'
    BY <1>0, <1>1 DEF ConnInv, RuntimeHasEpoch
  <1>5. \A i \in DOMAIN down[c] : down[c][i].type = "close"
    BY <1>1 DEF ConnInv, DownIsOfEpoch
  <1>6. \A i \in DOMAIN down'[c] : down'[c][i].type = "close" \/ down'[c][i] = ack
    BY <1>1, <1>5 DEF Extends
  <1>7. DownIsOfEpoch'
    <2>1. ASSUME NEW d \in Connection, d # c, NEW i \in DOMAIN down'[d]
          PROVE  /\ down'[d][i].type # "close" => down'[d][i].epoch = epoch'[d] /\ epoch'[d] # 0
                 /\ down'[d][i].type # "hello"
      <3>1. down'[d][i].type = "close" \/ (i \in DOMAIN down[d] /\ down[d][i] = down'[d][i])
        BY <1>1, <2>1, CloseIsOfNobody DEF Extends
      <3> QED BY <1>1, <2>1, <3>1 DEF ConnInv, DownIsOfEpoch
    <2>2. ASSUME NEW i \in DOMAIN down'[c]
          PROVE  /\ down'[c][i].type # "close" => down'[c][i].epoch = epoch'[c] /\ epoch'[c] # 0
                 /\ down'[c][i].type # "hello"
      <3>1. down'[c][i].type = "close" \/ down'[c][i] = ack
        BY <1>6, <2>2
      <3> QED BY <1>0, <1>1, <1>2, <3>1
    <2> QED BY <2>1, <2>2 DEF DownIsOfEpoch
  <1>8. IdentIsEpoch'
    <2>1. cur # 0 => cur \in Connection
      BY <1>0 DEF TypeOK, Connection
    <2> QED BY <1>1, <2>1 DEF ConnInv, IdentIsEpoch
  <1>9. AckComesFirst'
    <2>1. CASE cur = c
      <3>1. AckLeads(down'[c])
        BY <1>2, <1>6 DEF AckLeads
      <3>2. BothOpen(c)' => BothOpen(c)
        BY <1>1 DEF BothOpen
      <3>3. BothOpen(c) => \E j \in DOMAIN down'[c] : Acks(down'[c][j])
        <4>1. ASSUME BothOpen(c) PROVE \E j \in DOMAIN down'[c] : Acks(down'[c][j])
          <5>1. down[c] \in Seq(Message) /\ down'[c] = down[c] \o <<ack>>
            BY <1>0, <1>1, <4>1 DEF TypeOK
          <5>2. Len(down[c]) + 1 \in 1 .. (Len(down[c]) + 1)
            BY <5>1
          <5>3. DOMAIN (down[c] \o <<ack>>) = 1 .. (Len(down[c]) + 1) /\ (down[c] \o <<ack>>)[Len(down[c]) + 1] = ack
            BY <1>a, <5>1, AppendFacts
          <5>4. Len(down[c]) + 1 \in DOMAIN down'[c] /\ down'[c][Len(down[c]) + 1] = ack
            BY <5>1, <5>2, <5>3
          <5> QED BY <1>2, <5>4
        <4> QED BY <4>1
      <3> QED BY <1>1, <2>1, <3>1, <3>2, <3>3 DEF AckComesFirst
    <2>2. ASSUME cur # c, cur # 0, ident = 0
          PROVE  /\ AckLeads(down'[cur])
                 /\ epoch'[cur] # 0 /\ BothOpen(cur)' => \E j \in DOMAIN down'[cur] : Acks(down'[cur][j])
      <3>1. cur \in Connection
        BY <1>0, <2>2 DEF TypeOK, Connection
      <3>2. Extends(down[cur], down'[cur], {Close}) /\ epoch'[cur] = epoch[cur]
        BY <1>1, <2>2, <3>1
      <3>3. AckLeads(down[cur]) /\ (epoch[cur] # 0 /\ BothOpen(cur) => \E j \in DOMAIN down[cur] : Acks(down[cur][j]))
        BY <2>2 DEF ConnInv, AckComesFirst
      <3>4. BothOpen(cur)' => BothOpen(cur)
        BY <1>1, <3>1 DEF BothOpen
      <3>5. AckLeads(down'[cur])
        <4>1. ASSUME NEW i \in DOMAIN down'[cur], down'[cur][i].type \notin {"hello_ack", "close"}
              PROVE  \E j \in DOMAIN down'[cur] : j < i /\ Acks(down'[cur][j])
          BY <3>2, <3>3, <4>1, CloseIsOfNobody DEF Extends, AckLeads
        <4> QED BY <4>1 DEF AckLeads
      <3> QED BY <3>2, <3>3, <3>4, <3>5 DEF Extends
    <2> QED BY <1>1, <2>1, <2>2 DEF AckComesFirst
  <1> QED BY <1>3, <1>4, <1>7, <1>8, <1>9 DEF ConnInv

\* A socket that is made, and opens, has no epoch yet.
LEMMA OpeningShape ==
  ASSUME IInv, UnopenedIsBlank, ConnInv, NEW c \in Connection, Connect(c) \/ Open(c)
  PROVE  /\ epoch[c] = 0 /\ up[c] = <<>> /\ runtime # c
         /\ \A i \in DOMAIN down[c] : down[c][i].type = "close"
         /\ UNCHANGED <<down, epoch, runtime, ident, channels, taken, fwd, under, sent>> /\ EndsGoOn
         /\ \/ Connect(c) /\ cur = 0 /\ cur' = c /\ ident = 0 /\ UNCHANGED up /\ clientEnd'[c] # "open"
            \/ Open(c) /\ cur' = cur /\ (UNCHANGED up \/ UpSent(c, Msg("hello", NoRequest, 0, 0)))
  <1>0. TypeOK
    BY DEF IInv
  <1>1. epoch[c] = 0 /\ up[c] = <<>>
    BY DEF UnopenedIsBlank, Unopened, Connect, Open
  <1>2. runtime # c /\ \A i \in DOMAIN down[c] : down[c][i].type = "close"
    BY <1>1 DEF ConnInv, RuntimeHasEpoch, DownIsOfEpoch
  <1>3. UNCHANGED <<down, epoch, runtime, ident, channels, taken, fwd, under, sent>>
    BY DEF Connect, Open, relay, client
  <1>4. EndsGoOn
    BY <1>0, <1>1, <1>3 DEF Connect, Open, TypeOK, EndsGoOn
  <1>5. CASE Connect(c)
    <2>1. cur = 0 /\ cur' = c /\ UNCHANGED up /\ clientEnd'[c] # "open"
      BY <1>0, <1>5 DEF Connect, TypeOK
    <2> QED BY <1>1, <1>2, <1>3, <1>4, <1>5, <2>1 DEF ConnInv, IdentIsEpoch
  <1>6. CASE Open(c)
    <2> DEFINE m == Msg("hello", NoRequest, 0, 0)
    <2>1. cur' = cur
      BY <1>6 DEF Open, client
    <2>2. m \in Message
      BY SocketMsgIsMessage DEF SocketMessage
    <2>3. up' = [up EXCEPT ![c] = Append(@, m)] \/ UNCHANGED up
      BY <1>6 DEF Open
    <2> HIDE DEF m
    <2>4. up[c] \in Seq(Message) /\ Append(up[c], m) = up[c] \o <<m>>
      BY <1>0, <2>2, AppendFacts DEF TypeOK
    <2>5. up' = [up EXCEPT ![c] = Append(@, m)] => UpSent(c, m)
      BY <1>0, <2>4 DEF TypeOK, UpSent
    <2> QED BY <1>1, <1>2, <1>3, <1>4, <1>6, <2>1, <2>3, <2>5 DEF m
  <1> QED BY <1>5, <1>6

LEMMA OpeningConn ==
  ASSUME IInv, IInv', UnopenedIsBlank, ConnInv, NEW c \in Connection, Connect(c) \/ Open(c)
  PROVE  ConnInv'
  <1>0. TypeOK
    BY DEF IInv
  <1>1. /\ epoch[c] = 0 /\ up[c] = <<>>
        /\ \A i \in DOMAIN down[c] : down[c][i].type = "close"
        /\ UNCHANGED <<down, epoch, runtime, ident>> /\ EndsGoOn
    BY OpeningShape
  <1>2. RuntimeHasEpoch' /\ DownGrows({}, {})
    BY <1>0, <1>1, RuntimeStays, DownSame DEF ConnInv
  <1>3. CASE Connect(c) /\ cur = 0 /\ cur' = c /\ ident = 0 /\ UNCHANGED up /\ clientEnd'[c] # "open"
    <2>1. HelloOnce'
      BY <1>1, <1>3 DEF ConnInv, HelloOnce
    <2>2. DownIsOfEpoch' /\ IdentIsEpoch'
      BY <1>1, <1>3 DEF ConnInv, DownIsOfEpoch, IdentIsEpoch, Connection
    <2>3. AckComesFirst'
      BY <1>1, <1>3 DEF AckComesFirst, AckLeads
    <2> QED BY <1>2, <2>1, <2>2, <2>3 DEF ConnInv
  <1>4. CASE cur' = cur /\ UNCHANGED up
    <2>1. HelloOnce'
      BY <1>1, <1>4 DEF ConnInv, HelloOnce
    <2> QED BY <1>1, <1>2, <1>4, <2>1, GrowingConn DEF ConnInv, IdentGoesOn
  <1>5. CASE cur' = cur /\ UpSent(c, Msg("hello", NoRequest, 0, 0))
    <2> DEFINE m == Msg("hello", NoRequest, 0, 0)
    <2>1. m.type = "hello" /\ m \in Message
      BY SocketMsgIsMessage DEF SocketMessage, Msg
    <2>2. UpSent(c, m)
      BY <1>5
    <2> HIDE DEF m
    <2>3. /\ up'[c] = <<>> \o <<m>>
          /\ \A d \in Connection : d # c => up'[d] = up[d]
      BY <1>1, <2>2 DEF UpSent
    <2>4. DOMAIN up'[c] = {1} /\ up'[c][1] = m
      BY <2>3
    <2>5. HelloOnce'
      BY <1>1, <2>1, <2>3, <2>4 DEF ConnInv, HelloOnce
    <2> QED BY <1>1, <1>2, <1>5, <2>5, GrowingConn DEF ConnInv, IdentGoesOn
  <1> QED BY <1>3, <1>4, <1>5, OpeningShape

LEMMA ConnStep ==
  ASSUME IInv, UnopenedIsBlank, ConnInv, [Next]_vars
  PROVE  ConnInv'
  <1>0. IInv'
    BY InvInductive
  <1>1. ASSUME NEW r \in Requests, Web(r) \/ Forward(r) PROVE ConnInv'
    BY <1>0, <1>1, WebConn, ForwardConn
  <1>2. ASSUME NEW c \in Connection, RelayReceives(c) PROVE ConnInv'
    BY <1>0, <1>2, HelloConn, ClosingConn, ReadingConn DEF RelayReceives, ClosingStep, ReadingStep
  <1>3. ASSUME NEW c \in Connection, ClientReceives(c) \/ Connect(c) \/ Lose(c) PROVE ConnInv'
    BY <1>0, <1>3, OpeningConn, ClosingConn, TakingKeepsConn DEF ClientReceives, ClosingStep, TakingStep
  <1>4. CASE HeartbeatTimeout \/ Revoke \/ Reconfigure
    BY <1>0, <1>4, ClosingConn DEF OthersStep
  <1>5. CASE UNCHANGED rest
    <2>1. UNCHANGED <<up, down, relayEnd, clientEnd, runtime, epoch, cur, ident>>
      BY <1>5 DEF rest, relay, sockets, client
    <2> QED BY <2>1 DEF ConnInv, HelloOnce, RuntimeHasEpoch, DownIsOfEpoch, IdentIsEpoch, AckComesFirst, AckLeads, BothOpen
  <1> QED BY <1>1, <1>2, <1>3, <1>4, <1>5, TimeMovesNothing DEF Next

-----------------------------------------------------------------------------
(* What the messages tell, in every step.                                  *)

LEMMA DownTellsGrow ==
  ASSUME TypeOK, NEW q \in Requests, DownTells(q), NEW R, NEW T, DownGrows(R, T),
         web'[q] = "new" => web[q] = "new", cut \subseteq cut',
         q \in R => /\ web'[q] # "new"
                    /\ "request_chunk" \in T => q \in Bodies
                    /\ "request_cancel" \in T => q \in cut'
  PROVE  DownTells(q)'
  <1> SUFFICES ASSUME NEW c \in Connection, NEW i \in DOMAIN down'[c], down'[c][i].req = q
               PROVE  /\ web'[q] # "new"
                      /\ down'[c][i].type = "request_chunk" => q \in Bodies
                      /\ down'[c][i].type = "request_cancel" => q \in cut'
    BY DEF DownTells
  <1>1. Extends(down[c], down'[c], NewDown(c, R, T))
    <2>1. down'[c] # <<>>
      OBVIOUS
    <2> QED BY <2>1 DEF DownGrows
  <1>2. CASE i \in DOMAIN down[c]
    BY <1>1, <1>2 DEF Extends, DownTells
  <1>3. CASE i \notin DOMAIN down[c]
    BY <1>1, <1>3, CloseIsOfNobody DEF Extends, NewDown
  <1> QED BY <1>2, <1>3

LEMMA DownTellsTaken ==
  ASSUME TypeOK, NEW q \in Requests, DownTells(q), NEW c \in Connection, DownTaken(c),
         web'[q] = "new" => web[q] = "new", cut \subseteq cut'
  PROVE  DownTells(q)'
  <1>2. ASSUME NEW d \in Connection, NEW i \in DOMAIN down'[d] PROVE \E j \in DOMAIN down[d] : down[d][j] = down'[d][i]
    <2>1. CASE d = c
      <3>1. down[c] \in Seq(Message) /\ down[c] # <<>> /\ down'[c] = Tail(down[c])
        BY DEF DownTaken, TypeOK
      <3>2. i \in 1 .. (Len(down[c]) - 1) /\ Len(down[c]) \in Nat
        BY <1>2, <2>1, <3>1, TailFacts
      <3>3. i + 1 \in 1 .. Len(down[c])
        BY <3>2
      <3> QED BY <2>1, <3>1, <3>2, <3>3, TailFacts
    <2>2. CASE d # c
      BY <1>2, <2>2 DEF DownTaken
    <2> QED BY <2>1, <2>2
  <1> QED BY <1>2 DEF DownTells

\* forward goes on.
FwdLater(q) ==
    /\ fwd[q] \notin {"none", "fetching"} => fwd'[q] \notin {"none", "fetching"}
    /\ fwd[q] \in {"ended", "over"} => fwd'[q] \in {"ended", "over"}

LEMMA UpTellsStay ==
  ASSUME TypeOK, NEW q \in Requests, UpTells(q), FwdLater(q),
         \/ UpSame
         \/ \E c \in Connection : UpRead(c)
         \/ \E c \in Connection : \E m \in Message :
              /\ UpSent(c, m)
              /\ m.req = q => /\ fwd[q] \in Working /\ fwd'[q] \notin {"none", "fetching"}
                              /\ Finishes(m) => fwd'[q] \in {"ended", "over"}
  PROVE  UpTells(q)'
  <1> SUFFICES ASSUME NEW c \in Connection, NEW i \in DOMAIN up'[c], up'[c][i].req = q
               PROVE  /\ fwd'[q] \notin {"none", "fetching"}
                      /\ Finishes(up'[c][i]) => /\ fwd'[q] \in {"ended", "over"}
                                                /\ \A j \in DOMAIN up'[c] : j > i => up'[c][j].req # q
    BY DEF UpTells, Finishes
  <1>0. \A d \in Connection : up[d] \in Seq(Message)
    BY DEF TypeOK
  <1>1. CASE up'[c] = up[c]
    BY <1>1 DEF UpTells, FwdLater
  <1>2. CASE up'[c] = <<>>
    BY <1>2
  <1>3. CASE up[c] # <<>> /\ up'[c] = Tail(up[c])
    <2>1. \A j \in DOMAIN up'[c] : j + 1 \in DOMAIN up[c] /\ up'[c][j] = up[c][j + 1] /\ j \in Int
      <3> TAKE j \in DOMAIN up'[c]
      <3>1. j \in 1 .. (Len(up[c]) - 1) /\ Len(up[c]) \in Nat
        BY <1>0, <1>3, TailFacts
      <3>2. j + 1 \in 1 .. Len(up[c])
        BY <3>1
      <3> QED BY <1>0, <1>3, <3>1, <3>2, TailFacts
    <2>2. \A j \in DOMAIN up'[c] : j > i => j + 1 > i + 1
      BY <2>1
    <2> QED BY <2>1, <2>2 DEF UpTells, FwdLater
  <1>4. ASSUME NEW m \in Message, UpSent(c, m),
               m.req = q => /\ fwd[q] \in Working /\ fwd'[q] \notin {"none", "fetching"}
                            /\ Finishes(m) => fwd'[q] \in {"ended", "over"}
        PROVE  /\ fwd'[q] \notin {"none", "fetching"}
               /\ Finishes(up'[c][i]) => /\ fwd'[q] \in {"ended", "over"}
                                         /\ \A j \in DOMAIN up'[c] : j > i => up'[c][j].req # q
    <2> DEFINE l == Len(up[c]) + 1
    <2>1. /\ Len(up[c]) \in Nat /\ DOMAIN up[c] = 1 .. Len(up[c]) /\ DOMAIN up'[c] = 1 .. l
          /\ \A j \in 1 .. Len(up[c]) : up'[c][j] = up[c][j]
          /\ up'[c][l] = m
      <3>1. up'[c] = up[c] \o <<m>> /\ up[c] \in Seq(Message)
        BY <1>0, <1>4 DEF UpSent
      <3> QED BY <3>1, AppendFacts
    <2>2. \A j \in 1 .. l : (j \in 1 .. Len(up[c]) \/ j = l) /\ ~ (j > l)
      BY <2>1
    <2> HIDE DEF l
    <2>3. CASE m.req # q
      BY <2>1, <2>2, <2>3 DEF UpTells, FwdLater
    <2>4. CASE m.req = q
      <3>1. \A j \in 1 .. Len(up[c]) : up[c][j].req = q => ~ Finishes(up[c][j])
        BY <1>4, <2>1, <2>4 DEF UpTells, Working
      <3> QED BY <1>4, <2>1, <2>2, <2>4, <3>1
    <2> QED BY <2>3, <2>4
  <1>5. ASSUME NEW d \in Connection, NEW m \in Message, UpSent(d, m), d # c PROVE up'[c] = up[c]
    BY <1>5 DEF UpSent
  <1> QED BY <1>1, <1>2, <1>3, <1>4, <1>5 DEF UpSame, UpRead

ReqOf(q) == Fresh(q) /\ Known(q) /\ DownTells(q) /\ UpTells(q)

LEMMA WebReq ==
  ASSUME IInv, NEW r \in Requests, Web(r), NEW q \in Requests, ReqInv
  PROVE  ReqOf(q)'
  <1>0. TypeOK /\ WebTypes /\ RuntimeTypes /\ ClientTypes
    BY TypeParts DEF IInv
  <1>1. Fresh(r) /\ Known(r) /\ Fresh(q) /\ Known(q) /\ DownTells(q) /\ UpTells(q)
    BY DEF ReqInv
  <1>2. UNCHANGED <<up, channels, fwd, taken>>
    BY DEF Web, WebRequest, PumpChunk, PumpEnd, PumpFails, WebGone, TimerFires, client
  <1>3. UpTells(q)'
    BY <1>0, <1>1, <1>2, UpCases, UpTellsStay DEF FwdLater
  <1>4. q # r => UNCHANGED <<web[q], chan[q], on[q], pump[q], pumped[q]>>
    BY <1>0 DEF Web, WebRequest, PumpChunk, PumpEnd, PumpFails, WebGone, TimerFires, FailChannel, relay, pumps, WebTypes
  <1>5. web'[r] # "new"
    BY <1>0, <1>1 DEF Web, WebRequest, PumpChunk, PumpEnd, PumpFails, WebGone, TimerFires, FailChannel, relay, WebTypes, Live, Failed, Fresh
  <1>6. Fresh(q)'
    BY <1>1, <1>2, <1>4, <1>5 DEF Fresh
  <1>7. Known(r)'
    <2>1. on'[r] # 0 => chan'[r] # "none"
      BY <1>0, <1>1 DEF Web, WebRequest, PumpChunk, PumpEnd, PumpFails, WebGone, TimerFires, FailChannel, relay, WebTypes, Live, Known
    <2>2. pump'[r] = "reading" => r \in Bodies
      BY <1>0, <1>1 DEF Web, WebRequest, PumpChunk, PumpEnd, PumpFails, WebGone, TimerFires, pumps, WebTypes, Known
    <2> QED BY <1>1, <1>2, <2>1, <2>2 DEF Known
  <1>8. Known(q)'
    BY <1>1, <1>2, <1>4, <1>7 DEF Known
  <1>9. cut \subseteq cut' /\ (PumpFails(r) \/ WebGone(r) \/ TimerFires(r) => r \in cut')
    BY DEF Web, WebRequest, PumpChunk, PumpEnd, PumpFails, WebGone, TimerFires, history
  <1>10. \E T : DownGrows({r}, T) /\ ("request_chunk" \in T => r \in Bodies) /\ ("request_cancel" \in T => r \in cut')
    <2>1. PumpChunk(r) => r \in Bodies
      BY <1>1 DEF PumpChunk, Known
    <2> QED BY <1>9, <2>1, WebSends DEF Web
  <1>11. DownTells(q)'
    BY <1>0, <1>1, <1>4, <1>5, <1>9, <1>10, DownTellsGrow
  <1> QED BY <1>3, <1>6, <1>8, <1>11 DEF ReqOf

\* What forward says, and what becomes of it.
LEMMA ForwardTells ==
  ASSUME IInv, NEW r \in Requests, Forward(r)
  PROVE  /\ fwd[r] \in Working /\ fwd'[r] \in {"streaming", "ended", "over"}
         /\ \A q \in Requests \ {r} : fwd'[q] = fwd[q]
         /\ UpSame \/ \E m \in Message : cur \in Connection /\ BothOpen(cur) /\ UpSent(cur, m) /\ Says(r, m)
                                         /\ (Finishes(m) => fwd'[r] \in {"ended", "over"})
  <1>0. TypeOK /\ ClientTypes
    BY TypeParts DEF IInv
  <1>1. /\ fwd[r] \in Working /\ fwd'[r] \in {"streaming", "ended", "over"}
        /\ \A q \in Requests \ {r} : fwd'[q] = fwd[q]
    BY <1>0 DEF Forward, FetchAnswers, FetchFails, ReplyChunk, ReplyEnds, ReplyFails, Forwards, ClientTypes, Working
  <1>2. CASE fwd'[r] \in {"ended", "over"}
    BY <1>1, <1>2, ForwardSays
  <1>3. CASE fwd'[r] = "streaming"
    <2>1. \A type \in {"response_open", "response_chunk"}, n \in Nat :
            LET m == Msg(type, r, n, under[r]) IN m \in Message /\ Says(r, m) /\ ~ Finishes(m)
      <3>1. \A type \in {"response_open", "response_chunk"}, n \in Nat : Msg(type, r, n, under[r]) \in Message
        BY <1>0, MsgIsMessage DEF ChannelMessage, ClientTypes
      <3> QED BY <3>1 DEF Says, Finishes, Msg
    <2>2. sent[r] \in Nat
      BY <1>0 DEF ClientTypes
    <2>3. ASSUME ~ UNCHANGED up PROVE CanSend /\ \E m \in Message : Sends(m) /\ Says(r, m) /\ ~ Finishes(m)
      <3>1. CASE FetchAnswers(r)
        BY <2>1, <2>3, <3>1 DEF FetchAnswers, Forwards
      <3>2. CASE ReplyChunk(r)
        BY <2>1, <2>2, <2>3, <3>2 DEF ReplyChunk, Forwards
      <3>3. CASE FetchFails(r) \/ ReplyEnds(r) \/ ReplyFails(r)
        BY <1>0, <1>3, <3>3 DEF FetchFails, ReplyEnds, ReplyFails, Forwards, ClientTypes
      <3> QED BY <3>1, <3>2, <3>3 DEF Forward
    <2>4. CanSend => cur \in Connection
      BY <1>0 DEF CanSend, ClientTypes, Connection
    <2> QED BY <1>0, <1>1, <2>3, <2>4, UpCases
  <1> QED BY <1>1, <1>2, <1>3

LEMMA ForwardReq ==
  ASSUME IInv, NEW r \in Requests, Forward(r), NEW q \in Requests, ReqInv
  PROVE  ReqOf(q)'
  <1>0. TypeOK /\ ClientTypes
    BY TypeParts DEF IInv
  <1>1. Fresh(q) /\ Known(q) /\ DownTells(q) /\ UpTells(q)
    BY DEF ReqInv
  <1>2. UNCHANGED <<web, on, chan, pump, pumped, taken, down>> /\ channels' \subseteq channels /\ cut \subseteq cut'
    BY DEF Forward, FetchAnswers, FetchFails, ReplyChunk, ReplyEnds, ReplyFails, AnsweredEarly, relay, pumps, history
  <1>3. Fresh(q)'
    BY <1>1, <1>2 DEF Fresh
  <1>4. FwdLater(q)
    BY ForwardTells DEF FwdLater, Working
  <1>5. Known(q)'
    BY <1>1, <1>2, ForwardTells DEF Known
  <1>6. UpTells(q)'
    BY <1>0, <1>1, <1>4, ForwardTells, UpTellsStay DEF Says
  <1>7. DownTells(q)'
    BY <1>1, <1>2 DEF DownTells
  <1> QED BY <1>3, <1>5, <1>6, <1>7 DEF ReqOf

\* What a step leaves alone of a request.
ReqQuiet(q) ==
    /\ UNCHANGED <<on[q], pump[q], pumped[q], taken[q]>>
    /\ \/ UNCHANGED <<web[q], chan[q]>>
       \/ chan[q] # "none" /\ chan'[q] # "none"
    /\ web'[q] = "new" => web[q] = "new"
    /\ q \in channels' => q \in channels
    /\ fwd'[q] = fwd[q] \/ (fwd[q] \in Working /\ fwd'[q] = "over")
    /\ cut \subseteq cut'

LEMMA QuietReq ==
  ASSUME ReqInv, NEW q \in Requests, ReqQuiet(q)
  PROVE  Fresh(q)' /\ Known(q)' /\ FwdLater(q)
  <1>1. Fresh(q) /\ Known(q)
    BY DEF ReqInv
  <1>2. Fresh(q)'
    BY <1>1 DEF Fresh, ReqQuiet
  <1>3. Known(q)' /\ FwdLater(q)
    BY <1>1 DEF Known, FwdLater, ReqQuiet, Working
  <1> QED BY <1>2, <1>3

LEMMA FailsQuietly ==
  ASSUME IInv, NEW q \in Requests, NEW c, FailChannels(c) \/ UNCHANGED <<web, chan, cut>>
  PROVE  /\ UNCHANGED <<web[q], chan[q]>> \/ (chan[q] # "none" /\ chan'[q] # "none")
         /\ web'[q] = "new" => web[q] = "new"
         /\ cut \subseteq cut'
         /\ q \notin cut' => UNCHANGED <<web[q], chan[q]>>
  <1>0. WebTypes
    BY TypeParts DEF IInv
  <1> QED BY <1>0 DEF FailChannels, ChannelsOf, Failed, Live, WebTypes

LEMMA ReadingReq ==
  ASSUME IInv, NEW c \in Connection, ReadingStep(c), NEW q \in Requests, ReqInv
  PROVE  ReqOf(q)'
  <1>0. TypeOK /\ WebTypes
    BY TypeParts DEF IInv
  <1>1. UNCHANGED <<down, on, pump, pumped, taken, channels, fwd, cut>> /\ UpRead(c)
    BY ReadingShape DEF ReadingStep, ReceiveHead, ReceiveChunk, ReceiveEnd, ReceiveError, client, pumps, history
  <1>2. /\ UNCHANGED <<web[q], chan[q]>> \/ (chan[q] # "none" /\ chan'[q] # "none")
        /\ web'[q] = "new" => web[q] = "new"
    BY <1>0 DEF ReadingStep, ReceiveHead, ReceiveChunk, ReceiveEnd, ReceiveError, FailChannel, ChannelsOf, Live, Failed, WebTypes
  <1>3. ReqQuiet(q)
    BY <1>1, <1>2 DEF ReqQuiet
  <1>4. UpTells(q)'
    BY <1>0, <1>1, <1>3, QuietReq, UpTellsStay DEF ReqInv
  <1>5. DownTells(q)'
    BY <1>1, <1>2 DEF DownTells, ReqInv
  <1> QED BY <1>3, <1>4, <1>5, QuietReq DEF ReqOf

LEMMA TakingReq ==
  ASSUME IInv, OpensOnce, NEW c \in Connection, TakingStep(c) \/ TakeAck(c), NEW q \in Requests, ReqInv
  PROVE  ReqOf(q)'
  <1> DEFINE r == Head(down[c]).req
  <1>0. TypeOK /\ ClientTypes
    BY TypeParts DEF IInv
  <1>1. UNCHANGED <<web, chan, on, pump, pumped, cut>>
    BY DEF TakingStep, TakeAck, TakeOpen, TakeChunk, TakeEnd, TakeCancel, relay, pumps, history
  <1>2. /\ DownTaken(c)
        /\ \/ UpSame
           \/ TakeCancel(c) /\ r \in channels /\ fwd[r] \in Working
              /\ \E m \in Message : UpSent(c, m) /\ Says(r, m) /\ m.type = "response_error"
    BY TakingShape
  <1>3. down[c] # <<>> /\ 1 \in DOMAIN down[c] /\ Head(down[c]) = down[c][1]
    BY <1>0, <1>2, TailFacts DEF DownTaken, TypeOK
  <1>4. Fresh(q) /\ Known(q) /\ DownTells(q) /\ UpTells(q)
    BY DEF ReqInv
  <1>5. DownTells(q)'
    BY <1>0, <1>1, <1>2, <1>4, DownTellsTaken
  <1>6. Fresh(q)'
    <2>1. web[q] = "new" => r # q
      BY <1>3, <1>4 DEF DownTells
    <2>2. r # q => taken'[q] = taken[q]
      BY <1>0 DEF TakingStep, TakeAck, TakeOpen, TakeChunk, TakeEnd, TakeCancel, client, ClientTypes
    <2> QED BY <1>1, <1>4, <2>1, <2>2 DEF Fresh
  <1>7. CASE TakeOpen(c)
    <2>1. fwd[r] = "none" /\ UpSame
      <3>1. Opens(down[c][1])
        BY <1>3, <1>7 DEF TakeOpen, Delivered, Opens
      <3>2. ~ TakeCancel(c)
        BY <1>7 DEF TakeOpen, TakeCancel, Delivered
      <3> QED BY <1>2, <1>3, <3>1, <3>2 DEF OpensOnce
    <2>2. channels' = channels \cup {r} /\ fwd' = [fwd EXCEPT ![r] = "fetching"]
      BY <1>7 DEF TakeOpen
    <2> HIDE DEF r
    <2>3. FwdLater(q) /\ Known(q)'
      BY <1>0, <1>1, <1>4, <2>1, <2>2 DEF FwdLater, Known, ClientTypes
    <2>4. UpTells(q)'
      BY <1>0, <1>4, <2>1, <2>3, UpTellsStay
    <2> QED BY <1>5, <1>6, <2>3, <2>4 DEF ReqOf
  <1>8. CASE ~ TakeOpen(c)
    <2>1. channels' \subseteq channels /\ (fwd'[q] = fwd[q] \/ (fwd[q] \in Working /\ fwd'[q] = "over"))
      BY <1>0, <1>8 DEF TakingStep, TakeAck, TakeChunk, TakeEnd, TakeCancel, client, ClientTypes, Aborted
    <2>2. FwdLater(q) /\ Known(q)'
      BY <1>1, <1>4, <2>1 DEF FwdLater, Known, Working
    <2>3. TakeCancel(c) /\ r \in channels /\ fwd[r] \in Working => fwd'[r] = "over"
      BY <1>0 DEF TakeCancel, Aborted, ClientTypes
    <2> HIDE DEF r
    <2>4. UpTells(q)'
      BY <1>0, <1>2, <1>4, <2>2, <2>3, UpTellsStay DEF Says
    <2> QED BY <1>5, <1>6, <2>2, <2>4 DEF ReqOf
  <1> QED BY <1>7, <1>8

LEMMA ClosingReq ==
  ASSUME IInv, \/ \E c \in Connection : ClosingStep(c)
               \/ OthersStep,
         NEW q \in Requests, ReqInv
  PROVE  ReqOf(q)'
  <1>0. TypeOK /\ ClientTypes
    BY TypeParts DEF IInv
  <1>1. UNCHANGED <<on, pump, pumped, taken>> /\ channels' \subseteq channels
    BY DEF ClosingStep, HelloRefused, RelayRefuses, RelayClosed, ClientRefuses, ClientClosed, Lose, OthersStep, HeartbeatTimeout,
           Revoke, Reconfigure, relay, pumps, client
  <1>2. \E c : FailChannels(c) \/ (UNCHANGED <<web, chan>> /\ (UNCHANGED cut \/ cut' = cut \cup channels))
    BY DEF ClosingStep, HelloRefused, RelayRefuses, RelayClosed, ClientRefuses, ClientClosed, Lose, OthersStep, HeartbeatTimeout,
           Revoke, Reconfigure, relay, history
  <1>3. /\ UNCHANGED <<web[q], chan[q]>> \/ (chan[q] # "none" /\ chan'[q] # "none")
        /\ web'[q] = "new" => web[q] = "new"
        /\ cut \subseteq cut'
    BY <1>2, FailsQuietly
  <1>4. fwd'[q] = fwd[q] \/ (fwd[q] \in Working /\ fwd'[q] = "over")
    BY <1>0 DEF ClosingStep, HelloRefused, RelayRefuses, RelayClosed, ClientRefuses, ClientClosed, Lose, OthersStep, HeartbeatTimeout,
           Revoke, Reconfigure, client, Aborted, ClientTypes
  <1>5. ReqQuiet(q)
    BY <1>1, <1>3, <1>4 DEF ReqQuiet
  <1>6. DownGrows({}, {}) /\ (UpSame \/ \E c \in Connection : UpSent(c, Close))
    BY ClosingShape
  <1>7. UpTells(q)'
    BY <1>0, <1>5, <1>6, QuietReq, UpTellsStay, CloseIsOfNobody DEF ReqInv
  <1>8. DownTells(q)'
    BY <1>0, <1>3, <1>6, DownTellsGrow DEF ReqInv
  <1> QED BY <1>5, <1>7, <1>8, QuietReq DEF ReqOf

LEMMA HelloReq ==
  ASSUME IInv, ConnInv, NEW c \in Connection, Hello(c), NEW q \in Requests, ReqInv
  PROVE  ReqOf(q)'
  <1> DEFINE ack == Msg("hello_ack", NoRequest, 0, epochs + 1)
  <1>0. TypeOK
    BY DEF IInv
  <1>1. UNCHANGED <<on, pump, pumped, taken, channels, fwd>> /\ UpRead(c)
    BY HelloShape DEF Hello, pumps, client
  <1>2. /\ UNCHANGED <<web[q], chan[q]>> \/ (chan[q] # "none" /\ chan'[q] # "none")
        /\ web'[q] = "new" => web[q] = "new"
        /\ cut \subseteq cut'
    BY FailsQuietly DEF Hello
  <1>3. ReqQuiet(q)
    BY <1>1, <1>2 DEF ReqQuiet
  <1>4. UpTells(q)'
    BY <1>0, <1>1, <1>3, QuietReq, UpTellsStay DEF ReqInv
  <1>5. DownTells(q)'
    <2>1. \A d \in Connection : Extends(down[d], down'[d], {Close}) \/ Extends(down[d], down'[d], {ack})
      BY HelloShape
    <2>2. Close.req # q /\ ack.req # q
      BY CloseIsOfNobody DEF Msg
    <2> HIDE DEF ack
    <2>3. ASSUME NEW d \in Connection, NEW i \in DOMAIN down'[d], down'[d][i].req = q
          PROVE  i \in DOMAIN down[d] /\ down[d][i] = down'[d][i]
      BY <2>1, <2>2, <2>3 DEF Extends
    <2> QED BY <1>2, <2>3 DEF ReqInv, DownTells
  <1> QED BY <1>3, <1>4, <1>5, QuietReq DEF ReqOf

LEMMA OpeningReq ==
  ASSUME IInv, UnopenedIsBlank, ConnInv, NEW c \in Connection, Connect(c) \/ Open(c), NEW q \in Requests, ReqInv
  PROVE  ReqOf(q)'
  <1> DEFINE hello == Msg("hello", NoRequest, 0, 0)
  <1>0. TypeOK
    BY DEF IInv
  <1>1. UNCHANGED <<web, chan, on, pump, pumped, taken, channels, fwd, cut, down>>
    BY DEF Connect, Open, relay, pumps, client, history
  <1>2. ReqQuiet(q)
    BY <1>1 DEF ReqQuiet
  <1>3. hello \in Message /\ hello.req # q
    BY SocketMsgIsMessage, CloseIsOfNobody DEF SocketMessage, Msg
  <1>4. UNCHANGED up \/ UpSent(c, hello)
    BY OpeningShape
  <1> HIDE DEF hello
  <1>5. UpTells(q)'
    BY <1>0, <1>2, <1>3, <1>4, QuietReq, UpCases, UpTellsStay DEF ReqInv
  <1>6. DownTells(q)'
    BY <1>1 DEF DownTells, ReqInv
  <1> QED BY <1>2, <1>5, <1>6, QuietReq DEF ReqOf

LEMMA ReqStep ==
  ASSUME IInv, UnopenedIsBlank, OpensOnce, ConnInv, ReqInv, [Next]_vars
  PROVE  ReqInv'
  <1> SUFFICES ASSUME NEW q \in Requests PROVE ReqOf(q)'
    BY DEF ReqInv, ReqOf
  <1>1. ASSUME NEW r \in Requests, Web(r) \/ Forward(r) PROVE ReqOf(q)'
    BY <1>1, WebReq, ForwardReq
  <1>2. ASSUME NEW c \in Connection, RelayReceives(c) PROVE ReqOf(q)'
    BY <1>2, HelloReq, ClosingReq, ReadingReq DEF RelayReceives, ClosingStep, ReadingStep
  <1>3. ASSUME NEW c \in Connection, ClientReceives(c) \/ Connect(c) \/ Lose(c) PROVE ReqOf(q)'
    BY <1>3, OpeningReq, ClosingReq, TakingReq DEF ClientReceives, ClosingStep, TakingStep
  <1>4. CASE HeartbeatTimeout \/ Revoke \/ Reconfigure
    BY <1>4, ClosingReq DEF OthersStep
  <1>5. CASE UNCHANGED rest
    <2>1. UNCHANGED <<web, chan, on, pump, pumped, taken, channels, fwd, cut, up, down>>
      BY <1>5 DEF rest, relay, sockets, client, history
    <2> QED BY <2>1 DEF ReqInv, ReqOf, Fresh, Known, DownTells, UpTells
  <1> QED BY <1>1, <1>2, <1>3, <1>4, <1>5, TimeMovesNothing DEF Next

-----------------------------------------------------------------------------
(* A request that was not cut, in a step that is not about it.             *)

\* What the sockets carry of q stays, or its end is not open any more.
DownBeside(q, T) ==
    \A c \in Connection : \/ down'[c] = <<>> /\ clientEnd'[c] # "open"
                          \/ Beside(down[c], down'[c], q, T)
UpBeside(q, T) ==
    \A c \in Connection : \/ up'[c] = <<>> /\ relayEnd'[c] # "open"
                          \/ Beside(up[c], up'[c], q, T)

\* What was given an epoch keeps it, and does not open again.
EndsKeep ==
    \A c \in Connection :
        /\ epoch[c] # 0 => /\ epoch'[c] = epoch[c]
                           /\ relayEnd'[c] = "open" => relayEnd[c] = "open"
                           /\ clientEnd'[c] = "open" => clientEnd[c] = "open"
        /\ relayEnd'[c] = "open" => relayEnd[c] = "open" \/ up'[c] = <<>>

\* The client has no socket, or one that is not open and brings no request.
Silent == cur # 0 => clientEnd[cur] # "open" /\ \A i \in DOMAIN down[cur] : down[cur][i].type = "close"

CurKeeps(q) ==
    \/ /\ cur' = cur /\ (ident # 0 => ident' = ident)
       /\ fwd'[q] = fwd[q] /\ (q \in channels' <=> q \in channels)
    \/ /\ Silent' /\ q \notin channels' /\ fwd'[q] \notin Working
       /\ fwd'[q] = fwd[q] \/ fwd'[q] = "over"

LEMMA BodyStays ==
  ASSUME TypeOK, TypeOK', ChannelsAreCurrent, RuntimeHasEpoch, NEW q \in Requests, Steady(q), BodyInv(q),
         NEW T, {"request_open", "request_chunk"} \subseteq T, DownBeside(q, T), EndsKeep,
         taken'[q] = taken[q], on'[q] = on[q], pump'[q] = "reading" => pump[q] = "reading" /\ pumped'[q] = pumped[q],
         \/ cur' = cur /\ (q \in channels => q \in channels')
         \/ Silent'
  PROVE  BodyInv(q)'
  <1>1. CASE cur' = 0
    BY <1>1 DEF BodyInv, BodyComes, BodyGoes
  <1>2. CASE cur' # 0 /\ Silent'
    BY <1>2 DEF BodyInv, BodyComes, BodyGoes, Silent, BothOpen, InOrder, Behind, About
  <1>3. CASE cur' # 0 /\ cur' = cur /\ (q \in channels => q \in channels')
    <2>a. cur \in Connection
      BY <1>3 DEF TypeOK, Connection
    <2>0. cur \in Connection /\ down[cur] \in Seq(Message) /\ down'[cur] \in Seq(Message)
      BY <2>a DEF TypeOK
    <2>1. CASE down'[cur] = <<>> /\ clientEnd'[cur] # "open"
      <3>1. DOMAIN down'[cur] = {}
        BY <2>1
      <3> QED BY <1>3, <2>1, <3>1 DEF BodyInv, BodyComes, BodyGoes, BothOpen, InOrder, Behind
    <2>2. CASE Beside(down[cur], down'[cur], q, T)
      <3>1. InOrder(down[cur], "request_chunk", q, taken[q]) /\ (q \in channels \/ Behind(down[cur], "request_chunk", q, "request_open"))
        BY <1>3 DEF BodyInv, BodyComes
      <3>2. InOrder(down'[cur], "request_chunk", q, taken[q])
        BY <2>0, <2>2, <3>1, InOrderBeside
      <3>3. Behind(down[cur], "request_chunk", q, "request_open") => Behind(down'[cur], "request_chunk", q, "request_open")
        BY <2>0, <2>2, BehindBeside
      <3>4. BodyComes(q)'
        BY <1>3, <3>1, <3>2, <3>3 DEF BodyComes
      <3>5. ASSUME cur = on[q], BothOpen(cur)', pump'[q] = "reading"
            PROVE  /\ AllOf(down'[cur], "request_chunk", q, taken[q], pumped[q])
                   /\ q \in channels \/ Sees(down'[cur], "request_open", q)
        <4>1. epoch[cur] # 0
          BY <2>a, <3>5 DEF Steady, ChannelsAreCurrent, RuntimeHasEpoch
        <4>2. BothOpen(cur)
          BY <1>3, <2>0, <3>5, <4>1 DEF EndsKeep, BothOpen
        <4>3. /\ AllOf(down[cur], "request_chunk", q, taken[q], pumped[q])
              /\ q \in channels \/ Sees(down[cur], "request_open", q)
          BY <1>3, <3>5, <4>2 DEF BodyInv, BodyGoes
        <4> QED BY <2>2, <4>3, AllOfBeside, SeesBeside
      <3>6. BodyGoes(q)'
        BY <1>3, <3>5 DEF BodyGoes
      <3> QED BY <3>4, <3>6 DEF BodyInv
    <2> QED BY <2>0, <2>1, <2>2 DEF DownBeside
  <1> QED BY <1>1, <1>2, <1>3

\* When nothing of a body is left to read nothing is said of it.
LEMMA BodyOver ==
  ASSUME TypeOK', ReqInv', NEW q \in Requests, ~ Unread(q)'
  PROVE  BodyInv(q)'
  <1>1. Known(q)' /\ DownTells(q)'
    BY DEF ReqInv
  <1>2. pump'[q] # "reading"
    BY <1>1 DEF Known, Unread
  <1>3. cur' # 0 => cur' \in Connection
    BY DEF TypeOK, Connection
  <1>4. \A c \in Connection : \A i \in DOMAIN down'[c] : ~ About(down'[c][i], "request_chunk", q)
    BY <1>1 DEF DownTells, Unread, About
  <1> QED BY <1>2, <1>3, <1>4 DEF BodyInv, BodyComes, BodyGoes, InOrder, Behind

LEMMA ChannelTypes == \A m \in Message : m.req \in Requests => m.type \in ChannelMessage
  BY RelayAssumption DEF Message

LEMMA UpIsBeside ==
  ASSUME TypeOK', NEW q \in Requests, UpBeside(q, ChannelMessage), NEW c \in Connection, NEW i \in DOMAIN up'[c], up'[c][i].req = q
  PROVE  /\ \E j \in DOMAIN up[c] : up[c][j] = up'[c][i]
         /\ up'[c] # <<>> /\ Beside(up[c], up'[c], q, ChannelMessage)
  <1>1. up'[c][i].type \in ChannelMessage
    BY ChannelTypes DEF TypeOK
  <1>2. up'[c] # <<>>
    OBVIOUS
  <1> QED BY <1>1, <1>2 DEF UpBeside, Beside, BesideAt

LEMMA ReplyGoesOn ==
  ASSUME TypeOK, TypeOK', IdentIsEpoch, NEW q \in Requests, Steady(q), ReplyInv(q), EndsKeep,
         NEW T, {"response_open", "response_chunk"} \subseteq T, UpBeside(q, T),
         UNCHANGED <<on[q], got[q], sent[q], chan[q]>>, fwd'[q] = "streaming" => fwd[q] = "streaming" /\ cur' = cur
  PROVE  ReplyComes(q)' /\ ReplyGoes(q)'
  <1>0. \A c \in Connection : up[c] \in Seq(Message) /\ up'[c] \in Seq(Message)
    BY DEF TypeOK
  <1>1. ReplyComes(q)'
    <2> SUFFICES ASSUME NEW c \in Connection, relayEnd'[c] = "open"
                 PROVE  /\ InOrder(up'[c], "response_chunk", q, got'[q])
                        /\ Sees(up'[c], "response_chunk", q) =>
                             chan'[q] = "open" \/ (chan'[q] = "waiting" /\ Behind(up'[c], "response_chunk", q, "response_open"))
      BY DEF ReplyComes
    <2>1. CASE up'[c] = <<>>
      <3>1. DOMAIN up'[c] = {}
        BY <2>1
      <3> QED BY <3>1 DEF InOrder, Sees
    <2>2. CASE up'[c] # <<>>
      <3>1. relayEnd[c] = "open" /\ Beside(up[c], up'[c], q, T)
        BY <2>2 DEF EndsKeep, UpBeside
      <3>3. /\ InOrder(up[c], "response_chunk", q, got[q])
            /\ Sees(up[c], "response_chunk", q) =>
                 chan[q] = "open" \/ (chan[q] = "waiting" /\ Behind(up[c], "response_chunk", q, "response_open"))
        BY <3>1 DEF ReplyInv, ReplyComes
      <3>4. InOrder(up'[c], "response_chunk", q, got[q])
        BY <1>0, <3>1, <3>3, InOrderBeside
      <3>5. Sees(up'[c], "response_chunk", q) <=> Sees(up[c], "response_chunk", q)
        BY <3>1, SeesBeside
      <3>6. Behind(up[c], "response_chunk", q, "response_open") => Behind(up'[c], "response_chunk", q, "response_open")
        BY <1>0, <3>1, BehindBeside
      <3> QED BY <3>3, <3>4, <3>5, <3>6
    <2> QED BY <2>1, <2>2
  <1>2. ReplyGoes(q)'
    <2> SUFFICES ASSUME fwd'[q] = "streaming", cur' # 0, BothOpen(cur)'
                 PROVE  /\ AllOf(up'[cur], "response_chunk", q, got'[q], sent'[q])
                        /\ chan'[q] = "open" \/ (chan'[q] = "waiting" /\ Sees(up'[cur], "response_open", q))
      BY DEF ReplyGoes
    <2>1. fwd[q] = "streaming" /\ cur' = cur /\ cur \in Connection
      BY DEF TypeOK, Connection
    <2>2. epoch[cur] # 0
      BY <2>1 DEF Steady, IdentIsEpoch, Working
    <2>3. BothOpen(cur)
      BY <2>1, <2>2 DEF BothOpen, EndsKeep
    <2>4. /\ AllOf(up[cur], "response_chunk", q, got[q], sent[q])
          /\ chan[q] = "open" \/ (chan[q] = "waiting" /\ Sees(up[cur], "response_open", q))
      BY <2>1, <2>3 DEF ReplyInv, ReplyGoes
    <2>5. Beside(up[cur], up'[cur], q, T)
      BY <2>1 DEF UpBeside, BothOpen
    <2> QED BY <2>1, <2>4, <2>5, AllOfBeside, SeesBeside
  <1> QED BY <1>1, <1>2

LEMMA ReplyStays ==
  ASSUME TypeOK, TypeOK', IdentIsEpoch, NEW q \in Requests, Steady(q), ReplyInv(q), UpBeside(q, ChannelMessage), EndsKeep,
         UNCHANGED <<on[q], got[q], sent[q], chan[q]>>, fwd'[q] = "streaming" => fwd[q] = "streaming" /\ cur' = cur
  PROVE  ReplyInv(q)'
  <1>1. ReplyIsOfRuntime(q)'
    <2> SUFFICES ASSUME NEW c \in Connection, relayEnd'[c] = "open", NEW i \in DOMAIN up'[c], up'[c][i].req = q
                 PROVE  up'[c][i].epoch = epoch'[c] /\ epoch'[c] # 0 /\ on'[q] = c
      BY DEF ReplyIsOfRuntime
    <2>1. PICK j \in DOMAIN up[c] : up[c][j] = up'[c][i]
      BY UpIsBeside
    <2>2. relayEnd[c] = "open"
      BY UpIsBeside DEF EndsKeep
    <2>3. up[c][j].epoch = epoch[c] /\ epoch[c] # 0 /\ on[q] = c
      BY <2>1, <2>2 DEF ReplyInv, ReplyIsOfRuntime
    <2> QED BY <2>1, <2>3 DEF EndsKeep
  <1>2. ReplyComes(q)' /\ ReplyGoes(q)'
    <2>1. {"response_open", "response_chunk"} \subseteq ChannelMessage
      BY DEF ChannelMessage
    <2> QED BY <2>1, ReplyGoesOn
  <1> QED BY <1>1, <1>2 DEF ReplyInv

LEMMA UnreadStays ==
  ASSUME TypeOK', NEW q \in Requests, DownBeside(q, ChannelMessage), pump'[q] = "reading" => pump[q] = "reading", Unread(q)'
  PROVE  Unread(q)
  <1>1. CASE pump'[q] = "reading"
    BY <1>1 DEF Unread
  <1>2. CASE pump'[q] # "reading"
    <2>1. PICK c \in Connection : \E i \in DOMAIN down'[c] :
              down'[c][i].req = q /\ down'[c][i].type \in {"request_chunk", "request_end"}
      BY <1>2 DEF Unread
    <2>2. PICK i \in DOMAIN down'[c] : down'[c][i].req = q /\ down'[c][i].type \in {"request_chunk", "request_end"}
      BY <2>1
    <2>3. down'[c] # <<>>
      BY <2>2
    <2>4. Beside(down[c], down'[c], q, ChannelMessage) /\ {"request_chunk", "request_end"} \subseteq ChannelMessage
      BY <2>3 DEF DownBeside, ChannelMessage
    <2>5. \E j \in DOMAIN down[c] : down[c][j] = down'[c][i]
      BY <2>2, <2>4 DEF Beside, BesideAt
    <2> QED BY <2>2, <2>5 DEF Unread
  <1> QED BY <1>1, <1>2

\* What is read is read, and an answer is new only if a message, the call of
\* forward or the channel says so.
LEMMA AnsweredStays ==
  ASSUME TypeOK', NEW q \in Requests, UpBeside(q, ChannelMessage), fwd'[q] \in {"streaming", "ended"} => fwd'[q] = fwd[q],
         chan'[q] = "done" => chan[q] = "done", Answered(q)'
  PROVE  Answered(q)
  <1>1. ASSUME NEW c \in Connection, NEW i \in DOMAIN up'[c], up'[c][i].req = q PROVE Answered(q)
    BY <1>1, UpIsBeside DEF Answered
  <1> QED BY <1>1 DEF Answered

LEMMA Bystander ==
  ASSUME IInv, TypeOK', ConnInv, NEW q \in Requests, Uncut(q), DownBeside(q, ChannelMessage), UpBeside(q, ChannelMessage), EndsKeep, CurKeeps(q),
         UNCHANGED <<chan[q], on[q], got[q], pump[q], pumped[q], taken[q], under[q], sent[q]>>
  PROVE  Uncut(q)'
  <1>0. TypeOK /\ ChannelsAreCurrent /\ RuntimeHasEpoch /\ IdentIsEpoch /\ Steady(q) /\ BodyInv(q) /\ ReplyInv(q)
    BY DEF IInv, ConnInv, Uncut
  <1>1. BodyInv(q)'
    <2>1. {"request_open", "request_chunk"} \subseteq ChannelMessage
      BY DEF ChannelMessage
    <2> QED BY <1>0, <2>1, BodyStays DEF CurKeeps
  <1>2. fwd'[q] \in {"streaming", "ended"} => fwd'[q] = fwd[q]
    BY DEF CurKeeps
  <1>3. ReplyInv(q)'
    <2>1. fwd'[q] = "streaming" => fwd[q] = "streaming" /\ cur' = cur
      BY DEF CurKeeps, Working
    <2> QED BY <1>0, <2>1, ReplyStays
  <1>4. Steady(q)'
    <2>1. Answered(q)' => ~ Unread(q)'
      BY <1>0, <1>2, AnsweredStays, UnreadStays DEF Steady
    <2>2. pump'[q] = "reading" => Live(q)'
      BY <1>0 DEF Steady, Live
    <2>3. CASE cur' = cur /\ (ident # 0 => ident' = ident) /\ fwd'[q] = fwd[q] /\ (q \in channels' <=> q \in channels)
      BY <1>0, <2>1, <2>2, <2>3 DEF Steady
    <2>4. CASE q \notin channels' /\ fwd'[q] \notin Working /\ (fwd'[q] = fwd[q] \/ fwd'[q] = "over")
      BY <1>0, <2>1, <2>2, <2>4 DEF Steady
    <2> QED BY <2>3, <2>4 DEF CurKeeps
  <1> QED BY <1>1, <1>3, <1>4 DEF Uncut

LEMMA DownGrowsBeside ==
  ASSUME TypeOK, TypeOK', NEW q \in Requests, NEW R, NEW T, DownGrows(R, T), NEW U,
         q \in R => T \cap U = {}, U \subseteq ChannelMessage
  PROVE  DownBeside(q, U)
  <1>1. ASSUME NEW c \in Connection, Extends(down[c], down'[c], NewDown(c, R, T)) PROVE Beside(down[c], down'[c], q, U)
    <2>1. \A m \in NewDown(c, R, T) : ~ (m.type \in U /\ m.req = q)
      BY CloseIsOfNobody DEF NewDown
    <2>2. down[c] \in Seq(Message) /\ down'[c] \in Seq(Message)
      BY DEF TypeOK
    <2> QED BY <1>1, <2>1, <2>2, BesideExtends
  <1> QED BY <1>1 DEF DownGrows, DownBeside

LEMMA DownTakenBeside ==
  ASSUME TypeOK, NEW q \in Requests, NEW c \in Connection, DownTaken(c), NEW U, ~ (Head(down[c]).type \in U /\ Head(down[c]).req = q)
  PROVE  DownBeside(q, U)
  <1>1. \A d \in Connection : down[d] \in Seq(Message)
    BY DEF TypeOK
  <1>2. Beside(down[c], Tail(down[c]), q, U)
    BY <1>1, BesideTail DEF DownTaken
  <1>3. \A d \in Connection : Beside(down[d], down[d], q, U)
    BY <1>1, BesideSame
  <1> QED BY <1>2, <1>3 DEF DownTaken, DownBeside

LEMMA UpBesideCases ==
  ASSUME TypeOK, TypeOK', NEW q \in Requests, NEW T,
         \/ UpSame
         \/ \E c \in Connection : UpRead(c) /\ ~ (Head(up[c]).type \in T /\ Head(up[c]).req = q)
         \/ \E c \in Connection : \E m \in Message : UpSent(c, m) /\ ~ (m.type \in T /\ m.req = q)
  PROVE  UpBeside(q, T)
  <1>1. \A c \in Connection : up[c] \in Seq(Message) /\ up'[c] \in Seq(Message)
    BY DEF TypeOK
  <1>2. \A c \in Connection : Beside(up[c], up[c], q, T)
    BY <1>1, BesideSame
  <1>3. CASE UpSame
    BY <1>2, <1>3 DEF UpSame, UpBeside
  <1>4. ASSUME NEW c \in Connection, UpRead(c), ~ (Head(up[c]).type \in T /\ Head(up[c]).req = q) PROVE UpBeside(q, T)
    <2>1. Beside(up[c], Tail(up[c]), q, T)
      BY <1>1, <1>4, BesideTail DEF UpRead
    <2> QED BY <1>2, <1>4, <2>1 DEF UpRead, UpBeside
  <1>5. ASSUME NEW c \in Connection, NEW m \in Message, UpSent(c, m), ~ (m.type \in T /\ m.req = q) PROVE UpBeside(q, T)
    <2>1. up'[c] = up[c] \o <<m>>
      BY <1>5 DEF UpSent
    <2>2. Extends(up[c], up'[c], {m})
      BY <1>1, <2>1, ExtendsCases
    <2>3. Beside(up[c], up'[c], q, T)
      BY <1>1, <1>5, <2>2, BesideExtends
    <2> QED BY <1>2, <1>5, <2>3 DEF UpSent, UpBeside
  <1> QED BY <1>3, <1>4, <1>5

LEMMA SameEnds ==
  ASSUME UNCHANGED <<epoch, relayEnd, clientEnd>>
  PROVE  EndsKeep
  BY DEF EndsKeep

-----------------------------------------------------------------------------
(* The callers.                                                            *)

LEMMA BehindOwn ==
  ASSUME NEW s \in Seq(Message), NEW m \in Message, NEW type, NEW r, NEW first,
         Behind(s, type, r, first), About(m, type, r) => Sees(s, first, r)
  PROVE  Behind(s \o <<m>>, type, r, first)
  <1> DEFINE t == s \o <<m>>
             l == Len(s) + 1
  <1>0. /\ Len(s) \in Nat /\ DOMAIN s = 1 .. Len(s) /\ DOMAIN t = 1 .. l
        /\ \A i \in 1 .. Len(s) : t[i] = s[i]
        /\ t[l] = m
    BY AppendFacts
  <1>1. \A j \in 1 .. l : j \in 1 .. Len(s) \/ j = l
    BY <1>0
  <1>2. \A j \in 1 .. Len(s) : j < l /\ j \in 1 .. l
    BY <1>0
  <1> HIDE DEF t, l
  <1>3. ASSUME NEW i \in 1 .. l, About(t[i], type, r) PROVE \E j \in 1 .. l : j < i /\ About(t[j], first, r)
    <2>1. CASE i \in 1 .. Len(s)
      BY <1>0, <1>2, <1>3, <2>1 DEF Behind
    <2>2. CASE i = l
      BY <1>0, <1>2, <1>3, <2>2 DEF Sees
    <2> QED BY <1>1, <2>1, <2>2
  <1> QED BY <1>0, <1>3 DEF Behind, t

LEMMA LastIsSeen ==
  ASSUME NEW s \in Seq(Message), NEW m \in Message
  PROVE  Sees(s \o <<m>>, m.type, m.req)
  <1>1. Len(s) + 1 \in 1 .. (Len(s) + 1)
    OBVIOUS
  <1>2. Len(s) + 1 \in DOMAIN (s \o <<m>>) /\ (s \o <<m>>)[Len(s) + 1] = m
    BY <1>1, AppendFacts
  <1> QED BY <1>2 DEF Sees, About

\* A request arrives.
LEMMA AskUncut ==
  ASSUME IInv, TypeOK', ConnInv, ReqInv, OpensOnce, NEW r \in Requests, WebRequest(r), Uncut(r)
  PROVE  Uncut(r)'
  <1>0. TypeOK /\ WebTypes /\ RuntimeTypes /\ ClientTypes
    BY TypeParts DEF IInv
  <1>1. web[r] = "new" /\ fwd[r] = "none" /\ Fresh(r) /\ Known(r) /\ DownTells(r) /\ UpTells(r)
    BY DEF WebRequest, OpensOnce, ReqInv
  <1>2. UNCHANGED <<runtime, epoch, got, pumped, relayEnd, clientEnd, up, cur, ident, channels, taken, fwd, under, sent>>
    BY DEF WebRequest, client
  <1>3. UpBeside(r, ChannelMessage) /\ EndsKeep
    BY <1>0, <1>2, UpCases, UpBesideCases, SameEnds
  <1>4. CASE runtime = 0
    <2>1. UNCHANGED <<chan, on, pump, down>>
      BY <1>4 DEF WebRequest
    <2>2. DownBeside(r, ChannelMessage)
      <3>1. DownGrows({}, {})
        BY <1>0, <2>1, DownSame
      <3> QED BY <1>0, <3>1, DownGrowsBeside
    <2>3. CurKeeps(r)
      BY <1>2 DEF CurKeeps
    <2> QED BY <1>2, <1>3, <2>1, <2>2, <2>3, Bystander
  <1>5. CASE runtime # 0
    <2> DEFINE m == Msg("request_open", r, 0, epoch[runtime])
    <2>1. /\ chan'[r] = "waiting" /\ on'[r] = runtime
          /\ pump'[r] = IF r \in Bodies THEN "reading" ELSE "over"
          /\ r \in Bodies => down' = [down EXCEPT ![runtime] = ToClient(runtime, <<m>>)]
      BY <1>0, <1>5 DEF WebRequest, WebTypes
    <2>2. runtime \in Connection /\ m \in Message /\ m.type = "request_open" /\ m.req = r
      <3>1. runtime \in Connection
        BY <1>0, <1>5 DEF RuntimeTypes, Connection
      <3> QED BY <1>0, <3>1, MsgIsMessage DEF RuntimeTypes, ChannelMessage, Msg
    <2> HIDE DEF m
    <2>3. \A c \in Connection : \A i \in DOMAIN up[c] : up[c][i].req # r
      BY <1>1 DEF UpTells
    <2>4. \A c \in Connection : \A i \in DOMAIN down'[c] : ~ About(down'[c][i], "request_chunk", r)
      <3> SUFFICES ASSUME NEW c \in Connection, NEW i \in DOMAIN down'[c], About(down'[c][i], "request_chunk", r) PROVE FALSE
        OBVIOUS
      <3>1. DownGrows({r}, {"request_open", "request_end"}) /\ down'[c] # <<>>
        BY WebSends
      <3>2. i \notin DOMAIN down[c] \/ down[c][i] # down'[c][i]
        BY <1>1 DEF DownTells, About
      <3>3. down'[c][i] \in NewDown(c, {r}, {"request_open", "request_end"})
        BY <3>1, <3>2 DEF DownGrows, Extends
      <3> QED BY <3>3, CloseIsOfNobody DEF NewDown, About
    <2>5. Steady(r)'
      BY <1>1, <1>2, <2>1, <2>3 DEF Steady, Answered, Live, Known, Working
    <2>6. cur' # 0 => cur' \in Connection
      BY <1>0, <1>2 DEF ClientTypes, Connection
    <2>7. BodyComes(r)'
      BY <2>4, <2>6 DEF BodyComes, InOrder, Behind
    <2>8. BodyGoes(r)'
      <3> SUFFICES ASSUME cur' # 0, cur' = on'[r], BothOpen(cur)', pump'[r] = "reading"
                   PROVE  /\ AllOf(down'[cur'], "request_chunk", r, taken'[r], pumped'[r])
                          /\ Sees(down'[cur'], "request_open", r)
        BY DEF BodyGoes
      <3>1. cur' = runtime /\ taken'[r] = 0 /\ pumped'[r] = 0
        BY <1>1, <1>2, <2>1 DEF Fresh
      <3>2. ~ Sees(down'[runtime], "request_chunk", r)
        BY <2>2, <2>4 DEF Sees
      <3>3. AllOf(down'[runtime], "request_chunk", r, 0, 0)
        BY <3>2 DEF AllOf, Has, Sees
      <3>4. down'[runtime] = down[runtime] \o <<m>>
        BY <1>0, <1>2, <2>1, <2>2, <3>1 DEF BothOpen, ToClient, TypeOK
      <3>5. down[runtime] \in Seq(Message)
        BY <1>0, <2>2 DEF TypeOK
      <3> QED BY <2>2, <3>1, <3>3, <3>4, <3>5, LastIsSeen
    <2>9. ReplyInv(r)'
      BY <1>1, <1>2, <2>3 DEF ReplyInv, ReplyIsOfRuntime, ReplyComes, ReplyGoes, InOrder, Sees, About
    <2> QED BY <2>5, <2>7, <2>8, <2>9 DEF Uncut, BodyInv
  <1> QED BY <1>4, <1>5

\* The task that reads the body.
LEMMA PumpUncut ==
  ASSUME IInv, TypeOK', ConnInv, ReqInv, NEW r \in Requests, PumpChunk(r) \/ PumpEnd(r), Uncut(r)
  PROVE  Uncut(r)'
  <1>0. TypeOK /\ WebTypes /\ RuntimeTypes /\ ClientTypes
    BY TypeParts DEF IInv
  <1>1. UNCHANGED <<runtime, epoch, chan, on, got, relayEnd, clientEnd, up, cur, ident, channels, taken, fwd, under, sent>>
    BY DEF PumpChunk, PumpEnd, relay, client
  <1>2. /\ ChannelsAreCurrent /\ IdentIsEpoch /\ RuntimeHasEpoch /\ Steady(r) /\ BodyInv(r) /\ ReplyInv(r)
        /\ pump[r] = "reading" /\ r \in Bodies
    BY DEF IInv, ConnInv, Uncut, PumpChunk, PumpEnd, ReqInv, Known
  <1>3. ~ Answered(r) /\ Live(r) /\ runtime = on[r] /\ runtime # 0
    BY <1>2 DEF Steady, Unread, ChannelsAreCurrent
  <1>4. UpBeside(r, ChannelMessage) /\ EndsKeep
    BY <1>0, <1>1, UpCases, UpBesideCases, SameEnds
  <1>5. ReplyInv(r)'
    BY <1>0, <1>1, <1>2, <1>4, ReplyStays
  <1>6. Steady(r)'
    BY <1>1, <1>2, <1>3 DEF Steady, Answered, Live
  <1>7. BodyInv(r)'
    <2>1. CASE PumpEnd(r)
      <3>1. pump'[r] # "reading" /\ taken'[r] = taken[r] /\ on'[r] = on[r]
        BY <1>0, <1>1, <2>1 DEF PumpEnd, WebTypes
      <3>2. DownBeside(r, {"request_open", "request_chunk"})
        <4>1. DownGrows({r}, {"request_end"})
          BY <2>1, WebSends
        <4>2. {"request_end"} \cap {"request_open", "request_chunk"} = {} /\ {"request_open", "request_chunk"} \subseteq ChannelMessage
          BY DEF ChannelMessage
        <4> QED BY <1>0, <4>1, <4>2, DownGrowsBeside
      <3> QED BY <1>0, <1>1, <1>2, <1>4, <3>1, <3>2, BodyStays
    <2>2. CASE PumpChunk(r)
      <3> DEFINE m == Msg("request_chunk", r, pumped[r], epoch[runtime])
      <3>1. pumped'[r] = pumped[r] + 1 /\ down' = [down EXCEPT ![runtime] = ToClient(runtime, <<m>>)]
        BY <1>0, <1>3, <2>2 DEF PumpChunk, WebTypes
      <3>2. runtime \in Connection
        BY <1>0, <1>3 DEF RuntimeTypes, Connection
      <3>3. m \in Message /\ About(m, "request_chunk", r) /\ m.n = pumped[r] /\ ~ About(m, "request_open", r)
        <4>1. m \in Message
          BY <1>0, <3>2, MsgIsMessage DEF RuntimeTypes, WebTypes, ChannelMessage
        <4> QED BY <4>1 DEF About, Msg
      <3> HIDE DEF m
      <3>4. CASE cur = runtime /\ BothOpen(cur)
        <4>0. cur \in Connection /\ SocketTypes
          BY <1>0, <3>2, <3>4, TypeParts
        <4>1. down[cur] \in Seq(Message) /\ taken[r] \in Nat /\ pumped[r] \in Nat
          BY <1>0, <4>0 DEF SocketTypes, WebTypes, ClientTypes
        <4>2. down'[cur] = down[cur] \o <<m>>
          BY <3>1, <3>4, <4>0 DEF BothOpen, ToClient, SocketTypes
        <4>3. /\ AllOf(down[cur], "request_chunk", r, taken[r], pumped[r])
              /\ InOrder(down[cur], "request_chunk", r, taken[r])
              /\ r \in channels \/ Sees(down[cur], "request_open", r)
              /\ r \in channels \/ Behind(down[cur], "request_chunk", r, "request_open")
          BY <1>2, <1>3, <3>4 DEF BodyInv, BodyComes, BodyGoes
        <4>4. InOrder(down'[cur], "request_chunk", r, taken[r]) /\ AllOf(down'[cur], "request_chunk", r, taken[r], pumped[r] + 1)
          BY <3>3, <4>1, <4>2, <4>3, OwnChunk
        <4>5. r \in channels \/ Behind(down'[cur], "request_chunk", r, "request_open")
          BY <3>3, <4>1, <4>2, <4>3, BehindOwn
        <4>6. r \in channels \/ Sees(down'[cur], "request_open", r)
          <5>1. Extends(down[cur], down'[cur], {m})
            BY <3>3, <4>1, <4>2, ExtendsCases
          <5> QED BY <4>3, <5>1 DEF Extends, Sees
        <4> QED BY <1>1, <3>1, <4>4, <4>5, <4>6 DEF BodyInv, BodyComes, BodyGoes
      <3>5. CASE ~ (cur = runtime /\ BothOpen(cur))
        <4>1. cur # 0 => down'[cur] = down[cur]
          <5>1. cur # 0 => cur \in Connection
            BY <1>0 DEF ClientTypes, Connection
          <5> QED BY <1>0, <3>1, <3>2, <3>5, <5>1 DEF BothOpen, ToClient, TypeOK
        <4>2. BodyComes(r)'
          BY <1>1, <1>2, <4>1 DEF BodyInv, BodyComes
        <4>3. BodyGoes(r)'
          BY <1>1, <1>3, <3>5 DEF BodyGoes, BothOpen
        <4> QED BY <4>2, <4>3 DEF BodyInv
      <3> QED BY <3>4, <3>5
    <2> QED BY <2>1, <2>2
  <1> QED BY <1>5, <1>6, <1>7 DEF Uncut

LEMMA WebUncut ==
  ASSUME IInv, TypeOK', ConnInv, ReqInv, OpensOnce, NEW r \in Requests, Web(r), NEW q \in Requests \ cut', Uncut(q)
  PROVE  Uncut(q)'
  <1>0. TypeOK /\ WebTypes
    BY TypeParts DEF IInv
  <1>1. CASE q = r
    <2>1. WebRequest(r) \/ PumpChunk(r) \/ PumpEnd(r)
      BY <1>1 DEF Web, PumpFails, WebGone, TimerFires
    <2> QED BY <1>1, <2>1, AskUncut, PumpUncut
  <1>2. CASE q # r
    <2>1. UNCHANGED <<epoch, got, relayEnd, clientEnd, up, cur, ident, channels, taken, fwd, under, sent>>
      BY DEF Web, WebRequest, PumpChunk, PumpEnd, PumpFails, WebGone, TimerFires, relay, client
    <2>2. UNCHANGED <<chan[q], on[q], pump[q], pumped[q]>>
      BY <1>0, <1>2 DEF Web, WebRequest, PumpChunk, PumpEnd, PumpFails, WebGone, TimerFires, FailChannel, relay, pumps, WebTypes
    <2>3. UpBeside(q, ChannelMessage) /\ EndsKeep /\ CurKeeps(q)
      BY <1>0, <2>1, UpCases, UpBesideCases, SameEnds DEF CurKeeps
    <2>4. DownBeside(q, ChannelMessage)
      <3>1. \E T : DownGrows({r}, T)
        BY WebSends DEF Web
      <3>2. q \notin {r} /\ ChannelMessage \subseteq ChannelMessage
        BY <1>2
      <3> QED BY <1>0, <3>1, <3>2, DownGrowsBeside
    <2> QED BY <2>1, <2>2, <2>3, <2>4, Bystander
  <1> QED BY <1>1, <1>2

-----------------------------------------------------------------------------
(* forward.                                                                *)

LEMMA SendsExact ==
  ASSUME TypeOK, cur \in Connection, NEW m, Sends(m)
  PROVE  /\ BothOpen(cur) => up'[cur] = up[cur] \o <<m>>
         /\ ~ BothOpen(cur) => up'[cur] = up[cur]
         /\ \A c \in Connection : c # cur => up'[c] = up[c]
  BY DEF Sends, ToRelay, BothOpen, TypeOK

\* The call of forward for r, and where it says what it says.
LEMMA ForwardShape ==
  ASSUME IInv, ConnInv, NEW r \in Requests, Forward(r), r \notin cut', Uncut(r)
  PROVE  /\ UNCHANGED <<down, relayEnd, clientEnd, epoch, runtime, cur, ident, on, chan, got, pump, pumped, taken, under>>
         /\ cur \in Connection /\ cur = on[r] /\ r \in channels /\ ident = epoch[cur] /\ epoch[cur] # 0 /\ under[r] = ident
         /\ ~ Unread(r) /\ ~ Unread(r)' /\ channels' \subseteq channels
  <1>0. TypeOK
    BY DEF IInv
  <1>1. UNCHANGED <<down, relayEnd, clientEnd, epoch, runtime, cur, ident, on, chan, got, pump, pumped, taken, under>>
        /\ channels' \subseteq channels
    BY DEF Forward, FetchAnswers, FetchFails, ReplyChunk, ReplyEnds, ReplyFails, relay, pumps
  <1>2. Steady(r) /\ IdentIsEpoch /\ fwd[r] \in Working
    BY ForwardTells DEF Uncut, ConnInv
  <1>3. r \in channels /\ cur # 0 /\ cur = on[r] /\ ident # 0 /\ under[r] = ident /\ ident = epoch[cur]
    BY <1>2 DEF Steady, IdentIsEpoch
  <1>4. cur \in Connection
    BY <1>0, <1>3 DEF TypeOK, Connection
  <1>5. ~ Unread(r)
    <2>1. CASE fwd[r] = "fetching"
      <3>1. FetchAnswers(r) \/ FetchFails(r)
        BY <2>1 DEF Forward, ReplyChunk, ReplyEnds, ReplyFails
      <3> QED BY <3>1 DEF FetchAnswers, FetchFails, AnsweredEarly
    <2>2. CASE fwd[r] = "streaming"
      BY <1>2, <2>2 DEF Steady, Answered
    <2> QED BY <1>2, <2>1, <2>2 DEF Working
  <1>6. ~ Unread(r)'
    BY <1>1, <1>5 DEF Unread
  <1> QED BY <1>1, <1>3, <1>4, <1>5, <1>6

\* What it says is of the runtime the relay has, if it still reads.
LEMMA ForwardIsOfRuntime ==
  ASSUME IInv, ConnInv, NEW r \in Requests, Forward(r), r \notin cut', Uncut(r)
  PROVE  ReplyIsOfRuntime(r)'
  <1>0. TypeOK
    BY DEF IInv
  <1> SUFFICES ASSUME NEW c \in Connection, relayEnd'[c] = "open", NEW i \in DOMAIN up'[c], up'[c][i].req = r
               PROVE  up'[c][i].epoch = epoch'[c] /\ epoch'[c] # 0 /\ on'[r] = c
    BY DEF ReplyIsOfRuntime
  <1>1. UNCHANGED <<relayEnd, epoch, on>> /\ cur = on[r] /\ ident = epoch[cur] /\ epoch[cur] # 0 /\ under[r] = ident
    BY ForwardShape
  <1>2. \A j \in DOMAIN up[c] : up[c][j].req = r => up[c][j].epoch = epoch[c] /\ epoch[c] # 0 /\ on[r] = c
    BY <1>1 DEF Uncut, ReplyInv, ReplyIsOfRuntime
  <1>3. CASE up'[c] = up[c]
    BY <1>1, <1>2, <1>3
  <1>4. ASSUME NEW m \in Message, UpSent(cur, m), Says(r, m), c = cur
        PROVE  up'[c][i].epoch = epoch'[c] /\ epoch'[c] # 0 /\ on'[r] = c
    <2>1. up[c] \in Seq(Message) /\ up'[c] = up[c] \o <<m>>
      BY <1>0, <1>4 DEF TypeOK, UpSent
    <2>2. Extends(up[c], up'[c], {m})
      BY <2>1, ExtendsCases
    <2>3. CASE i \in DOMAIN up[c]
      BY <1>1, <1>2, <2>2, <2>3 DEF Extends
    <2>4. CASE i \notin DOMAIN up[c]
      BY <1>1, <1>4, <2>2, <2>4 DEF Extends, Says
    <2> QED BY <2>3, <2>4
  <1>5. up'[c] = <<>> => FALSE
    OBVIOUS
  <1> QED BY <1>3, <1>4, <1>5, ForwardSays DEF UpSame, UpSent

\* The call comes to its end.
LEMMA ForwardGoes ==
  ASSUME IInv, TypeOK', ConnInv, NEW r \in Requests, Forward(r), r \notin cut', Uncut(r), fwd'[r] # "streaming"
  PROVE  ReplyComes(r)' /\ ReplyGoes(r)'
  <1> DEFINE T == {"response_open", "response_chunk"}
  <1>0. TypeOK /\ ClientTypes
    BY TypeParts DEF IInv
  <1>1. UNCHANGED <<relayEnd, clientEnd, epoch, on, got, chan>>
    BY ForwardShape
  <1>2. UNCHANGED up \/ \E m \in Message : Sends(m) /\ m.type \notin T
    <2>1. \A e \in {under[r], ident} : \A type \in {"response_end", "response_error"} : Msg(type, r, 0, e) \in Message
      BY <1>0, MsgIsMessage DEF ClientTypes, ChannelMessage
    <2>2. \A e \in {under[r], ident} : \A type \in {"response_end", "response_error"} : Msg(type, r, 0, e).type \notin T
      BY DEF Msg
    <2> HIDE DEF T
    <2>3. CASE FetchAnswers(r) \/ ReplyChunk(r)
      BY <1>0, <2>3 DEF FetchAnswers, ReplyChunk, Forwards, ClientTypes
    <2>4. CASE FetchFails(r) \/ ReplyEnds(r) \/ ReplyFails(r)
      BY <2>1, <2>2, <2>4 DEF FetchFails, ReplyEnds, ReplyFails, Forwards
    <2> QED BY <2>3, <2>4 DEF Forward
  <1>3. UNCHANGED sent
    <2>1. CASE ReplyChunk(r)
      <3>1. ~ CanSend
        BY <1>0, <2>1 DEF ReplyChunk, Forwards, ClientTypes
      <3> QED BY <1>0, <2>1, <3>1 DEF ReplyChunk, ClientTypes
    <2> QED BY <2>1 DEF Forward, FetchAnswers, FetchFails, ReplyEnds, ReplyFails
  <1>4. cur \in Connection
    BY ForwardShape
  <1> HIDE DEF T
  <1>5. UpBeside(r, T)
    BY <1>0, <1>2, <1>4, UpCases, UpBesideCases
  <1> QED BY <1>0, <1>1, <1>3, <1>5, SameEnds, ReplyGoesOn DEF Uncut, ConnInv, T

\* The local server answers.
LEMMA AnswerGoes ==
  ASSUME IInv, TypeOK', ConnInv, ReqInv, ChunksAreSent, NEW r \in Requests, FetchAnswers(r), r \notin cut', Uncut(r), fwd'[r] = "streaming"
  PROVE  ReplyComes(r)' /\ ReplyGoes(r)'
  <1> DEFINE m == Msg("response_open", r, 0, under[r])
  <1>0. TypeOK /\ ClientTypes /\ WebTypes
    BY TypeParts DEF IInv
  <1>1. UNCHANGED <<relayEnd, clientEnd, epoch, on, got, chan, cur>> /\ cur \in Connection /\ cur = on[r]
    BY ForwardShape DEF Forward
  <1>2. fwd[r] = "fetching" /\ CanSend /\ Sends(m) /\ UNCHANGED sent
    BY <1>0 DEF FetchAnswers, Forwards, ClientTypes
  <1>3. m \in Message /\ m.type = "response_open" /\ m.req = r
    BY <1>0, MsgIsMessage DEF ClientTypes, ChannelMessage, Msg
  <1> HIDE DEF m
  <1>4. \A c \in Connection : \A i \in DOMAIN up[c] : up[c][i].req # r
    BY <1>2 DEF ReqInv, UpTells
  <1>5. sent[r] = 0 /\ got[r] = 0
    BY <1>0, <1>2 DEF ChunksAreSent, WebTypes
  <1>6. chan[r] = "waiting"
    <2>1. Steady(r) /\ Known(r)
      BY DEF Uncut, ReqInv
    <2> QED BY <1>1, <1>2, <2>1 DEF Steady, Known, Connection
  <1>7. \A c \in Connection : up[c] \in Seq(Message)
    BY <1>0 DEF TypeOK
  <1>8. \A c \in Connection : \A i \in DOMAIN up'[c] : ~ About(up'[c][i], "response_chunk", r)
    <2>1. \A c \in Connection : Extends(up[c], up'[c], {m})
      <3>1. \A c \in Connection : Extends(up[c], up[c], {m}) /\ Extends(up[c], up[c] \o <<m>>, {m})
        BY <1>3, <1>7, ExtendsCases
      <3> QED BY <1>0, <1>1, <1>2, <3>1, SendsExact
    <2> QED BY <1>3, <1>4, <2>1 DEF Extends, About
  <1>9. ReplyComes(r)'
    BY <1>8 DEF ReplyComes, InOrder, Sees
  <1>10. ReplyGoes(r)'
    <2>1. ~ Sees(up'[cur], "response_chunk", r)
      BY <1>1, <1>8 DEF Sees
    <2>2. AllOf(up'[cur], "response_chunk", r, 0, 0)
      BY <2>1 DEF AllOf, Has, Sees
    <2>3. BothOpen(cur) => Sees(up'[cur], "response_open", r)
      BY <1>0, <1>1, <1>2, <1>3, <1>7, SendsExact, LastIsSeen
    <2> QED BY <1>1, <1>2, <1>5, <1>6, <2>2, <2>3 DEF ReplyGoes, BothOpen
  <1> QED BY <1>9, <1>10

\* A chunk of its reply.
LEMMA ChunkGoes ==
  ASSUME IInv, TypeOK', ConnInv, NEW r \in Requests, ReplyChunk(r), r \notin cut', Uncut(r), fwd'[r] = "streaming"
  PROVE  ReplyComes(r)' /\ ReplyGoes(r)'
  <1> DEFINE m == Msg("response_chunk", r, sent[r], under[r])
  <1>0. TypeOK /\ ClientTypes /\ WebTypes
    BY TypeParts DEF IInv
  <1>1. UNCHANGED <<relayEnd, clientEnd, epoch, on, got, chan, cur>> /\ cur \in Connection /\ cur = on[r]
    BY ForwardShape DEF Forward
  <1>2. fwd[r] = "streaming" /\ CanSend /\ Sends(m) /\ sent'[r] = sent[r] + 1
    BY <1>0 DEF ReplyChunk, Forwards, ClientTypes
  <1>3. m \in Message /\ About(m, "response_chunk", r) /\ m.n = sent[r] /\ ~ About(m, "response_open", r)
    <2>1. m \in Message
      BY <1>0, MsgIsMessage DEF ClientTypes, ChannelMessage
    <2> QED BY <2>1 DEF Msg, About
  <1> HIDE DEF m
  <1>4. \A c \in Connection : relayEnd[c] = "open" =>
            /\ InOrder(up[c], "response_chunk", r, got[r])
            /\ Sees(up[c], "response_chunk", r) =>
                 chan[r] = "open" \/ (chan[r] = "waiting" /\ Behind(up[c], "response_chunk", r, "response_open"))
    BY DEF Uncut, ReplyInv, ReplyComes
  <1>5. CASE ~ BothOpen(cur)
    <2>1. \A c \in Connection : up'[c] = up[c]
      BY <1>0, <1>1, <1>2, <1>5, SendsExact
    <2> QED BY <1>1, <1>4, <1>5, <2>1 DEF ReplyComes, ReplyGoes, BothOpen
  <1>6. CASE BothOpen(cur)
    <2>1. up'[cur] = up[cur] \o <<m>> /\ \A c \in Connection : c # cur => up'[c] = up[c]
      BY <1>0, <1>1, <1>2, <1>6, SendsExact
    <2>2. up[cur] \in Seq(Message) /\ got[r] \in Nat /\ sent[r] \in Nat
      BY <1>0, <1>1 DEF TypeOK
    <2>3. /\ AllOf(up[cur], "response_chunk", r, got[r], sent[r])
          /\ chan[r] = "open" \/ (chan[r] = "waiting" /\ Sees(up[cur], "response_open", r))
      <3>1. cur # 0
        BY <1>1 DEF Connection
      <3> QED BY <1>2, <1>6, <3>1 DEF Uncut, ReplyInv, ReplyGoes
    <2>4. InOrder(up'[cur], "response_chunk", r, got[r]) /\ AllOf(up'[cur], "response_chunk", r, got[r], sent[r] + 1)
      BY <1>1, <1>3, <1>4, <1>6, <2>1, <2>2, <2>3, OwnChunk DEF BothOpen
    <2>5. Behind(up[cur], "response_chunk", r, "response_open") \/ chan[r] = "open"
      BY <1>1, <1>4, <1>6 DEF BothOpen, Behind, Sees
    <2>6. chan[r] = "open" \/ (chan[r] = "waiting" /\ Behind(up'[cur], "response_chunk", r, "response_open"))
      BY <1>3, <2>1, <2>2, <2>3, <2>5, BehindOwn
    <2>7. Sees(up[cur], "response_open", r) => Sees(up'[cur], "response_open", r)
      <3>1. Extends(up[cur], up'[cur], {m})
        BY <1>3, <2>1, <2>2, ExtendsCases
      <3> QED BY <3>1 DEF Extends, Sees
    <2>8. ReplyComes(r)'
      BY <1>1, <1>4, <2>1, <2>4, <2>6 DEF ReplyComes
    <2>9. ReplyGoes(r)'
      BY <1>1, <1>2, <2>3, <2>4, <2>7 DEF ReplyGoes
    <2> QED BY <2>8, <2>9
  <1> QED BY <1>5, <1>6

LEMMA ForwardUncut ==
  ASSUME IInv, TypeOK', ConnInv, ReqInv, ReqInv', ChunksAreSent, NEW r \in Requests, Forward(r), NEW q \in Requests \ cut', Uncut(q)
  PROVE  Uncut(q)'
  <1>0. TypeOK /\ ClientTypes
    BY TypeParts DEF IInv
  <1>1. CASE q = r
    <2>1. /\ UNCHANGED <<down, cur, ident, on, chan, pump, under>>
          /\ cur \in Connection /\ cur = on[r] /\ r \in channels /\ ident = epoch[cur] /\ epoch[cur] # 0 /\ under[r] = ident
          /\ ~ Unread(r)' /\ channels' \subseteq channels
      BY <1>1, ForwardShape
    <2>2. fwd'[r] \in {"streaming", "ended", "over"}
      BY ForwardTells
    <2>3. fwd'[r] = "streaming" => (FetchAnswers(r) \/ ReplyChunk(r)) /\ r \in channels'
      BY <1>0, <2>1 DEF Forward, FetchAnswers, ReplyChunk, FetchFails, ReplyEnds, ReplyFails, Forwards, ClientTypes
    <2>4. Steady(r)'
      BY <1>1, <2>1, <2>2, <2>3 DEF Uncut, Steady, Live, Working, Connection
    <2>5. ReplyComes(r)' /\ ReplyGoes(r)'
      BY <1>1, <2>3, AnswerGoes, ChunkGoes, ForwardGoes
    <2> QED BY <1>0, <1>1, <2>1, <2>4, <2>5, BodyOver, ForwardIsOfRuntime DEF Uncut, ReplyInv
  <1>2. CASE q # r
    <2>1. UNCHANGED <<down, relayEnd, clientEnd, epoch, cur, ident, on, chan, got, pump, pumped, taken, under>>
          /\ (q \in channels' <=> q \in channels) /\ sent'[q] = sent[q]
      BY <1>0, <1>2 DEF Forward, FetchAnswers, FetchFails, ReplyChunk, ReplyEnds, ReplyFails, relay, pumps, ClientTypes
    <2>2. fwd'[q] = fwd[q]
      BY <1>2, ForwardTells
    <2>3. UpBeside(q, ChannelMessage)
      BY <1>0, <1>2, ForwardSays, UpBesideCases DEF Says
    <2>4. DownBeside(q, ChannelMessage)
      BY <1>0, <2>1, DownSame, DownGrowsBeside
    <2>5. CurKeeps(q) /\ EndsKeep
      BY <2>1, <2>2, SameEnds DEF CurKeeps
    <2> QED BY <2>1, <2>3, <2>4, <2>5, Bystander
  <1> QED BY <1>1, <1>2

-----------------------------------------------------------------------------
(* What the relay reads.                                                   *)

LEMMA TailIsOf ==
  ASSUME NEW s \in Seq(Message), s # <<>>, NEW i \in DOMAIN Tail(s)
  PROVE  i + 1 \in DOMAIN s /\ Tail(s)[i] = s[i + 1] /\ i + 1 > 1
  <1>1. Len(s) \in Nat /\ DOMAIN s = 1 .. Len(s) /\ i \in 1 .. (Len(s) - 1)
    BY TailFacts
  <1>2. i + 1 \in 1 .. Len(s) /\ i + 1 > 1
    BY <1>1
  <1> QED BY <1>1, <1>2, TailFacts

\* What r is at, when the relay reads a message about it.
LEMMA ReadShape ==
  ASSUME IInv, ConnInv, ReqInv, NEW c \in Connection, ReadingStep(c), NEW r \in Requests, Head(up[c]).req = r, Uncut(r)
  PROVE  /\ UNCHANGED <<down, relayEnd, clientEnd, epoch, client, on, pump, pumped>> /\ UpRead(c)
         /\ up[c] \in Seq(Message) /\ 1 \in DOMAIN up[c] /\ Head(up[c]) = up[c][1]
         /\ on[r] = c /\ ~ Unread(r) /\ pump[r] # "reading" /\ fwd[r] \notin {"none", "fetching"}
         /\ \A d \in Connection : d # c /\ relayEnd[d] = "open" => \A i \in DOMAIN up[d] : up[d][i].req # r
         /\ fwd[r] = "streaming" => cur = c
         /\ InOrder(up[c], "response_chunk", r, got[r])
  <1>1. UNCHANGED <<down, relayEnd, clientEnd, epoch, client>> /\ UpRead(c)
    BY ReadingShape
  <1>2. UNCHANGED <<on, pump, pumped>>
    BY DEF ReadingStep, ReceiveHead, ReceiveChunk, ReceiveEnd, ReceiveError, pumps
  <1>3. up[c] \in Seq(Message) /\ 1 \in DOMAIN up[c] /\ Head(up[c]) = up[c][1]
    BY <1>1, TailFacts DEF IInv, TypeOK, UpRead
  <1>4. Steady(r) /\ ReplyIsOfRuntime(r) /\ ReplyComes(r) /\ Known(r) /\ UpTells(r) /\ relayEnd[c] = "open"
    BY <1>1 DEF Uncut, ReplyInv, ReqInv, UpRead
  <1>5. on[r] = c /\ fwd[r] \notin {"none", "fetching"}
    BY <1>3, <1>4 DEF ReplyIsOfRuntime, UpTells
  <1>6. ~ Unread(r) /\ pump[r] # "reading"
    BY <1>3, <1>4 DEF Steady, Answered, Unread, Known
  <1>7. \A d \in Connection : d # c /\ relayEnd[d] = "open" => \A i \in DOMAIN up[d] : up[d][i].req # r
    BY <1>4, <1>5 DEF ReplyIsOfRuntime
  <1>8. fwd[r] = "streaming" => cur = c
    BY <1>4, <1>5 DEF Steady, Working
  <1> QED BY <1>1, <1>2, <1>3, <1>4, <1>5, <1>6, <1>7, <1>8 DEF ReplyComes

LEMMA HeadGoes ==
  ASSUME IInv, ConnInv, ReqInv, NEW c \in Connection, ReceiveHead(c), NEW r \in Requests, Head(up[c]).req = r, Uncut(r)
  PROVE  ReplyComes(r)' /\ ReplyGoes(r)'
  <1>1. /\ UNCHANGED <<relayEnd, clientEnd, cur, fwd, sent>> /\ UpRead(c) /\ up[c] \in Seq(Message) /\ on[r] = c
        /\ \A d \in Connection : d # c /\ relayEnd[d] = "open" => \A i \in DOMAIN up[d] : up[d][i].req # r
        /\ fwd[r] = "streaming" => cur = c
        /\ InOrder(up[c], "response_chunk", r, got[r])
    BY ReadShape DEF ReadingStep, client
  <1>2. got' = got /\ chan'[r] = IF chan[r] = "waiting" THEN "open" ELSE chan[r]
    BY <1>1, TypeParts DEF IInv, WebTypes, ReceiveHead, ChannelsOf, Live
  <1>3. up'[c] = Tail(up[c]) /\ Beside(up[c], up'[c], r, {"response_chunk"})
    <2>1. Head(up[c]).type \notin {"response_chunk"}
      BY DEF ReceiveHead, Arrived
    <2> QED BY <1>1, <2>1, BesideTail DEF UpRead
  <1>4. up'[c] \in Seq(Message)
    BY <1>1, <1>3 DEF UpRead
  <1>5. InOrder(up'[c], "response_chunk", r, got[r])
    BY <1>1, <1>3, <1>4, InOrderBeside
  <1>6. Sees(up'[c], "response_chunk", r) => chan'[r] = "open"
    <2>1. Sees(up'[c], "response_chunk", r) => Sees(up[c], "response_chunk", r)
      BY <1>3, SeesBeside
    <2>2. relayEnd[c] = "open"
      BY <1>1 DEF UpRead
    <2> QED BY <1>2, <2>1, <2>2 DEF Uncut, ReplyInv, ReplyComes
  <1>7. \A d \in Connection : d # c => up'[d] = up[d]
    BY <1>1 DEF UpRead
  <1>8. ReplyComes(r)'
    BY <1>1, <1>2, <1>5, <1>6, <1>7 DEF ReplyComes, InOrder, Sees, About
  <1>9. ReplyGoes(r)'
    <2> SUFFICES ASSUME fwd[r] = "streaming", cur # 0, BothOpen(cur)
                 PROVE  AllOf(up'[cur], "response_chunk", r, got[r], sent[r]) /\ chan'[r] = "open"
      BY <1>1, <1>2 DEF ReplyGoes, BothOpen
    <2>1. /\ AllOf(up[cur], "response_chunk", r, got[r], sent[r])
          /\ chan[r] \in {"open", "waiting"}
      BY DEF Uncut, ReplyInv, ReplyGoes
    <2> QED BY <1>1, <1>2, <1>3, <2>1, AllOfBeside
  <1> QED BY <1>8, <1>9

LEMMA ReceivedGoes ==
  ASSUME IInv, ConnInv, ReqInv, NEW c \in Connection, ReceiveChunk(c), NEW r \in Requests, Head(up[c]).req = r, Uncut(r)
  PROVE  ReplyComes(r)' /\ ReplyGoes(r)'
  <1>1. /\ UNCHANGED <<relayEnd, clientEnd, cur, fwd, sent>> /\ UpRead(c) /\ up[c] \in Seq(Message) /\ on[r] = c
        /\ \A d \in Connection : d # c /\ relayEnd[d] = "open" => \A i \in DOMAIN up[d] : up[d][i].req # r
        /\ fwd[r] = "streaming" => cur = c
        /\ InOrder(up[c], "response_chunk", r, got[r])
    BY ReadShape DEF ReadingStep, client
  <1>2. got'[r] = got[r] + 1 /\ chan' = chan /\ chan[r] = "open" /\ About(Head(up[c]), "response_chunk", r)
        /\ got[r] \in Nat /\ sent[r] \in Nat
    BY TypeParts DEF IInv, WebTypes, ClientTypes, ReceiveChunk, Arrived, Expected, About
  <1>3. up'[c] = Tail(up[c]) /\ up[c] # <<>>
    BY <1>1 DEF UpRead
  <1>4. /\ InOrder(up'[c], "response_chunk", r, got[r] + 1)
        /\ \A b \in Nat : AllOf(up[c], "response_chunk", r, got[r], b) => AllOf(up'[c], "response_chunk", r, got[r] + 1, b)
    BY <1>1, <1>2, <1>3, OwnTail
  <1>5. \A d \in Connection : d # c => up'[d] = up[d]
    BY <1>1 DEF UpRead
  <1>6. ReplyComes(r)'
    BY <1>1, <1>2, <1>4, <1>5 DEF ReplyComes, InOrder, About
  <1>7. ReplyGoes(r)'
    <2> SUFFICES ASSUME fwd[r] = "streaming", cur # 0, BothOpen(cur)
                 PROVE  AllOf(up'[cur], "response_chunk", r, got'[r], sent[r])
      BY <1>1, <1>2 DEF ReplyGoes, BothOpen
    <2>1. AllOf(up[cur], "response_chunk", r, got[r], sent[r])
      BY DEF Uncut, ReplyInv, ReplyGoes
    <2> QED BY <1>1, <1>2, <1>4, <2>1
  <1> QED BY <1>6, <1>7

LEMMA FinishGoes ==
  ASSUME IInv, ConnInv, ReqInv, NEW c \in Connection, ReceiveEnd(c) \/ ReceiveError(c), NEW r \in Requests, Head(up[c]).req = r, Uncut(r)
  PROVE  ReplyComes(r)' /\ ReplyGoes(r)'
  <1>1. /\ UNCHANGED <<relayEnd, clientEnd, cur, fwd, sent>> /\ UpRead(c) /\ up[c] \in Seq(Message)
        /\ 1 \in DOMAIN up[c] /\ Head(up[c]) = up[c][1]
        /\ \A d \in Connection : d # c /\ relayEnd[d] = "open" => \A i \in DOMAIN up[d] : up[d][i].req # r
    BY ReadShape DEF ReadingStep, client
  <1>2. Finishes(Head(up[c])) /\ UpTells(r)
    BY DEF ReqInv, ReceiveEnd, ReceiveError, Arrived, Finishes
  <1>3. fwd[r] # "streaming" /\ \A j \in DOMAIN up[c] : j > 1 => up[c][j].req # r
    BY <1>1, <1>2 DEF UpTells
  <1>4. \A i \in DOMAIN up'[c] : up'[c][i].req # r
    <2>1. up[c] # <<>> /\ up'[c] = Tail(up[c])
      BY <1>1 DEF UpRead
    <2>2. \A i \in DOMAIN Tail(up[c]) : i + 1 \in DOMAIN up[c] /\ Tail(up[c])[i] = up[c][i + 1] /\ i + 1 > 1
      BY <1>1, <2>1, TailIsOf
    <2> QED BY <1>3, <2>1, <2>2
  <1>5. \A d \in Connection : d # c => up'[d] = up[d]
    BY <1>1 DEF UpRead
  <1>6. ReplyComes(r)'
    BY <1>1, <1>4, <1>5 DEF ReplyComes, InOrder, Sees, About
  <1> QED BY <1>1, <1>3, <1>6 DEF ReplyGoes

LEMMA ReadingUncut ==
  ASSUME IInv, TypeOK', ConnInv, ReqInv, ReqInv', NEW c \in Connection, ReadingStep(c), NEW q \in Requests, Uncut(q)
  PROVE  Uncut(q)'
  <1>0. TypeOK /\ WebTypes
    BY TypeParts DEF IInv
  <1>1. CASE Head(up[c]).req = q
    <2>1. /\ UNCHANGED <<down, relayEnd, epoch, client, on, pump>> /\ UpRead(c)
          /\ up[c] \in Seq(Message) /\ ~ Unread(q) /\ pump[q] # "reading" /\ fwd[q] \notin {"none", "fetching"}
      BY <1>1, ReadShape
    <2>2. ~ Unread(q)'
      BY <2>1 DEF Unread
    <2>3. Steady(q)'
      BY <2>1, <2>2 DEF Uncut, Steady, client
    <2>4. ReplyIsOfRuntime(q)'
      <3>1. ASSUME NEW d \in Connection, NEW i \in DOMAIN up'[d] PROVE \E j \in DOMAIN up[d] : up[d][j] = up'[d][i]
        <4>1. CASE d = c
          <5>1. up'[d] = Tail(up[c]) /\ up[c] # <<>>
            BY <2>1, <4>1 DEF UpRead
          <5>2. i + 1 \in DOMAIN up[d] /\ up'[d][i] = up[d][i + 1]
            BY <2>1, <4>1, <5>1, TailIsOf
          <5> QED BY <5>2
        <4>2. CASE d # c
          BY <2>1, <4>2 DEF UpRead
        <4> QED BY <4>1, <4>2
      <3> QED BY <2>1, <3>1 DEF Uncut, ReplyInv, ReplyIsOfRuntime
    <2>5. ReplyComes(q)' /\ ReplyGoes(q)'
      BY <1>1, HeadGoes, ReceivedGoes, FinishGoes DEF ReadingStep
    <2> QED BY <2>2, <2>3, <2>4, <2>5, BodyOver DEF Uncut, ReplyInv
  <1>2. CASE Head(up[c]).req # q
    <2>1. UNCHANGED <<down, relayEnd, clientEnd, epoch, client>> /\ UpRead(c)
      BY ReadingShape
    <2>2. UNCHANGED <<chan[q], on[q], got[q], pump[q], pumped[q], taken[q], under[q], sent[q]>>
      BY <1>0, <1>2 DEF ReadingStep, ReceiveHead, ReceiveChunk, ReceiveEnd, ReceiveError, FailChannel, pumps, client, WebTypes
    <2>3. UpBeside(q, ChannelMessage)
      BY <1>0, <1>2, <2>1, UpBesideCases
    <2>4. DownBeside(q, ChannelMessage)
      <3>1. DownGrows({}, {})
        BY <1>0, <2>1, DownSame
      <3> QED BY <1>0, <3>1, DownGrowsBeside
    <2>5. CurKeeps(q) /\ EndsKeep
      BY <2>1, SameEnds DEF CurKeeps, client
    <2> QED BY <2>2, <2>3, <2>4, <2>5, Bystander
  <1> QED BY <1>1, <1>2

-----------------------------------------------------------------------------
(* What the client takes.                                                  *)

LEMMA UnreadTaken ==
  ASSUME TypeOK, NEW c \in Connection, DownTaken(c), NEW q \in Requests, pump'[q] = pump[q], Unread(q)'
  PROVE  Unread(q)
  <1>0. down[c] \in Seq(Message) /\ down[c] # <<>>
    BY DEF TypeOK, DownTaken
  <1>1. ASSUME NEW d \in Connection, NEW i \in DOMAIN down'[d] PROVE \E j \in DOMAIN down[d] : down[d][j] = down'[d][i]
    <2>1. CASE d = c
      <3>1. down'[d] = Tail(down[c])
        BY <2>1 DEF DownTaken
      <3>2. i + 1 \in DOMAIN down[d] /\ down'[d][i] = down[d][i + 1]
        BY <1>0, <2>1, <3>1, TailIsOf
      <3> QED BY <3>2
    <2>2. CASE d # c
      BY <2>2 DEF DownTaken
    <2> QED BY <2>1, <2>2
  <1> QED BY <1>1 DEF Unread

\* A message about q, which is no cancel.
LEMMA TakeShape ==
  ASSUME IInv, TypeOK', ConnInv, ReqInv, NEW c \in Connection, TakeOpen(c) \/ TakeChunk(c) \/ TakeEnd(c),
         NEW q \in Requests, Head(down[c]).req = q, Uncut(q)
  PROVE  /\ UNCHANGED <<up, relayEnd, clientEnd, epoch, runtime, chan, on, got, pump, pumped, cur, ident, sent>>
         /\ DownTaken(c) /\ cur = c /\ ident # 0 /\ EndsKeep /\ UpBeside(q, ChannelMessage)
         /\ down[c] \in Seq(Message) /\ down'[c] \in Seq(Message) /\ down[c] # <<>> /\ down'[c] = Tail(down[c])
         /\ 1 \in DOMAIN down[c] /\ Head(down[c]) = down[c][1]
         /\ Unread(q)' => Unread(q)
  <1>0. TypeOK
    BY DEF IInv
  <1>1. /\ UNCHANGED <<up, relayEnd, clientEnd, epoch, runtime, chan, on, got, pump, pumped, cur, ident, sent>>
        /\ cur = c /\ ident # 0
    BY DEF TakeOpen, TakeChunk, TakeEnd, Delivered, FromRelay, relay, pumps, client
  <1>2. DownTaken(c)
    BY TakingShape DEF TakingStep
  <1>3. down[c] \in Seq(Message) /\ down'[c] \in Seq(Message) /\ down[c] # <<>> /\ down'[c] = Tail(down[c])
    BY <1>0, <1>2 DEF TypeOK, DownTaken
  <1>4. 1 \in DOMAIN down[c] /\ Head(down[c]) = down[c][1]
    BY <1>3, TailFacts
  <1>5. EndsKeep /\ UpBeside(q, ChannelMessage)
    BY <1>0, <1>1, SameEnds, UpCases, UpBesideCases
  <1>6. Unread(q)' => Unread(q)
    BY <1>0, <1>1, <1>2, UnreadTaken
  <1> QED BY <1>1, <1>2, <1>3, <1>4, <1>5, <1>6

LEMMA TakeOpenUncut ==
  ASSUME IInv, TypeOK', ConnInv, ReqInv, OpensOnce, NEW c \in Connection, TakeOpen(c),
         NEW q \in Requests, Head(down[c]).req = q, Uncut(q)
  PROVE  Uncut(q)'
  <1>0. TypeOK /\ ClientTypes /\ Steady(q) /\ BodyInv(q) /\ IdentIsEpoch
    BY TypeParts DEF IInv, ConnInv, Uncut
  <1>1. /\ UNCHANGED <<up, relayEnd, clientEnd, epoch, runtime, chan, on, got, pump, pumped, cur, ident, sent>>
        /\ DownTaken(c) /\ cur = c /\ ident # 0 /\ EndsKeep /\ UpBeside(q, ChannelMessage)
        /\ down[c] \in Seq(Message) /\ down'[c] \in Seq(Message) /\ down[c] # <<>> /\ down'[c] = Tail(down[c])
        /\ 1 \in DOMAIN down[c] /\ Head(down[c]) = down[c][1]
        /\ Unread(q)' => Unread(q)
    BY TakeShape
  <1>2. Opens(down[c][1]) /\ down[c][1].req = q
    BY <1>1 DEF TakeOpen, Delivered, Opens
  <1>3. fwd[q] = "none" /\ on[q] = c
    BY <1>1, <1>2 DEF OpensOnce
  <1>4. q \in channels' /\ fwd'[q] = "fetching" /\ under'[q] = ident /\ taken' = taken
    BY <1>0 DEF TakeOpen, ClientTypes
  <1>5. Steady(q)'
    BY <1>0, <1>1, <1>3, <1>4 DEF Steady, Answered, Live, Connection
  <1>6. Beside(down[c], down'[c], q, {"request_chunk"})
    BY <1>1, <1>2, BesideTail DEF Opens
  <1>7. InOrder(down'[c], "request_chunk", q, taken[q])
    <2>1. InOrder(down[c], "request_chunk", q, taken[q])
      BY <1>0, <1>1 DEF BodyInv, BodyComes, Connection
    <2> QED BY <1>1, <1>6, <2>1, InOrderBeside
  <1>8. BodyComes(q)'
    BY <1>1, <1>4, <1>7 DEF BodyComes
  <1>9. BodyGoes(q)'
    <2>1. ASSUME BothOpen(cur), pump[q] = "reading" PROVE AllOf(down'[c], "request_chunk", q, taken[q], pumped[q])
      <3>1. AllOf(down[c], "request_chunk", q, taken[q], pumped[q])
        BY <1>0, <1>1, <1>3, <2>1 DEF BodyInv, BodyGoes, Connection
      <3> QED BY <1>6, <3>1, AllOfBeside
    <2> QED BY <1>1, <1>4, <2>1 DEF BodyGoes, BothOpen
  <1>10. ReplyInv(q)'
    BY <1>0, <1>1, <1>4, ReplyStays DEF Uncut
  <1> QED BY <1>5, <1>8, <1>9, <1>10 DEF Uncut, BodyInv

LEMMA TakeChunkUncut ==
  ASSUME IInv, TypeOK', ConnInv, ReqInv, NEW c \in Connection, TakeChunk(c),
         NEW q \in Requests, Head(down[c]).req = q, Uncut(q)
  PROVE  Uncut(q)'
  <1>0. TypeOK /\ ClientTypes /\ WebTypes /\ Steady(q) /\ BodyInv(q) /\ IdentIsEpoch
    BY TypeParts DEF IInv, ConnInv, Uncut
  <1>1. /\ UNCHANGED <<up, relayEnd, clientEnd, epoch, runtime, chan, on, got, pump, pumped, cur, ident, sent>>
        /\ DownTaken(c) /\ cur = c /\ ident # 0 /\ EndsKeep /\ UpBeside(q, ChannelMessage)
        /\ down[c] \in Seq(Message) /\ down'[c] \in Seq(Message) /\ down[c] # <<>> /\ down'[c] = Tail(down[c])
        /\ Unread(q)' => Unread(q)
    BY TakeShape
  <1>2. /\ q \in channels /\ taken'[q] = taken[q] + 1 /\ About(Head(down[c]), "request_chunk", q)
        /\ UNCHANGED <<channels, fwd, under>>
    BY <1>0 DEF TakeChunk, Delivered, Awaited, About, ClientTypes
  <1>3. Steady(q)'
    BY <1>0, <1>1, <1>2 DEF Steady, Answered, Live
  <1>4. InOrder(down[c], "request_chunk", q, taken[q]) /\ taken[q] \in Nat /\ pumped[q] \in Nat
    BY <1>0, <1>1 DEF BodyInv, BodyComes, Connection, ClientTypes, WebTypes
  <1>5. /\ InOrder(down'[c], "request_chunk", q, taken[q] + 1)
        /\ AllOf(down[c], "request_chunk", q, taken[q], pumped[q]) => AllOf(down'[c], "request_chunk", q, taken[q] + 1, pumped[q])
    BY <1>1, <1>2, <1>4, OwnTail
  <1>6. BodyInv(q)'
    BY <1>0, <1>1, <1>2, <1>5 DEF BodyInv, BodyComes, BodyGoes, BothOpen
  <1>7. ReplyInv(q)'
    BY <1>0, <1>1, <1>2, ReplyStays DEF Uncut
  <1> QED BY <1>3, <1>6, <1>7 DEF Uncut

LEMMA TakeEndUncut ==
  ASSUME IInv, TypeOK', ConnInv, ReqInv, NEW c \in Connection, TakeEnd(c),
         NEW q \in Requests, Head(down[c]).req = q, Uncut(q)
  PROVE  Uncut(q)'
  <1>0. TypeOK /\ Steady(q) /\ BodyInv(q) /\ IdentIsEpoch /\ ChannelsAreCurrent /\ RuntimeHasEpoch
    BY DEF IInv, ConnInv, Uncut
  <1>1. /\ UNCHANGED <<up, relayEnd, clientEnd, epoch, runtime, chan, on, got, pump, pumped, cur, ident, sent>>
        /\ DownTaken(c) /\ EndsKeep /\ UpBeside(q, ChannelMessage)
        /\ Unread(q)' => Unread(q)
    BY TakeShape
  <1>2. UNCHANGED <<channels, fwd, under, taken>> /\ Head(down[c]).type = "request_end"
    BY DEF TakeEnd, Delivered, client
  <1>3. Steady(q)'
    BY <1>0, <1>1, <1>2 DEF Steady, Answered, Live
  <1>4. DownBeside(q, {"request_open", "request_chunk"})
    BY <1>0, <1>1, <1>2, DownTakenBeside
  <1>5. BodyInv(q)'
    BY <1>0, <1>1, <1>2, <1>4, BodyStays
  <1>6. ReplyInv(q)'
    BY <1>0, <1>1, <1>2, ReplyStays DEF Uncut
  <1> QED BY <1>3, <1>5, <1>6 DEF Uncut

LEMMA TakingUncut ==
  ASSUME IInv, TypeOK', ConnInv, ReqInv, OpensOnce, NEW c \in Connection, TakingStep(c) \/ TakeAck(c),
         NEW q \in Requests \ cut', Uncut(q)
  PROVE  Uncut(q)'
  <1> DEFINE r == Head(down[c]).req
  <1>0. TypeOK /\ ClientTypes /\ cut' = cut
    BY TypeParts DEF IInv, TakingStep, TakeAck, TakeOpen, TakeChunk, TakeEnd, TakeCancel, history
  <1>1. /\ DownTaken(c) /\ UNCHANGED <<relayEnd, clientEnd, epoch, runtime, cur>>
        /\ TakingStep(c) => ident' = ident
        /\ UpSame \/ \E m \in Message : UpSent(c, m) /\ Says(r, m)
    BY TakingShape
  <1>2. down[c] \in Seq(Message) /\ down[c] # <<>> /\ 1 \in DOMAIN down[c] /\ Head(down[c]) = down[c][1]
    <2>1. down[c] \in Seq(Message) /\ down[c] # <<>>
      BY <1>0, <1>1 DEF DownTaken, TypeOK
    <2> QED BY <2>1, TailFacts
  <1>3. CASE r = q /\ ~ TakeAck(c)
    <2>1. ~ TakeCancel(c)
      <3>1. DownTells(q)
        BY DEF ReqInv
      <3> QED BY <1>0, <1>2, <1>3, <3>1 DEF DownTells, TakeCancel, Delivered
    <2> QED BY <1>3, <2>1, TakeOpenUncut, TakeChunkUncut, TakeEndUncut DEF TakingStep
  <1>4. CASE r # q
    <2>1. UNCHANGED <<chan, on, got, pump, pumped, sent>>
      BY DEF TakingStep, TakeAck, TakeOpen, TakeChunk, TakeEnd, TakeCancel, relay, pumps, client
    <2>2. UNCHANGED <<fwd[q], taken[q], under[q]>> /\ (q \in channels' <=> q \in channels)
      BY <1>0, <1>4 DEF TakingStep, TakeAck, TakeOpen, TakeChunk, TakeEnd, TakeCancel, client, Aborted, ClientTypes
    <2>3. ident # 0 => ident' = ident
      <3>1. CASE TakeAck(c)
        <4>1. ident' = down[c][1].epoch /\ down[c][1].type = "hello_ack" /\ cur = c
          BY <1>2, <3>1 DEF TakeAck, Delivered
        <4> QED BY <1>2, <4>1 DEF ConnInv, DownIsOfEpoch, IdentIsEpoch
      <3> QED BY <1>1, <3>1
    <2> HIDE DEF r
    <2>4. UpBeside(q, ChannelMessage)
      BY <1>0, <1>1, <1>4, UpBesideCases DEF Says
    <2>5. DownBeside(q, ChannelMessage)
      BY <1>0, <1>1, <1>4, DownTakenBeside DEF r
    <2>6. CurKeeps(q) /\ EndsKeep
      BY <1>1, <2>2, <2>3, SameEnds DEF CurKeeps
    <2> QED BY <2>1, <2>2, <2>4, <2>5, <2>6, Bystander
  <1>5. TakeAck(c) => r # q
    <2>1. down[c][1] \in Message
      BY <1>2
    <2> QED BY <1>2, <2>1, ChannelTypes DEF TakeAck, Delivered, ChannelMessage
  <1> QED BY <1>3, <1>4, <1>5

-----------------------------------------------------------------------------
(* Sockets that open and close.                                            *)

LEMMA ClosingUncut ==
  ASSUME IInv, TypeOK', ConnInv, ReqInv,
         \/ \E c \in Connection : ClosingStep(c)
         \/ OthersStep,
         NEW q \in Requests \ cut', Uncut(q)
  PROVE  Uncut(q)'
  <1>0. TypeOK /\ SocketTypes /\ ClientTypes /\ Steady(q) /\ cur \in {0} \cup Connection /\ runtime \in {0} \cup Connection
    BY TypeParts DEF IInv, Uncut, ClientTypes, RuntimeTypes, Connection
  <1>1. DownGrows({}, {}) /\ EndsGoOn /\ (UpSame \/ \E c \in Connection : UpSent(c, Close))
    BY ClosingShape
  <1>2. UNCHANGED <<on, got, pump, pumped, taken, under, sent>>
    BY DEF ClosingStep, HelloRefused, RelayRefuses, RelayClosed, ClientRefuses, ClientClosed, Lose, OthersStep, HeartbeatTimeout,
           Revoke, Reconfigure, relay, pumps, client
  <1>3. chan'[q] = chan[q]
    <2>1. \E c : FailChannels(c) \/ UNCHANGED chan
      BY DEF ClosingStep, HelloRefused, RelayRefuses, RelayClosed, ClientRefuses, ClientClosed, Lose, OthersStep, HeartbeatTimeout,
             Revoke, Reconfigure, relay
    <2> QED BY <2>1, FailsQuietly
  <1>4. \A c \in Connection : relayEnd'[c] = "open" => relayEnd[c] = "open"
    <2>1. \/ \E c \in Connection : RelayCloses(c) \/ relayEnd' = [relayEnd EXCEPT ![c] = "closed"] \/ Lose(c)
          \/ UNCHANGED relayEnd
      BY <1>0 DEF ClosingStep, HelloRefused, RelayRefuses, RelayClosed, ClientRefuses, ClientClosed, OthersStep, HeartbeatTimeout,
             Revoke, Reconfigure, ClientCloses, sockets
    <2> QED BY <1>0, <2>1 DEF RelayCloses, Lose, SocketTypes
  <1>5. EndsKeep
    BY <1>1, <1>4 DEF EndsGoOn, EndsKeep
  <1>6. CurKeeps(q)
    <2>1. CASE Reconfigure
      <3>1. cur' = 0 /\ q \notin channels' /\ fwd' = fwd /\ q \notin channels
        BY <2>1 DEF Reconfigure
      <3>2. fwd[q] \notin Working
        BY <1>0, <3>1 DEF Steady
      <3> QED BY <3>1, <3>2 DEF CurKeeps, Silent
    <2>2. ASSUME NEW c \in Connection, ClientClosed(c), cur = c PROVE CurKeeps(q)
      <3>1. cur' = 0 /\ q \notin channels' /\ fwd'[q] = IF q \in channels /\ fwd[q] \in Working THEN "over" ELSE fwd[q]
        BY <1>0, <2>2 DEF ClientClosed, Aborted
      <3>2. fwd[q] \in Working => q \in channels
        BY <1>0 DEF Steady
      <3> QED BY <3>1, <3>2 DEF CurKeeps, Silent, Working
    <2>3. UNCHANGED <<cur, ident, fwd, channels>> => CurKeeps(q)
      BY DEF CurKeeps
    <2>4. \/ Reconfigure
          \/ \E c \in Connection : ClientClosed(c) /\ cur = c
          \/ UNCHANGED <<cur, ident, fwd, channels>>
      BY DEF ClosingStep, HelloRefused, RelayRefuses, RelayClosed, ClientRefuses, ClientClosed, Lose, OthersStep, HeartbeatTimeout,
             Revoke, client
    <2> QED BY <2>1, <2>2, <2>3, <2>4
  <1>7. DownBeside(q, ChannelMessage)
    BY <1>0, <1>1, DownGrowsBeside
  <1>8. UpBeside(q, ChannelMessage)
    BY <1>0, <1>1, UpBesideCases, CloseIsOfNobody
  <1> QED BY <1>2, <1>3, <1>5, <1>6, <1>7, <1>8, Bystander

LEMMA HelloUncut ==
  ASSUME IInv, TypeOK', ConnInv, ReqInv, NEW c \in Connection, Hello(c), NEW q \in Requests \ cut', Uncut(q)
  PROVE  Uncut(q)'
  <1> DEFINE ack == Msg("hello_ack", NoRequest, 0, epochs + 1)
  <1>0. TypeOK
    BY DEF IInv
  <1>1. /\ epoch[c] = 0 /\ UpRead(c) /\ UNCHANGED <<clientEnd, client>>
        /\ \A d \in Connection : /\ epoch'[d] = IF d = c THEN epochs + 1 ELSE epoch[d]
                                 /\ relayEnd'[d] = "open" => relayEnd[d] = "open"
        /\ \A d \in Connection : Extends(down[d], down'[d], {Close, ack})
    <2>1. \A d \in Connection : Extends(down[d], down'[d], {Close}) \/ Extends(down[d], down'[d], {ack})
      BY HelloShape
    <2>2. \A d \in Connection : Extends(down[d], down'[d], {Close, ack})
      <3> HIDE DEF ack
      <3> QED BY <2>1 DEF Extends
    <2> QED BY <2>2, HelloShape
  <1>2. ack.type = "hello_ack" /\ Close.type = "close" /\ {"hello_ack", "close"} \cap ChannelMessage = {}
    BY CloseIsOfNobody DEF Msg, ChannelMessage
  <1> HIDE DEF ack
  <1>3. UNCHANGED <<chan[q], on[q], got[q], pump[q], pumped[q], taken[q], under[q], sent[q]>>
    BY <1>1, FailsQuietly DEF Hello, pumps, client
  <1>4. DownBeside(q, ChannelMessage)
    <2>1. \A d \in Connection : down[d] \in Seq(Message) /\ down'[d] \in Seq(Message)
      BY <1>0 DEF TypeOK
    <2>2. \A m \in {Close, ack} : ~ (m.type \in ChannelMessage /\ m.req = q)
      BY <1>2
    <2>3. \A d \in Connection : Beside(down[d], down'[d], q, ChannelMessage)
      BY <1>1, <2>1, <2>2, BesideExtends
    <2> QED BY <2>3 DEF DownBeside
  <1>5. UpBeside(q, ChannelMessage)
    <2>1. Head(up[c]).type = "hello" /\ "hello" \notin ChannelMessage
      BY DEF Hello, Arrived, ChannelMessage
    <2> QED BY <1>0, <1>1, <2>1, UpBesideCases
  <1>6. EndsKeep /\ CurKeeps(q)
    BY <1>1 DEF EndsKeep, CurKeeps, client
  <1> QED BY <1>3, <1>4, <1>5, <1>6, Bystander

LEMMA OpeningUncut ==
  ASSUME IInv, TypeOK', UnopenedIsBlank, ConnInv, ReqInv, NEW c \in Connection, Connect(c) \/ Open(c),
         NEW q \in Requests \ cut', Uncut(q)
  PROVE  Uncut(q)'
  <1> DEFINE hello == Msg("hello", NoRequest, 0, 0)
  <1>0. TypeOK /\ SocketTypes /\ Steady(q)
    BY TypeParts DEF IInv, Uncut
  <1>1. /\ up[c] = <<>> /\ \A i \in DOMAIN down[c] : down[c][i].type = "close"
        /\ UNCHANGED <<down, channels, taken, fwd, under, sent>> /\ EndsGoOn
        /\ \/ cur = 0 /\ cur' = c /\ UNCHANGED up /\ clientEnd'[c] # "open"
           \/ cur' = cur /\ ident' = ident /\ relayEnd' = relayEnd /\ (UNCHANGED up \/ UpSent(c, hello))
    BY OpeningShape DEF Open
  <1>2. UNCHANGED <<chan, on, got, pump, pumped>>
    BY DEF Connect, Open, relay, pumps
  <1>3. \A d \in Connection : d # c => relayEnd'[d] = relayEnd[d]
    BY <1>0 DEF Connect, Open, SocketTypes
  <1>4. EndsKeep
    BY <1>1, <1>3 DEF EndsKeep, EndsGoOn
  <1>5. CurKeeps(q)
    BY <1>0, <1>1 DEF CurKeeps, Silent, Steady
  <1>6. hello \in Message /\ hello.type \notin ChannelMessage
    BY SocketMsgIsMessage DEF SocketMessage, ChannelMessage, Msg
  <1> HIDE DEF hello
  <1>7. UpBeside(q, ChannelMessage)
    BY <1>0, <1>1, <1>6, UpCases, UpBesideCases
  <1>8. DownBeside(q, ChannelMessage)
    <2>1. DownGrows({}, {})
      BY <1>0, <1>1, DownSame
    <2> QED BY <1>0, <2>1, DownGrowsBeside
  <1> QED BY <1>1, <1>2, <1>4, <1>5, <1>7, <1>8, Bystander

LEMMA CutGrows ==
  ASSUME [Next]_vars
  PROVE  cut \subseteq cut'
  <1>1. ASSUME NEW r \in Requests, Web(r) \/ Forward(r) PROVE cut \subseteq cut'
    BY <1>1 DEF Web, WebRequest, PumpChunk, PumpEnd, PumpFails, WebGone, TimerFires,
                Forward, FetchAnswers, FetchFails, ReplyChunk, ReplyEnds, ReplyFails, AnsweredEarly, history
  <1>2. ASSUME NEW c \in Connection, RelayReceives(c) PROVE cut \subseteq cut'
    BY <1>2 DEF RelayReceives, Hello, HelloRefused, ReceiveHead, ReceiveChunk, ReceiveEnd, ReceiveError, RelayRefuses, RelayClosed,
                FailChannels, history
  <1>3. ASSUME NEW c \in Connection, ClientReceives(c) \/ Connect(c) \/ Lose(c) PROVE cut \subseteq cut'
    BY <1>3 DEF ClientReceives, Open, TakeAck, TakeOpen, TakeChunk, TakeEnd, TakeCancel, ClientRefuses, ClientClosed, Connect, Lose, history
  <1>4. CASE HeartbeatTimeout \/ Revoke \/ Reconfigure
    BY <1>4 DEF HeartbeatTimeout, Revoke, Reconfigure, FailChannels, history
  <1>5. CASE UNCHANGED rest
    BY <1>5 DEF rest, history
  <1> QED BY <1>1, <1>2, <1>3, <1>4, <1>5, TimeMovesNothing DEF Next

LEMMA UncutStep ==
  ASSUME IInv, UnopenedIsBlank, OpensOnce, ChunksAreSent, ConnInv, ReqInv, UncutInv, [Next]_vars
  PROVE  UncutInv'
  <1>0. IInv' /\ TypeOK' /\ ReqInv'
    BY InvInductive, ReqStep DEF IInv
  <1> SUFFICES ASSUME NEW q \in Requests \ cut' PROVE Uncut(q)'
    BY DEF UncutInv, Uncut
  <1>a. q \in Requests /\ q \notin cut' /\ Uncut(q)
    BY CutGrows DEF UncutInv, Uncut
  <1>1. ASSUME NEW r \in Requests, Web(r) \/ Forward(r) PROVE Uncut(q)'
    BY <1>0, <1>a, <1>1, WebUncut, ForwardUncut
  <1>2. ASSUME NEW c \in Connection, RelayReceives(c) PROVE Uncut(q)'
    BY <1>0, <1>a, <1>2, HelloUncut, ClosingUncut, ReadingUncut DEF RelayReceives, ClosingStep, ReadingStep
  <1>3. ASSUME NEW c \in Connection, ClientReceives(c) \/ Connect(c) \/ Lose(c) PROVE Uncut(q)'
    BY <1>0, <1>a, <1>3, OpeningUncut, ClosingUncut, TakingUncut DEF ClientReceives, ClosingStep, TakingStep
  <1>4. CASE HeartbeatTimeout \/ Revoke \/ Reconfigure
    BY <1>0, <1>a, <1>4, ClosingUncut DEF OthersStep
  <1>5. CASE UNCHANGED rest
    <2>1. UNCHANGED <<up, down, relayEnd, clientEnd, epoch, chan, on, got, pump, pumped, runtime, cur, ident, channels, taken, fwd, under, sent>>
      BY <1>5 DEF rest, relay, sockets, client
    <2> QED BY <1>a, <2>1 DEF Uncut, Steady, Answered, Unread, Live, BodyInv, BodyComes, BodyGoes, ReplyInv, ReplyIsOfRuntime, ReplyComes,
              ReplyGoes, BothOpen, InOrder, AllOf, Has, HasBefore, Sees, Behind
  <1> QED BY <1>1, <1>2, <1>3, <1>4, <1>5, TimeMovesNothing DEF Next

-----------------------------------------------------------------------------
(* Refusals.                                                               *)

\* A message at the head is behind nothing.
LEMMA FirstIsBehindNothing ==
  ASSUME NEW s \in Seq(Message), s # <<>>, NEW type, NEW r, NEW first, About(Head(s), type, r)
  PROVE  ~ Behind(s, type, r, first) /\ Sees(s, type, r)
  <1>1. 1 \in DOMAIN s /\ Head(s) = s[1] /\ \A j \in DOMAIN s : ~ (j < 1)
    BY TailFacts
  <1> QED BY <1>1 DEF Behind, Sees

LEMMA RelayRefusesCut ==
  ASSUME IInv, ConnInv, UncutInv, NEW c \in Connection, RelayRefuses(c)
  PROVE  Head(up[c]).req \in cut
  <1> DEFINE m == Head(up[c])
             r == m.req
  <1>0. TypeOK /\ WebTypes
    BY TypeParts DEF IInv
  <1>1. /\ relayEnd[c] = "open" /\ up[c] # <<>> /\ m.type \notin {"hello", "close"}
        /\ FromRuntime(c) => m.type = "response_chunk" /\ ~ Expected(c)
    BY DEF RelayRefuses
  <1>2. up[c] \in Seq(Message) /\ 1 \in DOMAIN up[c] /\ m = up[c][1] /\ m \in Message
    <2>1. up[c] \in Seq(Message)
      BY <1>0 DEF TypeOK
    <2> QED BY <1>1, <2>1, TailFacts
  <1>3. r \in Requests
    <2>1. m.type # "hello_ack"
      BY <1>2 DEF ConnInv, HelloOnce
    <2> QED BY <1>1, <1>2, <2>1 DEF Message, SocketMessage
  <1> SUFFICES ASSUME r \notin cut PROVE FALSE
    OBVIOUS
  <1>4. ReplyIsOfRuntime(r) /\ ReplyComes(r)
    BY <1>3 DEF UncutInv, Uncut, ReplyInv
  <1>5. m.epoch = epoch[c] /\ epoch[c] # 0 /\ on[r] = c
    BY <1>1, <1>2, <1>4 DEF ReplyIsOfRuntime
  <1>6. runtime = c
    BY <1>1, <1>5 DEF ConnInv, RuntimeHasEpoch
  <1>7. m.type = "response_chunk" /\ ~ Expected(c)
    BY <1>1, <1>5, <1>6 DEF FromRuntime
  <1>8. About(m, "response_chunk", r)
    BY <1>7 DEF About
  <1>9. ~ Behind(up[c], "response_chunk", r, "response_open") /\ Sees(up[c], "response_chunk", r)
    BY <1>1, <1>2, <1>8, FirstIsBehindNothing
  <1>10. chan[r] = "open" /\ InOrder(up[c], "response_chunk", r, got[r])
    BY <1>1, <1>4, <1>9 DEF ReplyComes
  <1>11. m.n = got[r]
    <2>1. got[r] \in Nat
      BY <1>0, <1>3 DEF WebTypes
    <2> QED BY <1>1, <1>2, <1>8, <1>10, <2>1, OwnTail
  <1> QED BY <1>3, <1>5, <1>7, <1>10, <1>11 DEF Expected, ChannelsOf, Live

LEMMA ClientRefusesCut ==
  ASSUME IInv, ConnInv, OpensOnce, ReqInv, UncutInv, NEW c \in Connection, ClientRefuses(c)
  PROVE  Head(down[c]).req \in cut
  <1> DEFINE m == Head(down[c])
             r == m.req
  <1>0. TypeOK /\ ClientTypes
    BY TypeParts DEF IInv
  <1>1. /\ clientEnd[c] = "open" /\ cur = c /\ down[c] # <<>> /\ m.type \notin {"hello_ack", "close"}
        /\ \/ ~ FromRelay(c)
           \/ m.type = "request_open" /\ r \in channels
           \/ m.type = "request_chunk" /\ ~ Awaited(c)
           \/ /\ m.type \in {"request_chunk", "request_end"}
              /\ r \in channels \cap Bodies
              /\ fwd[r] = "streaming"
    BY DEF ClientRefuses
  <1>2. down[c] \in Seq(Message) /\ 1 \in DOMAIN down[c] /\ m = down[c][1] /\ m \in Message
    <2>1. down[c] \in Seq(Message)
      BY <1>0 DEF TypeOK
    <2> QED BY <1>1, <2>1, TailFacts
  <1>3. m.epoch = epoch[c] /\ epoch[c] # 0 /\ m.type # "hello"
    BY <1>1, <1>2 DEF ConnInv, DownIsOfEpoch
  <1>4. r \in Requests
    BY <1>1, <1>2, <1>3 DEF Message, SocketMessage
  <1> SUFFICES ASSUME r \notin cut PROVE FALSE
    OBVIOUS
  <1>5. Steady(r) /\ BodyComes(r) /\ Known(r) /\ DownTells(r)
    BY <1>4 DEF UncutInv, Uncut, BodyInv, ReqInv
  <1>6. cur # 0
    BY <1>1 DEF Connection
  <1>7. FromRelay(c)
    <2>1. ident # 0
      <3>1. SUFFICES ASSUME ident = 0 PROVE FALSE
        OBVIOUS
      <3>2. AckLeads(down[c])
        BY <1>1, <1>6, <3>1 DEF ConnInv, AckComesFirst
      <3>3. \A j \in DOMAIN down[c] : ~ (j < 1)
        BY <1>2
      <3> QED BY <1>1, <1>2, <3>2, <3>3 DEF AckLeads
    <2> QED BY <1>1, <1>3, <2>1 DEF ConnInv, IdentIsEpoch, FromRelay
  <1>8. ~ (m.type = "request_open" /\ r \in channels)
    BY <1>2, <1>5 DEF OpensOnce, Opens, Known
  <1>9. ~ (m.type = "request_chunk" /\ ~ Awaited(c))
    <2> SUFFICES ASSUME m.type = "request_chunk" PROVE Awaited(c)
      OBVIOUS
    <2>1. About(m, "request_chunk", r) /\ taken[r] \in Nat
      BY <1>0, <1>4 DEF About, ClientTypes
    <2>2. InOrder(down[c], "request_chunk", r, taken[r]) /\ (r \in channels \/ Behind(down[c], "request_chunk", r, "request_open"))
      BY <1>1, <1>5, <1>6 DEF BodyComes
    <2>3. m.n = taken[r]
      BY <1>1, <1>2, <2>1, <2>2, OwnTail
    <2>4. r \in channels
      BY <1>1, <1>2, <2>1, <2>2, FirstIsBehindNothing
    <2>5. r \in Bodies
      BY <1>2, <1>5 DEF DownTells
    <2> QED BY <2>3, <2>4, <2>5 DEF Awaited
  <1>10. m.type \in {"request_chunk", "request_end"} /\ r \in channels \cap Bodies => fwd[r] # "streaming"
    BY <1>2, <1>5 DEF Steady, Answered, Unread
  <1> QED BY <1>1, <1>7, <1>8, <1>9, <1>10

LEMMA RefusedStep ==
  ASSUME IInv, ConnInv, OpensOnce, ReqInv, UncutInv, RefusalsAreOfCutRequests, [Next]_vars
  PROVE  RefusalsAreOfCutRequests'
  <1>0. cut \subseteq cut'
    BY CutGrows
  <1>1. ASSUME NEW r \in Requests, Web(r) \/ Forward(r) PROVE UNCHANGED refused
    BY <1>1 DEF Web, WebRequest, PumpChunk, PumpEnd, PumpFails, WebGone, TimerFires,
                Forward, FetchAnswers, FetchFails, ReplyChunk, ReplyEnds, ReplyFails, history
  <1>2. ASSUME NEW c \in Connection, RelayReceives(c) PROVE UNCHANGED refused \/ (refused' = refused \cup {Head(up[c]).req} /\ Head(up[c]).req \in cut)
    <2>1. CASE RelayRefuses(c)
      BY <2>1, RelayRefusesCut DEF RelayRefuses
    <2> QED BY <1>2, <2>1 DEF RelayReceives, Hello, HelloRefused, ReceiveHead, ReceiveChunk, ReceiveEnd, ReceiveError, RelayClosed, history
  <1>3. ASSUME NEW c \in Connection, ClientReceives(c) \/ Connect(c) \/ Lose(c)
        PROVE  UNCHANGED refused \/ (refused' = refused \cup {Head(down[c]).req} /\ Head(down[c]).req \in cut)
    <2>1. CASE ClientRefuses(c)
      BY <2>1, ClientRefusesCut DEF ClientRefuses
    <2>2. CASE Open(c) \/ TakeAck(c) \/ TakeOpen(c) \/ TakeChunk(c) \/ TakeEnd(c)
      <3> SUFFICES UNCHANGED history
        BY DEF history
      <3> QED BY <2>2 DEF Open, TakeAck, TakeOpen, TakeChunk, TakeEnd
    <2>3. CASE TakeCancel(c)
      BY <2>3 DEF TakeCancel, history
    <2>4. CASE ClientClosed(c) \/ Connect(c) \/ Lose(c)
      BY <2>4 DEF ClientClosed, Connect, Lose, history
    <2> QED BY <1>3, <2>1, <2>2, <2>3, <2>4 DEF ClientReceives
  <1>4. CASE HeartbeatTimeout \/ Revoke \/ Reconfigure
    BY <1>0, <1>4 DEF HeartbeatTimeout, Revoke, Reconfigure, history, RefusalsAreOfCutRequests
  <1>5. CASE UNCHANGED rest
    BY <1>5 DEF rest, history, RefusalsAreOfCutRequests
  <1> QED BY <1>0, <1>1, <1>2, <1>3, <1>4, <1>5, TimeMovesNothing DEF Next, RefusalsAreOfCutRequests

LEMMA UncutInit == Init => ConnInv /\ ReqInv /\ UncutInv /\ RefusalsAreOfCutRequests
  <1> SUFFICES ASSUME Init PROVE ConnInv /\ ReqInv /\ UncutInv /\ RefusalsAreOfCutRequests
    OBVIOUS
  <1>1. \A c \in Connection : /\ DOMAIN up[c] = {} /\ DOMAIN down[c] = {} /\ epoch[c] = 0
                              /\ relayEnd[c] = "none" /\ c # 0
    BY DEF Init, Connection
  <1>2. \A r \in Requests : /\ chan[r] = "none" /\ on[r] = 0 /\ got[r] = 0 /\ pump[r] = "none" /\ pumped[r] = 0
                            /\ taken[r] = 0 /\ fwd[r] = "none" /\ r \notin channels
    BY DEF Init
  <1>3. runtime = 0 /\ cur = 0 /\ ident = 0 /\ refused = {}
    BY DEF Init
  <1>4. ConnInv
    BY <1>1, <1>3 DEF ConnInv, HelloOnce, RuntimeHasEpoch, DownIsOfEpoch, IdentIsEpoch, AckComesFirst
  <1>5. ReqInv
    BY <1>1, <1>2 DEF ReqInv, Fresh, Known, DownTells, UpTells
  <1>6. UncutInv
    BY <1>1, <1>2, <1>3 DEF UncutInv, Uncut, Steady, Answered, BodyInv, BodyComes, BodyGoes, ReplyInv, ReplyIsOfRuntime, ReplyComes,
       ReplyGoes, Working
  <1> QED BY <1>3, <1>4, <1>5, <1>6 DEF RefusalsAreOfCutRequests

\* An end closes the socket for a protocol error only about a request that was
\* cut short, answered before its body was read, or whose connection was lost,
\* whatever requests, chunks, sockets and reconfigurations there are: what one
\* end sends of any other request the other end takes (server.ts:373,
\* client.ts:246).
THEOREM RefusalsFollowCuts == Spec => []RefusalsAreOfCutRequests
  <1> DEFINE Inv == IInv /\ SocketInv /\ ConnInv /\ ReqInv /\ UncutInv /\ RefusalsAreOfCutRequests
  <1>1. Init => Inv
    BY InitInv, SocketInit, UncutInit
  <1>2. Inv /\ [Next]_vars => Inv'
    BY InvInductive, SocketStep, ConnStep, ReqStep, UncutStep, RefusedStep DEF SocketInv
  <1>3. Inv => RefusalsAreOfCutRequests
    OBVIOUS
  <1> HIDE DEF Inv
  <1> QED BY <1>1, <1>2, <1>3, PTL DEF Spec
=============================================================================
