------------------------------ MODULE MCChannels ------------------------------
(* The ways in and out of the agent, each on its own: the delivery of streamed answers, the  *)
(* chat channels, the WebSocket server.  A behaviour is one of one part.                     *)
EXTENDS StreamDelivery, TelegramIngress, WebSocketServer, SignalFeed, WhatsAppLink, EmailPolling,
        WorkChats, Indicators

CONSTANT Parts  \* the parts of the run
VARIABLE part   \* the one whose behaviour this is

\* Two streams: in one topic, in two topics of a chat, or in two chats.
AllTopics == {"a1", "a2", "b"}
TopicChat == [t \in AllTopics |-> IF t = "b" THEN "b" ELSE "a"]
TopicLayouts == {[s \in Streams |-> IF s = 1 THEN "a1" ELSE t] : t \in AllTopics}
StreamPieces == [s \in Streams |-> IF s = 1 THEN 3 ELSE 1]

\* A text, a command of another chat and an album of two parts.
UpdateKey == [u \in Updates |-> IF u = 2 THEN "b" ELSE "a"]
UpdateKind == [u \in Updates |-> IF u >= 3 THEN "part" ELSE IF u = 1 THEN "text" ELSE "command"]

SignalRoom == [m \in SignalMsgs |-> IF m = 3 THEN "d" ELSE "g"]
SignalGate == [m \in SignalMsgs |-> IF m = 1 THEN "quiet" ELSE "open"]

WaRoom == [m \in WaMsgs |-> IF m >= 3 THEN "u" ELSE "g"]
WaCode == [m \in PairTry |-> "c"]

MailVerdict == [m \in Mails |-> "take"]
MailFrom == [m \in Mails |-> "s"]

Conversation == [a \in Activities |-> a]

DiscordRoom == [m \in DMsgs |-> "d"]
MatrixRoom == [m \in XMsgs |-> "x"]

Others(p) ==
    /\ UNCHANGED part
    /\ IF p = "stream" THEN TRUE ELSE UNCHANGED streamVars
    /\ IF p = "telegram" THEN TRUE ELSE UNCHANGED ingressVars
    /\ IF p = "websocket" THEN TRUE ELSE UNCHANGED wsVars
    /\ IF p = "signal" THEN TRUE ELSE UNCHANGED signalVars
    /\ IF p = "whatsapp" THEN TRUE ELSE UNCHANGED waVars
    /\ IF p = "email" THEN TRUE ELSE UNCHANGED mailVars
    /\ IF p = "work" THEN TRUE ELSE UNCHANGED workVars
    /\ IF p \in {"discord", "matrix"} THEN TRUE ELSE UNCHANGED indicatorVars

Init ==
    /\ part \in Parts /\ StreamInit /\ IngressInit /\ WsInit /\ SignalInit /\ WaInit /\ MailInit
    /\ WorkInit /\ IndicatorInit
    \* What a part chooses in the beginning is chosen for that part alone.
    /\ part # "stream" => kind = (CHOOSE k \in Kinds : TRUE) /\ topic = (CHOOSE l \in Layouts : TRUE)
    /\ part # "work" => botKnown
    /\ signalOn = (part = "signal")

Next ==
    \/ part = "stream" /\ StreamNext /\ Others("stream")
    \/ part = "telegram" /\ IngressNext /\ Others("telegram")
    \/ part = "websocket" /\ WsNext /\ Others("websocket")
    \/ part = "signal" /\ SignalNext /\ Others("signal")
    \/ part = "whatsapp" /\ WaNext /\ Others("whatsapp")
    \/ part = "email" /\ MailNext /\ Others("email")
    \/ part = "work" /\ WorkNext /\ Others("work")
    \/ part = "discord" /\ DiscordNext /\ Others("discord")
    \/ part = "matrix" /\ MatrixNext /\ Others("matrix")

vars == <<part, streamVars, ingressVars, wsVars, signalVars, waVars, mailVars, workVars, indicatorVars>>

Spec == Init /\ [][Next]_vars
================================================================================
