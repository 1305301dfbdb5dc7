-------------------------------- MODULE MCLive --------------------------------
(* What must come to an end: the scheduler, the subagents, the exec sessions, the browser, *)
(* the delivery of streams, the ways in of Telegram and Signal, each on its own and under   *)
(* the fairness of the event loop.  A behaviour is one of one part.                         *)
EXTENDS CronService, Subagents, ExecSessions, BrowserSessions, StreamDelivery, TelegramIngress,
        SignalFeed

CONSTANT Parts  \* the parts of the run
VARIABLE part   \* the one whose behaviour this is

SubagentKey == [s \in Subs |-> IF s = "s3" THEN "k2" ELSE "k1"]

\* Two streams: in one topic, in two topics of a chat, or in two chats.
AllTopics == {"a1", "a2", "b"}
TopicChat == [t \in AllTopics |-> IF t = "b" THEN "b" ELSE "a"]
TopicLayouts == {[s \in Streams |-> IF s = 1 THEN "a1" ELSE t] : t \in AllTopics}
StreamPieces == [s \in Streams |-> IF s = 1 THEN 2 ELSE 1]

\* A text, a command of another chat and an album of two parts.
UpdateKey == [u \in Updates |-> IF u = 2 THEN "b" ELSE "a"]
UpdateKind == [u \in Updates |-> IF u >= 3 THEN "part" ELSE IF u = 1 THEN "text" ELSE "command"]

SignalRoom == [m \in SignalMsgs |-> IF m = 3 THEN "d" ELSE "g"]
SignalGate == [m \in SignalMsgs |-> IF m = 1 THEN "quiet" ELSE "open"]

Others(p) ==
    /\ UNCHANGED part
    /\ IF p = "cron" THEN TRUE ELSE UNCHANGED cronVars
    /\ IF p = "subagents" THEN TRUE ELSE UNCHANGED subVars
    /\ IF p = "exec" THEN TRUE ELSE UNCHANGED execVars
    /\ IF p = "browser" THEN TRUE ELSE UNCHANGED browserVars
    /\ IF p = "stream" THEN TRUE ELSE UNCHANGED streamVars
    /\ IF p = "telegram" THEN TRUE ELSE UNCHANGED ingressVars
    /\ IF p = "signal" THEN TRUE ELSE UNCHANGED signalVars

Init ==
    /\ part \in Parts /\ CronInit /\ SubInit /\ ExecInit /\ BrowserInit
    /\ StreamInit /\ IngressInit /\ SignalInit
    \* What a part chooses in the beginning is chosen for that part alone.
    /\ part # "stream" => kind = (CHOOSE k \in Kinds : TRUE) /\ topic = (CHOOSE l \in Layouts : TRUE)
    /\ signalOn = (part = "signal")

Next ==
    \/ part = "cron" /\ CronNext /\ Others("cron")
    \/ part = "subagents" /\ SubNext /\ Others("subagents")
    \/ part = "exec" /\ ExecNext /\ Others("exec")
    \/ part = "browser" /\ BrowserNext /\ Others("browser")
    \/ part = "stream" /\ StreamNext /\ Others("stream")
    \/ part = "telegram" /\ IngressNext /\ Others("telegram")
    \/ part = "signal" /\ SignalNext /\ Others("signal")

vars == <<part, cronVars, subVars, execVars, browserVars, streamVars, ingressVars, signalVars>>

\* No action under fairness is enabled in the initial state of a part that rests.
Spec ==
    /\ Init /\ [][Next]_vars
    /\ CronFair /\ SubFair /\ ExecFair /\ BrowserFair /\ StreamFair /\ IngressFair /\ SignalFair

\* What the services were asked to do ends, and stays ended: a job that is due and the actions
\* of another process, a subagent, whose final record is not overwritten, a call to an exec
\* session, a session that waits for the browser.
ServicesSettle == CronLive /\ SubEnds /\ FinalStays /\ CallEnds /\ EnsureEnds

\* What is on its way through a channel arrives or is given up, whatever fails: the end of a
\* stream, an update of Telegram, a message of Signal.
ChannelsSettle == EndsReach /\ UpdatesTaken /\ FeedTaken
================================================================================
