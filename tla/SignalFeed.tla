------------------------------ MODULE SignalFeed ------------------------------
(* SignalChannel: a stream of events from the signal-cli daemon, read by one task that is      *)
(* supervised and reconnected; group messages are kept for context before the gates decide;    *)
(* a typing indicator runs from the message to its final reply.                                *)
EXTENDS Naturals, Sequences, FiniteSets, SequencesExt

CONSTANTS
    SignalMsgs,  \* data messages, in the order the daemon streams them
    RoomOf,      \* chat of each
    Groups,      \* the chats that are groups
    GateOf,      \* open (a DM, a command or a mention), quiet (a group message that is only
                 \* heard), or denied
    Heard,       \* group_message_buffer_size
    MaxDelay,    \* the longest wait before a reconnect
    MaxBreaks    \* failures of the link

ASSUME SignalAssumption ==
    /\ SignalMsgs \subseteq Nat \ {0} /\ Heard \in Nat \ {0} /\ MaxDelay \in Nat \ {0} /\ MaxBreaks \in Nat

SignalRooms == {RoomOf[m] : m \in SignalMsgs}

VARIABLES
    signalOn,   \* _running
    link,       \* _start_http_mode: checking, configuring, reading, waiting, ended
    delay,      \* reconnect_delay_s
    feed,       \* the messages the daemon has not streamed yet
    read,       \* data lines in event_buffer; an event has two
    held,       \* the message being handled: its typing indicator is being sent
    groupBuf,   \* _group_buffers
    typingIn,   \* _typing_tasks
    passedOn,   \* published: messages with their context
    open,       \* published and not answered
    unheard,    \* history: denied, quiet, garbled or cut off by the stop
    breaks

signalVars == <<signalOn, link, delay, feed, read, held, groupBuf, typingIn, passedOn, open, unheard,
                breaks>>

SignalInit ==
    /\ signalOn \in BOOLEAN  \* or the channel is not enabled
    /\ link = (IF signalOn THEN "checking" ELSE "ended") /\ delay = 1 /\ feed = SetToSortSeq(SignalMsgs, <)
    /\ read = 0 /\ held = 0 /\ groupBuf = [g \in Groups |-> <<>>] /\ typingIn = {}
    /\ passedOn = <<>> /\ open = {} /\ unheard = {} /\ breaks = 0

Reading == link = "reading" /\ held = 0 /\ feed # <<>>

\* The daemon answers the check: the delay starts over.
Checked ==
    /\ link = "checking" /\ signalOn /\ link' = "configuring" /\ delay' = 1
    /\ UNCHANGED <<signalOn, feed, read, held, groupBuf, typingIn, passedOn, open, unheard, breaks>>

\* _ensure_typing_indicators_enabled answers either way, then the reader starts.
Configured ==
    /\ link = "configuring" /\ signalOn /\ link' = "reading"
    /\ UNCHANGED <<signalOn, delay, feed, read, held, groupBuf, typingIn, passedOn, open, unheard,
                   breaks>>

\* The check fails or the stream ends: an event read in part is gone with its reader.
LinkBreaks ==
    /\ signalOn /\ link \in {"checking", "configuring", "reading"} /\ held = 0 /\ breaks < MaxBreaks
    /\ breaks' = breaks + 1 /\ link' = "waiting" /\ read' = 0
    /\ IF read > 0 THEN feed' = Tail(feed) /\ unheard' = unheard \cup {Head(feed)} ELSE UNCHANGED <<feed, unheard>>
    /\ UNCHANGED <<signalOn, delay, held, groupBuf, typingIn, passedOn, open>>

Reconnect ==
    /\ link = "waiting"
    /\ IF signalOn THEN link' = "checking" /\ delay' = (IF 2 * delay > MaxDelay THEN MaxDelay ELSE 2 * delay)
       ELSE link' = "ended" /\ UNCHANGED delay
    /\ UNCHANGED <<signalOn, feed, read, held, groupBuf, typingIn, passedOn, open, unheard, breaks>>

\* _sse_receive_loop collects the data lines.
DataLine ==
    /\ Reading /\ signalOn /\ read < 2 /\ read' = read + 1
    /\ UNCHANGED <<signalOn, link, delay, feed, held, groupBuf, typingIn, passedOn, open, unheard,
                   breaks>>

\* An empty line or a keep-alive ends what there is of an event: half of one does not parse.
Garbled ==
    /\ Reading /\ signalOn /\ read = 1 /\ read' = 0
    /\ feed' = Tail(feed) /\ unheard' = unheard \cup {Head(feed)}
    /\ UNCHANGED <<signalOn, link, delay, held, groupBuf, typingIn, passedOn, open, breaks>>

\* The group an envelope names, or else its sender.
InGroup(m) == RoomOf[m] \in Groups

\* _check_inbound_policy: groups or direct messages are enabled, and this one is on the list.
Admitted(m) == GateOf[m] # "denied"

\* _add_to_group_buffer, before the last gate.
Hear(m) ==
    groupBuf' = IF ~(InGroup(m) /\ Admitted(m)) THEN groupBuf
                ELSE [groupBuf EXCEPT ![RoomOf[m]] =
                         LET s == Append(@, m) IN IF Len(s) > Heard THEN Tail(s) ELSE s]

\* _should_respond_in_group: a command or a mention; all direct messages that are admitted.
Open(m) == Admitted(m) /\ (InGroup(m) => GateOf[m] = "open")

\* _handle_data_message up to the indicator: _start_typing stops an old one first.
EventEnds ==
    /\ Reading /\ signalOn /\ read = 2 /\ read' = 0 /\ feed' = Tail(feed) /\ Hear(Head(feed))
    /\ IF Open(Head(feed))
       THEN held' = Head(feed) /\ typingIn' = typingIn \ {RoomOf[Head(feed)]} /\ UNCHANGED unheard
       ELSE unheard' = unheard \cup {Head(feed)} /\ UNCHANGED <<held, typingIn>>
    /\ UNCHANGED <<signalOn, link, delay, passedOn, open, breaks>>

\* _get_group_buffer_context: what was heard before the message.
Context(m) == IF InGroup(m) THEN Front(groupBuf[RoomOf[m]]) ELSE <<>>

\* _assemble_inbound_content.
Content(m) == [msg |-> m, context |-> Context(m)]

\* The indicator was sent, or failed, and its loop begins; the message is published.
AskModel ==
    /\ held # 0 /\ held' = 0
    /\ typingIn' = typingIn \cup {RoomOf[held]}
    /\ passedOn' = Append(passedOn, Content(held)) /\ open' = open \cup {held}
    /\ UNCHANGED <<signalOn, link, delay, feed, read, groupBuf, unheard, breaks>>

\* Mutant: the indicator goes off only when the reply was sent.
ReplySent(r) ==
    /\ \E m \in open : RoomOf[m] = r
    /\ \E sent \in BOOLEAN : typingIn' = IF sent THEN typingIn \ {r} ELSE typingIn
    /\ \E done \in SUBSET {m \in open : RoomOf[m] = r} \ {{}} : open' = open \ done
    /\ UNCHANGED <<signalOn, link, delay, feed, read, held, groupBuf, passedOn, unheard, breaks>>

\* send of a final reply, to the messages one turn took, whether it fails or not.
Reply(r) ==
    /\ \E m \in open : RoomOf[m] = r
    /\ typingIn' = typingIn \ {r}
    /\ \E done \in SUBSET {m \in open : RoomOf[m] = r} \ {{}} : open' = open \ done
    /\ UNCHANGED <<signalOn, link, delay, feed, read, held, groupBuf, passedOn, unheard, breaks>>

\* stop: the reader is cancelled with what it handles, then the indicators.
StopSignal ==
    /\ signalOn /\ signalOn' = FALSE /\ typingIn' = {} /\ held' = 0 /\ read' = 0
    /\ link' = IF link = "waiting" THEN "waiting" ELSE "ended"
    /\ unheard' = unheard \cup ({held} \ {0}) \cup IF read > 0 THEN {Head(feed)} ELSE {}
    /\ feed' = IF read > 0 THEN Tail(feed) ELSE feed
    /\ UNCHANGED <<delay, groupBuf, passedOn, open, breaks>>

SignalNext ==
    \/ Checked \/ Configured \/ LinkBreaks \/ Reconnect \/ DataLine \/ Garbled \/ EventEnds \/ AskModel \/ StopSignal
    \/ \E r \in SignalRooms : Reply(r)

\* The daemon answers, waits end, and the stream goes on; lines of an event come together in the end.
SignalFair ==
    /\ WF_signalVars(Checked) /\ WF_signalVars(Configured) /\ WF_signalVars(Reconnect)
    /\ WF_signalVars(DataLine) /\ WF_signalVars(EventEnds) /\ WF_signalVars(AskModel)

SignalSpec == SignalInit /\ [][SignalNext]_signalVars /\ SignalFair

----------------------------------------------------------------------------
(* Properties. *)

\* An indicator runs only for a message that waits for its reply, though replies come while the
\* next message's indicator is being sent.
TypingMeansWork == \A r \in typingIn : \E m \in open : RoomOf[m] = r

\* However often the link breaks, what the daemon streams is published or dropped for a reason.
FeedTaken == \A m \in SignalMsgs : <>(~signalOn \/ m \in unheard \/ \E i \in DOMAIN passedOn : passedOn[i].msg = m)
================================================================================
