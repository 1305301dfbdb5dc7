------------------------------ MODULE Indicators ------------------------------
(* What a Discord channel or a Matrix room shows while the agent works. Discord.py runs a task *)
(* for each message, so several start in one channel at once; each begins to type, reacts to   *)
(* its message and is published; a final reply clears what the channel's tables hold. Matrix   *)
(* hands its events over one at a time.                                                        *)
EXTENDS Naturals

CONSTANTS
    DMsgs,       \* Discord messages, numbered as they arrive
    DRoom,       \* channel of each
    XMsgs,       \* Matrix messages
    XRoom,       \* room of each
    XMedia,      \* those with an attachment to fetch
    MaxDropped   \* replies that never get through

ASSUME IndicatorAssumption ==
    DMsgs \subseteq Nat \ {0} /\ XMsgs \subseteq Nat \ {0} /\ XMedia \subseteq XMsgs /\ MaxDropped \in Nat

DRooms == {DRoom[m] : m \in DMsgs}
XRooms == {XRoom[m] : m \in XMsgs}

VARIABLES
    stage,       \* per Discord message: "no", "loading", "cancelling", "reacting", "published", "answered"
    typists,     \* messages whose typing loop runs
    typing,      \* _typing_tasks: a message per channel, or 0
    eyes2,       \* messages with the read receipt
    pendingEyes, \* _pending_reactions
    alarms,      \* messages whose delayed working emoji sleeps
    alarmOf,     \* _working_emoji_tasks
    wrench,      \* messages with the working emoji
    clearing,    \* channels whose reply has stopped the typing and goes on with the reactions
    dropped,     \* replies that never got through
    stuck,       \* history: channels whose last reply did not get through
    crossed,     \* history: typing loops put over by that of another message
    covered,     \* history: messages whose reaction or alarm was put over
    unremoved,   \* history: messages a reaction of which could not be taken off
    xStage,      \* per Matrix message: "no", "fetching", "typing", "published", "answered"
    xTyping,     \* _typing_tasks of Matrix
    notice,      \* rooms that show the bot typing
    xClearing,   \* rooms a reply is about to clear
    uncleared,   \* history: rooms whose notice could not be taken back last
    xOn          \* _running

discordVars == <<stage, typists, typing, eyes2, pendingEyes, alarms, alarmOf, wrench, clearing, dropped, stuck,
                 crossed, covered, unremoved>>
matrixVars == <<xStage, xTyping, notice, xClearing, uncleared, xOn>>
indicatorVars == <<discordVars, matrixVars>>

NoTasks(rooms) == [c \in rooms |-> 0]

IndicatorInit ==
    /\ stage = [m \in DMsgs |-> "no"] /\ typists = {} /\ typing = NoTasks(DRooms) /\ eyes2 = {}
    /\ pendingEyes = NoTasks(DRooms) /\ alarms = {} /\ alarmOf = NoTasks(DRooms) /\ wrench = {} /\ clearing = {}
    /\ dropped = 0 /\ stuck = {} /\ crossed = {} /\ covered = {} /\ unremoved = {}
    /\ xStage = [m \in XMsgs |-> "no"] /\ xTyping = NoTasks(XRooms) /\ notice = {} /\ xClearing = {}
    /\ uncleared = {} /\ xOn = TRUE

---------------------------------------------------------------------------
(* Discord. *)

\* _handle_discord_message: accepted, its attachments are saved.
DiscordAccept(m) ==
    /\ stage[m] = "no" /\ \A k \in DMsgs : k < m => stage[k] # "no"
    /\ stage' = [stage EXCEPT ![m] = "loading"]
    /\ UNCHANGED <<typists, typing, eyes2, pendingEyes, alarms, alarmOf, wrench, clearing, dropped, stuck, crossed,
                   covered, unremoved, matrixVars>>

\* The loop of m is created and put into the table.
BeginTyping(m, running) ==
    /\ typists' = running \cup {m} /\ typing' = [typing EXCEPT ![DRoom[m]] = m]
    /\ stage' = [stage EXCEPT ![m] = "reacting"]

\* _start_typing: an old loop is cancelled, and awaited; without one the new one begins at once.
StartTyping(m) ==
    /\ stage[m] = "loading"
    /\ LET old == typing[DRoom[m]] IN
       IF old = 0 THEN BeginTyping(m, typists)
       ELSE /\ typists' = typists \ {old} /\ typing' = [typing EXCEPT ![DRoom[m]] = 0]
            /\ stage' = [stage EXCEPT ![m] = "cancelling"]
    /\ UNCHANGED <<eyes2, pendingEyes, alarms, alarmOf, wrench, clearing, dropped, stuck, crossed,
                   covered, unremoved, matrixVars>>

\* The old loop has ended: the new one goes into the table, over whatever is there by now.
OldTypingEnded(m) ==
    /\ stage[m] = "cancelling" /\ BeginTyping(m, typists)
    /\ crossed' = crossed \cup ({typing[DRoom[m]]} \ {0})
    /\ UNCHANGED <<eyes2, pendingEyes, alarms, alarmOf, wrench, clearing, dropped, stuck, covered, unremoved, matrixVars>>

\* The read receipt is added, or refused; the alarm of the working emoji is set; published.
React(m) ==
    LET c == DRoom[m] IN
    /\ stage[m] = "reacting" /\ stage' = [stage EXCEPT ![m] = "published"]
    /\ \/ eyes2' = eyes2 \cup {m} /\ pendingEyes' = [pendingEyes EXCEPT ![c] = m]
          /\ covered' = covered \cup ({pendingEyes[c], alarmOf[c]} \ {0})
       \/ UNCHANGED <<eyes2, pendingEyes>> /\ covered' = covered \cup ({alarmOf[c], m} \ {0})
    /\ alarms' = alarms \cup {m} /\ alarmOf' = [alarmOf EXCEPT ![c] = m]
    /\ UNCHANGED <<typists, typing, wrench, clearing, dropped, stuck, crossed, unremoved, matrixVars>>

AlarmRings(m) ==
    /\ m \in alarms /\ alarms' = alarms \ {m} /\ wrench' = wrench \cup {m}
    /\ UNCHANGED <<stage, typists, typing, eyes2, pendingEyes, alarmOf, clearing, dropped, stuck, crossed, covered,
                   unremoved, matrixVars>>

\* Messages of c that wait for their answer, any number of which one turn answers.
Waiting(c) == {m \in DMsgs : DRoom[m] = c /\ stage[m] = "published"}
AnswerIn(c) ==
    \E done \in SUBSET Waiting(c) \ {{}} : stage' = [m \in DMsgs |-> IF m \in done THEN "answered" ELSE stage[m]]

\* Mutant: the loop is taken out of the table and goes on.
StopForgets(c) == typing' = [typing EXCEPT ![c] = 0] /\ UNCHANGED typists

\* _stop_typing.
StopTyping(c) == typing' = [typing EXCEPT ![c] = 0] /\ typists' = typists \ {typing[c]}

\* The final reply, or the end of a stream, is out: the typing stops ...
DiscordReply(c) ==
    /\ AnswerIn(c) /\ StopTyping(c) /\ clearing' = clearing \cup {c} /\ stuck' = stuck \ {c}
    /\ UNCHANGED <<eyes2, pendingEyes, alarms, alarmOf, wrench, dropped, crossed, covered, unremoved, matrixVars>>

\* ... then _clear_reactions cancels the alarm and takes both reactions off the message it knows,
\* each of which may fail: then it stays, and no table knows of it.
ClearReactions(c) ==
    LET m == pendingEyes[c] IN
    /\ c \in clearing /\ clearing' = clearing \ {c}
    /\ alarms' = alarms \ {alarmOf[c]} /\ alarmOf' = [alarmOf EXCEPT ![c] = 0]
    /\ pendingEyes' = [pendingEyes EXCEPT ![c] = 0]
    /\ eyes2' \in {eyes2, eyes2 \ {m}} /\ wrench' \in {wrench, wrench \ {m}}
    /\ unremoved' = unremoved \cup ({m} \cap (eyes2' \cup wrench'))
    /\ UNCHANGED <<stage, typists, typing, dropped, stuck, crossed, covered, matrixVars>>

\* The client is not ready, or the last edit of a stream fails each time: nothing is cleared.
ReplyNeverGoes(c) ==
    /\ dropped < MaxDropped /\ dropped' = dropped + 1 /\ AnswerIn(c) /\ stuck' = stuck \cup {c}
    /\ UNCHANGED <<typists, typing, eyes2, pendingEyes, alarms, alarmOf, wrench, clearing, crossed,
                   covered, unremoved, matrixVars>>

---------------------------------------------------------------------------
(* Matrix. *)

XIdle == \A m \in XMsgs : xStage[m] \notin {"fetching", "typing"}

\* The callback of a room message; a media event has its attachment fetched first.
OnMessage(m) ==
    /\ xOn /\ XIdle /\ xStage[m] = "no"
    /\ IF m \in XMedia THEN xStage' = [xStage EXCEPT ![m] = "fetching"] /\ UNCHANGED xTyping
       ELSE xStage' = [xStage EXCEPT ![m] = "typing"] /\ xTyping' = [xTyping EXCEPT ![XRoom[m]] = 0]
    /\ UNCHANGED <<notice, xClearing, uncleared, xOn, discordVars>>

\* _on_media_message with its attachment, or without: _start_typing_keepalive begins.
MediaFetched(m) ==
    /\ xStage[m] = "fetching" /\ xStage' = [xStage EXCEPT ![m] = "typing"]
    /\ xTyping' = [xTyping EXCEPT ![XRoom[m]] = 0]
    /\ UNCHANGED <<notice, xClearing, uncleared, xOn, discordVars>>

\* The notice is out, or failed; the refreshing loop begins while the channel runs; published.
TypingShown(m) ==
    /\ xStage[m] = "typing" /\ xStage' = [xStage EXCEPT ![m] = "published"]
    /\ notice' \in {notice, notice \cup {XRoom[m]}}
    /\ xTyping' = IF xOn THEN [xTyping EXCEPT ![XRoom[m]] = m] ELSE xTyping
    /\ UNCHANGED <<xClearing, uncleared, xOn, discordVars>>

\* The loop refreshes the notice.
Refresh(c) ==
    /\ xTyping[c] # 0 /\ xOn /\ notice' = notice \cup {c}
    /\ UNCHANGED <<xStage, xTyping, xClearing, uncleared, xOn, discordVars>>

\* send of a final message, delivered or not, stops the loop ...
MatrixReply(c) ==
    /\ \E done \in SUBSET {m \in XMsgs : XRoom[m] = c /\ xStage[m] = "published"} \ {{}} :
          xStage' = [m \in XMsgs |-> IF m \in done THEN "answered" ELSE xStage[m]]
    /\ xTyping' = [xTyping EXCEPT ![c] = 0] /\ xClearing' = xClearing \cup {c}
    /\ UNCHANGED <<notice, uncleared, xOn, discordVars>>

\* ... and takes the notice back, or fails to: the homeserver shows it until it times out.
NoticeCleared(c) ==
    /\ c \in xClearing /\ xClearing' = xClearing \ {c} /\ notice' \in {notice, notice \ {c}}
    /\ uncleared' = IF c \in notice' THEN uncleared \cup {c} ELSE uncleared \ {c}
    /\ UNCHANGED <<xStage, xTyping, xOn, discordVars>>

\* stop, or a fatal answer of the homeserver, after which no event comes.
MatrixStops ==
    /\ xOn /\ xOn' = FALSE /\ xTyping' \in {xTyping, NoTasks(XRooms)}
    /\ UNCHANGED <<xStage, notice, xClearing, uncleared, discordVars>>

DiscordNext ==
    \/ \E m \in DMsgs : DiscordAccept(m) \/ StartTyping(m) \/ OldTypingEnded(m) \/ React(m) \/ AlarmRings(m)
    \/ \E c \in DRooms : DiscordReply(c) \/ ClearReactions(c) \/ ReplyNeverGoes(c)

MatrixNext ==
    \/ \E m \in XMsgs : OnMessage(m) \/ MediaFetched(m) \/ TypingShown(m)
    \/ \E c \in XRooms : Refresh(c) \/ MatrixReply(c) \/ NoticeCleared(c)
    \/ MatrixStops

IndicatorNext == DiscordNext \/ MatrixNext
IndicatorSpec == IndicatorInit /\ [][IndicatorNext]_indicatorVars

----------------------------------------------------------------------------
(* Properties. *)

\* No message of c is under way and no reply to it.
Quiet(c) ==
    /\ \A m \in DMsgs : DRoom[m] = c => stage[m] \in {"no", "loading", "answered"}
    /\ c \notin clearing

XQuiet(c) ==
    /\ \A m \in XMsgs : XRoom[m] = c => xStage[m] \in {"no", "fetching", "answered"}
    /\ c \notin xClearing

\* Where everything is answered nothing says that the agent works: not in Discord, except what
\* messages that came together covered up, a reply that never went, and a reaction that could not be
\* taken off; and not in Matrix, except a notice the homeserver did not take back.
QuietShowsNothing ==
    /\ \A c \in DRooms \ stuck : Quiet(c) =>
          /\ {m \in typists : DRoom[m] = c} \subseteq crossed
          /\ {m \in alarms : DRoom[m] = c} \subseteq covered
          /\ {m \in eyes2 \cup wrench : DRoom[m] = c} \subseteq covered \cup unremoved
    /\ \A c \in XRooms : XQuiet(c) => xTyping[c] = 0 /\ (c \in notice => c \in uncleared)
================================================================================
