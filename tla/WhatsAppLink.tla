----------------------------- MODULE WhatsAppLink -----------------------------
(* WhatsAppChannel and its bridge: one task connects, authenticates, reads and reconnects;     *)
(* the bridge may hand over a message again; codes pair unknown senders; an indicator runs     *)
(* for each chat from a message to the reply, and is held for a minimum time before it ends.   *)
EXTENDS Naturals, Sequences, FiniteSets, SequencesExt

CONSTANTS
    WaMsgs,      \* messages the bridge hands over, some more than once
    WaChat,      \* chat of each
    Unpaired,    \* senders (chats) that must redeem a code
    PairTry,     \* messages that are `/pair <code>'
    Codes,       \* pairing codes
    CodeIn,      \* the code a PairTry message holds
    MaxIds,      \* how many message ids are remembered
    MaxGaps,     \* times the bridge goes away, or WhatsApp does
    MaxPublished \* messages that are published

ASSUME WhatsAppAssumption ==
    /\ WaMsgs \subseteq Nat \ {0} /\ MaxPublished \in Nat
    /\ MaxIds \in Nat \ {0} /\ MaxGaps \in Nat /\ PairTry \subseteq WaMsgs

WaChats == {WaChat[m] : m \in WaMsgs}

VARIABLES
    waOn,        \* _running
    closing,     \* stop waits for the indicators it cancelled
    sock,        \* the task of start: dialing, reading, closed (by stop, not seen yet), waiting, ended
    linked,      \* _connected
    ids,         \* _processed_message_ids, oldest first
    openCodes,   \* codes issued and not redeemed
    approved,    \* senders that are paired
    hinted,      \* _pairing_hinted
    working,     \* the message whose transcription is awaited, or NoWaMsg
    indicator,   \* _typing_tasks
    target,      \* _presence_for_chat
    holding,     \* chats whose reply waits for the minimum time of an old indicator
    published,   \* messages given to the bus, in order
    unanswered,
    forgotten,   \* history: ids that made room
    gaps

waVars == <<waOn, closing, sock, linked, ids, openCodes, approved, hinted, working, indicator, target, holding,
            published, unanswered, forgotten, gaps>>
NoWaMsg == 0

WaInit ==
    /\ waOn = TRUE /\ closing = FALSE /\ sock = "dialing" /\ linked = FALSE /\ ids = <<>> /\ openCodes = {} /\ approved = {}
    /\ hinted = {} /\ working = NoWaMsg /\ indicator = {} /\ target = {} /\ holding = {}
    /\ published = <<>> /\ unanswered = {} /\ forgotten = {} /\ gaps = 0

\* _cancel_all_typing_tasks.
CancelAll == indicator' = {} /\ target' = {}

WaReading == sock \in {"reading", "closed"} /\ working = NoWaMsg

\* The socket opens and the token is sent: taken for connected, after a stop too.
Dialed ==
    /\ sock = "dialing" /\ sock' = "reading" /\ linked' = TRUE
    /\ UNCHANGED <<waOn, closing, ids, openCodes, approved, hinted, working, indicator, target, holding, published,
                   unanswered, forgotten, gaps>>

\* The bridge goes away, or refuses: a clean close is dialed again at once, an error after a wait.
\* Once stop has closed the socket, its end is sure; and the task goes no further after a stop.
SocketEnds ==
    /\ WaReading \/ sock = "dialing"
    /\ IF sock = "closed" THEN gaps' = gaps ELSE gaps < MaxGaps /\ gaps' = gaps + 1
    /\ linked' = FALSE /\ CancelAll
    /\ sock' \in IF ~waOn THEN {"ended"} ELSE IF sock = "reading" THEN {"dialing", "waiting"} ELSE {"waiting"}
    /\ UNCHANGED <<waOn, closing, ids, openCodes, approved, hinted, working, holding, published, unanswered,
                   forgotten>>

\* _reconnect_delay_seconds passes.
Redial ==
    /\ sock = "waiting" /\ sock' = IF waOn THEN "dialing" ELSE "ended"
    /\ UNCHANGED <<waOn, closing, linked, ids, openCodes, approved, hinted, working, indicator, target, holding,
                   published, unanswered, forgotten, gaps>>

\* The status the bridge reports of WhatsApp itself.
StatusLost ==
    /\ WaReading /\ linked /\ gaps < MaxGaps /\ gaps' = gaps + 1
    /\ linked' = FALSE /\ CancelAll
    /\ UNCHANGED <<waOn, closing, sock, ids, openCodes, approved, hinted, working, holding, published,
                   unanswered, forgotten>>

StatusBack ==
    /\ WaReading /\ ~linked /\ linked' = TRUE
    /\ UNCHANGED <<waOn, closing, sock, ids, openCodes, approved, hinted, working, indicator, target, holding,
                   published, unanswered, forgotten, gaps>>

Known(m) == WaChat[m] \notin Unpaired \/ WaChat[m] \in approved

\* issue_pairing_code, from the command line: a code that is not pending.
IssueCode(c) ==
    /\ openCodes' = openCodes \cup {c} /\ c \notin openCodes
    /\ UNCHANGED <<waOn, closing, sock, linked, ids, approved, hinted, working, indicator, target, holding,
                   published, unanswered, forgotten, gaps>>

\* _consume_pairing_code: the code is gone, its sender approved; a reply, or once a hint.
Pair(m) ==
    /\ WaReading /\ ~Known(m)
    /\ IF m \in PairTry /\ CodeIn[m] \in openCodes
       THEN /\ openCodes' = openCodes \ {CodeIn[m]} /\ approved' = approved \cup {WaChat[m]}
            /\ hinted' = hinted \ {WaChat[m]}
       ELSE hinted' = hinted \cup {WaChat[m]} /\ UNCHANGED <<openCodes, approved>>
    /\ UNCHANGED <<waOn, closing, sock, linked, ids, working, indicator, target, holding, published, unanswered,
                   forgotten, gaps>>

\* Mutant: the newest id makes room.
RememberOver(m) ==
    /\ ids' = IF Len(ids) = MaxIds THEN Append(Front(ids), m) ELSE Append(ids, m)
    /\ forgotten' = IF Len(ids) = MaxIds THEN forgotten \cup {Head(ids)} ELSE forgotten

\* The id is remembered before the message is worked on; the oldest makes room.
Remember(m) ==
    /\ ids' = IF Len(ids) = MaxIds THEN Append(Tail(ids), m) ELSE Append(ids, m)
    /\ forgotten' = IF Len(ids) = MaxIds THEN forgotten \cup {Head(ids)} ELSE forgotten

\* _start_typing: it needs the link, and the socket that stop has set to none.
Indicate(m) ==
    /\ target' = target \cup {WaChat[m]}
    /\ indicator' = IF linked /\ sock = "reading" THEN indicator \cup {WaChat[m]} ELSE indicator

\* _handle_bridge_message up to the transcription: a message of a known sender, not seen before;
\* while stop waits, and of what a closed socket still holds, too.
TakeIn(m) ==
    /\ WaReading /\ Known(m) /\ m \notin ToSet(ids) /\ Len(published) < MaxPublished
    /\ Remember(m) /\ Indicate(m) /\ working' = m
    /\ UNCHANGED <<waOn, closing, sock, linked, openCodes, approved, hinted, holding, published, unanswered,
                   gaps>>

\* The transcription is there, or is not needed.
PublishWa ==
    /\ working # NoWaMsg /\ working' = NoWaMsg
    /\ published' = Append(published, working) /\ unanswered' = unanswered \cup {working}
    /\ UNCHANGED <<waOn, closing, sock, linked, ids, openCodes, approved, hinted, indicator, target, holding,
                   forgotten, gaps>>

\* send of a final reply begins: the indicator is taken out of the table, and held; or there is
\* no bridge and the reply is dropped.  The dispatcher is ended before the channel is stopped.
ReplyBegins(r) ==
    /\ waOn /\ r \notin holding /\ \E m \in unanswered : WaChat[m] = r
    /\ IF linked THEN /\ holding' = holding \cup {r} /\ target' = target \ {r} /\ indicator' = indicator \ {r}
       ELSE UNCHANGED <<holding, target, indicator>>
    /\ \E done \in SUBSET {m \in unanswered : WaChat[m] = r} \ {{}} : unanswered' = unanswered \ done
    /\ UNCHANGED <<waOn, closing, sock, linked, ids, openCodes, approved, hinted, working, published, forgotten, gaps>>

\* The minimum time is over: the reply is sent.
ReplyGoes(r) ==
    /\ waOn /\ r \in holding /\ holding' = holding \ {r}
    /\ UNCHANGED <<waOn, closing, sock, linked, ids, openCodes, approved, hinted, working, indicator, target,
                   published, unanswered, forgotten, gaps>>

\* The gateway is interrupted: the task of start is cancelled before stop, and what it worked on
\* with it; link and indicators stay as they are.
StartCancelled ==
    /\ waOn /\ sock # "ended" /\ sock' = "ended" /\ working' = NoWaMsg
    /\ UNCHANGED <<waOn, closing, linked, ids, openCodes, approved, hinted, indicator, target, holding, published,
                   unanswered, forgotten, gaps>>

\* The end of stop: the link is dropped and the socket closed; its reader has still to see it.
Unlink == linked' = FALSE /\ sock' = IF sock = "reading" THEN "closed" ELSE sock

\* stop: the indicators are cancelled, and waited for if there are any; the link is still up.
StopBegins ==
    /\ waOn /\ waOn' = FALSE /\ CancelAll
    /\ IF indicator = {} THEN Unlink /\ UNCHANGED closing ELSE closing' = TRUE /\ UNCHANGED <<linked, sock>>
    /\ UNCHANGED <<ids, openCodes, approved, hinted, working, holding, published, unanswered,
                   forgotten, gaps>>

StopEnds ==
    /\ closing /\ closing' = FALSE /\ Unlink
    /\ UNCHANGED <<waOn, ids, openCodes, approved, hinted, working, indicator, target, holding, published,
                   unanswered, forgotten, gaps>>

WaNext ==
    \/ Dialed \/ SocketEnds \/ Redial \/ StatusLost \/ StatusBack \/ PublishWa
    \/ StartCancelled \/ StopBegins \/ StopEnds
    \/ \E c \in Codes : IssueCode(c)
    \/ \E m \in WaMsgs : Pair(m) \/ TakeIn(m)
    \/ \E r \in WaChats : ReplyBegins(r) \/ ReplyGoes(r)

WaSpec == WaInit /\ [][WaNext]_waVars

----------------------------------------------------------------------------
(* Properties. *)

\* What the bridge hands over again is published once, over reconnects too, as long as its id is
\* remembered.  An indicator runs only while the link is up, but for one that a message started
\* while stop waited for the others: that one goes when the reader sees the socket closed.  None is
\* left when the channel was stopped and its reader is over.
PublishedOnce ==
    /\ \A i, j \in DOMAIN published : i # j /\ published[i] = published[j] => published[i] \in forgotten
    /\ indicator # {} => linked \/ sock = "closed"
    /\ sock = "ended" /\ ~waOn => indicator = {}
================================================================================
