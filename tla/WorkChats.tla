------------------------------- MODULE WorkChats -------------------------------
(* Two channels of a workplace. Slack: a post arrives as one or two events, either of them     *)
(* perhaps again; each is acknowledged, filtered, marked with a reaction and published. Teams: *)
(* a webhook thread has a request validated and handled in the event loop; the reference of    *)
(* its conversation is kept, and saved, for the answers.                                       *)
EXTENDS Naturals, Sequences, FiniteSets, Bags

CONSTANTS
    Posts,       \* Slack posts
    Mentions,    \* those that mention the bot
    Direct,      \* those in a direct message
    AnyPost,     \* group_policy is "open"; else "mention"
    Activities,  \* Teams activities
    ConvOf,      \* conversation of each
    MaxEvents,   \* events Slack delivers again
    MaxFaults    \* failures: of a save, of the keys, of the process

ASSUME WorkAssumption ==
    /\ Mentions \subseteq Posts /\ Direct \subseteq Posts /\ AnyPost \in BOOLEAN
    /\ Activities \subseteq Nat \ {0} /\ MaxEvents \in Nat /\ MaxFaults \in Nat

Convs == {ConvOf[a] : a \in Activities}
KindsOf(p) == {"message"} \cup IF p \in Mentions \ Direct THEN {"app_mention"} ELSE {}

VARIABLES
    botKnown,    \* auth_test found _bot_user_id
    events,      \* bag of <<post, kind>> under way
    posted,      \* posts made
    reacting,    \* bag of posts whose reaction is awaited before they are published
    eyes,        \* posts with the reaction of work in progress
    checked,     \* posts with the final reaction
    asked,       \* bag of posts published
    again,       \* history: events delivered again, by post
    web,         \* per activity: "no", "sent", "validating", "handled", "refused"
    refs,        \* _conversation_refs: the last activity of each conversation, or 0
    refsFile,    \* the same in msteams_conversations.json, or "torn"
    heard,       \* conversations an activity was published for
    answering,   \* per conversation: activity whose reference send holds while it gets a token
    behind,      \* history: conversations whose last reference did not reach the file, or went with it
    faults

slackVars == <<botKnown, events, posted, reacting, eyes, checked, asked, again>>
teamsVars == <<web, refs, refsFile, heard, answering, behind, faults>>
workVars == <<slackVars, teamsVars>>

NoRefs == [c \in Convs |-> 0]

WorkInit ==
    /\ botKnown \in BOOLEAN /\ events = EmptyBag /\ posted = {} /\ reacting = EmptyBag /\ eyes = {} /\ checked = {}
    /\ asked = EmptyBag /\ again = {}
    /\ web = [a \in Activities |-> "no"] /\ refs = NoRefs /\ refsFile = NoRefs /\ heard = {}
    /\ answering = NoRefs /\ behind = {} /\ faults = 0

---------------------------------------------------------------------------
(* Slack. *)

\* A post is made: Slack sends a message event, and one more for a mention in a channel.
PostMade(p) ==
    /\ p \notin posted /\ posted' = posted \cup {p}
    /\ events' = events (+) SetToBag({p} \X KindsOf(p))
    /\ UNCHANGED <<botKnown, reacting, eyes, checked, asked, again, teamsVars>>

\* An acknowledgement that was lost: Slack delivers the event once more.
Redelivered(p) ==
    /\ p \in posted /\ BagCardinality(events) < 3 /\ Cardinality(again) < MaxEvents /\ p \notin again
    /\ again' = again \cup {p} /\ events' = events (+) SetToBag({<<p, CHOOSE k \in KindsOf(p) : TRUE>>})
    /\ UNCHANGED <<botKnown, posted, reacting, eyes, checked, asked, teamsVars>>

\* _should_respond_in_channel.
ShouldRespond(p, via) == AnyPost \/ via = "app_mention" \/ (botKnown /\ p \in Mentions)

\* Mutant: the second event of a mention is not left out.
WantedTwice(p, via) == p \in Direct \/ ShouldRespond(p, via)

\* The filters of _on_socket_request: of the two events of a mention the message is dropped.
Wanted(p, via) ==
    /\ ~(via = "message" /\ botKnown /\ p \in Mentions)
    /\ p \in Direct \/ ShouldRespond(p, via)

\* _on_socket_request up to the reaction it awaits.
OnSocketRequest(p, via) ==
    /\ BagIn(<<p, via>>, events) /\ events' = events (-) SetToBag({<<p, via>>})
    /\ reacting' = IF Wanted(p, via) THEN reacting (+) SetToBag({p}) ELSE reacting
    /\ UNCHANGED <<botKnown, posted, eyes, checked, asked, again, teamsVars>>

\* The reaction is added, or is not: the post is published with the key of its thread.
PublishPost(p) ==
    /\ BagIn(p, reacting) /\ reacting' = reacting (-) SetToBag({p}) /\ asked' = asked (+) SetToBag({p})
    /\ eyes' \in {eyes, eyes \cup {p}}
    /\ UNCHANGED <<botKnown, events, posted, checked, again, teamsVars>>

\* send of a final reply ends with _update_react_emoji, each half of which may fail.
SlackReply(p) ==
    /\ BagIn(p, asked) /\ p \notin checked
    /\ eyes' \in {eyes, eyes \ {p}} /\ checked' = checked \cup {p}
    /\ UNCHANGED <<botKnown, events, posted, reacting, asked, again, teamsVars>>

---------------------------------------------------------------------------
(* Teams. *)

\* do_POST: the thread waits for _validate_inbound_auth in the loop.
DoPost(a) ==
    /\ web[a] = "no" /\ web' = [web EXCEPT ![a] = "validating"]
    /\ UNCHANGED <<slackVars, refs, refsFile, heard, answering, behind, faults>>

\* The token is refused, or the keys cannot be had in time: 401.
RefuseActivity(a) ==
    /\ web[a] = "validating" /\ faults < MaxFaults /\ faults' = faults + 1
    /\ web' = [web EXCEPT ![a] = "refused"]
    /\ UNCHANGED <<slackVars, refs, refsFile, heard, answering, behind>>

\* The reference is put in and _save_refs writes the file, or fails and says so in the log only:
\* before the file is opened, or after it was truncated, with the references of all of them.
SaveRefs(c, a) ==
    /\ refs' = [refs EXCEPT ![c] = a]
    /\ \/ refsFile' = refs' /\ behind' = {d \in behind : refs'[d] = 0} /\ UNCHANGED faults
       \/ /\ faults < MaxFaults /\ faults' = faults + 1
          /\ \/ behind' = behind \cup {c} /\ UNCHANGED refsFile
             \/ behind' = Convs /\ refsFile' = NoRefs

\* _handle_activity runs through in the loop, up to the bus.
HandleActivity(a) ==
    /\ web[a] = "validating" /\ web' = [web EXCEPT ![a] = "handled"]
    /\ SaveRefs(ConvOf[a], a) /\ heard' = heard \cup {ConvOf[a]}
    /\ UNCHANGED <<slackVars, answering>>

\* send takes the reference, then gets a token.
TeamsSend(c) ==
    /\ refs[c] # 0 /\ answering[c] = 0 /\ answering' = [answering EXCEPT ![c] = refs[c]]
    /\ UNCHANGED <<slackVars, web, refs, refsFile, heard, behind, faults>>

\* ... and posts under the activity it took.
TeamsSent(c) ==
    /\ answering[c] # 0 /\ answering' = [answering EXCEPT ![c] = 0]
    /\ UNCHANGED <<slackVars, web, refs, refsFile, heard, behind, faults>>

\* _load_refs in a new process; one that ends while it writes leaves a torn file, which is read
\* as no references at all.
TeamsRestart ==
    /\ faults < MaxFaults /\ faults' = faults + 1
    /\ \/ refs' = refsFile /\ UNCHANGED <<refsFile, behind>>
       \/ refs' = NoRefs /\ refsFile' = NoRefs /\ behind' = Convs
    /\ web' = [a \in Activities |-> IF web[a] = "validating" THEN "refused" ELSE web[a]]
    /\ answering' = NoRefs
    /\ UNCHANGED <<slackVars, heard>>

WorkNext ==
    \/ \E p \in Posts : PostMade(p) \/ Redelivered(p) \/ PublishPost(p) \/ SlackReply(p)
    \/ \E p \in Posts, via \in {"message", "app_mention"} : OnSocketRequest(p, via)
    \/ \E a \in Activities : DoPost(a) \/ RefuseActivity(a) \/ HandleActivity(a)
    \/ \E c \in Convs : TeamsSend(c) \/ TeamsSent(c)
    \/ TeamsRestart

WorkSpec == WorkInit /\ [][WorkNext]_workVars

----------------------------------------------------------------------------
(* Properties. *)

Copies(p, bag) == IF BagIn(p, bag) THEN bag[p] ELSE 0

\* A post of which Slack sends two events is worked on once, when the bot knows its own id and
\* no event came again; and one that mentions the bot is not left out for it.
PostOnce ==
    \A p \in Posts :
        /\ botKnown /\ p \notin again => Copies(p, reacting) + Copies(p, asked) <= 1
        /\ p \in Mentions \ Direct /\ p \in posted /\ ~(\E k \in KindsOf(p) : BagIn(<<p, k>>, events))
           => BagIn(p, reacting) \/ BagIn(p, asked)

\* A conversation that was heard can be answered, over restarts too: its last activity is what the
\* file holds of it.  Exempt is one whose save failed, or that a save which failed half way or a
\* process that died took away with the file, until the next save that works writes it again.
HeardHasRef ==
    \A c \in heard : c \notin behind => refs[c] # 0 /\ refsFile[c] = refs[c]

\* What Slack and Teams hand over, and where answers go.
WorkSound == PostOnce /\ HeardHasRef
================================================================================
