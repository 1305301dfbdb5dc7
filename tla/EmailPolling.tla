----------------------------- MODULE EmailPolling -----------------------------
(* EmailChannel: a poll opens the mailbox, reads what is unseen one mail at a time, remembers  *)
(* its UID and sets its flag, and hands everything read to the bus at the end. A connection    *)
(* that goes stale is opened once more within the poll.                                        *)
EXTENDS Naturals, Sequences, FiniteSets, SequencesExt

CONSTANTS
    Mails,       \* mails that may arrive, in the order of the mailbox
    WithUid,     \* those whose answer holds a UID
    VerdictOf,   \* "take", "own", "denied", "spoofed", "empty" (no sender or no bytes)
    FromOf,      \* sender of each
    MarkSeen,    \* mark_seen
    MaxUids,     \* _MAX_PROCESSED_UIDS
    MaxDrops,    \* times a connection breaks
    MaxStarts    \* times the process starts

ASSUME EmailAssumption ==
    /\ Mails \subseteq Nat \ {0} /\ IsFiniteSet(Mails) /\ WithUid \subseteq Mails /\ MarkSeen \in BOOLEAN
    /\ MaxUids \in Nat \ {0} /\ MaxDrops \in Nat /\ MaxStarts \in Nat

VARIABLES
    box,         \* mails in the mailbox
    flagged,     \* those with \Seen
    uids,        \* _processed_uids
    poll,        \* "idle", "reading", "flagging" or "handing"
    renewed,     \* the poll has reopened its connection
    left,        \* mails of the search still to be fetched, the smallest id first
    cycle,       \* cycle_uids
    mailBatch,   \* messages, then what is still to be handed over
    lastOf,      \* _last_message_id_by_chat, or 0
    handed,      \* mails given to the bus, in order
    replied,     \* mails answered, each with the mail its answer refers to
    starts, drops,
    mailLost,    \* history: mails read by a poll that raised
    exposed      \* history: mails not flagged whose UID was forgotten

mailVars == <<box, flagged, uids, poll, renewed, left, cycle, mailBatch, lastOf, handed, replied,
              starts, drops, mailLost, exposed>>
Senders == {FromOf[m] : m \in Mails}

MailInit ==
    /\ box = {} /\ flagged = {} /\ uids = {} /\ poll = "idle" /\ renewed = FALSE /\ left = {} /\ cycle = {}
    /\ mailBatch = <<>> /\ lastOf = [s \in Senders |-> 0] /\ handed = <<>> /\ replied = {} /\ starts = 1 /\ drops = 0
    /\ mailLost = {} /\ exposed = {}

MailArrives(m) ==
    /\ m \notin box /\ box' = box \cup {m}
    /\ UNCHANGED <<flagged, uids, poll, renewed, left, cycle, mailBatch, lastOf, handed, replied,
                   starts, drops, mailLost, exposed>>

\* search UNSEEN.
Unseen == box \ flagged

\* _fetch_messages_once opens the mailbox and searches it; a missing mailbox has nothing.
OpenBox ==
    /\ poll = "idle" /\ poll' = "reading" /\ left' \in {Unseen, {}}
    /\ renewed' = FALSE /\ cycle' = {} /\ mailBatch' = <<>>
    /\ UNCHANGED <<box, flagged, uids, lastOf, handed, replied, starts, drops, mailLost, exposed>>

\* Skipped before it is looked at: fetched earlier in this poll or in another.
Skipped(m) == VerdictOf[m] = "empty" \/ m \in WithUid \cap (cycle \cup uids)

\* Mutant: only the UIDs of this poll are remembered.
RememberCycle(m) ==
    /\ cycle' = IF m \in WithUid THEN cycle \cup {m} ELSE cycle
    /\ UNCHANGED <<uids, exposed>>

\* _remember_processed_uid: beyond the limit an arbitrary half is forgotten.
RememberUid(m) ==
    IF m \notin WithUid THEN UNCHANGED <<cycle, uids, exposed>>
    ELSE /\ cycle' = cycle \cup {m}
         /\ LET all == uids \cup {m} IN
            /\ uids' \in IF Cardinality(all) > MaxUids
                         THEN {keep \in SUBSET all : Cardinality(keep) = Cardinality(all) - Cardinality(all) \div 2}
                         ELSE {all}
            /\ exposed' = exposed \cup ((all \ uids') \ flagged)

\* _check_authentication_results: SPF and DKIM passed, or are not asked for.
Genuine(m) == VerdictOf[m] # "spoofed"

\* The mail of the search that is next, or is being worked on.
IsNextMail(m) == m \in left /\ \A n \in left : m <= n

\* One mail of the search is fetched and judged.
FetchMail ==
    /\ poll = "reading"
    /\ \E m \in Mails :
          /\ IsNextMail(m)
          /\ IF Skipped(m)
             THEN left' = left \ {m} /\ UNCHANGED <<poll, mailBatch, cycle, uids, exposed>>
             ELSE /\ RememberUid(m)
                  /\ mailBatch' = IF VerdictOf[m] = "take" THEN Append(mailBatch, m) ELSE mailBatch
                  /\ IF MarkSeen /\ Genuine(m) THEN poll' = "flagging" /\ UNCHANGED left
                     ELSE left' = left \ {m} /\ UNCHANGED poll
    /\ UNCHANGED <<box, flagged, renewed, lastOf, handed, replied, starts, drops, mailLost>>

\* store +FLAGS \Seen.
FlagMail ==
    /\ poll = "flagging" /\ poll' = "reading"
    /\ \E m \in Mails : IsNextMail(m) /\ flagged' = flagged \cup {m} /\ left' = left \ {m}
    /\ UNCHANGED <<box, uids, renewed, cycle, mailBatch, lastOf, handed, replied, starts, drops,
                   mailLost, exposed>>

\* The connection breaks: a stale one is opened again once, with what was read kept; any other
\* error ends the poll, with what was read gone.
ConnectionBreaks ==
    /\ poll \in {"reading", "flagging"} /\ drops < MaxDrops /\ drops' = drops + 1
    /\ \/ ~renewed /\ renewed' = TRUE /\ poll' = "reading" /\ left' = Unseen
          /\ UNCHANGED <<mailBatch, mailLost, cycle>>
       \/ poll' = "idle" /\ left' = {} /\ mailBatch' = <<>> /\ cycle' = {} /\ renewed' = FALSE
          /\ mailLost' = mailLost \cup ToSet(mailBatch)
    /\ UNCHANGED <<box, flagged, uids, lastOf, handed, replied, starts, exposed>>

\* Everything is read; a poll that had nothing sleeps.
BoxRead ==
    /\ poll = "reading" /\ left = {} /\ renewed' = FALSE /\ cycle' = {}
    /\ poll' = IF mailBatch = <<>> THEN "idle" ELSE "handing"
    /\ UNCHANGED <<box, flagged, uids, left, mailBatch, lastOf, handed, replied, starts, drops,
                   mailLost, exposed>>

\* start hands one item over; what its sender is answered refers to it from now on.
HandOver ==
    /\ poll = "handing" /\ mailBatch # <<>>
    /\ LET m == Head(mailBatch) IN handed' = Append(handed, m) /\ lastOf' = [lastOf EXCEPT ![FromOf[m]] = m]
    /\ mailBatch' = Tail(mailBatch) /\ poll' = IF Len(mailBatch) = 1 THEN "idle" ELSE "handing"
    /\ UNCHANGED <<box, flagged, uids, renewed, left, cycle, replied, starts, drops, mailLost, exposed>>

\* The process ends and starts again: flags stay, UIDs do not.
RestartMail ==
    /\ starts < MaxStarts /\ starts' = starts + 1
    /\ uids' = {} /\ exposed' = exposed \cup (uids \ flagged) /\ mailLost' = mailLost \cup ToSet(mailBatch)
    /\ poll' = "idle" /\ renewed' = FALSE /\ left' = {} /\ cycle' = {} /\ mailBatch' = <<>>
    /\ lastOf' = [s \in Senders |-> 0]
    /\ UNCHANGED <<box, flagged, handed, replied, drops>>

\* send: the answer goes to the thread of the sender's last mail; it may fail and be retried.
ReplyMail(m) ==
    /\ m \in ToSet(handed) /\ \A r \in replied : r[1] # m
    /\ replied' = replied \cup {<<m, lastOf[FromOf[m]]>>}
    /\ UNCHANGED <<box, flagged, uids, poll, renewed, left, cycle, mailBatch, lastOf, handed,
                   starts, drops, mailLost, exposed>>

MailNext ==
    \/ \E m \in Mails : MailArrives(m) \/ ReplyMail(m)
    \/ OpenBox \/ FetchMail \/ FlagMail \/ ConnectionBreaks \/ BoxRead \/ HandOver \/ RestartMail

MailSpec == MailInit /\ [][MailNext]_mailVars

----------------------------------------------------------------------------
(* Properties. *)

\* A mail with a UID is handed over again only if its UID was forgotten before it was flagged;
\* and one that is remembered is handed over, or waits to be, unless a poll raised after it:
\* whatever breaks between fetching, remembering and flagging.
MailOnce ==
    /\ \A i, j \in DOMAIN handed : i # j /\ handed[i] = handed[j] => handed[i] \in exposed \cup (Mails \ WithUid)
    /\ \A m \in uids : VerdictOf[m] = "take" => m \in ToSet(handed) \cup ToSet(mailBatch) \cup mailLost
================================================================================
