----------------------------- MODULE ChannelProofs -----------------------------
(* Proofs about the chat channels and the WebSocket server: what each promises of the messages *)
(* it takes in, of the tables it keeps and of what its rooms show, for every number of         *)
(* messages, chats and connections.                                                            *)
EXTENDS SignalFeed, WhatsAppLink, EmailPolling, WebSocketServer, Indicators, WorkChats,
        TelegramIngress, FiniteSetTheorems, TLAPS

----------------------------------------------------------------------------
(* Sequences and what is in them. *)

\* The elements of a sequence with one more at its end.
LEMMA ToSetAppend ==
    ASSUME NEW S, NEW s \in Seq(S), NEW m \in S
    PROVE  Append(s, m) \in Seq(S) /\ ToSet(Append(s, m)) = ToSet(s) \cup {m}
    <1>1. /\ Append(s, m) \in Seq(S) /\ Len(s) \in Nat /\ DOMAIN s = 1..Len(s)
          /\ DOMAIN Append(s, m) = 1..Len(s) + 1
          /\ \A i \in 1..Len(s) : Append(s, m)[i] = s[i]
          /\ Append(s, m)[Len(s) + 1] = m
        OBVIOUS
    <1> QED BY <1>1 DEF ToSet

\* The elements of a sequence are its head and those of its tail.
LEMMA ToSetTail ==
    ASSUME NEW S, NEW s \in Seq(S), s # <<>>
    PROVE  /\ Tail(s) \in Seq(S) /\ Head(s) \in S
           /\ ToSet(s) = ToSet(Tail(s)) \cup {Head(s)}
    <1>1. /\ Tail(s) \in Seq(S) /\ Len(s) \in Nat /\ Len(s) > 0 /\ DOMAIN s = 1..Len(s)
          /\ DOMAIN Tail(s) = 1..Len(s) - 1 /\ Head(s) = s[1]
          /\ \A i \in 1..Len(s) - 1 : Tail(s)[i] = s[i + 1]
        OBVIOUS
    <1>2. ASSUME NEW i \in 1..Len(s) PROVE s[i] \in ToSet(Tail(s)) \cup {Head(s)}
        <2>1. CASE i = 1 BY <1>1, <2>1
        <2>2. CASE i # 1
            <3>1. i - 1 \in 1..Len(s) - 1 /\ Tail(s)[i - 1] = s[i] BY <1>1, <2>2
            <3> QED BY <1>1, <3>1 DEF ToSet
        <2> QED BY <2>1, <2>2
    <1>3. ASSUME NEW i \in 1..Len(s) - 1 PROVE Tail(s)[i] \in ToSet(s)
        <2>1. i + 1 \in 1..Len(s) /\ Tail(s)[i] = s[i + 1] BY <1>1
        <2> QED BY <1>1, <2>1 DEF ToSet
    <1>4. Head(s) \in ToSet(s) BY <1>1 DEF ToSet
    <1>5. ToSet(s) \subseteq ToSet(Tail(s)) \cup {Head(s)} BY <1>1, <1>2 DEF ToSet
    <1>6. ToSet(Tail(s)) \subseteq ToSet(s) BY <1>1, <1>3 DEF ToSet
    <1>7. Head(s) \in S BY <1>1
    <1> QED BY <1>1, <1>4, <1>5, <1>6, <1>7

\* A sequence without length is empty.
LEMMA LenZero == ASSUME NEW S, NEW s \in Seq(S), Len(s) = 0 PROVE s = <<>>
    OBVIOUS
\* The tail of a sequence of one element is empty.
LEMMA TailOfOne == ASSUME NEW S, NEW s \in Seq(S), Len(s) = 1 PROVE Tail(s) = <<>>
    <1>1. Tail(s) \in Seq(S) /\ Len(Tail(s)) = 0 OBVIOUS
    <1> QED BY <1>1, LenZero

\* An element is in a sequence twice only if it is one of some set.
Repeats(s, T) == \A i, j \in DOMAIN s : i # j /\ s[i] = s[j] => s[i] \in T

\* One more at the end is a repetition only of what was there.
LEMMA RepeatsAppend ==
    ASSUME NEW S, NEW T, NEW s \in Seq(S), NEW m \in S, Repeats(s, T), m \in ToSet(s) => m \in T
    PROVE  Repeats(Append(s, m), T)
    <1>1. /\ Len(s) \in Nat /\ DOMAIN s = 1..Len(s) /\ DOMAIN Append(s, m) = 1..Len(s) + 1
          /\ \A i \in 1..Len(s) : Append(s, m)[i] = s[i]
          /\ Append(s, m)[Len(s) + 1] = m
        OBVIOUS
    <1>2. ASSUME NEW i \in 1..Len(s) + 1, NEW j \in 1..Len(s) + 1, i # j, Append(s, m)[i] = Append(s, m)[j]
          PROVE  Append(s, m)[i] \in T
        <2>1. CASE i = Len(s) + 1
            <3>1. j \in 1..Len(s) BY <1>1, <1>2, <2>1
            <3>2. m \in ToSet(s) BY <1>1, <1>2, <2>1, <3>1 DEF ToSet
            <3> QED BY <1>1, <2>1, <3>2
        <2>2. CASE j = Len(s) + 1
            <3>1. i \in 1..Len(s) BY <1>1, <1>2, <2>2
            <3>2. m \in ToSet(s) BY <1>1, <1>2, <2>2, <3>1 DEF ToSet
            <3> QED BY <1>1, <1>2, <2>2, <3>2
        <2>3. CASE i # Len(s) + 1 /\ j # Len(s) + 1
            <3>1. i \in 1..Len(s) /\ j \in 1..Len(s) BY <1>1, <2>3
            <3> QED BY <1>1, <1>2, <3>1 DEF Repeats
        <2> QED BY <2>1, <2>2, <2>3
    <1> QED BY <1>1, <1>2 DEF Repeats

----------------------------------------------------------------------------
(* Signal: the typing indicators. *)

\* An indicator runs only while a message of its chat waits for the reply, whatever replies,
\* broken links and the stop come between: for every stream of messages.
THEOREM SignalKept == SignalSpec => []TypingMeansWork
    <1>1. SignalInit => TypingMeansWork BY DEF SignalInit, TypingMeansWork
    <1>2. ASSUME TypingMeansWork, [SignalNext]_signalVars PROVE TypingMeansWork'
        <2>1. CASE AskModel BY <1>2, <2>1 DEF AskModel, TypingMeansWork
        <2>2. CASE EventEnds BY <1>2, <2>2 DEF EventEnds, TypingMeansWork
        <2>3. ASSUME NEW r \in SignalRooms, Reply(r) PROVE TypingMeansWork'
            BY <1>2, <2>3 DEF Reply, TypingMeansWork
        <2>4. CASE StopSignal BY <2>4 DEF StopSignal, TypingMeansWork
        <2>5. CASE Checked \/ Configured \/ LinkBreaks \/ Reconnect \/ DataLine \/ Garbled \/ UNCHANGED signalVars
            BY <1>2, <2>5 DEF Checked, Configured, LinkBreaks, Reconnect, DataLine, Garbled, signalVars,
                             TypingMeansWork
        <2> QED BY <1>2, <2>1, <2>2, <2>3, <2>4, <2>5 DEF SignalNext
    <1> QED BY <1>1, <1>2, PTL DEF SignalSpec

----------------------------------------------------------------------------
(* WhatsApp: what the bridge hands over again. *)

\* What was published, or is being worked on, is remembered, unless its id made room; a message
\* that is worked on was published before only if its id was forgotten.
RememberedInv ==
    /\ ids \in Seq(WaMsgs) /\ published \in Seq(WaMsgs) /\ working \in WaMsgs \cup {NoWaMsg}
    /\ ToSet(published) \subseteq ToSet(ids) \cup forgotten
    /\ working # NoWaMsg => /\ working \in ToSet(ids) \cup forgotten
                            /\ working \in ToSet(published) => working \in forgotten
    /\ Repeats(published, forgotten)

\* No indicator runs on a link that is down, but on a socket that stop closed; none while the link
\* is dialed, and none after a stop once the reader is over.
LinkInv ==
    /\ sock \in {"dialing", "reading", "closed", "waiting", "ended"}
    /\ indicator # {} => linked \/ sock = "closed"
    /\ sock \in {"dialing", "waiting"} => ~linked
    /\ sock = "ended" /\ ~waOn => indicator = {}
    /\ closing \/ sock = "closed" => ~waOn

\* Every id there was, and the new one, is among those remembered or forgotten.
LEMMA RememberKeeps ==
    ASSUME ids \in Seq(WaMsgs), NEW m \in WaMsgs, Remember(m)
    PROVE  /\ ids' \in Seq(WaMsgs) /\ m \in ToSet(ids') /\ forgotten \subseteq forgotten'
           /\ ToSet(ids) \subseteq ToSet(ids') \cup forgotten'
    <1>1. CASE Len(ids) = MaxIds
        <2>1. ids # <<>> BY <1>1, WhatsAppAssumption
        <2>2. ids' = Append(Tail(ids), m) /\ forgotten' = forgotten \cup {Head(ids)} BY <1>1 DEF Remember
        <2>3. Tail(ids) \in Seq(WaMsgs) /\ ToSet(ids) = ToSet(Tail(ids)) \cup {Head(ids)} BY <2>1, ToSetTail
        <2>4. \A s \in Seq(WaMsgs) : Append(s, m) \in Seq(WaMsgs) /\ ToSet(Append(s, m)) = ToSet(s) \cup {m}
            BY ToSetAppend
        <2>5. ids' \in Seq(WaMsgs) /\ ToSet(ids') = ToSet(Tail(ids)) \cup {m} BY <2>2, <2>3, <2>4
        <2> QED BY <2>2, <2>3, <2>5
    <1>2. CASE Len(ids) # MaxIds
        <2>1. ids' = Append(ids, m) /\ forgotten' = forgotten BY <1>2 DEF Remember
        <2>2. ids' \in Seq(WaMsgs) /\ ToSet(ids') = ToSet(ids) \cup {m} BY <2>1, ToSetAppend
        <2> QED BY <2>1, <2>2
    <1> QED BY <1>1, <1>2

\* A message that comes in is remembered before it is worked on.
LEMMA TakeInKeeps ==
    ASSUME RememberedInv, NEW m \in WaMsgs, TakeIn(m)
    PROVE  RememberedInv'
    <1>1. working = NoWaMsg /\ working' = m /\ m \notin ToSet(ids) /\ published' = published
        BY DEF TakeIn, WaReading
    <1>2. /\ ids' \in Seq(WaMsgs) /\ m \in ToSet(ids') /\ forgotten \subseteq forgotten'
          /\ ToSet(ids) \subseteq ToSet(ids') \cup forgotten'
        BY RememberKeeps DEF RememberedInv, TakeIn
    <1>3. m \in ToSet(published) => m \in forgotten' BY <1>1, <1>2 DEF RememberedInv
    <1>4. Repeats(published', forgotten') BY <1>1, <1>2 DEF RememberedInv, Repeats
    <1> QED BY <1>1, <1>2, <1>3, <1>4 DEF RememberedInv

\* A message that is published again had its id forgotten.
LEMMA PublishKeeps ==
    ASSUME RememberedInv, PublishWa
    PROVE  RememberedInv'
    <1>1. /\ working \in WaMsgs /\ working' = NoWaMsg /\ published' = Append(published, working)
          /\ ids' = ids /\ forgotten' = forgotten
        BY DEF PublishWa, RememberedInv
    <1>2. published' \in Seq(WaMsgs) /\ ToSet(published') = ToSet(published) \cup {working}
        BY <1>1, ToSetAppend DEF RememberedInv
    <1>3. working # NoWaMsg BY DEF PublishWa
    <1>4. Repeats(published', forgotten') BY <1>1, <1>3, RepeatsAppend DEF RememberedInv
    <1> QED BY <1>1, <1>2, <1>3, <1>4 DEF RememberedInv

\* When the reader is cancelled, what it worked on is remembered and not published.
LEMMA CancelledKeeps ==
    ASSUME RememberedInv, LinkInv, StartCancelled
    PROVE  RememberedInv' /\ LinkInv'
    <1>1. /\ working' = NoWaMsg /\ ids' = ids /\ forgotten' = forgotten /\ published' = published
          /\ waOn /\ waOn' /\ sock' = "ended" /\ indicator' = indicator /\ linked' = linked /\ closing' = closing
          /\ sock # "ended"
        BY DEF StartCancelled
    <1>2. RememberedInv' BY <1>1 DEF RememberedInv
    <1>3. sock # "closed" BY <1>1 DEF LinkInv
    <1> QED BY <1>1, <1>2, <1>3 DEF LinkInv

\* What the bridge hands over again is published once as long as its id is remembered; an indicator
\* runs only while the link is up, or from stop's close to the reader's end, and none is left after
\* both: for every set of messages, however often the link breaks and wherever the stop comes.
THEOREM WhatsAppKept == WaSpec => []PublishedOnce
    <1> DEFINE Inv == RememberedInv /\ LinkInv
    <1>1. WaInit => Inv
        BY DEF WaInit, RememberedInv, LinkInv, Repeats, ToSet
    <1>2. ASSUME Inv, [WaNext]_waVars PROVE Inv'
        <2>1. ASSUME NEW m \in WaMsgs, TakeIn(m) PROVE Inv'
            BY <1>2, <2>1, TakeInKeeps DEF TakeIn, Indicate, LinkInv
        <2>2. CASE PublishWa
            BY <1>2, <2>2, PublishKeeps DEF PublishWa, LinkInv
        <2>3. ASSUME UNCHANGED <<ids, published, working, forgotten>>, LinkInv' PROVE Inv'
            BY <1>2, <2>3 DEF RememberedInv
        <2>4. CASE Dialed \/ SocketEnds \/ Redial \/ StatusLost \/ StatusBack
            BY <1>2, <2>3, <2>4 DEF Dialed, SocketEnds, Redial, StatusLost, StatusBack, WaReading, CancelAll, LinkInv
        <2>9. CASE StopBegins \/ StopEnds
            BY <1>2, <2>3, <2>9 DEF StopBegins, StopEnds, Unlink, CancelAll, LinkInv
        <2>10. CASE StartCancelled BY <1>2, <2>10, CancelledKeeps
        <2>5. ASSUME NEW c \in Codes, IssueCode(c) PROVE Inv'
            BY <1>2, <2>3, <2>5 DEF IssueCode, LinkInv
        <2>6. ASSUME NEW m \in WaMsgs, Pair(m) PROVE Inv' BY <1>2, <2>3, <2>6 DEF Pair, LinkInv
        <2>7. ASSUME NEW r \in WaChats, ReplyBegins(r) \/ ReplyGoes(r) PROVE Inv'
            BY <1>2, <2>3, <2>7 DEF ReplyBegins, ReplyGoes, LinkInv
        <2>8. CASE UNCHANGED waVars BY <1>2, <2>3, <2>8 DEF waVars, LinkInv
        <2> QED BY <1>2, <2>1, <2>2, <2>4, <2>5, <2>6, <2>7, <2>8, <2>9, <2>10 DEF WaNext
    <1>3. Inv => PublishedOnce BY DEF RememberedInv, LinkInv, Repeats, PublishedOnce
    <1> QED BY <1>1, <1>2, <1>3, PTL DEF WaSpec

----------------------------------------------------------------------------
(* Email: mails that are fetched again. *)

\* What was read in a poll is in Mails; what is still to be fetched carries no flag; a poll
\* that is over holds nothing.
PollInv ==
    /\ handed \in Seq(Mails) /\ mailBatch \in Seq(Mails)
    /\ left \cap flagged = {}
    /\ poll = "idle" => mailBatch = <<>>

\* A mail with a UID that was read is remembered or flagged, or was forgotten before that.
SeenInv == \A m \in WithUid : m \in ToSet(handed) \cup ToSet(mailBatch) => m \in uids \cup flagged \cup exposed

\* A mail with a UID was read twice only if it was forgotten.
Again == exposed \cup (Mails \ WithUid)
ReadOnceInv ==
    /\ Repeats(handed, Again) /\ Repeats(mailBatch, Again)
    /\ ToSet(handed) \cap ToSet(mailBatch) \subseteq Again

\* A mail that is remembered was handed over, waits to be, or was lost with its poll.
KeptInv == \A m \in uids : VerdictOf[m] = "take" => m \in ToSet(handed) \cup ToSet(mailBatch) \cup mailLost

MailInv == PollInv /\ SeenInv /\ ReadOnceInv /\ KeptInv

\* Nothing read, nothing remembered.
LEMMA ToSetEmpty == ToSet(<<>>) = {} /\ \A T : Repeats(<<>>, T)
    BY DEF ToSet, Repeats

\* What is forgotten before it is flagged is exposed; the rest stays remembered or is flagged.
LEMMA RememberUidKeeps ==
    ASSUME NEW m \in Mails, RememberUid(m)
    PROVE  /\ exposed \subseteq exposed' /\ uids' \subseteq uids \cup {m}
           /\ uids \cup {m} \subseteq uids' \cup flagged \cup exposed' \cup (Mails \ WithUid)
           /\ uids \subseteq uids' \cup flagged \cup exposed'
    <1>1. CASE m \notin WithUid BY <1>1 DEF RememberUid
    <1>2. CASE m \in WithUid
        <2>1. exposed' = exposed \cup (((uids \cup {m}) \ uids') \ flagged) BY <1>2 DEF RememberUid
        <2>2. uids' \subseteq uids \cup {m} BY <1>2 DEF RememberUid
        <2> QED BY <2>1, <2>2
    <1> QED BY <1>1, <1>2

\* A mail that is read was read before only if it was forgotten: it carries no flag, and its
\* UID is not remembered.
LEMMA ReadKeeps ==
    ASSUME MailInv, NEW m \in Mails, m \in left, ~Skipped(m), RememberUid(m), UNCHANGED <<handed, flagged, mailLost>>,
           mailBatch' = IF VerdictOf[m] = "take" THEN Append(mailBatch, m) ELSE mailBatch
    PROVE  SeenInv' /\ ReadOnceInv' /\ KeptInv' /\ mailBatch' \in Seq(Mails)
    <1>1. /\ exposed \subseteq exposed' /\ uids' \subseteq uids \cup {m}
          /\ uids \cup {m} \subseteq uids' \cup flagged \cup exposed' \cup (Mails \ WithUid)
          /\ uids \subseteq uids' \cup flagged \cup exposed'
        BY RememberUidKeeps
    <1>2. m \notin flagged BY DEF MailInv, PollInv
    <1>3. m \in WithUid => m \notin uids BY DEF Skipped
    <1>4. m \in ToSet(handed) \cup ToSet(mailBatch) => m \in Again' BY <1>1, <1>2, <1>3 DEF MailInv, SeenInv, Again
    <1>5. Again \subseteq Again' BY <1>1 DEF Again
    <1>6. Repeats(handed, Again') /\ Repeats(mailBatch, Again') /\ ToSet(handed) \cap ToSet(mailBatch) \subseteq Again'
        BY <1>5 DEF MailInv, ReadOnceInv, Repeats
    <1>7. CASE VerdictOf[m] = "take"
        <2>1. mailBatch' = Append(mailBatch, m) /\ mailBatch \in Seq(Mails) BY <1>7 DEF MailInv, PollInv
        <2>2. mailBatch' \in Seq(Mails) /\ ToSet(mailBatch') = ToSet(mailBatch) \cup {m} BY <2>1, ToSetAppend
        <2>3. Repeats(mailBatch', Again') BY <1>4, <1>6, <2>1, RepeatsAppend
        <2>4. ReadOnceInv' BY <1>4, <1>6, <2>2, <2>3 DEF ReadOnceInv
        <2>5. SeenInv' BY <1>1, <2>2 DEF MailInv, SeenInv
        <2>6. KeptInv' BY <1>1, <2>2 DEF MailInv, KeptInv
        <2> QED BY <2>2, <2>4, <2>5, <2>6
    <1>8. CASE VerdictOf[m] # "take"
        <2>1. mailBatch' = mailBatch BY <1>8
        <2>2. ReadOnceInv' BY <1>6, <2>1 DEF ReadOnceInv
        <2>3. SeenInv' BY <1>1, <2>1 DEF MailInv, SeenInv
        <2>4. KeptInv' BY <1>1, <1>8, <2>1 DEF MailInv, KeptInv
        <2> QED BY <2>1, <2>2, <2>3, <2>4 DEF MailInv, PollInv
    <1> QED BY <1>7, <1>8

\* One mail is fetched.
LEMMA FetchKeeps == ASSUME MailInv, FetchMail PROVE MailInv'
    <1>1. PICK m \in Mails :
             /\ IsNextMail(m)
             /\ IF Skipped(m)
                THEN left' = left \ {m} /\ UNCHANGED <<poll, mailBatch, cycle, uids, exposed>>
                ELSE /\ RememberUid(m)
                     /\ mailBatch' = IF VerdictOf[m] = "take" THEN Append(mailBatch, m) ELSE mailBatch
                     /\ IF MarkSeen /\ Genuine(m) THEN poll' = "flagging" /\ UNCHANGED left
                        ELSE left' = left \ {m} /\ UNCHANGED poll
        BY DEF FetchMail
    <1>2. UNCHANGED <<handed, flagged, mailLost>> /\ poll = "reading" BY DEF FetchMail
    <1>3. m \in left /\ left' \subseteq left /\ poll' # "idle" BY <1>1, <1>2 DEF IsNextMail
    <1>4. CASE Skipped(m)
        <2>1. UNCHANGED <<mailBatch, uids, exposed>> BY <1>1, <1>4
        <2> QED BY <1>2, <1>3, <2>1 DEF MailInv, PollInv, SeenInv, ReadOnceInv, Again, KeptInv
    <1>5. CASE ~Skipped(m)
        <2>1. SeenInv' /\ ReadOnceInv' /\ KeptInv' /\ mailBatch' \in Seq(Mails) BY <1>1, <1>2, <1>3, <1>5, ReadKeeps
        <2>2. PollInv' BY <1>2, <1>3, <2>1 DEF MailInv, PollInv
        <2> QED BY <2>1, <2>2 DEF MailInv
    <1> QED BY <1>4, <1>5

\* One item of the batch is handed over: it goes from one sequence to the other.
LEMMA HandOverKeeps == ASSUME MailInv, HandOver PROVE MailInv'
    <1>1. /\ mailBatch # <<>> /\ handed' = Append(handed, Head(mailBatch)) /\ mailBatch' = Tail(mailBatch)
          /\ poll' = (IF Len(mailBatch) = 1 THEN "idle" ELSE "handing")
          /\ UNCHANGED <<flagged, uids, left, exposed, mailLost>>
        BY DEF HandOver
    <1>2. handed \in Seq(Mails) /\ mailBatch \in Seq(Mails) BY DEF MailInv, PollInv
    <1>3. /\ Tail(mailBatch) \in Seq(Mails) /\ Head(mailBatch) \in Mails
          /\ ToSet(mailBatch) = ToSet(Tail(mailBatch)) \cup {Head(mailBatch)}
        BY <1>1, <1>2, ToSetTail
    <1>4. handed' \in Seq(Mails) /\ ToSet(handed') = ToSet(handed) \cup {Head(mailBatch)}
        BY <1>1, <1>2, <1>3, ToSetAppend
    <1>5. Repeats(handed', Again)
        <2>1. Head(mailBatch) \in ToSet(handed) => Head(mailBatch) \in Again BY <1>3 DEF MailInv, ReadOnceInv
        <2> QED BY <1>1, <1>2, <1>3, <2>1, RepeatsAppend DEF MailInv, ReadOnceInv
    <1>6. Repeats(mailBatch', Again) /\ (Head(mailBatch) \in ToSet(Tail(mailBatch)) => Head(mailBatch) \in Again)
        <2>1. /\ Len(mailBatch) \in Nat /\ DOMAIN mailBatch = 1..Len(mailBatch) /\ 1 \in DOMAIN mailBatch
              /\ DOMAIN Tail(mailBatch) = 1..Len(mailBatch) - 1 /\ Head(mailBatch) = mailBatch[1]
              /\ \A i \in 1..Len(mailBatch) - 1 : Tail(mailBatch)[i] = mailBatch[i + 1]
            BY <1>1, <1>2
        <2>2. \A i, j \in DOMAIN mailBatch : i # j /\ mailBatch[i] = mailBatch[j] => mailBatch[i] \in Again
            BY DEF MailInv, ReadOnceInv, Repeats
        <2>3. ASSUME NEW i \in 1..Len(mailBatch) - 1, NEW j \in 1..Len(mailBatch) - 1, i # j,
                     Tail(mailBatch)[i] = Tail(mailBatch)[j]
              PROVE  Tail(mailBatch)[i] \in Again
            <3>1. i + 1 \in DOMAIN mailBatch /\ j + 1 \in DOMAIN mailBatch /\ i + 1 # j + 1 BY <2>1, <2>3
            <3>2. Tail(mailBatch)[i] = mailBatch[i + 1] /\ Tail(mailBatch)[j] = mailBatch[j + 1] BY <2>1
            <3> QED BY <2>2, <2>3, <3>1, <3>2
        <2>4. ASSUME NEW i \in 1..Len(mailBatch) - 1, Tail(mailBatch)[i] = Head(mailBatch)
              PROVE  Head(mailBatch) \in Again
            <3>1. i + 1 \in DOMAIN mailBatch /\ i + 1 # 1 /\ mailBatch[i + 1] = mailBatch[1] BY <2>1, <2>4
            <3> QED BY <2>1, <2>2, <3>1
        <2> QED BY <1>1, <2>1, <2>3, <2>4 DEF Repeats, ToSet
    <1>7. ReadOnceInv'
        BY <1>1, <1>3, <1>4, <1>5, <1>6 DEF MailInv, ReadOnceInv, Again
    <1>8. SeenInv' /\ KeptInv' BY <1>1, <1>3, <1>4 DEF MailInv, SeenInv, KeptInv
    <1>9. Len(mailBatch) = 1 => Tail(mailBatch) = <<>> BY <1>2, TailOfOne
    <1>10. PollInv' BY <1>1, <1>3, <1>4, <1>9 DEF MailInv, PollInv
    <1> QED BY <1>7, <1>8, <1>10 DEF MailInv

\* What a poll that raised, or a process that ended, had read is lost, not forgotten.
LEMMA DroppedKeeps ==
    ASSUME MailInv, mailBatch' = <<>>, left' \cap flagged' = {}, UNCHANGED <<handed, flagged>>,
           exposed \subseteq exposed', uids' \subseteq uids, uids \subseteq uids' \cup flagged \cup exposed',
           ToSet(mailBatch) \cup mailLost \subseteq mailLost'
    PROVE  MailInv'
    <1>1. ToSet(mailBatch') = {} /\ Repeats(mailBatch', Again') BY ToSetEmpty
    <1>2. PollInv' BY DEF MailInv, PollInv
    <1>3. SeenInv' /\ KeptInv' BY <1>1 DEF MailInv, SeenInv, KeptInv
    <1>4. ReadOnceInv' BY <1>1 DEF MailInv, ReadOnceInv, Again, Repeats
    <1> QED BY <1>2, <1>3, <1>4 DEF MailInv

\* A mail with a UID is handed over again only if its UID was forgotten before it was flagged,
\* and none that is remembered is lost but with a poll that raised: for every mailbox, whatever
\* breaks between fetching, remembering and flagging, and however often the process restarts.
THEOREM EmailKept == MailSpec => []MailOnce
    <1>1. MailInit => MailInv
        BY ToSetEmpty DEF MailInit, MailInv, PollInv, SeenInv, ReadOnceInv, KeptInv
    <1>2. ASSUME MailInv, [MailNext]_mailVars PROVE MailInv'
        <2>0. ASSUME UNCHANGED <<flagged, uids, left, mailBatch, handed, exposed, mailLost>>, PollInv' PROVE MailInv'
            BY <1>2, <2>0 DEF MailInv, SeenInv, ReadOnceInv, Again, KeptInv
        <2>1. ASSUME NEW m \in Mails, MailArrives(m) \/ ReplyMail(m) PROVE MailInv'
            BY <1>2, <2>0, <2>1 DEF MailArrives, ReplyMail, MailInv, PollInv
        <2>2. CASE OpenBox
            <3>1. mailBatch = <<>> /\ left' \cap flagged = {} /\ UNCHANGED <<flagged, uids, handed, exposed, mailLost>>
                  /\ mailBatch' = <<>>
                BY <1>2, <2>2 DEF OpenBox, Unseen, MailInv, PollInv
            <3> QED BY <1>2, <3>1, DroppedKeeps, ToSetEmpty
        <2>3. CASE FetchMail BY <1>2, <2>3, FetchKeeps
        <2>4. CASE FlagMail
            <3>1. /\ left' \cap flagged' = {} /\ flagged \subseteq flagged' /\ poll' = "reading"
                  /\ UNCHANGED <<uids, mailBatch, handed, exposed, mailLost>>
                BY <1>2, <2>4 DEF FlagMail, MailInv, PollInv
            <3> QED BY <1>2, <3>1 DEF MailInv, PollInv, SeenInv, ReadOnceInv, Again, KeptInv
        <2>5. CASE ConnectionBreaks
            <3>1. UNCHANGED <<flagged, uids, handed, exposed>> /\ left' \cap flagged = {}
                BY <2>5 DEF ConnectionBreaks, Unseen
            <3>2. CASE mailBatch' = mailBatch /\ mailLost' = mailLost /\ poll' = "reading"
                BY <1>2, <3>1, <3>2 DEF MailInv, PollInv, SeenInv, ReadOnceInv, Again, KeptInv
            <3>3. CASE mailBatch' = <<>> /\ mailLost' = mailLost \cup ToSet(mailBatch)
                BY <1>2, <3>1, <3>3, DroppedKeeps
            <3> QED BY <2>5, <3>2, <3>3 DEF ConnectionBreaks
        <2>6. CASE BoxRead
            BY <1>2, <2>0, <2>6 DEF BoxRead, MailInv, PollInv
        <2>7. CASE HandOver BY <1>2, <2>7, HandOverKeeps
        <2>8. CASE RestartMail
            BY <1>2, <2>8, DroppedKeeps DEF RestartMail
        <2>9. CASE UNCHANGED mailVars BY <1>2, <2>0, <2>9 DEF mailVars, MailInv, PollInv
        <2> QED BY <1>2, <2>1, <2>2, <2>3, <2>4, <2>5, <2>6, <2>7, <2>8, <2>9 DEF MailNext
    <1>3. MailInv => MailOnce BY DEF MailInv, ReadOnceInv, Again, KeptInv, Repeats, MailOnce
    <1> QED BY <1>1, <1>2, <1>3, PTL DEF MailSpec

----------------------------------------------------------------------------
(* The WebSocket server: who is subscribed to what, and what a client replays. *)

\* The subscription tables and the fan-out under way name connections that there are.
TablesTyped ==
    /\ phase \in [Conns -> {"none", "greeting", "open", "busy", "ended"}]
    /\ subs \in [Rooms -> SUBSET Conns] /\ joined \in [Conns -> SUBSET Rooms]
    /\ fan \in [room : Rooms \cup {NoFan.room}, left : SUBSET Conns]
    /\ admins \subseteq Conns
SubsInv == TablesTyped /\ SubsAgree

\* The steps that leave the tables alone.
LEMMA TablesKept ==
    ASSUME SubsInv, UNCHANGED <<phase, admins, subs, joined, fan>>
    PROVE  SubsInv'
    BY DEF SubsInv, TablesTyped, SubsAgree

\* A connection that attaches is subscribed in both tables.
LEMMA AttachKeeps ==
    ASSUME SubsInv, NEW c \in Conns, NEW h \in Rooms, Attach(c, h), UNCHANGED <<admins, fan>>,
           NEW to \in {"open", "busy"}, phase[c] \in {"greeting", "open"}, phase' = [phase EXCEPT ![c] = to]
    PROVE  SubsInv'
    <1>1. /\ subs' \in [Rooms -> SUBSET Conns] /\ joined' \in [Conns -> SUBSET Rooms]
          /\ \A k \in Rooms : subs'[k] = IF k = h THEN subs[k] \cup {c} ELSE subs[k]
          /\ \A d \in Conns : joined'[d] = IF d = c THEN joined[d] \cup {h} ELSE joined[d]
        BY DEF Attach, SubsInv, TablesTyped
    <1>2. phase' \in [Conns -> {"none", "greeting", "open", "busy", "ended"}] /\ phase'[c] = to
          /\ \A d \in Conns : d # c => phase'[d] = phase[d]
        BY DEF SubsInv, TablesTyped
    <1>3. \A d \in Conns, k \in Rooms : d \in subs'[k] <=> k \in joined'[d]
        BY <1>1 DEF SubsInv, SubsAgree
    <1>4. \A d \in Conns : phase'[d] \in {"none", "ended"} =>
             joined'[d] = {} /\ (phase'[d] = "ended" => d \notin admins')
        BY <1>1, <1>2 DEF SubsInv, SubsAgree
    <1>5. fan' = fan /\ admins' = admins OBVIOUS
    <1> QED BY <1>1, <1>2, <1>3, <1>4, <1>5 DEF SubsInv, TablesTyped, SubsAgree

\* Whoever finds the peer gone, a connection that is cleaned up is in no table and no admin.
LEMMA CleanupKeeps ==
    ASSUME SubsInv, NEW c \in Conns, Cleanup(c), NEW to \in {"open", "busy", "greeting", "ended"},
           phase' = [phase EXCEPT ![c] = to] \/ phase' = phase,
           fan' \in [room : Rooms \cup {NoFan.room}, left : SUBSET Conns]
    PROVE  SubsInv'
    <1>1. /\ subs' \in [Rooms -> SUBSET Conns] /\ joined' \in [Conns -> SUBSET Rooms]
          /\ \A k \in Rooms : subs'[k] = IF k \in joined[c] THEN subs[k] \ {c} ELSE subs[k]
          /\ \A d \in Conns : joined'[d] = IF d = c THEN {} ELSE joined[d]
          /\ admins' = admins \ {c}
        BY DEF Cleanup, SubsInv, TablesTyped
    <1>2. phase' \in [Conns -> {"none", "greeting", "open", "busy", "ended"}]
          /\ \A d \in Conns : d # c => phase'[d] = phase[d]
        BY DEF SubsInv, TablesTyped
    <1>3. \A d \in Conns, k \in Rooms : d \in subs'[k] <=> k \in joined'[d]
        BY <1>1 DEF SubsInv, SubsAgree
    <1>4. \A d \in Conns : phase'[d] \in {"none", "ended"} =>
             joined'[d] = {} /\ (phase'[d] = "ended" => d \notin admins')
        BY <1>1, <1>2 DEF SubsInv, SubsAgree
    <1> QED BY <1>1, <1>2, <1>3, <1>4 DEF SubsInv, TablesTyped, SubsAgree

\* A connection moves on without leaving or entering a table.
LEMMA PhaseKeeps ==
    ASSUME SubsInv, NEW c \in Conns, NEW to \in {"open", "busy", "greeting"},
           phase' = [phase EXCEPT ![c] = to], UNCHANGED <<subs, joined, fan>>,
           admins' \in {admins, admins \cup {c}}
    PROVE  SubsInv'
    BY DEF SubsInv, TablesTyped, SubsAgree

\* A message starts its way to the subscribers there are.
LEMMA FanKeeps ==
    ASSUME SubsInv, UNCHANGED <<phase, admins, subs, joined>>,
           fan' \in [room : Rooms \cup {NoFan.room}, left : SUBSET Conns]
    PROVE  SubsInv'
    BY DEF SubsInv, TablesTyped, SubsAgree

\* Every step of the server keeps the tables in agreement.
LEMMA SubsInvNext == ASSUME SubsInv, [WsNext]_wsVars PROVE SubsInv'
    <1> USE DEF connVars, fanVars
    <1>1. ASSUME NEW t \in Tokens, Issue(t) \/ Bootstrap(t) \/ Expire(t) PROVE SubsInv'
        BY <1>1, TablesKept DEF Issue, Bootstrap, Expire
    <1>2. ASSUME NEW c \in Conns, NEW t \in Tokens \cup {NoToken}, Handshake(c, t) PROVE SubsInv'
        BY <1>2, PhaseKeeps DEF Handshake
    <1>3. ASSUME NEW c \in Conns, Greeted(c) PROVE SubsInv'
        <2>1. CASE c \in gone BY <1>3, <2>1, CleanupKeeps DEF Greeted, SubsInv, TablesTyped
        <2>2. CASE c \notin gone
            <3>1. Own(c) \in Rooms BY DEF Rooms
            <3> QED BY <1>3, <2>2, <3>1, AttachKeeps DEF Greeted
        <2> QED BY <2>1, <2>2
    <1>4. ASSUME NEW c \in Conns, AskAdmin(c) \/ Refused(c) \/ Transcribe(c) PROVE SubsInv'
        BY <1>4, PhaseKeeps DEF AskAdmin, Refused, Transcribe, Ask, Await, Frame
    <1>5. ASSUME NEW c \in Conns, Answered(c) PROVE SubsInv'
        <2>1. CASE c \in gone BY <1>5, <2>1, CleanupKeeps DEF Answered, SubsInv, TablesTyped
        <2>2. CASE c \notin gone BY <1>5, <2>2, PhaseKeeps DEF Answered
        <2> QED BY <2>1, <2>2
    <1>6. ASSUME NEW c \in Conns, PeerCloses(c) PROVE SubsInv'
        BY <1>6, TablesKept DEF PeerCloses
    <1>7. ASSUME NEW c \in Conns, LoopEnds(c) PROVE SubsInv'
        BY <1>7, CleanupKeeps DEF LoopEnds, SubsInv, TablesTyped
    <1>8. ASSUME NEW c \in Conns, NEW h \in WsChats, Subscribe(c, h) \/ SetModel(c, h) PROVE SubsInv'
        <2>1. h \in Rooms BY DEF Rooms
        <2> QED BY <1>8, <2>1, AttachKeeps DEF Subscribe, SetModel, Frame, Await
    <1>9. ASSUME NEW c \in Conns, NEW h \in WsChats, Say(c, h) PROVE SubsInv'
        <2>1. h \in Rooms BY DEF Rooms
        <2>2. phase[c] = "open" /\ phase' = [phase EXCEPT ![c] = "open"]
            BY <1>9 DEF Say, Frame, SubsInv, TablesTyped
        <2> QED BY <1>9, <2>1, <2>2, AttachKeeps DEF Say
    <1>10. ASSUME NEW h \in Rooms, Publish(h) \/ PublishDelta(h) PROVE SubsInv'
        <2>1. fan' \in [room : Rooms \cup {NoFan.room}, left : SUBSET Conns]
            BY <1>10 DEF Publish, PublishDelta, NoFan, SubsInv, TablesTyped
        <2> QED BY <1>10, <2>1, FanKeeps DEF Publish, PublishDelta
    <1>11. CASE FanStep
        <2>1. PICK c \in fan.left :
                 /\ IF c \in gone THEN Cleanup(c) ELSE UNCHANGED <<subs, joined, admins>>
                 /\ fan' = IF fan.left = {c} THEN NoFan ELSE [fan EXCEPT !.left = @ \ {c}]
            BY <1>11 DEF FanStep
        <2>2. c \in Conns BY DEF SubsInv, TablesTyped
        <2>3. fan' \in [room : Rooms \cup {NoFan.room}, left : SUBSET Conns]
            BY <2>1 DEF NoFan, SubsInv, TablesTyped
        <2>4. phase' = phase BY <1>11 DEF FanStep
        <2>5. CASE c \in gone BY <2>1, <2>2, <2>3, <2>4, <2>5, CleanupKeeps
        <2>6. CASE c \notin gone BY <2>1, <2>3, <2>4, <2>6, FanKeeps
        <2> QED BY <2>5, <2>6
    <1>12. ASSUME NEW h \in WsChats,
                  \/ RestDelete(h) \/ RestStop(h) \/ RestRestart(h)
                  \/ Activity(h) \/ TurnSaves(h) \/ TurnRaises(h)
           PROVE  SubsInv'
        BY <1>12, TablesKept DEF RestDelete, RestStop, RestRestart, Activity, TurnSaves, TurnRaises
    <1>13. CASE StopServing BY <1>13, TablesKept DEF StopServing
    <1>14. CASE Stopped BY <1>14 DEF Stopped, SubsInv, TablesTyped, SubsAgree
    <1>15. CASE UNCHANGED wsVars BY <1>15, TablesKept DEF wsVars
    <1> QED BY <1>1, <1>2, <1>3, <1>4, <1>5, <1>6, <1>7, <1>8, <1>9, <1>10, <1>11, <1>12, <1>13,
               <1>14, <1>15 DEF WsNext

\* What a client replays of a transcript.
Recent(s) ==
    LET last == {i \in DOMAIN s : s[i] = Boundary}
    IN {s[i] : i \in {j \in DOMAIN s : \A k \in last : k < j}}

\* It is what was recorded after every boundary.
LEMMA RecentIs ==
    ASSUME NEW s \in Seq(Nat), NEW n
    PROVE  n \in Recent(s) <=>
               \E j \in 1..Len(s) : s[j] = n /\ \A k \in 1..Len(s) : s[k] = Boundary => k < j
    <1>1. DOMAIN s = 1..Len(s) OBVIOUS
    <1> QED BY <1>1 DEF Recent

\* One more record is all that one more record adds, and a boundary leaves nothing.
LEMMA RecentAppend ==
    ASSUME NEW s \in Seq(Nat), NEW m \in Nat
    PROVE  /\ Append(s, m) \in Seq(Nat)
           /\ Recent(Append(s, m)) \subseteq Recent(s) \cup {m}
           /\ m = Boundary => Recent(Append(s, m)) = {}
    <1>1. /\ Append(s, m) \in Seq(Nat) /\ Len(s) \in Nat /\ Len(Append(s, m)) = Len(s) + 1
          /\ \A i \in 1..Len(s) : Append(s, m)[i] = s[i] /\ i \in 1..Len(s) + 1
          /\ Append(s, m)[Len(s) + 1] = m
        OBVIOUS
    <1>2. ASSUME NEW n \in Recent(Append(s, m)) PROVE n \in Recent(s) \cup {m} /\ m # Boundary
        <2>1. PICK j \in 1..Len(s) + 1 :
                 /\ Append(s, m)[j] = n
                 /\ \A k \in 1..Len(s) + 1 : Append(s, m)[k] = Boundary => k < j
            BY <1>1, <1>2, RecentIs
        <2>2. m # Boundary
            <3>1. Len(s) + 1 \in 1..Len(s) + 1 BY <1>1
            <3>2. m = Boundary => Len(s) + 1 < j BY <1>1, <2>1, <3>1
            <3> QED BY <1>1, <3>2
        <2>3. CASE j = Len(s) + 1 BY <1>1, <2>1, <2>2, <2>3
        <2>4. CASE j # Len(s) + 1
            <3>1. j \in 1..Len(s) BY <1>1, <2>4
            <3>2. s[j] = n /\ \A k \in 1..Len(s) : s[k] = Boundary => k < j BY <1>1, <2>1, <3>1
            <3> QED BY <2>2, <3>1, <3>2, RecentIs
        <2> QED BY <2>3, <2>4
    <1> QED BY <1>1, <1>2

\* A transcript that is trimmed shows no more than before.
LEMMA RecentTrimmed ==
    ASSUME NEW s \in Seq(Nat)
    PROVE  Trimmed(s) \in Seq(Nat) /\ Recent(Trimmed(s)) \subseteq Recent(s)
    <1>1. CASE ~(Len(s) > 2 * MaxLines) BY <1>1 DEF Trimmed
    <1>2. CASE Len(s) > 2 * MaxLines
        <2> DEFINE d == Len(s) - MaxLines
                   t == SubSeq(s, d + 1, Len(s))
        <2>1. Len(s) \in Nat /\ MaxLines \in Nat BY WebSocketAssumption
        <2>2. d \in Nat /\ d + MaxLines = Len(s) /\ d + 1 \in 1..Len(s) + 1 BY <1>2, <2>1
        <2>3. Trimmed(s) = t BY <1>2, <2>1, <2>2 DEF Trimmed
        <2>4. /\ t \in Seq(Nat) /\ Len(t) = MaxLines
              /\ \A i \in 1..MaxLines : t[i] = s[d + i] /\ d + i \in 1..Len(s)
            BY <2>1, <2>2
        <2> HIDE DEF d, t
        <2>5. ASSUME NEW n \in Recent(t) PROVE n \in Recent(s)
            <3>1. PICK j \in 1..MaxLines :
                     t[j] = n /\ \A k \in 1..MaxLines : t[k] = Boundary => k < j
                BY <2>4, <2>5, RecentIs
            <3>2. s[d + j] = n /\ d + j \in 1..Len(s) BY <2>4, <3>1
            <3>3. ASSUME NEW k \in 1..Len(s), s[k] = Boundary PROVE k < d + j
                <4>1. CASE k <= d BY <2>1, <2>2, <4>1
                <4>2. CASE k > d
                    <5>1. k - d \in 1..MaxLines /\ d + (k - d) = k BY <2>1, <2>2, <4>2
                    <5>2. t[k - d] = Boundary BY <2>4, <3>3, <5>1
                    <5>3. k - d < j BY <3>1, <5>1, <5>2
                    <5> QED BY <2>1, <2>2, <5>1, <5>3
                <4> QED BY <2>1, <2>2, <4>1, <4>2
            <3> QED BY <3>2, <3>3, RecentIs
        <2> QED BY <2>3, <2>4, <2>5
    <1> QED BY <1>1, <1>2

\* What is replayed belongs to the running turn or to turns that were cut, with nothing but cut
\* turns after it.
TurnsTyped ==
    /\ turn \in [WsChats -> [n : Nat, on : BOOLEAN]]
    /\ lines \in [WsChats -> Seq(Nat)] /\ cut \in [WsChats -> SUBSET Nat]
CutOrRunning(h, s) ==
    \A n \in Recent(s) :
        /\ n \in Nat /\ n <= turn[h].n
        /\ \A m \in n..turn[h].n : m \in cut[h] \/ (turn[h].on /\ m = turn[h].n)
RecentInv == TurnsTyped /\ \A h \in WsChats : CutOrRunning(h, lines[h])

\* The steps that leave turns and transcripts alone.
LEMMA TurnsKept == ASSUME RecentInv, UNCHANGED <<turn, lines, cut>> PROVE RecentInv'
    BY DEF RecentInv, TurnsTyped, CutOrRunning

\* A turn that is stopped or raises joins the cut ones.
LEMMA CutKeeps ==
    ASSUME RecentInv, NEW h \in WsChats, CutTurn(h), UNCHANGED lines
    PROVE  RecentInv'
    <1>1. /\ turn' \in [WsChats -> [n : Nat, on : BOOLEAN]] /\ cut' \in [WsChats -> SUBSET Nat]
          /\ \A k \in WsChats : k # h => turn'[k] = turn[k] /\ cut'[k] = cut[k]
          /\ turn'[h].n = turn[h].n /\ cut'[h] = cut[h] \cup {turn[h].n}
        BY DEF CutTurn, EndTurn, RecentInv, TurnsTyped
    <1>2. ASSUME NEW k \in WsChats PROVE CutOrRunning(k, lines[k])'
        <2>1. CASE k = h BY <1>1, <2>1 DEF RecentInv, CutOrRunning
        <2>2. CASE k # h BY SMTT(30), <1>1, <2>2 DEF RecentInv, CutOrRunning
        <2> QED BY <2>1, <2>2
    <1> QED BY <1>1, <1>2 DEF RecentInv, TurnsTyped

\* The next turn of a chat begins; what is replayed is of cut turns before it.
LEMMA BeginKeeps ==
    ASSUME RecentInv, NEW h \in WsChats, ~turn[h].on, UNCHANGED <<lines, cut>>,
           turn' = [turn EXCEPT ![h] = [n |-> @.n + 1, on |-> TRUE]]
    PROVE  RecentInv'
    <1>1. /\ turn' \in [WsChats -> [n : Nat, on : BOOLEAN]]
          /\ \A k \in WsChats : k # h => turn'[k] = turn[k]
          /\ turn'[h].n = turn[h].n + 1 /\ turn'[h].on /\ turn[h].n \in Nat
        BY DEF RecentInv, TurnsTyped
    <1>2. ASSUME NEW k \in WsChats PROVE CutOrRunning(k, lines[k])'
        <2>1. CASE k = h
            <3>1. ASSUME NEW n \in Recent(lines[h])
                  PROVE  /\ n \in Nat /\ n <= turn'[h].n
                         /\ \A m \in n..turn'[h].n : m \in cut'[h] \/ (turn'[h].on /\ m = turn'[h].n)
                <4>1. n \in Nat /\ n <= turn[h].n /\ \A m \in n..turn[h].n : m \in cut[h]
                    BY <3>1 DEF RecentInv, CutOrRunning
                <4>2. ASSUME NEW m \in n..turn'[h].n PROVE m \in cut'[h] \/ (turn'[h].on /\ m = turn'[h].n)
                    <5>1. m = turn'[h].n \/ m \in n..turn[h].n BY <1>1, <4>1
                    <5> QED BY <1>1, <4>1, <5>1
                <4> QED BY <1>1, <4>1, <4>2
            <3> QED BY <2>1, <3>1 DEF CutOrRunning
        <2>2. CASE k # h BY <1>1, <2>2 DEF RecentInv, CutOrRunning
        <2> QED BY <2>1, <2>2
    <1> QED BY <1>1, <1>2 DEF RecentInv, TurnsTyped

\* A record of the running turn, or a boundary as it ends.
LEMMA RecordKeeps ==
    ASSUME RecentInv, NEW h \in WsChats, turn[h].on, UNCHANGED cut,
           \/ Record(h, turn[h].n) /\ UNCHANGED turn
           \/ Record(h, Boundary) /\ EndTurn(h)
    PROVE  RecentInv'
    <1>1. PICK m \in {turn[h].n, Boundary} :
             Record(h, m) /\ (UNCHANGED turn \/ (m = Boundary /\ EndTurn(h)))
        OBVIOUS
    <1>2. lines[h] \in Seq(Nat) /\ m \in Nat BY DEF RecentInv, TurnsTyped, Boundary
    <1>3. /\ Append(lines[h], m) \in Seq(Nat)
          /\ Recent(Append(lines[h], m)) \subseteq Recent(lines[h]) \cup {m}
          /\ m = Boundary => Recent(Append(lines[h], m)) = {}
        BY <1>2, RecentAppend
    <1>4. lines'[h] = Trimmed(Append(lines[h], m)) /\ \A k \in WsChats : k # h => lines'[k] = lines[k]
        BY <1>1 DEF Record, RecentInv, TurnsTyped
    <1>5. lines'[h] \in Seq(Nat) /\ Recent(lines'[h]) \subseteq Recent(Append(lines[h], m))
        BY <1>3, <1>4, RecentTrimmed
    <1>6. lines' \in [WsChats -> Seq(Nat)]
        BY <1>1, <1>4, <1>5 DEF Record, RecentInv, TurnsTyped
    <1>7. /\ turn' \in [WsChats -> [n : Nat, on : BOOLEAN]]
          /\ \A k \in WsChats : k # h => turn'[k] = turn[k]
          /\ m # Boundary => turn' = turn
        BY <1>1 DEF EndTurn, RecentInv, TurnsTyped
    <1>8. ASSUME NEW k \in WsChats PROVE CutOrRunning(k, lines[k])'
        <2>1. CASE k # h BY <1>4, <1>7, <2>1 DEF RecentInv, CutOrRunning
        <2>2. CASE k = h /\ m = Boundary
            <3>1. Recent(lines'[h]) = {} BY <1>3, <1>5, <2>2
            <3> QED BY <2>2, <3>1 DEF CutOrRunning
        <2>3. CASE k = h /\ m # Boundary
            <3>1. turn' = turn /\ m = turn[h].n /\ turn[h].n \in Nat BY <1>1, <1>7, <2>3 DEF RecentInv, TurnsTyped
            <3>2. ASSUME NEW n \in Recent(lines'[h])
                  PROVE  /\ n \in Nat /\ n <= turn[h].n
                         /\ \A i \in n..turn[h].n : i \in cut[h] \/ (turn[h].on /\ i = turn[h].n)
                <4>1. CASE n = turn[h].n BY <3>1, <4>1
                <4>2. CASE n \in Recent(lines[h]) BY <4>2 DEF RecentInv, CutOrRunning
                <4> QED BY <1>3, <1>5, <3>1, <3>2, <4>1, <4>2
            <3> QED BY <2>3, <3>1, <3>2 DEF CutOrRunning
        <2> QED BY <2>1, <2>2, <2>3
    <1> QED BY <1>6, <1>7, <1>8 DEF RecentInv, TurnsTyped

\* Every step of the server keeps the transcripts to cut turns and the running one.
LEMMA RecentInvNext == ASSUME RecentInv, [WsNext]_wsVars PROVE RecentInv'
    <1> USE DEF sessionVars
    <1>1. ASSUME NEW t \in Tokens, Issue(t) \/ Bootstrap(t) \/ Expire(t) PROVE RecentInv'
        BY <1>1, TurnsKept DEF Issue, Bootstrap, Expire
    <1>2. ASSUME NEW c \in Conns, NEW t \in Tokens \cup {NoToken}, Handshake(c, t) PROVE RecentInv'
        BY <1>2, TurnsKept DEF Handshake
    <1>3. ASSUME NEW c \in Conns,
                 \/ Greeted(c) \/ AskAdmin(c) \/ Refused(c) \/ Transcribe(c) \/ Answered(c)
                 \/ PeerCloses(c) \/ LoopEnds(c)
          PROVE  RecentInv'
        BY <1>3, TurnsKept DEF Greeted, AskAdmin, Refused, Transcribe, Ask, Answered, PeerCloses, LoopEnds
    <1>4. ASSUME NEW c \in Conns, NEW h \in WsChats, Subscribe(c, h) \/ SetModel(c, h) PROVE RecentInv'
        BY <1>4, TurnsKept DEF Subscribe, SetModel
    <1>5. ASSUME NEW c \in Conns, NEW h \in WsChats, Say(c, h) PROVE RecentInv'
        BY <1>5, TurnsKept, CutKeeps, BeginKeeps DEF Say
    <1>6. ASSUME NEW h \in Rooms, Publish(h) \/ PublishDelta(h) PROVE RecentInv'
        BY <1>6, TurnsKept DEF Publish, PublishDelta
    <1>7. CASE FanStep BY <1>7, TurnsKept DEF FanStep
    <1>8. ASSUME NEW h \in WsChats, RestDelete(h) PROVE RecentInv' BY <1>8, TurnsKept DEF RestDelete
    <1>9. ASSUME NEW h \in WsChats, RestStop(h) \/ RestRestart(h) \/ TurnRaises(h) PROVE RecentInv'
        BY <1>9, TurnsKept, CutKeeps DEF RestStop, RestRestart, TurnRaises
    <1>10. ASSUME NEW h \in WsChats, Activity(h) \/ TurnSaves(h) PROVE RecentInv'
        BY <1>10, RecordKeeps, CutKeeps DEF Activity, TurnSaves
    <1>11. CASE StopServing \/ Stopped BY <1>11, TurnsKept DEF StopServing, Stopped
    <1>12. CASE UNCHANGED wsVars BY <1>12, TurnsKept DEF wsVars
    <1> QED BY <1>1, <1>2, <1>3, <1>4, <1>5, <1>6, <1>7, <1>8, <1>9, <1>10, <1>11, <1>12 DEF WsNext

\* Whoever finds a closed peer first, the subscription tables agree and name no connection whose
\* loop is over; and a client that attaches late replays the running turn, or turns that were cut
\* or not marked since the last one that ended with its boundary: for every number of connections,
\* chats and turns.
THEOREM SocketsKept == WsSpec => []SocketsSound
    <1>1. WsInit => SubsInv
        BY DEF WsInit, SubsInv, TablesTyped, SubsAgree, NoFan
    <1>2. WsInit => RecentInv
        BY DEF WsInit, RecentInv, TurnsTyped, CutOrRunning, Recent
    <1>3. SubsInv /\ RecentInv => SocketsSound
        <2> SUFFICES ASSUME SubsInv, RecentInv PROVE SocketsSound OBVIOUS
        <2>1. ASSUME NEW h \in WsChats, NEW n \in Replay(h)
              PROVE  \/ turn[h].on /\ n = turn[h].n
                     \/ n \in cut[h] /\ n..turn[h].n \ cut[h] \subseteq {turn[h].n}
            <3>1. n \in Recent(lines[h]) BY <2>1 DEF Replay, Recent
            <3>2. /\ n \in Nat /\ n <= turn[h].n /\ turn[h].n \in Nat
                  /\ \A m \in n..turn[h].n : m \in cut[h] \/ (turn[h].on /\ m = turn[h].n)
                BY <3>1 DEF RecentInv, TurnsTyped, CutOrRunning
            <3>3. n \in n..turn[h].n BY <3>2
            <3> QED BY <3>2, <3>3
        <2>2. ReplayRecent BY <2>1 DEF ReplayRecent
        <2> QED BY <2>2 DEF SubsInv, SocketsSound
    <1> QED BY <1>1, <1>2, <1>3, SubsInvNext, RecentInvNext, PTL DEF WsSpec
----------------------------------------------------------------------------
(* What a channel shows while the agent works: nothing stays that the tables have lost.         *)

IndicatorTyped ==
    /\ stage \in [DMsgs -> {"no", "loading", "cancelling", "reacting", "published", "answered"}]
    /\ typing \in [DRooms -> DMsgs \cup {0}] /\ pendingEyes \in [DRooms -> DMsgs \cup {0}]
    /\ alarmOf \in [DRooms -> DMsgs \cup {0}]
    /\ typists \subseteq DMsgs /\ eyes2 \subseteq DMsgs /\ alarms \subseteq DMsgs /\ wrench \subseteq DMsgs
    /\ xStage \in [XMsgs -> {"no", "fetching", "typing", "published", "answered"}]
    /\ xTyping \in [XRooms -> XMsgs \cup {0}]

\* A loop, a receipt, an alarm and an emoji are in the table of their channel, or were put over;
\* or the receipt or emoji could not be taken off.
Tabled ==
    /\ \A m \in typists \ crossed : typing[DRoom[m]] = m
    /\ \A m \in eyes2 \ (covered \cup unremoved) : pendingEyes[DRoom[m]] = m
    /\ \A m \in alarms \ covered : alarmOf[DRoom[m]] = m /\ pendingEyes[DRoom[m]] = m
    /\ \A m \in wrench \ (covered \cup unremoved) : pendingEyes[DRoom[m]] = m

\* What the table of a channel has is of one of its messages that waits for its answer, unless the
\* reply is clearing it or never went.
Working ==
    \A c \in DRooms \ stuck :
        /\ typing[c] # 0 => DRoom[typing[c]] = c /\ stage[typing[c]] \in {"reacting", "published"}
        /\ pendingEyes[c] # 0 /\ c \notin clearing => DRoom[pendingEyes[c]] = c /\ stage[pendingEyes[c]] = "published"

\* A room that shows the bot typing has a message under way, or a reply that clears the notice, or
\* one that could not.
Noticed ==
    \A c \in XRooms :
        /\ xTyping[c] # 0 => XRoom[xTyping[c]] = c /\ xStage[xTyping[c]] = "published"
        /\ c \in notice => \/ c \in xClearing \cup uncleared
                           \/ \E m \in XMsgs : XRoom[m] = c /\ xStage[m] \in {"typing", "published"}

IndicatorInv == IndicatorTyped /\ Tabled /\ Working /\ Noticed

\* A message has one room, and none is numbered 0.
LEMMA RoomsAre ==
    /\ \A m \in DMsgs : DRoom[m] \in DRooms /\ m # 0
    /\ \A m \in XMsgs : XRoom[m] \in XRooms /\ m # 0
    BY IndicatorAssumption DEF DRooms, XRooms

\* The steps of Discord leave Matrix alone, and the other way round.
LEMMA DiscordTyped == ASSUME IndicatorInv, DiscordNext PROVE IndicatorTyped' /\ Noticed'
    <1> USE RoomsAre DEF IndicatorInv, IndicatorTyped
    <1>1. UNCHANGED matrixVars
        BY DEF DiscordNext, DiscordAccept, StartTyping, OldTypingEnded, React, AlarmRings, DiscordReply,
               ClearReactions, ReplyNeverGoes
    <1>2. Noticed' BY <1>1 DEF matrixVars, Noticed
    <1>3. ASSUME NEW m \in DMsgs, DiscordAccept(m) PROVE IndicatorTyped'
        BY <1>1, <1>3 DEF DiscordAccept, matrixVars
    <1>4. ASSUME NEW m \in DMsgs, StartTyping(m) PROVE IndicatorTyped'
        BY <1>1, <1>4 DEF StartTyping, BeginTyping, matrixVars
    <1>5. ASSUME NEW m \in DMsgs, OldTypingEnded(m) PROVE IndicatorTyped'
        BY <1>1, <1>5 DEF OldTypingEnded, BeginTyping, matrixVars
    <1>6. ASSUME NEW m \in DMsgs, React(m) PROVE IndicatorTyped'
        BY <1>1, <1>6 DEF React, matrixVars
    <1>7. ASSUME NEW m \in DMsgs, AlarmRings(m) PROVE IndicatorTyped'
        BY <1>1, <1>7 DEF AlarmRings, matrixVars
    <1>8. ASSUME NEW c \in DRooms, AnswerIn(c)
          PROVE  stage' \in [DMsgs -> {"no", "loading", "cancelling", "reacting", "published", "answered"}]
        BY <1>8 DEF AnswerIn
    <1>9. ASSUME NEW c \in DRooms, DiscordReply(c) PROVE IndicatorTyped'
        BY <1>1, <1>8, <1>9 DEF DiscordReply, StopTyping, matrixVars
    <1>10. ASSUME NEW c \in DRooms, ClearReactions(c) PROVE IndicatorTyped'
        BY <1>1, <1>10 DEF ClearReactions, matrixVars
    <1>11. ASSUME NEW c \in DRooms, ReplyNeverGoes(c) PROVE IndicatorTyped'
        BY <1>1, <1>8, <1>11 DEF ReplyNeverGoes, matrixVars
    <1> QED BY <1>2, <1>3, <1>4, <1>5, <1>6, <1>7, <1>9, <1>10, <1>11 DEF DiscordNext

\* A loop, a receipt or an emoji is only lost from its table where the history marks it.
LEMMA TabledNext == ASSUME IndicatorInv, DiscordNext PROVE Tabled'
    <1> USE RoomsAre DEF IndicatorInv, IndicatorTyped, Tabled
    <1>1. ASSUME NEW m \in DMsgs, DiscordAccept(m) PROVE Tabled' BY <1>1 DEF DiscordAccept
    <1>2. ASSUME NEW m \in DMsgs, StartTyping(m) PROVE Tabled' BY <1>2 DEF StartTyping, BeginTyping
    <1>3. ASSUME NEW m \in DMsgs, OldTypingEnded(m) PROVE Tabled' BY <1>3 DEF OldTypingEnded, BeginTyping
    <1>4. ASSUME NEW m \in DMsgs, React(m) PROVE Tabled'
        <2>1. UNCHANGED <<typists, typing, crossed, wrench, unremoved>> /\ alarms' = alarms \cup {m} BY <1>4 DEF React
        <2>2. alarmOf' = [alarmOf EXCEPT ![DRoom[m]] = m] BY <1>4 DEF React
        <2>3. CASE /\ eyes2' = eyes2 \cup {m} /\ pendingEyes' = [pendingEyes EXCEPT ![DRoom[m]] = m]
                   /\ covered' = covered \cup ({pendingEyes[DRoom[m]], alarmOf[DRoom[m]]} \ {0})
            BY <2>1, <2>2, <2>3
        <2>4. CASE UNCHANGED <<eyes2, pendingEyes>> /\ covered' = covered \cup ({alarmOf[DRoom[m]], m} \ {0})
            BY <2>1, <2>2, <2>4
        <2> QED BY <1>4, <2>3, <2>4 DEF React
    <1>5. ASSUME NEW m \in DMsgs, AlarmRings(m) PROVE Tabled' BY <1>5 DEF AlarmRings
    <1>6. ASSUME NEW c \in DRooms, DiscordReply(c) PROVE Tabled' BY <1>6 DEF DiscordReply, StopTyping
    <1>7. ASSUME NEW c \in DRooms, ClearReactions(c) PROVE Tabled' BY <1>7 DEF ClearReactions
    <1>8. ASSUME NEW c \in DRooms, ReplyNeverGoes(c) PROVE Tabled' BY <1>8 DEF ReplyNeverGoes
    <1> QED BY <1>1, <1>2, <1>3, <1>4, <1>5, <1>6, <1>7, <1>8 DEF DiscordNext

\* A final reply empties the tables of its channel before another message fills them.
LEMMA WorkingNext == ASSUME IndicatorInv, DiscordNext PROVE Working'
    <1> USE RoomsAre DEF IndicatorInv, IndicatorTyped, Working
    <1>1. ASSUME NEW m \in DMsgs, DiscordAccept(m) PROVE Working' BY <1>1 DEF DiscordAccept
    <1>2. ASSUME NEW m \in DMsgs, StartTyping(m) PROVE Working' BY <1>2 DEF StartTyping, BeginTyping
    <1>3. ASSUME NEW m \in DMsgs, OldTypingEnded(m) PROVE Working' BY <1>3 DEF OldTypingEnded, BeginTyping
    <1>4. ASSUME NEW m \in DMsgs, React(m) PROVE Working' BY <1>4 DEF React
    <1>5. ASSUME NEW m \in DMsgs, AlarmRings(m) PROVE Working' BY <1>5 DEF AlarmRings
    <1>6. ASSUME NEW c \in DRooms, AnswerIn(c), NEW m \in DMsgs PROVE stage'[m] = stage[m] \/ DRoom[m] = c
        BY <1>6 DEF AnswerIn, Waiting
    <1>7. ASSUME NEW c \in DRooms, DiscordReply(c) PROVE Working'
        <2>1. /\ AnswerIn(c) /\ typing' = [typing EXCEPT ![c] = 0] /\ clearing' = clearing \cup {c}
              /\ stuck' = stuck \ {c} /\ UNCHANGED pendingEyes
            BY <1>7 DEF DiscordReply, StopTyping
        <2>2. typing'[c] = 0 /\ \A d \in DRooms : d # c => typing'[d] = typing[d] BY <2>1
        <2>3. ASSUME NEW d \in DRooms, d # c, d \notin stuck, NEW m \in DMsgs, DRoom[m] = d PROVE stage'[m] = stage[m]
            BY <1>6, <2>1, <2>3
        <2> QED BY <2>1, <2>2, <2>3
    <1>8. ASSUME NEW c \in DRooms, ClearReactions(c) PROVE Working' BY <1>8 DEF ClearReactions
    <1>9. ASSUME NEW c \in DRooms, ReplyNeverGoes(c) PROVE Working'
        <2>1. AnswerIn(c) /\ stuck' = stuck \cup {c} /\ UNCHANGED <<typing, pendingEyes, clearing>>
            BY <1>9 DEF ReplyNeverGoes
        <2>2. ASSUME NEW d \in DRooms, d # c, NEW m \in DMsgs, DRoom[m] = d PROVE stage'[m] = stage[m]
            BY <1>6, <2>1, <2>2
        <2> QED BY <2>1, <2>2
    <1> QED BY <1>1, <1>2, <1>3, <1>4, <1>5, <1>7, <1>8, <1>9 DEF DiscordNext

\* The steps of Matrix keep a notice with a message under way or a reply about to clear it.
LEMMA MatrixKeeps == ASSUME IndicatorInv, MatrixNext PROVE IndicatorInv'
    <1>1. UNCHANGED discordVars
        BY DEF MatrixNext, OnMessage, MediaFetched, TypingShown, Refresh, MatrixReply, NoticeCleared, MatrixStops
    <1>2. Tabled' /\ Working' BY <1>1 DEF IndicatorInv, discordVars, Tabled, Working
    <1> USE RoomsAre DEF IndicatorInv, IndicatorTyped
    <1>3. ASSUME NEW m \in XMsgs, OnMessage(m) PROVE IndicatorTyped' /\ Noticed'
        BY <1>1, <1>3 DEF OnMessage, discordVars, Noticed
    <1>4. ASSUME NEW m \in XMsgs, MediaFetched(m) PROVE IndicatorTyped' /\ Noticed'
        BY <1>1, <1>4 DEF MediaFetched, discordVars, Noticed
    <1>5. ASSUME NEW m \in XMsgs, TypingShown(m) PROVE IndicatorTyped' /\ Noticed'
        <2>1. IndicatorTyped' BY <1>1, <1>5 DEF TypingShown, discordVars
        <2>2. /\ xStage' = [xStage EXCEPT ![m] = "published"] /\ xStage[m] = "typing"
              /\ UNCHANGED <<xClearing, uncleared>>
            BY <1>5 DEF TypingShown
        <2>3. xTyping' = xTyping \/ xTyping' = [xTyping EXCEPT ![XRoom[m]] = m] BY <1>5 DEF TypingShown
        <2>4. notice' = notice \/ notice' = notice \cup {XRoom[m]} BY <1>5 DEF TypingShown
        <2>5. \A k \in XMsgs : k # m => xStage'[k] = xStage[k] BY <2>2
        <2>6. xStage'[m] = "published" BY <2>2
        <2>7. ASSUME NEW c \in XRooms, xTyping'[c] # 0 PROVE XRoom[xTyping'[c]] = c /\ xStage'[xTyping'[c]] = "published"
            BY <2>3, <2>5, <2>6, <2>7 DEF Noticed
        <2>8. ASSUME NEW c \in XRooms, c \in notice'
              PROVE  \/ c \in xClearing \cup uncleared
                     \/ \E k \in XMsgs : XRoom[k] = c /\ xStage'[k] \in {"typing", "published"}
            BY <2>2, <2>4, <2>5, <2>6, <2>8 DEF Noticed
        <2>9. Noticed' BY <2>2, <2>7, <2>8 DEF Noticed
        <2> QED BY <2>1, <2>9
    <1>6. ASSUME NEW c \in XRooms, Refresh(c) PROVE IndicatorTyped' /\ Noticed'
        BY <1>1, <1>6 DEF Refresh, discordVars, Noticed
    <1>7. ASSUME NEW c \in XRooms, MatrixReply(c) PROVE IndicatorTyped' /\ Noticed'
        <2>1. PICK done \in SUBSET {m \in XMsgs : XRoom[m] = c /\ xStage[m] = "published"} :
                 xStage' = [m \in XMsgs |-> IF m \in done THEN "answered" ELSE xStage[m]]
            BY ZenonT(60), <1>7 DEF MatrixReply
        <2>2. /\ xTyping' = [xTyping EXCEPT ![c] = 0] /\ xClearing' = xClearing \cup {c}
              /\ UNCHANGED <<notice, uncleared>>
            BY <1>7 DEF MatrixReply
        <2>3. IndicatorTyped' BY <1>1, <2>1, <2>2 DEF discordVars
        <2>4. \A m \in XMsgs : XRoom[m] # c => xStage'[m] = xStage[m] BY <2>1
        <2>5. Noticed' BY <2>2, <2>4 DEF Noticed
        <2> QED BY <2>3, <2>5
    <1>8. ASSUME NEW c \in XRooms, NoticeCleared(c) PROVE IndicatorTyped' /\ Noticed'
        BY <1>1, <1>8 DEF NoticeCleared, discordVars, Noticed
    <1>9. CASE MatrixStops
        <2>1. UNCHANGED <<xStage, notice, xClearing, uncleared>> BY <1>9 DEF MatrixStops
        <2>2. xTyping' = xTyping \/ xTyping' = [c \in XRooms |-> 0] BY <1>9 DEF MatrixStops, NoTasks
        <2>3. xTyping' \in [XRooms -> XMsgs \cup {0}] BY <2>2
        <2>4. IndicatorTyped' BY <1>1, <2>1, <2>3 DEF discordVars
        <2>5. Noticed' BY <2>1, <2>2 DEF Noticed
        <2> QED BY <1>2, <2>4, <2>5
    <1> QED BY <1>2, <1>3, <1>4, <1>5, <1>6, <1>7, <1>8, <1>9 DEF MatrixNext

\* Where everything is answered nothing says that the agent works, in Discord but for what messages
\* that came together covered up, replies that never went and reactions that could not be taken off,
\* and in Matrix but for a notice that was not taken back: for every number of messages and rooms,
\* whichever of the removals fail.
THEOREM IndicatorsKept == IndicatorSpec => []QuietShowsNothing
    <1>1. IndicatorInit => IndicatorInv
        <2> USE RoomsAre DEF IndicatorInit, NoTasks
        <2>1. IndicatorInit => IndicatorTyped BY DEF IndicatorTyped
        <2>2. IndicatorInit => Tabled /\ Working /\ Noticed BY DEF Tabled, Working, Noticed
        <2> QED BY <2>1, <2>2 DEF IndicatorInv
    <1>2. IndicatorInv /\ [IndicatorNext]_indicatorVars => IndicatorInv'
        <2>1. ASSUME IndicatorInv, DiscordNext PROVE IndicatorInv'
            BY <2>1, DiscordTyped, TabledNext, WorkingNext DEF IndicatorInv
        <2>2. ASSUME IndicatorInv, UNCHANGED indicatorVars PROVE IndicatorInv'
            BY <2>2 DEF indicatorVars, discordVars, matrixVars, IndicatorInv, IndicatorTyped, Tabled, Working, Noticed
        <2> QED BY <2>1, <2>2, MatrixKeeps DEF IndicatorNext
    <1>3. IndicatorInv => QuietShowsNothing
        <2> SUFFICES ASSUME IndicatorInv PROVE QuietShowsNothing OBVIOUS
        <2>1. ASSUME NEW c \in DRooms \ stuck, Quiet(c) PROVE typing[c] = 0 /\ pendingEyes[c] = 0
            BY <2>1 DEF IndicatorInv, IndicatorTyped, Working, Quiet
        <2>2. ASSUME NEW c \in XRooms, XQuiet(c) PROVE xTyping[c] = 0 /\ (c \in notice => c \in uncleared)
            BY <2>2 DEF IndicatorInv, IndicatorTyped, Noticed, XQuiet
        <2>3. \A m \in DMsgs : m # 0 BY RoomsAre
        <2>4. ASSUME NEW c \in DRooms \ stuck, Quiet(c)
              PROVE  /\ {m \in typists : DRoom[m] = c} \subseteq crossed
                     /\ {m \in alarms : DRoom[m] = c} \subseteq covered
                     /\ {m \in eyes2 \cup wrench : DRoom[m] = c} \subseteq covered \cup unremoved
            BY <2>1, <2>3, <2>4 DEF IndicatorInv, IndicatorTyped, Tabled
        <2> QED BY <2>2, <2>4 DEF QuietShowsNothing
    <1> QED BY <1>1, <1>2, <1>3, PTL DEF IndicatorSpec
----------------------------------------------------------------------------
(* Slack and Teams: each event is worked on once, each conversation can be answered.            *)

\* One more of each member of a set: what results is a bag.
LEMMA MoreInBag ==
    ASSUME NEW B, IsABag(B), NEW S
    PROVE  /\ IsABag(B (+) SetToBag(S))
           /\ \A e : Copies(e, B (+) SetToBag(S)) = Copies(e, B) + (IF e \in S THEN 1 ELSE 0)
    <1> DEFINE C == B (+) SetToBag(S)
    <1>1. DOMAIN C = DOMAIN B \cup S /\ \A e \in DOMAIN C : C[e] = (IF e \in DOMAIN B THEN B[e] ELSE 0) + (IF e \in S THEN 1 ELSE 0)
        BY DEF SetToBag, (+)
    <1> HIDE DEF C
    <1>2. \A e \in DOMAIN B : B[e] \in Nat /\ B[e] > 0 BY DEF IsABag
    <1>3. \A e : Copies(e, C) = Copies(e, B) + (IF e \in S THEN 1 ELSE 0)
        BY <1>1, <1>2 DEF Copies, BagIn, BagToSet
    <1>4. \A e \in DOMAIN C : C[e] \in {n \in Nat : n > 0} BY <1>1, <1>2
    <1>5. C = [e \in DOMAIN C |-> C[e]] BY DEF C, (+)
    <1>6. IsABag(C) BY <1>4, <1>5 DEF IsABag
    <1> QED BY <1>3, <1>6 DEF C

\* One less of an element: what is left is a bag.
LEMMA LessInBag ==
    ASSUME NEW B, IsABag(B), NEW p, BagIn(p, B)
    PROVE  /\ IsABag(B (-) SetToBag({p}))
           /\ \A e : Copies(e, B (-) SetToBag({p})) = Copies(e, B) - (IF e = p THEN 1 ELSE 0)
    <1> DEFINE D == [e \in DOMAIN B |-> IF e \in DOMAIN SetToBag({p}) THEN B[e] - SetToBag({p})[e] ELSE B[e]]
               C == [e \in {d \in DOMAIN D : D[d] > 0} |-> D[e]]
    <1>1. DOMAIN D = DOMAIN B /\ \A e \in DOMAIN B : D[e] = B[e] - (IF e = p THEN 1 ELSE 0)
        <2>1. \A e \in DOMAIN B : B[e] \in Nat BY DEF IsABag
        <2> QED BY <2>1 DEF SetToBag
    <1>2. B (-) SetToBag({p}) = C BY DEF (-)
    <1> HIDE DEF D
    <1>3. DOMAIN C = {d \in DOMAIN D : D[d] > 0} /\ \A e \in DOMAIN C : C[e] = D[e] OBVIOUS
    <1>4. C = [e \in DOMAIN C |-> C[e]] OBVIOUS
    <1> HIDE DEF C
    <1>5. \A e \in DOMAIN B : B[e] \in Nat /\ B[e] > 0 BY DEF IsABag
    <1>6. p \in DOMAIN B BY DEF BagIn, BagToSet
    <1>7. \A e : Copies(e, C) = Copies(e, B) - (IF e = p THEN 1 ELSE 0)
        BY <1>1, <1>3, <1>5, <1>6 DEF Copies, BagIn, BagToSet
    <1>8. \A e \in DOMAIN C : C[e] \in {n \in Nat : n > 0} BY <1>1, <1>3, <1>5
    <1>9. IsABag(C) BY <1>4, <1>8 DEF IsABag
    <1> QED BY <1>2, <1>7, <1>9

\* An element is in a bag when there is at least one of it.
LEMMA CountInBag ==
    ASSUME NEW B, IsABag(B), NEW e
    PROVE  Copies(e, B) \in Nat /\ (BagIn(e, B) <=> Copies(e, B) > 0)
    BY DEF IsABag, Copies, BagIn, BagToSet

\* The kind of event by which a post comes through, once the bot knows its own id.
WantedKind(p) == IF p \in Mentions \ Direct THEN "app_mention" ELSE "message"

\* Events, reactions and answers are bags of posts that were made.
Bagged ==
    /\ IsABag(events) /\ IsABag(reacting) /\ IsABag(asked)
    /\ \A p, k : BagIn(<<p, k>>, events) => p \in posted /\ k \in KindsOf(p)
    /\ \A p : BagIn(p, reacting) \/ BagIn(p, asked) \/ p \in again => p \in posted

\* How often a post is on its way to be worked on, or was.
Progress(p) == Copies(<<p, WantedKind(p)>>, events) + Copies(p, reacting) + Copies(p, asked)

\* Of the events of a post one is worked on; a mention of the bot is under way till it is.
OneWorks ==
    \A p \in Posts :
        /\ botKnown /\ p \notin again => Progress(p) <= 1
        /\ p \in (Mentions \ Direct) \cap posted =>
              BagIn(<<p, "app_mention">>, events) \/ BagIn(p, reacting) \/ BagIn(p, asked)

\* References are activities, or none.
RefsTyped == heard \in SUBSET Convs /\ refs \in [Convs -> Nat] /\ refsFile \in [Convs -> Nat]

\* The inductive invariant of Slack and Teams.
WorkInv == Bagged /\ OneWorks /\ RefsTyped /\ HeardHasRef

\* A post that was not made has no progress.
LEMMA ProgressIs ==
    ASSUME Bagged, NEW p
    PROVE  /\ Copies(<<p, WantedKind(p)>>, events) \in Nat /\ Copies(p, reacting) \in Nat /\ Copies(p, asked) \in Nat
           /\ p \notin posted => Progress(p) = 0
    <1>1. Copies(<<p, WantedKind(p)>>, events) \in Nat /\ Copies(p, reacting) \in Nat /\ Copies(p, asked) \in Nat
        BY CountInBag DEF Bagged
    <1>2. ASSUME p \notin posted PROVE Copies(<<p, WantedKind(p)>>, events) = 0 /\ Copies(p, reacting) = 0 /\ Copies(p, asked) = 0
        BY <1>2 DEF Bagged, Copies
    <1> QED BY <1>1, <1>2 DEF Progress

\* A new post has had no progress; its event by which it comes through is the first.
LEMMA PostMadeKeeps == ASSUME Bagged, OneWorks, NEW p \in Posts, PostMade(p) PROVE Bagged' /\ OneWorks'
    <1> DEFINE S == {p} \X KindsOf(p)
    <1>1. p \notin posted /\ posted' = posted \cup {p} /\ events' = events (+) SetToBag(S)
          /\ UNCHANGED <<botKnown, reacting, asked, again>>
        BY DEF PostMade
    <1>2. IsABag(events') /\ \A e : Copies(e, events') = Copies(e, events) + (IF e \in S THEN 1 ELSE 0)
        BY <1>1, MoreInBag DEF Bagged
    <1>3. \A q, k : <<q, k>> \in S <=> q = p /\ k \in KindsOf(p) OBVIOUS
    <1> HIDE DEF S
    <1>4. \A e : BagIn(e, events') <=> BagIn(e, events) \/ e \in S
        BY <1>2, CountInBag DEF Bagged
    <1>5. Bagged' BY <1>1, <1>2, <1>3, <1>4 DEF Bagged
    <1>6. ASSUME NEW q \in Posts, botKnown, q \notin again PROVE Progress(q)' <= 1
        <2>1. CASE q = p
            <3>1. Progress(p) = 0 BY <1>1, ProgressIs
            <3>2. Copies(<<p, WantedKind(p)>>, events') <= Copies(<<p, WantedKind(p)>>, events) + 1
                BY <1>2, ProgressIs
            <3>3. Copies(<<p, WantedKind(p)>>, events') \in Nat BY <1>2, CountInBag
            <3> QED BY <1>1, <2>1, <3>1, <3>2, <3>3, ProgressIs DEF Progress, WantedKind
        <2>2. CASE q # p
            <3>1. Copies(<<q, WantedKind(q)>>, events') = Copies(<<q, WantedKind(q)>>, events)
                BY <1>2, <1>3, <2>2, ProgressIs
            <3> QED BY <1>1, <1>6, <3>1 DEF OneWorks, Progress, WantedKind
        <2> QED BY <2>1, <2>2
    <1>7. ASSUME NEW q \in Posts, q \in (Mentions \ Direct) \cap posted'
          PROVE  BagIn(<<q, "app_mention">>, events') \/ BagIn(q, reacting') \/ BagIn(q, asked')
        <2>1. CASE q = p BY <1>3, <1>4, <1>7, <2>1 DEF KindsOf
        <2>2. CASE q # p BY <1>1, <1>4, <1>7, <2>2 DEF OneWorks
        <2> QED BY <2>1, <2>2
    <1> QED BY <1>1, <1>5, <1>6, <1>7 DEF OneWorks

\* An event that comes again marks its post as excepted; no event is lost by it.
LEMMA RedeliveredKeeps == ASSUME Bagged, OneWorks, NEW p \in Posts, Redelivered(p) PROVE Bagged' /\ OneWorks'
    <1> DEFINE e == <<p, CHOOSE k \in KindsOf(p) : TRUE>>
    <1>1. p \in posted /\ again' = again \cup {p} /\ events' = events (+) SetToBag({e})
          /\ UNCHANGED <<botKnown, posted, reacting, asked>>
        BY DEF Redelivered
    <1>2. IsABag(events') /\ \A d : Copies(d, events') = Copies(d, events) + (IF d \in {e} THEN 1 ELSE 0)
        BY <1>1, MoreInBag DEF Bagged
    <1>3. PICK k \in KindsOf(p) : e = <<p, k>> BY DEF KindsOf
    <1> HIDE DEF e
    <1>4. \A d : BagIn(d, events') <=> BagIn(d, events) \/ d = e BY <1>2, CountInBag DEF Bagged
    <1>5. Bagged' BY <1>1, <1>2, <1>3, <1>4 DEF Bagged
    <1>6. ASSUME NEW q \in Posts, botKnown, q \notin again' PROVE Progress(q)' <= 1
        <2>1. q # p /\ <<q, WantedKind(q)>> # e BY <1>1, <1>3, <1>6
        <2>2. Copies(<<q, WantedKind(q)>>, events') = Copies(<<q, WantedKind(q)>>, events) BY <1>2, <2>1, ProgressIs
        <2> QED BY <1>1, <1>6, <2>2 DEF OneWorks, Progress, WantedKind
    <1>7. ASSUME NEW q \in Posts, q \in (Mentions \ Direct) \cap posted'
          PROVE  BagIn(<<q, "app_mention">>, events') \/ BagIn(q, reacting') \/ BagIn(q, asked')
        BY <1>1, <1>4, <1>7 DEF OneWorks
    <1> QED BY <1>1, <1>5, <1>6, <1>7 DEF OneWorks

\* Of an event that is taken a reaction begins, if it is wanted.
LEMMA SocketKeeps ==
    ASSUME Bagged, OneWorks, NEW p \in Posts, NEW via \in {"message", "app_mention"}, OnSocketRequest(p, via)
    PROVE  Bagged' /\ OneWorks'
    <1> DEFINE e == <<p, via>>
    <1>1. BagIn(e, events) /\ events' = events (-) SetToBag({e})
          /\ reacting' = (IF Wanted(p, via) THEN reacting (+) SetToBag({p}) ELSE reacting)
          /\ UNCHANGED <<botKnown, posted, asked, again>>
        BY DEF OnSocketRequest
    <1>2. IsABag(events') /\ \A d : Copies(d, events') = Copies(d, events) - (IF d = e THEN 1 ELSE 0)
        BY <1>1, LessInBag DEF Bagged
    <1>3. IsABag(reacting') /\ \A d : Copies(d, reacting') = Copies(d, reacting) + (IF Wanted(p, via) /\ d = p THEN 1 ELSE 0)
        <2>1. CASE Wanted(p, via)
            <3>1. IsABag(reacting') /\ \A d : Copies(d, reacting') = Copies(d, reacting) + (IF d \in {p} THEN 1 ELSE 0)
                BY <1>1, <2>1, MoreInBag DEF Bagged
            <3> QED BY <2>1, <3>1
        <2>2. CASE ~Wanted(p, via)
            <3>1. \A d : Copies(d, reacting) \in Nat BY CountInBag DEF Bagged
            <3> QED BY <1>1, <2>2, <3>1 DEF Bagged
        <2> QED BY <2>1, <2>2
    <1>4. p \in posted /\ via \in KindsOf(p) BY <1>1 DEF Bagged
    <1>5. \A d : BagIn(d, events') => BagIn(d, events) BY <1>2, CountInBag DEF Bagged
    <1>6. \A d : d # e /\ BagIn(d, events) => BagIn(d, events') BY <1>2, CountInBag DEF Bagged
    <1>7. \A d : BagIn(d, reacting') <=> BagIn(d, reacting) \/ (Wanted(p, via) /\ d = p) BY <1>3, CountInBag DEF Bagged
    <1>8. Bagged' BY <1>1, <1>2, <1>3, <1>4, <1>5, <1>7 DEF Bagged
    <1>9. ASSUME NEW q \in Posts, botKnown, q \notin again PROVE Progress(q)' <= 1
        <2>1. Progress(q) <= 1 BY <1>9 DEF OneWorks
        <2>2. CASE q # p
            <3>1. <<q, WantedKind(q)>> # e BY <2>2
            <3>2. Copies(<<q, WantedKind(q)>>, events') = Copies(<<q, WantedKind(q)>>, events) /\ Copies(q, reacting') = Copies(q, reacting)
                BY <1>2, <1>3, <2>2, <3>1, ProgressIs
            <3> QED BY <1>1, <2>1, <3>2 DEF Progress, WantedKind
        <2>3. CASE q = p
            <3>1. Wanted(p, via) => via = WantedKind(p) BY <1>4, <1>9 DEF Wanted, WantedKind, KindsOf, ShouldRespond
            <3>2. CASE via = WantedKind(p)
                <4>1. Copies(<<p, WantedKind(p)>>, events') = Copies(<<p, WantedKind(p)>>, events) - 1 BY <1>2, <3>2
                <4>2. Copies(p, reacting) \in Nat BY ProgressIs
                <4>3. Copies(p, reacting') = Copies(p, reacting) + (IF Wanted(p, via) THEN 1 ELSE 0)
                    BY <1>3
                <4>4. Copies(p, reacting') <= Copies(p, reacting) + 1 BY <4>2, <4>3
                <4>5. Copies(<<p, WantedKind(p)>>, events') \in Nat /\ Copies(p, reacting') \in Nat
                    BY <1>2, <1>3, CountInBag
                <4> QED BY <1>1, <2>1, <2>3, <4>1, <4>4, <4>5, ProgressIs DEF Progress, WantedKind
            <3>3. CASE via # WantedKind(p)
                <4>1. Copies(<<p, WantedKind(p)>>, events') = Copies(<<p, WantedKind(p)>>, events) BY <1>2, <3>3, ProgressIs
                <4>2. Copies(p, reacting) \in Nat BY ProgressIs
                <4>3. Copies(p, reacting') = Copies(p, reacting) + (IF Wanted(p, via) THEN 1 ELSE 0)
                    BY <1>3
                <4>4. Copies(p, reacting') = Copies(p, reacting) BY <3>1, <3>3, <4>2, <4>3
                <4> QED BY <1>1, <2>1, <2>3, <4>1, <4>4 DEF Progress, WantedKind
            <3> QED BY <3>2, <3>3
        <2> QED BY <2>2, <2>3
    <1>10. ASSUME NEW q \in Posts, q \in (Mentions \ Direct) \cap posted
           PROVE  BagIn(<<q, "app_mention">>, events') \/ BagIn(q, reacting') \/ BagIn(q, asked')
        <2>1. CASE q = p /\ via = "app_mention"
            <3>1. Wanted(p, via) BY <2>1 DEF Wanted, ShouldRespond
            <3> QED BY <1>7, <2>1, <3>1
        <2>2. CASE ~(q = p /\ via = "app_mention")
            <3>1. <<q, "app_mention">> # e BY <2>2
            <3> QED BY <1>1, <1>6, <1>7, <1>10, <3>1 DEF OneWorks
        <2> QED BY <2>1, <2>2
    <1> QED BY <1>1, <1>8, <1>9, <1>10 DEF OneWorks

\* From awaiting its reaction a post goes to be asked: its progress stays what it was.
LEMMA AskedKeeps == ASSUME Bagged, OneWorks, NEW p \in Posts, PublishPost(p) PROVE Bagged' /\ OneWorks'
    <1>1. BagIn(p, reacting) /\ reacting' = reacting (-) SetToBag({p}) /\ asked' = asked (+) SetToBag({p})
          /\ UNCHANGED <<botKnown, events, posted, again>>
        BY DEF PublishPost
    <1>2. IsABag(reacting') /\ \A d : Copies(d, reacting') = Copies(d, reacting) - (IF d = p THEN 1 ELSE 0)
        BY <1>1, LessInBag DEF Bagged
    <1>3. IsABag(asked') /\ \A d : Copies(d, asked') = Copies(d, asked) + (IF d \in {p} THEN 1 ELSE 0)
        BY <1>1, MoreInBag DEF Bagged
    <1>4. \A d : BagIn(d, reacting') => BagIn(d, reacting) BY <1>2, CountInBag DEF Bagged
    <1>5. \A d : BagIn(d, asked') <=> BagIn(d, asked) \/ d = p BY <1>3, CountInBag DEF Bagged
    <1>6. \A d : d # p /\ BagIn(d, reacting) => BagIn(d, reacting') BY <1>2, CountInBag DEF Bagged
    <1>7. Bagged' BY <1>1, <1>2, <1>3, <1>4, <1>5 DEF Bagged
    <1>8. ASSUME NEW q \in Posts, botKnown, q \notin again PROVE Progress(q)' <= 1
        <2>1. Progress(q) <= 1 BY <1>8 DEF OneWorks
        <2>2. Copies(q, reacting) \in Nat /\ Copies(q, asked) \in Nat BY ProgressIs
        <2>3. Copies(q, reacting') = Copies(q, reacting) - (IF q = p THEN 1 ELSE 0) BY <1>2
        <2>4. Copies(q, asked') = Copies(q, asked) + (IF q = p THEN 1 ELSE 0) BY <1>3
        <2>5. Copies(q, reacting') + Copies(q, asked') = Copies(q, reacting) + Copies(q, asked)
            BY <2>2, <2>3, <2>4
        <2>6. Copies(q, reacting') \in Nat /\ Copies(q, asked') \in Nat BY <1>2, <1>3, CountInBag
        <2> QED BY <1>1, <2>1, <2>5, <2>6, ProgressIs DEF Progress, WantedKind
    <1>9. ASSUME NEW q \in Posts, q \in (Mentions \ Direct) \cap posted
          PROVE  BagIn(<<q, "app_mention">>, events') \/ BagIn(q, reacting') \/ BagIn(q, asked')
        BY <1>1, <1>5, <1>6, <1>9 DEF OneWorks
    <1> QED BY <1>1, <1>7, <1>8, <1>9 DEF OneWorks

\* Teams' steps: a reference goes into the file, or the conversation is marked as behind.
LEMMA TeamsKeep ==
    ASSUME RefsTyped, HeardHasRef,
           \/ \E a \in Activities : DoPost(a) \/ RefuseActivity(a) \/ HandleActivity(a)
           \/ \E c \in Convs : TeamsSend(c) \/ TeamsSent(c)
           \/ TeamsRestart
    PROVE  RefsTyped' /\ HeardHasRef' /\ UNCHANGED slackVars
    <1> USE DEF RefsTyped, HeardHasRef
    <1>1. ASSUME NEW a \in Activities, HandleActivity(a) PROVE RefsTyped' /\ HeardHasRef'
        <2> DEFINE c == ConvOf[a]
        <2>1. c \in Convs /\ a \in Nat /\ a # 0 BY WorkAssumption DEF Convs
        <2>2. heard' = heard \cup {c} /\ refs' = [refs EXCEPT ![c] = a] BY <1>1 DEF HandleActivity, SaveRefs
        <2> HIDE DEF c
        <2>3. CASE refsFile' = refs' /\ behind' = {d \in behind : refs'[d] = 0}
            <3>1. refs'[c] # 0 /\ \A d \in Convs : d # c => refs'[d] = refs[d] BY <2>1, <2>2
            <3> QED BY <2>1, <2>2, <2>3, <3>1
        <2>4. CASE behind' = behind \cup {c} /\ UNCHANGED refsFile
            BY <2>1, <2>2, <2>4
        <2>5. CASE behind' = Convs /\ refsFile' = NoRefs
            <3>1. NoRefs \in [Convs -> Nat] BY DEF NoRefs
            <3> QED BY <2>1, <2>2, <2>5, <3>1
        <2> QED BY <1>1, <2>3, <2>4, <2>5 DEF HandleActivity, SaveRefs, c
    <1>2. CASE TeamsRestart
        <2>1. CASE refs' = refsFile /\ UNCHANGED <<refsFile, behind>> BY <1>2, <2>1 DEF TeamsRestart
        <2>2. CASE refs' = NoRefs /\ refsFile' = NoRefs /\ behind' = Convs
            <3>1. NoRefs \in [Convs -> Nat] BY DEF NoRefs
            <3> QED BY <1>2, <2>2, <3>1 DEF TeamsRestart
        <2> QED BY <1>2, <2>1, <2>2 DEF TeamsRestart
    <1>3. ASSUME NEW a \in Activities, DoPost(a) \/ RefuseActivity(a) PROVE RefsTyped' /\ HeardHasRef'
        BY <1>3 DEF DoPost, RefuseActivity
    <1>4. ASSUME NEW c \in Convs, TeamsSend(c) \/ TeamsSent(c) PROVE RefsTyped' /\ HeardHasRef'
        BY <1>4 DEF TeamsSend, TeamsSent
    <1>5. UNCHANGED slackVars
        BY DEF DoPost, RefuseActivity, HandleActivity, TeamsSend, TeamsSent, TeamsRestart
    <1> QED BY <1>1, <1>2, <1>3, <1>4, <1>5

\* Of the two events of a post one is worked on, where the bot knows its own id and none came again,
\* and a mention is never left out; and a conversation that was heard can be answered, over restarts
\* too, by its last activity, unless a failed save or a death took the reference from the file: for
\* every number of posts and activities, and wherever a save fails.
THEOREM WorkKept == WorkSpec => []WorkSound
    <1>1. WorkInit => WorkInv
        <2> SUFFICES ASSUME WorkInit PROVE WorkInv OBVIOUS
        <2>1. IsABag(EmptyBag) /\ DOMAIN EmptyBag = {} BY DEF EmptyBag, SetToBag, IsABag
        <2>2. \A e : ~BagIn(e, EmptyBag) /\ Copies(e, EmptyBag) = 0 BY <2>1 DEF BagIn, BagToSet, Copies
        <2>3. Bagged BY <2>1, <2>2 DEF WorkInit, Bagged
        <2>4. OneWorks BY <2>2 DEF WorkInit, OneWorks, Progress
        <2>5. RefsTyped /\ HeardHasRef BY DEF WorkInit, NoRefs, RefsTyped, HeardHasRef
        <2> QED BY <2>3, <2>4, <2>5 DEF WorkInv
    <1>2. WorkInv /\ [WorkNext]_workVars => WorkInv'
        <2> SUFFICES ASSUME WorkInv, [WorkNext]_workVars PROVE WorkInv' OBVIOUS
        <2>1. Bagged /\ OneWorks /\ RefsTyped /\ HeardHasRef BY DEF WorkInv
        <2>2. ASSUME Bagged' /\ OneWorks', UNCHANGED teamsVars PROVE WorkInv'
            BY <2>1, <2>2 DEF WorkInv, RefsTyped, HeardHasRef, teamsVars
        <2>3. ASSUME RefsTyped' /\ HeardHasRef', UNCHANGED slackVars PROVE WorkInv'
            BY <2>1, <2>3 DEF WorkInv, Bagged, OneWorks, Progress, slackVars
        <2>4. ASSUME NEW p \in Posts, PostMade(p) \/ Redelivered(p) \/ PublishPost(p) PROVE WorkInv'
            <3>1. UNCHANGED teamsVars BY <2>4 DEF PostMade, Redelivered, PublishPost
            <3> QED BY <2>1, <2>2, <2>4, <3>1, PostMadeKeeps, RedeliveredKeeps, AskedKeeps
        <2>5. ASSUME NEW p \in Posts, SlackReply(p) PROVE WorkInv'
            BY <2>1, <2>5 DEF SlackReply, WorkInv, Bagged, OneWorks, Progress, RefsTyped, HeardHasRef, teamsVars
        <2>6. ASSUME NEW p \in Posts, NEW via \in {"message", "app_mention"}, OnSocketRequest(p, via) PROVE WorkInv'
            <3>1. UNCHANGED teamsVars BY <2>6 DEF OnSocketRequest
            <3> QED BY <2>1, <2>2, <2>6, <3>1, SocketKeeps
        <2>7. CASE \/ \E a \in Activities : DoPost(a) \/ RefuseActivity(a) \/ HandleActivity(a)
                   \/ \E c \in Convs : TeamsSend(c) \/ TeamsSent(c)
                   \/ TeamsRestart
            BY <2>1, <2>3, <2>7, TeamsKeep
        <2>8. CASE UNCHANGED workVars
            BY <2>1, <2>8 DEF workVars, slackVars, teamsVars, WorkInv, Bagged, OneWorks, Progress, RefsTyped, HeardHasRef
        <2> QED BY <2>4, <2>5, <2>6, <2>7, <2>8 DEF WorkNext
    <1>3. WorkInv => WorkSound
        <2> SUFFICES ASSUME WorkInv, NEW p \in Posts
                     PROVE  /\ botKnown /\ p \notin again => Copies(p, reacting) + Copies(p, asked) <= 1
                            /\ p \in Mentions \ Direct /\ p \in posted /\ ~(\E k \in KindsOf(p) : BagIn(<<p, k>>, events))
                               => BagIn(p, reacting) \/ BagIn(p, asked)
            BY DEF WorkSound, WorkInv, PostOnce
        <2>1. botKnown /\ p \notin again => Copies(p, reacting) + Copies(p, asked) <= 1
            <3>1. Bagged BY DEF WorkInv
            <3>2. /\ Copies(<<p, WantedKind(p)>>, events) \in Nat
                  /\ Copies(p, reacting) \in Nat /\ Copies(p, asked) \in Nat
                BY <3>1, ProgressIs
            <3>3. botKnown /\ p \notin again => Progress(p) <= 1 BY DEF WorkInv, OneWorks
            <3> QED BY <3>2, <3>3 DEF Progress
        <2>2. p \in Mentions \ Direct => "app_mention" \in KindsOf(p) BY DEF KindsOf
        <2> QED BY <2>1, <2>2 DEF WorkInv, OneWorks
    <1> QED BY <1>1, <1>2, <1>3, PTL DEF WorkSpec

----------------------------------------------------------------------------
(* Telegram: the turns of a session in the order of its messages. *)

\* Where an update may be: staged, in the batch of a worker, in its hands, in an album, in a turn.
InStage(k) == ToSet(staged[k])
InBatch(k) == ToSet(batch[k])
InHand(k) == {handling[k]} \ {NoUpdate}
InAlbum(k) == ToSet(album[k])
Published == UNION ToSet(turns)

\* What each variable may hold.
IngressTyped ==
    /\ alive \in BOOLEAN /\ arrived \subseteq Updates
    /\ staged \in [Keys -> Seq(Updates)] /\ batch \in [Keys -> Seq(Updates)] /\ album \in [Keys -> Seq(Updates)]
    /\ handling \in [Keys -> Updates \cup {NoUpdate}] /\ worker \in [Keys -> {"none", "asleep", "busy"}]
    /\ turns \in Seq(SUBSET Updates)

\* An update is with its own session, and in an album only if it is a part of one.
Homed ==
    /\ Published \subseteq arrived
    /\ \A k \in Keys :
          /\ \A u \in InStage(k) \cup InBatch(k) \cup InHand(k) \cup InAlbum(k) : u \in arrived /\ KeyOfUpdate[u] = k
          /\ \A u \in InAlbum(k) : KindOf[u] = "part"

\* A worker that is not at a batch has none, and a channel that has stopped has no worker.
AtRest ==
    \A k \in Keys : /\ worker[k] # "busy" => batch[k] = <<>> /\ handling[k] = NoUpdate
                    /\ ~alive => staged[k] = <<>> /\ worker[k] = "none"

\* Those of S are none of those of T, and come after them, but for those that arrived late.
Behind(S, T, k) == S \cap T = {} /\ \A u \in S, v \in T : KeyOfUpdate[v] = k /\ u < v => u \in late

\* The places of a session in their order.
InLine(k) ==
    /\ Behind(InStage(k), InBatch(k) \cup InHand(k) \cup InAlbum(k) \cup Published, k)
    /\ Behind(InBatch(k), InHand(k) \cup InAlbum(k) \cup Published, k)
    /\ Behind(InHand(k), InAlbum(k) \cup Published, k)
    /\ InAlbum(k) \cap Published = {}
    /\ \A i, j \in DOMAIN batch[k] : i < j => batch[k][i] < batch[k][j]

\* The turns so far are in order.
TurnOrder ==
    \A i, j \in DOMAIN turns : \A u \in turns[i], v \in turns[j] :
        /\ u = v => i = j
        /\ KeyOfUpdate[u] = KeyOfUpdate[v] /\ u < v /\ u \notin late /\ v \notin late /\ KindOf[u] # "part" => i < j

\* The invariant: an update is in one place of its session, and the places are in order.
IngressInv == IngressTyped /\ Homed /\ AtRest /\ (\A k \in Keys : InLine(k)) /\ TurnOrder

\* A session that a step does not touch keeps its line.
LEMMA LineKept ==
    ASSUME NEW k \in Keys, InLine(k), Homed, late \subseteq late',
           staged'[k] = staged[k], batch'[k] = batch[k], handling'[k] = handling[k], album'[k] = album[k],
           NEW X, Published' = Published \cup X, \A u \in X : KeyOfUpdate[u] # k
    PROVE  InLine(k)'
    <1>1. /\ InStage(k)' = InStage(k) /\ InBatch(k)' = InBatch(k) /\ InHand(k)' = InHand(k) /\ InAlbum(k)' = InAlbum(k)
        BY DEF InStage, InBatch, InHand, InAlbum
    <1>2. \A u \in InStage(k) \cup InBatch(k) \cup InHand(k) \cup InAlbum(k) : KeyOfUpdate[u] = k BY DEF Homed
    <1>3. \A u \in Published' : KeyOfUpdate[u] = k => u \in Published OBVIOUS
    <1>4. Behind(InStage(k), InBatch(k) \cup InHand(k) \cup InAlbum(k) \cup Published, k)'
        BY <1>1, <1>2, <1>3 DEF Behind, InLine
    <1>5. Behind(InBatch(k), InHand(k) \cup InAlbum(k) \cup Published, k)' BY <1>1, <1>2, <1>3 DEF Behind, InLine
    <1>6. Behind(InHand(k), InAlbum(k) \cup Published, k)' BY <1>1, <1>2, <1>3 DEF Behind, InLine
    <1>7. (InAlbum(k) \cap Published = {})' BY <1>1, <1>2, <1>3 DEF InLine
    <1>8. \A i, j \in DOMAIN batch'[k] : i < j => batch'[k][i] < batch'[k][j] BY DEF InLine
    <1> QED BY <1>4, <1>5, <1>6, <1>7, <1>8 DEF InLine

\* Nothing is published: the line is as it was.
LEMMA LineStill ==
    ASSUME NEW k \in Keys, InLine(k), Homed, late \subseteq late', Published' = Published,
           staged'[k] = staged[k], batch'[k] = batch[k], handling'[k] = handling[k], album'[k] = album[k]
    PROVE  InLine(k)'
    <1> DEFINE X == {}
    <1>1. Published' = Published \cup X /\ \A u \in X : KeyOfUpdate[u] # k OBVIOUS
    <1> HIDE DEF X
    <1> QED BY <1>1, LineKept

\* A turn is added: none of its updates is in one before, and those of it that should have come
\* before an earlier turn were late, or are parts of an album.
LEMMA TurnAdded ==
    ASSUME IngressTyped, TurnOrder, late \subseteq late', NEW X \in SUBSET Updates, turns' = Append(turns, X),
           X \cap Published = {},
           \A u \in X, v \in Published \cup X :
               KeyOfUpdate[u] = KeyOfUpdate[v] /\ u < v => u \in late' \/ v \in late' \/ KindOf[u] = "part"
    PROVE  turns' \in Seq(SUBSET Updates) /\ TurnOrder' /\ Published' = Published \cup X
    <1>1. turns \in Seq(SUBSET Updates) BY DEF IngressTyped
    <1>2. /\ turns' \in Seq(SUBSET Updates) /\ Len(turns) \in Nat /\ DOMAIN turns = 1..Len(turns)
          /\ DOMAIN turns' = 1..(Len(turns) + 1) /\ turns'[Len(turns) + 1] = X
          /\ \A i \in 1..Len(turns) : turns'[i] = turns[i]
        BY <1>1
    <1>3. \A i \in DOMAIN turns' : i = Len(turns) + 1 \/ (i \in DOMAIN turns /\ i < Len(turns) + 1) BY <1>2
    <1>4. Published' = Published \cup X
        <2>1. ToSet(turns') = ToSet(turns) \cup {X} BY <1>1, ToSetAppend
        <2> QED BY <2>1 DEF Published
    <1>5. \A i \in DOMAIN turns : turns[i] \subseteq Published BY DEF Published, ToSet
    <1>6. TurnOrder'
        <2> SUFFICES ASSUME NEW i \in DOMAIN turns', NEW j \in DOMAIN turns', NEW u \in turns'[i], NEW v \in turns'[j]
                     PROVE  /\ u = v => i = j
                            /\ KeyOfUpdate[u] = KeyOfUpdate[v] /\ u < v /\ u \notin late' /\ v \notin late'
                               /\ KindOf[u] # "part" => i < j
            BY DEF TurnOrder
        <2>1. CASE i \in DOMAIN turns /\ j \in DOMAIN turns
            <3>1. u \in turns[i] /\ v \in turns[j] BY <1>2, <2>1
            <3> QED BY <2>1, <3>1 DEF TurnOrder
        <2>2. CASE i \in DOMAIN turns /\ i < Len(turns) + 1 /\ j = Len(turns) + 1
            <3>1. u \in Published /\ v \in X BY <1>2, <1>5, <2>2
            <3> QED BY <2>2, <3>1
        <2>3. CASE i = Len(turns) + 1 /\ j \in DOMAIN turns
            <3>1. u \in X /\ v \in Published BY <1>2, <1>5, <2>3
            <3> QED BY <3>1
        <2>4. CASE i = Len(turns) + 1 /\ j = Len(turns) + 1
            <3>1. u \in X /\ v \in X BY <1>2, <2>4
            <3> QED BY <2>4, <3>1
        <2> QED BY <1>3, <2>1, <2>2, <2>3, <2>4
    <1> QED BY <1>2, <1>4, <1>6

\* Fewer may be wrong when more have come late.
LEMMA TurnsLater == ASSUME TurnOrder, late \subseteq late', UNCHANGED turns PROVE TurnOrder' /\ Published' = Published
    BY DEF TurnOrder, Published

\* An update arrives: whatever was taken up after it makes it late.
LEMMA StageKeeps == ASSUME IngressInv, IngressAssumption, NEW u \in Updates, Stage(u) PROVE IngressInv'
    <1> DEFINE k == KeyOfUpdate[u]
               full == Len(staged[k]) >= MaxStaged
               rest == IF full THEN Tail(staged[k]) ELSE staged[k]
    <1>1. /\ u \notin arrived /\ arrived' = arrived \cup {u} /\ alive
          /\ staged' = [staged EXCEPT ![k] = Append(rest, u)]
          /\ worker' = IF worker[k] = "none" THEN [worker EXCEPT ![k] = "asleep"] ELSE worker
          /\ late' = IF \E v \in Taken(k) : v > u /\ KeyOfUpdate[v] = k THEN late \cup {u} ELSE late
          /\ UNCHANGED <<alive, batch, handling, album, turns>>
        BY DEF Stage
    <1>2. IngressTyped /\ Homed /\ AtRest /\ (\A c \in Keys : InLine(c)) /\ TurnOrder BY DEF IngressInv
    <1>3. k \in Keys BY DEF Keys
    <1>4. staged[k] \in Seq(Updates) BY <1>2, <1>3 DEF IngressTyped
    <1>5. rest \in Seq(Updates) /\ ToSet(rest) \subseteq ToSet(staged[k])
        <2>1. CASE full
            <3>1. staged[k] # <<>>
                <4>1. MaxStaged > 0 /\ MaxStaged \in Nat BY DEF IngressAssumption
                <4> QED BY <1>4, <2>1, <4>1
            <3>2. rest = Tail(staged[k]) BY <2>1
            <3> HIDE DEF rest
            <3> QED BY <1>4, <3>1, <3>2, ToSetTail
        <2>2. CASE ~full BY <1>4, <2>2
        <2> QED BY <2>1, <2>2
    <1> HIDE DEF rest
    <1>6. staged'[k] = Append(rest, u) /\ \A c \in Keys \ {k} : staged'[c] = staged[c]
        <2> HIDE DEF k
        <2> QED BY <1>1, <1>2, <1>3 DEF IngressTyped
    <1>7. staged'[k] \in Seq(Updates) /\ ToSet(staged'[k]) \subseteq ToSet(staged[k]) \cup {u}
        <2>1. Append(rest, u) \in Seq(Updates) /\ ToSet(Append(rest, u)) = ToSet(rest) \cup {u} BY <1>5, ToSetAppend
        <2> QED BY <1>5, <1>6, <2>1
    <1> HIDE DEF k
    <1>8. late \subseteq late' BY <1>1
    <1>9. IngressTyped'
        <2>1. staged' \in [Keys -> Seq(Updates)]
            <3>1. Append(rest, u) \in Seq(Updates) BY <1>6, <1>7
            <3> QED BY <1>1, <1>2, <1>3, <3>1 DEF IngressTyped
        <2>2. worker' \in [Keys -> {"none", "asleep", "busy"}] BY <1>1, <1>2 DEF IngressTyped
        <2> QED BY <1>1, <1>2, <2>1, <2>2 DEF IngressTyped
    <1>10. \A c \in Keys : /\ InBatch(c)' = InBatch(c) /\ InHand(c)' = InHand(c) /\ InAlbum(c)' = InAlbum(c)
                           /\ InStage(c)' \subseteq InStage(c) \cup (IF c = k THEN {u} ELSE {})
        BY <1>1, <1>6, <1>7 DEF InBatch, InHand, InAlbum, InStage
    <1>11. TurnOrder' /\ Published' = Published BY <1>1, <1>2, <1>8, TurnsLater
    <1>12. KeyOfUpdate[u] = k BY DEF k
    <1>13. Homed'
        <2>1. Published' \subseteq arrived' BY <1>1, <1>2, <1>11 DEF Homed
        <2>2. \A c \in Keys :
                 /\ \A w \in InStage(c)' \cup InBatch(c)' \cup InHand(c)' \cup InAlbum(c)' :
                        w \in arrived' /\ KeyOfUpdate[w] = c
                 /\ \A w \in InAlbum(c)' : KindOf[w] = "part"
            BY <1>1, <1>2, <1>10, <1>12 DEF Homed
        <2> QED BY <2>1, <2>2 DEF Homed
    <1>14. AtRest'
        <2>1. \A c \in Keys : worker'[c] # "busy" => worker[c] # "busy" BY <1>1, <1>2, <1>3 DEF IngressTyped
        <2> QED BY <1>1, <1>2, <2>1 DEF AtRest
    <1>15. ASSUME NEW c \in Keys PROVE InLine(c)'
        <2>1. CASE c # k
            <3>1. Published' = Published /\ InLine(c) /\ Homed BY <1>11, <1>2
            <3>2. staged'[c] = staged[c] /\ batch'[c] = batch[c] /\ handling'[c] = handling[c] /\ album'[c] = album[c]
                BY <1>1, <1>6, <2>1
            <3> QED BY <1>8, <3>1, <3>2, LineStill
        <2>2. CASE c = k
            <3> DEFINE T == InBatch(k) \cup InHand(k) \cup InAlbum(k) \cup Published
            <3>1. InLine(k) BY <1>2, <1>3
            <3>2. T' = T BY <1>3, <1>10, <1>11
            <3>3. u \notin T BY <1>1, <1>2, <1>3 DEF Homed
            <3>4. T \subseteq Taken(k) BY DEF Taken, InBatch, InHand, InAlbum, Published
            <3>5. \A v \in T : KeyOfUpdate[v] = k /\ u < v => u \in late'
                <4>1. \A v \in T : v \in Updates /\ v \in Nat
                    BY <1>2, <1>3 DEF Homed, IngressTyped, IngressAssumption
                <4>2. u \in Nat BY DEF IngressAssumption
                <4> HIDE DEF T
                <4> QED BY <1>1, <3>4, <4>1, <4>2
            <3>6. Behind(InStage(k), T, k) BY <3>1 DEF InLine
            <3>7. InStage(k)' \subseteq InStage(k) \cup {u} BY <1>3, <1>10
            <3> HIDE DEF T
            <3>8. Behind(InStage(k), T, k)' BY <1>8, <3>2, <3>3, <3>5, <3>6, <3>7 DEF Behind
            <3> USE DEF T
            <3>9. /\ Behind(InBatch(k), InHand(k) \cup InAlbum(k) \cup Published, k)'
                  /\ Behind(InHand(k), InAlbum(k) \cup Published, k)'
                  /\ (InAlbum(k) \cap Published = {})'
                BY <1>3, <1>8, <1>10, <1>11, <3>1 DEF InLine, Behind
            <3>10. \A i, j \in DOMAIN batch'[k] : i < j => batch'[k][i] < batch'[k][j] BY <1>1, <3>1 DEF InLine
            <3> QED BY <2>2, <3>8, <3>9, <3>10 DEF InLine
        <2> QED BY <2>1, <2>2
    <1> QED BY <1>9, <1>11, <1>13, <1>14, <1>15 DEF IngressInv

\* What was staged is the batch, sorted.
LEMMA WakeKeeps == ASSUME IngressInv, NEW k \in Keys, WakeWorker(k) PROVE IngressInv'
    <1>1. PICK b \in InIdOrder(staged[k]) : batch' = [batch EXCEPT ![k] = b] BY DEF WakeWorker
    <1>2. /\ worker[k] = "asleep"
          /\ worker' = [worker EXCEPT ![k] = IF staged[k] = <<>> THEN "none" ELSE "busy"]
          /\ staged' = [staged EXCEPT ![k] = <<>>]
          /\ UNCHANGED <<alive, arrived, handling, album, turns, late>>
        BY DEF WakeWorker
    <1>3. IngressTyped /\ Homed /\ AtRest /\ (\A c \in Keys : InLine(c)) /\ TurnOrder BY DEF IngressInv
    <1>4. staged[k] \in Seq(Updates) BY <1>3 DEF IngressTyped
    <1>5. b \in Seq(Updates) /\ ToSet(b) = InStage(k) /\ \A i, j \in DOMAIN b : i < j => b[i] < b[j]
        <2>1. b \in [DOMAIN staged[k] -> ToSet(staged[k])] BY DEF InIdOrder
        <2>2. ToSet(staged[k]) \subseteq Updates /\ DOMAIN staged[k] = 1..Len(staged[k]) /\ Len(staged[k]) \in Nat
            BY <1>4 DEF ToSet
        <2>3. b \in [1..Len(staged[k]) -> Updates] BY <2>1, <2>2
        <2>4. b \in Seq(Updates) BY <2>2, <2>3
        <2> QED BY <2>4 DEF InIdOrder, InStage
    <1>6. /\ staged'[k] = <<>> /\ batch'[k] = b
          /\ \A c \in Keys \ {k} : staged'[c] = staged[c] /\ batch'[c] = batch[c]
        BY <1>1, <1>2, <1>3 DEF IngressTyped
    <1>7. batch[k] = <<>> /\ handling[k] = NoUpdate BY <1>2, <1>3 DEF AtRest
    <1>8. TurnOrder' /\ Published' = Published BY <1>2, <1>3, TurnsLater
    <1>9. /\ InStage(k)' = {} /\ InBatch(k)' = InStage(k) /\ InHand(k)' = {} /\ InAlbum(k)' = InAlbum(k)
        <2>1. InStage(k)' = {} BY <1>6 DEF InStage, ToSet
        <2>2. InBatch(k)' = InStage(k) BY <1>5, <1>6 DEF InBatch
        <2>3. InHand(k)' = {} BY <1>2, <1>7 DEF InHand
        <2>4. InAlbum(k)' = InAlbum(k) BY <1>2 DEF InAlbum
        <2> QED BY <2>1, <2>2, <2>3, <2>4
    <1>10. \A c \in Keys \ {k} : /\ InStage(c)' = InStage(c) /\ InBatch(c)' = InBatch(c)
                                 /\ InHand(c)' = InHand(c) /\ InAlbum(c)' = InAlbum(c)
        BY <1>2, <1>6 DEF InStage, InBatch, InHand, InAlbum
    <1>11. IngressTyped'
        <2>1. <<>> \in Seq(Updates) OBVIOUS
        <2>2. staged' \in [Keys -> Seq(Updates)] BY <1>2, <1>3, <2>1 DEF IngressTyped
        <2>3. batch' \in [Keys -> Seq(Updates)] BY <1>1, <1>3, <1>5 DEF IngressTyped
        <2>4. worker' \in [Keys -> {"none", "asleep", "busy"}] BY <1>2, <1>3 DEF IngressTyped
        <2> QED BY <1>2, <1>3, <2>2, <2>3, <2>4 DEF IngressTyped
    <1>12. Homed'
        <2>1. Published' \subseteq arrived' BY <1>2, <1>3, <1>8 DEF Homed
        <2>2. ASSUME NEW c \in Keys
              PROVE  /\ \A w \in InStage(c)' \cup InBatch(c)' \cup InHand(c)' \cup InAlbum(c)' :
                            w \in arrived' /\ KeyOfUpdate[w] = c
                     /\ \A w \in InAlbum(c)' : KindOf[w] = "part"
            <3>1. CASE c = k BY <1>2, <1>3, <1>9, <3>1 DEF Homed
            <3>2. CASE c # k BY <1>2, <1>3, <1>10, <3>2 DEF Homed
            <3> QED BY <3>1, <3>2
        <2> QED BY <2>1, <2>2 DEF Homed
    <1>13. AtRest'
        <2> SUFFICES ASSUME NEW c \in Keys
                     PROVE  /\ worker'[c] # "busy" => batch'[c] = <<>> /\ handling'[c] = NoUpdate
                            /\ ~alive' => staged'[c] = <<>> /\ worker'[c] = "none"
            BY DEF AtRest
        <2>1. CASE c # k
            <3>1. worker'[c] = worker[c] BY <1>2, <1>3, <2>1 DEF IngressTyped
            <3> QED BY <1>2, <1>3, <1>6, <2>1, <3>1 DEF AtRest
        <2>2. CASE c = k
            <3>1. alive BY <1>2, <1>3 DEF AtRest
            <3>2. worker'[k] # "busy" => staged[k] = <<>> BY <1>2, <1>3 DEF IngressTyped
            <3>3. staged[k] = <<>> => b = <<>>
                <4> SUFFICES ASSUME staged[k] = <<>> PROVE b = <<>> OBVIOUS
                <4>1. b \in [DOMAIN staged[k] -> ToSet(staged[k])] BY DEF InIdOrder
                <4>2. DOMAIN b = {} BY <4>1
                <4>3. Len(b) = 0 /\ b \in Seq(Updates) BY <1>5, <4>2
                <4> QED BY <4>3
            <3> QED BY <1>2, <1>6, <1>7, <2>2, <3>1, <3>2, <3>3
        <2> QED BY <2>1, <2>2
    <1>14. ASSUME NEW c \in Keys PROVE InLine(c)'
        <2>1. CASE c # k
            <3>1. Published' = Published /\ InLine(c) /\ Homed BY <1>8, <1>3
            <3>2. staged'[c] = staged[c] /\ batch'[c] = batch[c] /\ handling'[c] = handling[c] /\ album'[c] = album[c]
                BY <1>2, <1>6, <2>1
            <3>3. late \subseteq late' BY <1>2
            <3> QED BY <3>1, <3>2, <3>3, LineStill
        <2>2. CASE c = k
            <3>1. InLine(k) BY <1>3
            <3>2. \A i, j \in DOMAIN batch'[k] : i < j => batch'[k][i] < batch'[k][j] BY <1>5, <1>6
            <3>3. /\ Behind(InStage(k), InBatch(k) \cup InHand(k) \cup InAlbum(k) \cup Published, k)'
                  /\ Behind(InBatch(k), InHand(k) \cup InAlbum(k) \cup Published, k)'
                  /\ Behind(InHand(k), InAlbum(k) \cup Published, k)'
                  /\ (InAlbum(k) \cap Published = {})'
                BY <1>2, <1>8, <1>9, <3>1 DEF InLine, Behind
            <3> QED BY <2>2, <3>2, <3>3 DEF InLine
        <2> QED BY <2>1, <2>2
    <1> QED BY <1>8, <1>11, <1>12, <1>13, <1>14 DEF IngressInv

\* The first of the batch, which comes before the others of it, is taken up.
LEMMA HandleNextKeeps == ASSUME IngressInv, NEW k \in Keys, HandleNext(k) PROVE IngressInv'
    <1>1. /\ worker[k] = "busy" /\ handling[k] = NoUpdate
          /\ UNCHANGED <<alive, arrived, staged, album, turns, late>>
        BY DEF HandleNext
    <1>2. IngressTyped /\ Homed /\ AtRest /\ (\A c \in Keys : InLine(c)) /\ TurnOrder BY DEF IngressInv
    <1>3. batch[k] \in Seq(Updates) BY <1>2 DEF IngressTyped
    <1>4. TurnOrder' /\ Published' = Published BY <1>1, <1>2, TurnsLater
    <1>5. CASE batch[k] = <<>>
        <2>1. worker' = [worker EXCEPT ![k] = "asleep"] /\ batch' = batch /\ handling' = handling BY <1>5 DEF HandleNext
        <2>2. IngressTyped' BY <1>1, <1>2, <2>1 DEF IngressTyped
        <2>3. Homed' BY <1>1, <1>2, <1>4, <2>1 DEF Homed, InStage, InBatch, InHand, InAlbum
        <2>4. AtRest'
            <3>1. alive BY <1>1, <1>2 DEF AtRest
            <3>2. \A c \in Keys \ {k} : worker'[c] = worker[c] BY <1>2, <2>1 DEF IngressTyped
            <3> QED BY <1>1, <1>2, <1>5, <2>1, <3>1, <3>2 DEF AtRest
        <2>5. ASSUME NEW c \in Keys PROVE InLine(c)'
            <3>1. InLine(c) /\ Homed /\ late \subseteq late' BY <1>1, <1>2
            <3>2. staged'[c] = staged[c] /\ batch'[c] = batch[c] /\ handling'[c] = handling[c] /\ album'[c] = album[c]
                BY <1>1, <2>1
            <3> QED BY <1>4, <3>1, <3>2, LineStill
        <2> QED BY <1>4, <2>2, <2>3, <2>4, <2>5 DEF IngressInv
    <1>6. CASE batch[k] # <<>>
        <2> DEFINE h == Head(batch[k])
                   rest == Tail(batch[k])
        <2>1. /\ worker' = worker /\ handling' = [handling EXCEPT ![k] = h]
              /\ batch' = [batch EXCEPT ![k] = rest]
            BY <1>6 DEF HandleNext
        <2>2. rest \in Seq(Updates) /\ h \in Updates /\ ToSet(batch[k]) = ToSet(rest) \cup {h} BY <1>3, <1>6, ToSetTail
        <2>3. \A i, j \in DOMAIN batch[k] : i < j => batch[k][i] < batch[k][j] BY <1>2 DEF InLine
        <2>4. /\ Len(batch[k]) \in Nat /\ Len(batch[k]) >= 1 /\ DOMAIN batch[k] = 1..Len(batch[k])
              /\ DOMAIN rest = 1..(Len(batch[k]) - 1) /\ \A i \in DOMAIN rest : rest[i] = batch[k][i + 1]
              /\ h = batch[k][1]
            BY <1>3, <1>6
        <2> HIDE DEF h, rest
        <2>5. \A i, j \in DOMAIN rest : i < j => rest[i] < rest[j]
            <3> SUFFICES ASSUME NEW i \in DOMAIN rest, NEW j \in DOMAIN rest, i < j PROVE rest[i] < rest[j] OBVIOUS
            <3>1. i + 1 \in DOMAIN batch[k] /\ j + 1 \in DOMAIN batch[k] /\ i + 1 < j + 1 BY <2>4
            <3>2. batch[k][i + 1] < batch[k][j + 1] BY <2>3, <3>1
            <3> QED BY <2>4, <3>2
        <2>6. \A v \in ToSet(rest) : h < v
            <3> SUFFICES ASSUME NEW v \in ToSet(rest) PROVE h < v OBVIOUS
            <3>1. PICK i \in DOMAIN rest : v = rest[i] BY DEF ToSet
            <3>2. 1 \in DOMAIN batch[k] /\ i + 1 \in DOMAIN batch[k] /\ 1 < i + 1 BY <2>4
            <3>3. batch[k][1] < batch[k][i + 1] BY <2>3, <3>2
            <3> QED BY <2>4, <3>1, <3>3
        <2>7. /\ batch'[k] = rest /\ handling'[k] = h
              /\ \A c \in Keys \ {k} : handling'[c] = handling[c] /\ batch'[c] = batch[c]
            BY <1>2, <2>1 DEF IngressTyped
        <2>8. /\ InStage(k)' = InStage(k) /\ InAlbum(k)' = InAlbum(k) /\ InBatch(k)' = ToSet(rest)
              /\ InHand(k)' \subseteq {h} /\ InBatch(k) = InBatch(k)' \cup {h}
            BY <1>1, <2>2, <2>7 DEF InStage, InAlbum, InBatch, InHand
        <2>9. \A c \in Keys \ {k} : /\ InStage(c)' = InStage(c) /\ InBatch(c)' = InBatch(c)
                                     /\ InHand(c)' = InHand(c) /\ InAlbum(c)' = InAlbum(c)
            BY <1>1, <2>7 DEF InStage, InBatch, InHand, InAlbum
        <2>10. IngressTyped'
            <3>1. batch' \in [Keys -> Seq(Updates)] BY <1>2, <2>1, <2>2 DEF IngressTyped
            <3>2. handling' \in [Keys -> Updates \cup {NoUpdate}] BY <1>2, <2>1, <2>2 DEF IngressTyped
            <3> QED BY <1>1, <1>2, <2>1, <3>1, <3>2 DEF IngressTyped
        <2>11. Homed'
            <3>1. Published' \subseteq arrived' BY <1>1, <1>2, <1>4 DEF Homed
            <3>2. ASSUME NEW c \in Keys
                  PROVE  /\ \A w \in InStage(c)' \cup InBatch(c)' \cup InHand(c)' \cup InAlbum(c)' :
                                w \in arrived' /\ KeyOfUpdate[w] = c
                         /\ \A w \in InAlbum(c)' : KindOf[w] = "part"
                <4>1. CASE c = k BY <1>1, <1>2, <2>8, <4>1 DEF Homed
                <4>2. CASE c # k BY <1>1, <1>2, <2>9, <4>2 DEF Homed
                <4> QED BY <4>1, <4>2
            <3> QED BY <3>1, <3>2 DEF Homed
        <2>12. AtRest'
            <3> SUFFICES ASSUME NEW c \in Keys
                         PROVE  /\ worker'[c] # "busy" => batch'[c] = <<>> /\ handling'[c] = NoUpdate
                                /\ ~alive' => staged'[c] = <<>> /\ worker'[c] = "none"
                BY DEF AtRest
            <3>1. CASE c = k BY <1>1, <1>2, <2>1, <3>1 DEF AtRest
            <3>2. CASE c # k BY <1>1, <1>2, <2>1, <2>7, <3>2 DEF AtRest
            <3> QED BY <3>1, <3>2
        <2>13. ASSUME NEW c \in Keys PROVE InLine(c)'
            <3>1. CASE c # k
                <4>1. InLine(c) /\ Homed /\ late \subseteq late' BY <1>1, <1>2
                <4>2. staged'[c] = staged[c] /\ batch'[c] = batch[c] /\ handling'[c] = handling[c] /\ album'[c] = album[c]
                    BY <1>1, <2>7, <3>1
                <4> QED BY <1>4, <4>1, <4>2, LineStill
            <3>2. CASE c = k
                <4>1. InLine(k) BY <1>2
                <4>2. \A i, j \in DOMAIN batch'[k] : i < j => batch'[k][i] < batch'[k][j] BY <2>5, <2>7
                <4>3. \A v \in InBatch(k)' : h < v /\ v # h /\ ~(v < h)
                    <5>1. \A v \in Updates : v \in Nat BY IngressAssumption DEF IngressAssumption
                    <5>2. \A v \in ToSet(rest) : v \in Updates BY <2>2 DEF ToSet
                    <5> QED BY <2>2, <2>6, <2>8, <5>1, <5>2
                <4> DEFINE T == InAlbum(k) \cup Published
                <4>4. T' = T BY <1>4, <2>8
                <4>5. /\ Behind(InStage(k), InBatch(k) \cup InHand(k) \cup T, k)
                      /\ Behind(InBatch(k), InHand(k) \cup T, k)
                    BY <4>1 DEF InLine, Behind
                <4>6. (InAlbum(k) \cap Published = {})' BY <1>4, <2>8, <4>1 DEF InLine
                <4> HIDE DEF T
                <4>7. Behind(InStage(k), InBatch(k) \cup InHand(k) \cup T, k)' BY <1>1, <2>8, <4>4, <4>5 DEF Behind
                <4>8. Behind(InBatch(k), InHand(k) \cup T, k)' BY <1>1, <2>8, <4>3, <4>4, <4>5 DEF Behind
                <4>9. Behind(InHand(k), T, k)' BY <1>1, <2>8, <4>4, <4>5 DEF Behind
                <4> USE DEF T
                <4>10. /\ Behind(InStage(k), InBatch(k) \cup InHand(k) \cup InAlbum(k) \cup Published, k)'
                       /\ Behind(InBatch(k), InHand(k) \cup InAlbum(k) \cup Published, k)'
                    BY <4>7, <4>8 DEF Behind
                <4> QED BY <3>2, <4>2, <4>6, <4>9, <4>10 DEF InLine
            <3> QED BY <3>1, <3>2
        <2> QED BY <1>4, <2>10, <2>11, <2>12, <2>13 DEF IngressInv
    <1> QED BY <1>5, <1>6

\* A message that is handled: it is published, or a part of the album, or neither.
LEMMA ProcessMoves ==
    ASSUME IngressTyped, TurnOrder, IngressAssumption, NEW k \in Keys, NEW u \in Updates, Process(u, k),
           late \subseteq late', u \notin Published,
           \A v \in Published : KeyOfUpdate[v] = KeyOfUpdate[u] /\ u < v => u \in late'
    PROVE  /\ turns' \in Seq(SUBSET Updates) /\ TurnOrder'
           /\ album' \in [Keys -> Seq(Updates)] /\ \A c \in Keys \ {k} : album'[c] = album[c]
           /\ \/ Published' = Published \cup {u} /\ album' = album
              \/ Published' = Published /\ InAlbum(k)' = InAlbum(k) \cup {u} /\ KindOf[u] = "part"
              \/ Published' = Published /\ album' = album
    <1>1. CASE turns' = Append(turns, {u}) /\ album' = album
        <2> DEFINE X == {u}
        <2>1. X \in SUBSET Updates /\ X \cap Published = {} /\ turns' = Append(turns, X) BY <1>1
        <2>2. \A w \in X, v \in Published \cup X :
                  KeyOfUpdate[w] = KeyOfUpdate[v] /\ w < v => w \in late' \/ v \in late' \/ KindOf[w] = "part"
            <3>1. ~(u < u) BY DEF IngressAssumption
            <3> QED BY <3>1
        <2> HIDE DEF X
        <2>3. turns' \in Seq(SUBSET Updates) /\ TurnOrder' /\ Published' = Published \cup X
            BY <2>1, <2>2, TurnAdded
        <2> QED BY <1>1, <2>3 DEF IngressTyped, X
    <1>2. CASE KindOf[u] = "part" /\ album' = [album EXCEPT ![k] = Append(@, u)] /\ turns' = turns
        <2>1. TurnOrder' /\ Published' = Published BY <1>2, TurnsLater
        <2>2. album[k] \in Seq(Updates) BY DEF IngressTyped
        <2>3. Append(album[k], u) \in Seq(Updates) /\ ToSet(Append(album[k], u)) = ToSet(album[k]) \cup {u}
            BY <2>2, ToSetAppend
        <2>4. album' \in [Keys -> Seq(Updates)] BY <1>2, <2>3 DEF IngressTyped
        <2>5. album'[k] = Append(album[k], u) /\ \A c \in Keys \ {k} : album'[c] = album[c] BY <1>2 DEF IngressTyped
        <2>6. InAlbum(k)' = InAlbum(k) \cup {u} BY <2>3, <2>5 DEF InAlbum
        <2> QED BY <1>2, <2>1, <2>4, <2>5, <2>6 DEF IngressTyped
    <1>3. CASE turns' = turns /\ album' = album
        <2>1. TurnOrder' /\ Published' = Published BY <1>3, TurnsLater
        <2> QED BY <1>3, <2>1 DEF IngressTyped
    <1> QED BY <1>1, <1>2, <1>3 DEF Process, Forward, Refuse

\* What was in hand is published, waits in the album, or is gone.
LEMMA HandledKeeps == ASSUME IngressInv, IngressAssumption, NEW k \in Keys, Handled(k) PROVE IngressInv'
    <1> DEFINE u == handling[k]
    <1>1. /\ u # NoUpdate /\ handling' = [handling EXCEPT ![k] = NoUpdate]
          /\ Process(u, k) /\ UNCHANGED <<alive, arrived, staged, worker, batch, late>>
        BY DEF Handled
    <1>2. IngressTyped /\ Homed /\ AtRest /\ (\A c \in Keys : InLine(c)) /\ TurnOrder BY DEF IngressInv
    <1>3. u \in Updates BY <1>1, <1>2 DEF IngressTyped
    <1>4. InHand(k) = {u} BY <1>1 DEF InHand
    <1>5. InLine(k) BY <1>2
    <1> HIDE DEF u
    <1>6. KeyOfUpdate[u] = k /\ u \in arrived BY <1>2, <1>4 DEF Homed
    <1>7. Behind({u}, InAlbum(k) \cup Published, k) BY <1>4, <1>5 DEF InLine
    <1>8. /\ u \notin Published /\ late \subseteq late'
          /\ \A v \in Published : KeyOfUpdate[v] = KeyOfUpdate[u] /\ u < v => u \in late'
        BY <1>1, <1>6, <1>7 DEF Behind
    <1>9. /\ turns' \in Seq(SUBSET Updates) /\ TurnOrder'
          /\ album' \in [Keys -> Seq(Updates)] /\ \A c \in Keys \ {k} : album'[c] = album[c]
          /\ \/ Published' = Published \cup {u} /\ album' = album
             \/ Published' = Published /\ InAlbum(k)' = InAlbum(k) \cup {u} /\ KindOf[u] = "part"
             \/ Published' = Published /\ album' = album
        BY <1>1, <1>2, <1>3, <1>8, ProcessMoves
    <1>10. PICK X \in SUBSET {u}, Y \in SUBSET {u} :
               /\ Published' = Published \cup X /\ InAlbum(k)' = InAlbum(k) \cup Y /\ X \cap Y = {}
               /\ \A v \in Y : KindOf[v] = "part"
        <2>1. album' = album => InAlbum(k)' = InAlbum(k) BY DEF InAlbum
        <2>2. CASE Published' = Published \cup {u} /\ album' = album
            <3> WITNESS {u} \in SUBSET {u}, {} \in SUBSET {u}
            <3> QED BY <2>1, <2>2
        <2>3. CASE Published' = Published /\ InAlbum(k)' = InAlbum(k) \cup {u} /\ KindOf[u] = "part"
            <3> WITNESS {} \in SUBSET {u}, {u} \in SUBSET {u}
            <3> QED BY <2>3
        <2>4. CASE Published' = Published /\ album' = album
            <3> WITNESS {} \in SUBSET {u}, {} \in SUBSET {u}
            <3> QED BY <2>1, <2>4
        <2> QED BY <1>9, <2>2, <2>3, <2>4
    <1>11. handling'[k] = NoUpdate /\ \A c \in Keys \ {k} : handling'[c] = handling[c] BY <1>1, <1>2 DEF IngressTyped
    <1>12. InStage(k)' = InStage(k) /\ InBatch(k)' = InBatch(k) /\ InHand(k)' = {}
        BY <1>1, <1>11 DEF InStage, InBatch, InHand
    <1>13. \A c \in Keys \ {k} : /\ InStage(c)' = InStage(c) /\ InBatch(c)' = InBatch(c)
                                  /\ InHand(c)' = InHand(c) /\ InAlbum(c)' = InAlbum(c)
        BY <1>1, <1>9, <1>11 DEF InStage, InBatch, InHand, InAlbum
    <1>14. IngressTyped'
        <2>1. handling' \in [Keys -> Updates \cup {NoUpdate}] BY <1>1, <1>2 DEF IngressTyped
        <2>2. album' \in [Keys -> Seq(Updates)] /\ turns' \in Seq(SUBSET Updates) BY <1>9
        <2> QED BY <1>1, <1>2, <2>1, <2>2 DEF IngressTyped
    <1>15. Homed'
        <2>1. Published' \subseteq arrived' BY <1>1, <1>2, <1>6, <1>10 DEF Homed
        <2>2. ASSUME NEW c \in Keys
              PROVE  /\ \A w \in InStage(c)' \cup InBatch(c)' \cup InHand(c)' \cup InAlbum(c)' :
                            w \in arrived' /\ KeyOfUpdate[w] = c
                     /\ \A w \in InAlbum(c)' : KindOf[w] = "part"
            <3>1. CASE c = k
                <4>1. InAlbum(k)' \subseteq InAlbum(k) \cup {u} /\ \A w \in InAlbum(k)' : w \in InAlbum(k) \/ KindOf[w] = "part"
                    BY <1>10
                <4> QED BY <1>1, <1>2, <1>6, <1>12, <3>1, <4>1 DEF Homed
            <3>2. CASE c # k BY <1>1, <1>2, <1>13, <3>2 DEF Homed
            <3> QED BY <3>1, <3>2
        <2> QED BY <2>1, <2>2 DEF Homed
    <1>16. AtRest' BY <1>1, <1>2, <1>11 DEF AtRest
    <1>17. ASSUME NEW c \in Keys PROVE InLine(c)'
        <2>1. CASE c # k
            <3>1. InLine(c) /\ Homed /\ late \subseteq late' BY <1>1, <1>2
            <3>2. staged'[c] = staged[c] /\ batch'[c] = batch[c] /\ handling'[c] = handling[c] /\ album'[c] = album[c]
                BY <1>1, <1>9, <1>11, <2>1
            <3>3. Published' = Published \cup X /\ \A v \in X : KeyOfUpdate[v] # c BY <1>6, <1>10, <2>1
            <3> QED BY <3>1, <3>2, <3>3, LineKept
        <2>2. CASE c = k
            <3>1. (InAlbum(k) \cup Published)' \subseteq InHand(k) \cup InAlbum(k) \cup Published BY <1>4, <1>10
            <3>2. InAlbum(k)' \cap Published' = {} BY <1>5, <1>7, <1>10 DEF InLine, Behind
            <3>3. \A i, j \in DOMAIN batch'[k] : i < j => batch'[k][i] < batch'[k][j] BY <1>1, <1>5 DEF InLine
            <3>4. /\ Behind(InStage(k), InBatch(k) \cup InHand(k) \cup InAlbum(k) \cup Published, k)
                  /\ Behind(InBatch(k), InHand(k) \cup InAlbum(k) \cup Published, k)
                BY <1>5 DEF InLine
            <3>5. Behind(InStage(k), InBatch(k) \cup InHand(k) \cup InAlbum(k) \cup Published, k)'
                BY <1>1, <1>12, <3>1, <3>4 DEF Behind
            <3>6. Behind(InBatch(k), InHand(k) \cup InAlbum(k) \cup Published, k)' BY <1>1, <1>12, <3>1, <3>4 DEF Behind
            <3>7. Behind(InHand(k), InAlbum(k) \cup Published, k)' BY <1>12 DEF Behind
            <3> QED BY <2>2, <3>2, <3>3, <3>5, <3>6, <3>7 DEF InLine
        <2> QED BY <2>1, <2>2
    <1> QED BY <1>9, <1>14, <1>15, <1>16, <1>17 DEF IngressInv

\* The parts of the album are one turn.
LEMMA FlushKeeps == ASSUME IngressInv, NEW k \in Keys, Flush(k) PROVE IngressInv'
    <1> DEFINE X == InAlbum(k)
    <1>1. /\ turns' = Append(turns, X) /\ album' = [album EXCEPT ![k] = <<>>]
          /\ UNCHANGED <<alive, arrived, staged, worker, batch, handling, late>>
        BY DEF Flush, Forward, InAlbum
    <1>2. IngressTyped /\ Homed /\ AtRest /\ (\A c \in Keys : InLine(c)) /\ TurnOrder BY DEF IngressInv
    <1>3. \A u \in X : u \in arrived /\ KeyOfUpdate[u] = k /\ KindOf[u] = "part" BY <1>2 DEF Homed
    <1>4. X \in SUBSET Updates BY <1>2, <1>3 DEF IngressTyped
    <1>5. InLine(k) BY <1>2
    <1>6. X \cap Published = {} BY <1>5 DEF InLine
    <1> HIDE DEF X
    <1>7. turns' \in Seq(SUBSET Updates) /\ TurnOrder' /\ Published' = Published \cup X
        BY <1>1, <1>2, <1>3, <1>4, <1>6, TurnAdded
    <1>8. album'[k] = <<>> /\ \A c \in Keys \ {k} : album'[c] = album[c] BY <1>1, <1>2 DEF IngressTyped
    <1>9. InStage(k)' = InStage(k) /\ InBatch(k)' = InBatch(k) /\ InHand(k)' = InHand(k) /\ InAlbum(k)' = {}
        BY <1>1, <1>8 DEF InStage, InBatch, InHand, InAlbum, ToSet
    <1>10. \A c \in Keys \ {k} : /\ InStage(c)' = InStage(c) /\ InBatch(c)' = InBatch(c)
                                  /\ InHand(c)' = InHand(c) /\ InAlbum(c)' = InAlbum(c)
        BY <1>1, <1>8 DEF InStage, InBatch, InHand, InAlbum
    <1>11. IngressTyped'
        <2>1. <<>> \in Seq(Updates) OBVIOUS
        <2>2. album' \in [Keys -> Seq(Updates)] BY <1>1, <1>2, <2>1 DEF IngressTyped
        <2> QED BY <1>1, <1>2, <1>7, <2>2 DEF IngressTyped
    <1>12. Homed'
        <2>1. Published' \subseteq arrived' BY <1>1, <1>2, <1>3, <1>7 DEF Homed
        <2>2. ASSUME NEW c \in Keys
              PROVE  /\ \A w \in InStage(c)' \cup InBatch(c)' \cup InHand(c)' \cup InAlbum(c)' :
                            w \in arrived' /\ KeyOfUpdate[w] = c
                     /\ \A w \in InAlbum(c)' : KindOf[w] = "part"
            <3>1. CASE c = k BY <1>1, <1>2, <1>9, <3>1 DEF Homed
            <3>2. CASE c # k BY <1>1, <1>2, <1>10, <3>2 DEF Homed
            <3> QED BY <3>1, <3>2
        <2> QED BY <2>1, <2>2 DEF Homed
    <1>13. AtRest' BY <1>1, <1>2 DEF AtRest
    <1>14. ASSUME NEW c \in Keys PROVE InLine(c)'
        <2>1. CASE c # k
            <3>1. InLine(c) /\ Homed /\ late \subseteq late' BY <1>1, <1>2
            <3>2. staged'[c] = staged[c] /\ batch'[c] = batch[c] /\ handling'[c] = handling[c] /\ album'[c] = album[c]
                BY <1>1, <1>8, <2>1
            <3>3. Published' = Published \cup X /\ \A v \in X : KeyOfUpdate[v] # c BY <1>3, <1>7, <2>1
            <3> QED BY <3>1, <3>2, <3>3, LineKept
        <2>2. CASE c = k
            <3>1. (InAlbum(k) \cup Published)' = InAlbum(k) \cup Published BY <1>7, <1>9 DEF X
            <3>2. \A i, j \in DOMAIN batch'[k] : i < j => batch'[k][i] < batch'[k][j] BY <1>1, <1>5 DEF InLine
            <3>3. /\ Behind(InStage(k), InBatch(k) \cup InHand(k) \cup InAlbum(k) \cup Published, k)'
                  /\ Behind(InBatch(k), InHand(k) \cup InAlbum(k) \cup Published, k)'
                  /\ Behind(InHand(k), InAlbum(k) \cup Published, k)'
                BY <1>1, <1>5, <1>9, <3>1 DEF InLine, Behind
            <3> QED BY <1>9, <2>2, <3>2, <3>3 DEF InLine
        <2> QED BY <2>1, <2>2
    <1> QED BY <1>7, <1>11, <1>12, <1>13, <1>14 DEF IngressInv

\* The stop leaves only what was published.
LEMMA StopKeeps == ASSUME IngressInv, StopIngress PROVE IngressInv'
    <1>1. /\ alive' = FALSE /\ staged' = [c \in Keys |-> <<>>] /\ worker' = [c \in Keys |-> "none"]
          /\ batch' = [c \in Keys |-> <<>>] /\ handling' = [c \in Keys |-> NoUpdate]
          /\ album' = [c \in Keys |-> <<>>] /\ UNCHANGED <<arrived, turns, late>>
        BY DEF StopIngress
    <1>2. IngressTyped /\ Homed /\ TurnOrder BY DEF IngressInv
    <1>3. TurnOrder' /\ Published' = Published BY <1>1, <1>2, TurnsLater
    <1>4. \A c \in Keys : InStage(c)' = {} /\ InBatch(c)' = {} /\ InHand(c)' = {} /\ InAlbum(c)' = {}
        BY <1>1 DEF InStage, InBatch, InHand, InAlbum, ToSet
    <1>5. IngressTyped'
        <2>1. <<>> \in Seq(Updates) OBVIOUS
        <2> QED BY <1>1, <1>2, <2>1 DEF IngressTyped
    <1>6. Homed' BY <1>1, <1>2, <1>3, <1>4 DEF Homed
    <1>7. AtRest' BY <1>1 DEF AtRest
    <1>8. \A c \in Keys : InLine(c)' BY <1>1, <1>4 DEF InLine, Behind
    <1> QED BY <1>3, <1>5, <1>6, <1>7, <1>8 DEF IngressInv

\* What arrives after the stop is late, whatever becomes of it.
LEMMA StraightKeeps == ASSUME IngressInv, IngressAssumption, NEW u \in Updates, Straight(u) PROVE IngressInv'
    <1> DEFINE k == KeyOfUpdate[u]
    <1>1. /\ ~alive /\ u \notin arrived /\ arrived' = arrived \cup {u} /\ late' = late \cup {u}
          /\ Process(u, k) /\ UNCHANGED <<alive, staged, worker, batch, handling>>
        BY DEF Straight
    <1>2. IngressTyped /\ Homed /\ AtRest /\ (\A c \in Keys : InLine(c)) /\ TurnOrder BY DEF IngressInv
    <1>3. k \in Keys BY DEF Keys
    <1>4. KeyOfUpdate[u] = k OBVIOUS
    <1> HIDE DEF k
    <1>5. u \notin Published /\ u \notin InAlbum(k) BY <1>1, <1>2, <1>3 DEF Homed
    <1>6. /\ turns' \in Seq(SUBSET Updates) /\ TurnOrder'
          /\ album' \in [Keys -> Seq(Updates)] /\ \A c \in Keys \ {k} : album'[c] = album[c]
          /\ \/ Published' = Published \cup {u} /\ album' = album
             \/ Published' = Published /\ InAlbum(k)' = InAlbum(k) \cup {u} /\ KindOf[u] = "part"
             \/ Published' = Published /\ album' = album
        BY <1>1, <1>2, <1>3, <1>5, ProcessMoves
    <1>7. \A c \in Keys : /\ InStage(c)' = {} /\ InBatch(c)' = {} /\ InHand(c)' = {}
                          /\ InAlbum(c)' \subseteq InAlbum(c) \cup (IF c = k THEN {u} ELSE {})
                          /\ u \in InAlbum(c)' => KindOf[u] = "part" /\ Published' = Published
        <2> SUFFICES ASSUME NEW c \in Keys
                     PROVE  /\ InStage(c)' = {} /\ InBatch(c)' = {} /\ InHand(c)' = {}
                            /\ InAlbum(c)' \subseteq InAlbum(c) \cup (IF c = k THEN {u} ELSE {})
                            /\ u \in InAlbum(c)' => KindOf[u] = "part" /\ Published' = Published
            OBVIOUS
        <2>1. staged[c] = <<>> /\ batch[c] = <<>> /\ handling[c] = NoUpdate BY <1>1, <1>2 DEF AtRest
        <2>2. InStage(c)' = {} /\ InBatch(c)' = {} /\ InHand(c)' = {} BY <1>1, <2>1 DEF InStage, InBatch, InHand, ToSet
        <2>3. u \notin InAlbum(c) BY <1>1, <1>2 DEF Homed
        <2>4. album' = album => InAlbum(c)' = InAlbum(c) BY DEF InAlbum
        <2>5. c # k => InAlbum(c)' = InAlbum(c) BY <1>6 DEF InAlbum
        <2> QED BY <1>6, <2>2, <2>3, <2>4, <2>5
    <1>8. IngressTyped'
        <2>1. album' \in [Keys -> Seq(Updates)] /\ turns' \in Seq(SUBSET Updates) BY <1>6
        <2> QED BY <1>1, <1>2, <2>1 DEF IngressTyped
    <1>9. Homed'
        <2>1. Published' \subseteq arrived' BY <1>1, <1>2, <1>6 DEF Homed
        <2>2. ASSUME NEW c \in Keys
              PROVE  /\ \A w \in InStage(c)' \cup InBatch(c)' \cup InHand(c)' \cup InAlbum(c)' :
                            w \in arrived' /\ KeyOfUpdate[w] = c
                     /\ \A w \in InAlbum(c)' : KindOf[w] = "part"
            BY <1>1, <1>2, <1>4, <1>7 DEF Homed
        <2> QED BY <2>1, <2>2 DEF Homed
    <1>10. AtRest' BY <1>1, <1>2 DEF AtRest
    <1>11. ASSUME NEW c \in Keys PROVE InLine(c)'
        <2>1. InLine(c) BY <1>2
        <2>2. InStage(c)' = {} /\ InBatch(c)' = {} /\ InHand(c)' = {} BY <1>7
        <2>3. InAlbum(c)' \cap Published' = {}
            <3>1. InAlbum(c) \cap Published = {} BY <2>1 DEF InLine
            <3>2. InAlbum(c)' \subseteq InAlbum(c) \cup {u} /\ u \notin InAlbum(c) BY <1>1, <1>2, <1>7 DEF Homed
            <3>3. u \in InAlbum(c)' => Published' = Published BY <1>7
            <3>4. Published' \subseteq Published \cup {u} BY <1>6
            <3> QED BY <1>5, <3>1, <3>2, <3>3, <3>4
        <2>4. \A i, j \in DOMAIN batch'[c] : i < j => batch'[c][i] < batch'[c][j] BY <1>1, <2>1 DEF InLine
        <2> QED BY <2>2, <2>3, <2>4 DEF InLine, Behind
    <1> QED BY <1>6, <1>8, <1>9, <1>10, <1>11 DEF IngressInv

\* Steps of the typing loop, and those of nobody.
LEMMA StillKeeps ==
    ASSUME IngressInv, UNCHANGED <<alive, arrived, staged, worker, batch, handling, album, turns, late>> PROVE IngressInv'
    <1>1. IngressTyped' /\ AtRest' /\ TurnOrder' BY DEF IngressInv, IngressTyped, AtRest, TurnOrder
    <1>2. Homed' BY DEF IngressInv, Homed, InStage, InBatch, InHand, InAlbum, Published
    <1>3. \A c \in Keys : InLine(c)' BY DEF IngressInv, InLine, Behind, InStage, InBatch, InHand, InAlbum, Published
    <1> QED BY <1>1, <1>2, <1>3 DEF IngressInv

\* Nothing has arrived at first.
LEMMA IngressStarts == IngressInit => IngressInv
    <1> SUFFICES ASSUME IngressInit PROVE IngressInv OBVIOUS
    <1>1. \A c \in Keys : InStage(c) = {} /\ InBatch(c) = {} /\ InHand(c) = {} /\ InAlbum(c) = {}
        BY DEF IngressInit, InStage, InBatch, InHand, InAlbum, ToSet
    <1>2. Published = {} BY DEF IngressInit, Published, ToSet
    <1>3. IngressTyped
        <2>1. <<>> \in Seq(Updates) /\ <<>> \in Seq(SUBSET Updates) OBVIOUS
        <2> QED BY <2>1 DEF IngressInit, IngressTyped
    <1>4. Homed /\ AtRest /\ TurnOrder BY <1>1, <1>2 DEF IngressInit, Homed, AtRest, TurnOrder
    <1>5. \A c \in Keys : InLine(c) BY <1>1 DEF InLine, Behind, IngressInit
    <1> QED BY <1>3, <1>4, <1>5 DEF IngressInv

\* Every step keeps the invariant.
LEMMA IngressKept == IngressInv /\ [IngressNext]_ingressVars => IngressInv'
    <1> SUFFICES ASSUME IngressInv, [IngressNext]_ingressVars PROVE IngressInv' OBVIOUS
    <1> USE IngressAssumption
    <1>1. ASSUME NEW u \in Updates, Stage(u) PROVE IngressInv' BY <1>1, StageKeeps
    <1>2. ASSUME NEW u \in Updates, Straight(u) PROVE IngressInv' BY <1>2, StraightKeeps
    <1>3. ASSUME NEW k \in Keys, WakeWorker(k) PROVE IngressInv' BY <1>3, WakeKeeps
    <1>4. ASSUME NEW k \in Keys, HandleNext(k) PROVE IngressInv' BY <1>4, HandleNextKeeps
    <1>5. ASSUME NEW k \in Keys, Handled(k) PROVE IngressInv' BY <1>5, HandledKeeps
    <1>6. ASSUME NEW k \in Keys, Flush(k) PROVE IngressInv' BY <1>6, FlushKeeps
    <1>7. ASSUME NEW k \in Keys, Replied(k) PROVE IngressInv' BY <1>7, StillKeeps DEF Replied
    <1>8. CASE StopIngress BY <1>8, StopKeeps
    <1>9. CASE UNCHANGED ingressVars BY <1>9, StillKeeps DEF ingressVars
    <1> QED BY <1>1, <1>2, <1>3, <1>4, <1>5, <1>6, <1>7, <1>8, <1>9 DEF IngressNext

\* The invariant orders the turns.
LEMMA IngressOrders == IngressInv => TurnsInOrder
    <1> SUFFICES ASSUME IngressInv, NEW u \in arrived
                 PROVE  /\ Cardinality(Turn(u)) <= 1
                        /\ \A v \in arrived \ late :
                              KeyOfUpdate[u] = KeyOfUpdate[v] /\ v > u /\ u \notin late /\ KindOf[u] # "part"
                                 => \A i \in Turn(u), j \in Turn(v) : i < j
        BY DEF TurnsInOrder
    <1>1. TurnOrder BY DEF IngressInv
    <1>2. Cardinality(Turn(u)) <= 1
        <2>1. \A i, j \in Turn(u) : i = j BY <1>1 DEF TurnOrder, Turn
        <2>2. CASE Turn(u) = {}
            <3>1. Cardinality(Turn(u)) = 0 BY <2>2, FS_EmptySet
            <3> QED BY <3>1
        <2>3. CASE Turn(u) # {}
            <3>1. PICK i \in Turn(u) : TRUE BY <2>3
            <3>2. Turn(u) = {i} BY <2>1, <3>1
            <3>3. Cardinality(Turn(u)) = 1 BY <3>2, FS_Singleton
            <3> QED BY <3>3
        <2> QED BY <2>2, <2>3
    <1>3. ASSUME NEW v \in arrived \ late,
                 KeyOfUpdate[u] = KeyOfUpdate[v], v > u, u \notin late, KindOf[u] # "part",
                 NEW i \in Turn(u), NEW j \in Turn(v)
          PROVE  i < j
        <2>1. i \in DOMAIN turns /\ j \in DOMAIN turns /\ u \in turns[i] /\ v \in turns[j] BY DEF Turn
        <2>2. u < v
            <3>1. u \in Nat /\ v \in Nat BY IngressAssumption DEF IngressAssumption, IngressInv, IngressTyped
            <3> QED BY <1>3, <3>1
        <2> QED BY <1>1, <1>3, <2>1, <2>2 DEF TurnOrder
    <1> QED BY <1>2, <1>3

\* An update is in one turn at most, and the turns of a session come in the order of its
\* messages but for late ones: for any updates, however they are staged, shed and cut off.
THEOREM TelegramKept == IngressSpec => []TurnsInOrder
    <1>1. IngressInit => IngressInv BY IngressStarts
    <1>2. IngressInv /\ [IngressNext]_ingressVars => IngressInv' BY IngressKept
    <1>3. IngressInv => TurnsInOrder BY IngressOrders
    <1> QED BY <1>1, <1>2, <1>3, PTL DEF IngressSpec
================================================================================
