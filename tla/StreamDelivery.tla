----------------------------- MODULE StreamDelivery -----------------------------
(* From a turn to a chat: the pieces of an answer go through the outbound queue to the    *)
(* dispatcher of the channel manager, which merges what has piled up and retries what     *)
(* fails, and to a channel that shows a growing message by sending it once and editing    *)
(* it.  Three channels do that, each with its own buffer: Telegram, Discord and Matrix.   *)
(* A piece of text is its stream and its number in it.                                    *)
EXTENDS Naturals, Sequences, FiniteSets, FiniteSetsExt, SequencesExt

CONSTANTS
    Kinds,       \* the channels of the run
    Streams,     \* segments of answers
    Topics,      \* sessions: a chat, or a topic of one
    ChatOf,      \* the chat of each
    Layouts,     \* the sessions that the streams may belong to
    Pieces,      \* bound: pieces of each stream
    MaxLen,      \* pieces that fit into one message of the chat
    MaxAttempts, \* send_max_retries
    MaxFail      \* bound: attempts that fail, other than those refused

ASSUME StreamAssumption ==
    /\ Kinds \subseteq {"telegram", "discord", "matrix"} /\ Streams \subseteq Nat \ {0}
    /\ Layouts \subseteq [Streams -> Topics] /\ Pieces \in [Streams -> Nat] /\ MaxLen \in Nat \ {0}
    /\ MaxAttempts \in Nat \ {0} /\ MaxFail \in Nat

NoMessage == 0
NoBuf == [s |-> 0, text |-> <<>>, msg |-> NoMessage]
Nothing == [kind |-> "none", s |-> 0, chat |-> "none", text |-> <<>>, try |-> 0]

VARIABLES
    kind,     \* the channel
    topic,    \* the session of each stream
    made,     \* pieces published of each stream
    stream,   \* new, open, ended, or dropped with its turn
    outq,     \* the outbound queue
    pending,  \* the dispatcher's buffer for what merging took too much
    sending,  \* what it sends, and the attempts so far
    streamBuf, \* _stream_bufs, by chat
    shown,    \* the messages of the chats
    fails,    \* attempts that failed
    failed,   \* history: streams an attempt failed for
    lost,     \* history: streams of which the dispatcher gave a message up, the channel let
              \* one fall without an error, or another one used the chat at the same time
    finished  \* history: streams whose end was taken, or given up

streamVars == <<kind, topic, made, stream, outq, pending, sending, streamBuf, shown, fails,
                failed, lost, finished>>
streamHistory == <<failed, lost, finished>>

Chat(s) == ChatOf[topic[s]]
Chats2 == {ChatOf[t] : t \in Topics}

StreamInit ==
    /\ kind \in Kinds /\ topic \in Layouts
    /\ made = [s \in Streams |-> 0] /\ stream = [s \in Streams |-> "new"]
    /\ outq = <<>> /\ pending = <<>> /\ sending = Nothing
    /\ streamBuf = [c \in Chats2 |-> NoBuf] /\ shown = <<>> /\ fails = 0
    /\ failed = {} /\ lost = {} /\ finished = {}

Message(k, s, text) == [kind |-> k, s |-> s, chat |-> Chat(s), text |-> text, try |-> 0]

----------------------------------------------------------------------------
(* The turn: segments follow each other in a session, not in a chat. *)

OthersOpen(s) == {t \in Streams \ {s} : stream[t] = "open" /\ Chat(t) = Chat(s)}

\* on_stream
Piece(s) ==
    /\ \/ stream[s] = "new"
          /\ \A t \in Streams : topic[t] = topic[s] => t >= s \/ stream[t] \in {"ended", "dropped"}
       \/ stream[s] = "open"
    /\ made[s] < Pieces[s]
    /\ made' = [made EXCEPT ![s] = @ + 1] /\ stream' = [stream EXCEPT ![s] = "open"]
    /\ outq' = Append(outq, Message("delta", s, <<<<s, made[s] + 1>>>>))
    /\ lost' = IF OthersOpen(s) = {} THEN lost ELSE lost \cup {s} \cup OthersOpen(s)
    /\ UNCHANGED <<kind, topic, pending, sending, streamBuf, shown, fails, failed, finished>>

\* on_stream_end; the reply that follows says that it was streamed, and is not sent.
EndOfStream(s) ==
    /\ stream[s] = "open" /\ stream' = [stream EXCEPT ![s] = "ended"]
    /\ outq' = Append(outq, Message("end", s, <<>>))
    /\ UNCHANGED <<kind, topic, made, pending, sending, streamBuf, shown, fails, streamHistory>>

\* /stop: the turn ends without an end of its stream.
DropStream(s) ==
    /\ stream[s] = "open" /\ stream' = [stream EXCEPT ![s] = "dropped"]
    /\ UNCHANGED <<kind, topic, made, outq, pending, sending, streamBuf, shown, fails, streamHistory>>

----------------------------------------------------------------------------
(* The dispatcher *)

\* _coalesce_stream_deltas: the pieces for the same chat at the head of the queue.
Prefix(first, q) ==
    CHOOSE n \in 0..Len(q) :
        /\ \A i \in 1..n : q[i].kind = "delta" /\ q[i].chat = first.chat
        /\ n < Len(q) => q[n + 1].kind # "delta" \/ q[n + 1].chat # first.chat

\* A message that waits has one piece.
Merged(first, q, n) == first.text \o [i \in 1..n |-> q[i].text[1]]

\* Mutant: the message that ends the merging is dropped.
TakeDrops(first, q) ==
    LET n == Prefix(first, q) IN
    IF first.kind = "delta"
    THEN /\ sending' = [first EXCEPT !.text = Merged(first, q, n)]
         /\ pending' = <<>> /\ outq' = SubSeq(q, n + 2, Len(q)) /\ UNCHANGED lost
    ELSE sending' = first /\ outq' = q /\ pending' = <<>> /\ UNCHANGED lost

\* The next message is sent; the first one that does not fit is kept for the next round.
Take(first, q) ==
    LET n == Prefix(first, q)
        sharing == {first.s} \cup {q[i].s : i \in 1..n}
    IN
    IF first.kind = "delta"
    THEN /\ sending' = [first EXCEPT !.text = Merged(first, q, n)]
         /\ pending' = IF n < Len(q) THEN <<q[n + 1]>> ELSE <<>>
         /\ outq' = SubSeq(q, n + 2, Len(q))
         /\ lost' = IF Cardinality(sharing) > 1 THEN lost \cup sharing ELSE lost
    ELSE sending' = first /\ outq' = q /\ pending' = <<>> /\ UNCHANGED lost

DispatchNext ==
    /\ sending = Nothing
    /\ IF pending # <<>> THEN Take(pending[1], outq)
                         ELSE outq # <<>> /\ Take(Head(outq), Tail(outq))
    /\ UNCHANGED <<kind, topic, made, stream, streamBuf, shown, fails, failed, finished>>

----------------------------------------------------------------------------
(* What an attempt leaves: the buffer, the messages of the chats, and whether it was "done"; *)
(* an error "raised" after what took effect; the text was too long and "refused"; the       *)
(* channel "swallowed" an error; or, without one, it let the message fall: "lost".  A       *)
(* request stands for the channel's own repeats of it.                                      *)

Result(b, sh, how) == [buf |-> b, shown |-> sh, how |-> how]
Edited(b, text) == [shown EXCEPT ![b.msg].text = text]
Posted(sh, chat, text) == Append(sh, [chat |-> chat, text |-> text])

\* split_message
Chunks(text) ==
    [i \in 1..((Len(text) + MaxLen - 1) \div MaxLen) |->
        SubSeq(text, (i - 1) * MaxLen + 1, Min({i * MaxLen, Len(text)}))]

\* A message is edited to the first chunk and the others are sent: how far it got.
EditAndSend(b, chat, chunks, k) ==
    IF k = 0 THEN shown
    ELSE Edited(b, chunks[1]) \o [i \in 1..k - 1 |-> [chat |-> chat, text |-> chunks[i + 1]]]

\* The buffer of the chat, replaced by a new one when the stream is another one.
Selected(m) ==
    LET b == streamBuf[m.chat]
        mine == IF b.s \in {0, m.s} \/ kind = "matrix" THEN b ELSE NoBuf
    IN  [mine EXCEPT !.s = m.s, !.text = @ \o m.text]

\* The first text is sent as it is, with an answer that arrives or not.
FirstSend(b, chat) ==
    LET sh == Posted(shown, chat, b.text) IN
    IF Len(b.text) > MaxLen THEN {Result(b, shown, "refused")}
    ELSE {Result([b EXCEPT !.msg = Len(sh)], sh, "done"), Result(b, shown, "raised"), Result(b, sh, "raised")}

\* The stream goes on in the last message.
Moved(b, sh, chunks) == [b EXCEPT !.msg = Len(sh), !.text = Last(chunks)]

\* TelegramChannel.send_delta and _flush_stream_overflow: an edit at intervals; a text that
\* has grown too long is split and goes on in a new message.
TelegramDelta(m) ==
    LET b == Selected(m)
        chunks == Chunks(b.text)
        n == Len(chunks)
        sh == EditAndSend(b, m.chat, chunks, n)
    IN
    IF b.msg = NoMessage THEN FirstSend(b, m.chat)
    ELSE {Result(b, shown, "done"), Result(IF n > 1 THEN Moved(b, sh, chunks) ELSE b, sh, "done")} \cup
         {Result(b, EditAndSend(b, m.chat, chunks, k), "raised") : k \in 0..n}

\* DiscordChannel.send_delta: an edit shows what fits into the first message.  A client that
\* is not ready, or a chat that cannot be found, is no error.
DiscordDelta(m) ==
    LET b == Selected(m)
        sh == Edited(b, Chunks(b.text)[1])
    IN
    (IF b.msg = NoMessage THEN FirstSend(b, m.chat)
     ELSE {Result(b, shown, "done"), Result(b, sh, "done"), Result(b, shown, "raised"), Result(b, sh, "raised")})
    \cup {Result(streamBuf[m.chat], shown, "lost"), Result(b, shown, "lost")}

\* MatrixChannel.send_delta: one buffer for a chat, whatever the stream; the text of an edit
\* that was not due or failed goes with the next one, also after a first piece that failed.
MatrixDelta(m) ==
    LET b == Selected(m)
        sh == Posted(shown, m.chat, b.text)
    IN  IF b.msg = NoMessage
        THEN {Result([b EXCEPT !.msg = Len(sh)], sh, "done"), Result(b, shown, "swallowed"), Result(b, sh, "swallowed")}
        ELSE {Result(b, x, how) : x \in {shown, Edited(b, b.text)}, how \in {"done", "swallowed"}}

\* The end of another stream than the one in the buffer, or of one that shows nothing yet.
NotMine(m) == streamBuf[m.chat].msg = NoMessage \/ (kind # "matrix" /\ streamBuf[m.chat].s # m.s)

\* The end of the stream, in Telegram and Discord: the whole text, in as many messages as it
\* takes; the buffer goes when all are there.  An edit that changes nothing is taken for the
\* end in Telegram, and Discord may not find the chat: the other chunks are not sent.
SplitEnd(m) ==
    LET b == streamBuf[m.chat]
        chunks == Chunks(b.text)
        n == Len(chunks)
    IN
    IF NotMine(m) THEN {Result(b, shown, "done")}
    ELSE {Result(NoBuf, EditAndSend(b, m.chat, chunks, n), "done")} \cup
         {Result(b, EditAndSend(b, m.chat, chunks, k), "raised") : k \in 0..n} \cup
         (IF n > 1 THEN {Result(NoBuf, EditAndSend(b, m.chat, chunks, 1), "lost")} ELSE {}) \cup
         (IF kind = "discord" THEN {Result(b, shown, "lost")} ELSE {})

\* In Matrix: the buffer goes first, so the text is gone when it fails or was never shown.
MatrixEnd(m) ==
    LET b == streamBuf[m.chat] IN
    IF NotMine(m) THEN {Result(NoBuf, shown, "lost")}
    ELSE {Result(NoBuf, Edited(b, b.text), "done")} \cup {Result(NoBuf, x, "raised") : x \in {shown, Edited(b, b.text)}}

Outcomes(m) ==
    CASE m.kind = "delta" /\ kind = "telegram" -> TelegramDelta(m)
      [] m.kind = "delta" /\ kind = "discord" -> DiscordDelta(m)
      [] m.kind = "delta" /\ kind = "matrix" -> MatrixDelta(m)
      [] m.kind = "end" /\ kind = "matrix" -> MatrixEnd(m)
      [] OTHER -> SplitEnd(m)

\* Those whose text is at stake: the pieces sent, and what the buffer holds.
AtStake(m) == {m.s} \cup {p[1] : p \in ToSet(m.text) \cup ToSet(streamBuf[m.chat].text)}

\* _send_with_retry: an attempt, and the next one after an error, or none.
Attempt ==
    /\ sending # Nothing
    /\ \E o \in Outcomes(sending) :
          LET error == o.how \in {"raised", "refused"}
              again == error /\ sending.try + 1 < MaxAttempts
          IN
          /\ streamBuf' = [streamBuf EXCEPT ![sending.chat] = o.buf] /\ shown' = o.shown
          /\ IF o.how \in {"raised", "swallowed"} THEN fails < MaxFail /\ fails' = fails + 1 ELSE UNCHANGED fails
          /\ sending' = IF again THEN [sending EXCEPT !.try = @ + 1] ELSE Nothing
          /\ failed' = IF error \/ o.how = "swallowed" THEN failed \cup AtStake(sending) ELSE failed
          /\ lost' = IF o.how = "lost" \/ (error /\ (~again \/ kind = "matrix"))
                     THEN lost \cup AtStake(sending) ELSE lost
          /\ finished' = IF sending.kind = "end" /\ ~again THEN finished \cup {sending.s} ELSE finished
    /\ UNCHANGED <<kind, topic, made, stream, outq, pending>>

StreamNext ==
    \/ \E s \in Streams : Piece(s) \/ EndOfStream(s) \/ DropStream(s)
    \/ DispatchNext \/ Attempt

\* The dispatcher is a task of the event loop; a request ends, well or not.
StreamFair == WF_streamVars(DispatchNext \/ Attempt)

StreamSpec == StreamInit /\ [][StreamNext]_streamVars /\ StreamFair

----------------------------------------------------------------------------
(* Properties. *)

\* The places of the pieces of a stream among all that the chats show, in their order.
Places(s, i) == UNION {{<<m, p>> : p \in {x \in DOMAIN shown[m].text : shown[m].text[x] = <<s, i>>}} :
                          m \in DOMAIN shown}
Before(p, q) == p[1] < q[1] \/ (p[1] = q[1] /\ p[2] < q[2])

\* When the channel has taken the end of a stream, the chat shows all of it in its order,
\* whatever was merged, cut in chunks or sent again: unless the dispatcher gave a message up,
\* the channel swallowed an error, or the stream shared its chat with another one.
AllShown ==
    \A s \in finished \ lost :
        \A i \in 1..made[s] :
            \E p \in Places(s, i) : i > 1 => \E q \in Places(s, i - 1) : Before(q, p)

\* It shows nothing twice, other than after an attempt that failed.
ShownOnce ==
    \A s \in Streams \ (failed \cup lost) : \A i \in 1..made[s] : Cardinality(Places(s, i)) <= 1

\* Every end is taken or given up: the dispatcher outlives its failures.
EndsReach == \A s \in Streams : stream[s] = "ended" ~> s \in finished

\* What the chats show of the streams.
StreamSound == AllShown /\ ShownOnce
================================================================================
