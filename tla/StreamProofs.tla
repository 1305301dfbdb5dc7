------------------------------ MODULE StreamProofs ------------------------------
(* Proofs about the delivery of streamed answers: what a chat shows of a stream whose pieces   *)
(* the dispatcher merges, the channel cuts in messages, and failures send again, for every     *)
(* number of streams, pieces and chats and every length of a message.                          *)
EXTENDS StreamDelivery, LoopLemmas

----------------------------------------------------------------------------
(* What waits for the dispatcher. *)

Texts == Seq(Streams \X Nat)
Units == {Message("delta", s, <<<<s, i>>>>) : s \in Streams, i \in Nat} \cup {Message("end", s, <<>>) : s \in Streams}
Line == pending \o outq
Num(e) == e.text[1][2]

\* The pieces of a stream that wait, those that are sent, and those the channel has taken.
LineHas(s, i) == \E j \in DOMAIN Line : Line[j].kind = "delta" /\ Line[j].s = s /\ Num(Line[j]) = i
HeldNow(s, i) == \E x \in DOMAIN sending.text : sending.text[x] = <<s, i>>
TakenOf(s, i) == i \in 1..made[s] /\ ~LineHas(s, i) /\ ~HeldNow(s, i)

\* A buffer holds text of its chat, and its message shows a first part of it.
BufferOf(c) == [s : Streams \cup {0}, text : Texts, msg : Nat]
Fits(c, b, sh) ==
    /\ \A x \in DOMAIN b.text : Chat(b.text[x][1]) = c
    /\ b.msg # NoMessage =>
           /\ b.msg \in DOMAIN sh /\ sh[b.msg].chat = c /\ b.text # <<>>
           /\ \A x \in DOMAIN sh[b.msg].text : x \in DOMAIN b.text /\ b.text[x] = sh[b.msg].text[x]

DeliveryTyped ==
    /\ kind \in Kinds /\ topic \in [Streams -> Topics]
    /\ made \in [Streams -> Nat] /\ stream \in [Streams -> {"new", "open", "ended", "dropped"}]
    /\ outq \in Seq(Units) /\ pending \in Seq(Units) /\ Len(pending) <= 1
    /\ streamBuf \in [Chats2 -> [s : Streams \cup {0}, text : Texts, msg : Nat]]
    /\ shown \in Seq([chat : Chats2, text : Texts])
    /\ finished \subseteq Streams /\ lost \subseteq Streams /\ failed \subseteq Streams

\* What waits, of each stream: its pieces in their order, with all that follow, and its end.
LineInv ==
    /\ \A s \in Streams : (stream[s] = "new" => made[s] = 0) /\ (stream[s] \in {"open", "ended"} => made[s] > 0)
    /\ \A j \in DOMAIN Line : /\ Line[j].kind = "delta" => Num(Line[j]) \in 1..made[Line[j].s]
                              /\ Line[j].kind = "end" => stream[Line[j].s] = "ended"
    /\ \A j, k \in DOMAIN Line :
           j < k /\ Line[j].s = Line[k].s =>
               Line[j].kind = "delta" /\ (Line[k].kind = "delta" => Num(Line[j]) < Num(Line[k]))
    /\ \A j \in DOMAIN Line : Line[j].kind = "delta" =>
           \A i \in 1..made[Line[j].s] : i > Num(Line[j]) => LineHas(Line[j].s, i)

\* What is sent: an end, after all of its stream, or text of a chat; and of a stream that is not
\* lost, its pieces in their order up to the first that waits.
SendTyped ==
    sending = Nothing \/
        /\ sending \in [kind : {"delta", "end"}, s : Streams, chat : Chats2, text : Texts, try : Nat]
        /\ sending.chat = Chat(sending.s)
        /\ sending.kind = "delta" => sending.text # <<>>
        /\ sending.kind = "end" => sending.text = <<>>
SendInv ==
    /\ sending.kind = "end" =>
           stream[sending.s] = "ended" /\ sending.s \notin finished /\ \A j \in DOMAIN Line : Line[j].s # sending.s
    /\ \A x \in DOMAIN sending.text :
           LET p == sending.text[x] IN
           /\ Chat(p[1]) = sending.chat /\ p[2] \in 1..made[p[1]] /\ ~LineHas(p[1], p[2])
           /\ p[1] # sending.s => sending.s \in lost /\ p[1] \in lost
           /\ p[1] \notin lost =>
                  /\ \A y \in DOMAIN sending.text : x < y => p[2] < sending.text[y][2]
                  /\ \A i \in 1..made[p[1]] : i > p[2] => LineHas(p[1], i) \/ HeldNow(p[1], i)

\* An end that was made and not taken yet waits or is sent.
EndInv ==
    \A s \in Streams :
        /\ s \in finished => stream[s] = "ended" /\ \A j \in DOMAIN Line : Line[j].s # s
        /\ stream[s] = "ended" /\ s \notin finished =>
               (\E j \in DOMAIN Line : Line[j].s = s /\ Line[j].kind = "end") \/ (sending.kind = "end" /\ sending.s = s)

\* Streams of one chat come one after the other, or are lost.
MoreOf(s) == stream[s] = "open" \/ \E k \in DOMAIN Line : Line[k].s = s
ApartInv ==
    \A s \in Streams \ lost : \A t \in Streams \ {s} :
        Chat(t) = Chat(s) =>
            /\ ~(stream[s] = "open" /\ stream[t] = "open")
            /\ \A j \in DOMAIN Line :
                   Line[j].s = t /\ (stream[s] = "open" \/ \E k \in DOMAIN Line : j < k /\ Line[k].s = s) =>
                       LineHas(s, 1) /\ \A l \in DOMAIN Line : l < j => Line[l].s # s
            /\ sending.s = t /\ MoreOf(s) => LineHas(s, 1)

(* What the chats show. *)

BufInv == \A c \in Chats2 : Fits(c, streamBuf[c], shown)
HomeInv == \A m \in DOMAIN shown : \A x \in DOMAIN shown[m].text : Chat(shown[m].text[x][1]) = shown[m].chat

\* The places of a piece in a chat: in a message that does not grow, or in the buffer of the one
\* that does.
Still(c, b, sh, e, m, x) ==
    m \in DOMAIN sh /\ m # b.msg /\ sh[m].chat = c /\ x \in DOMAIN sh[m].text /\ sh[m].text[x] = e
Growing(b, e, m, x) == m = b.msg /\ x \in DOMAIN b.text /\ b.text[x] = e
Spot(c, b, sh, e, m, x) == Still(c, b, sh, e, m, x) \/ Growing(b, e, m, x)

\* What has been taken of a stream that goes on is in the messages up to the one that grows.
Kept(c, b, sh, e, m, x) == Spot(c, b, sh, e, m, x) /\ m <= b.msg
Covered(c, b, sh, s, i) ==
    \E m, x \in Nat :
        /\ Kept(c, b, sh, <<s, i>>, m, x)
        /\ i > 1 => \E n, y \in Nat : Kept(c, b, sh, <<s, i - 1>>, n, y) /\ Before(<<n, y>>, <<m, x>>)
Live(s) == stream[s] = "open" \/ (stream[s] = "ended" /\ s \notin finished)
CoverInv ==
    \A s \in Streams \ lost :
        Live(s) =>
            \A i \in Nat : TakenOf(s, i) =>
                /\ streamBuf[Chat(s)].s = s /\ (kind # "matrix" => streamBuf[Chat(s)].msg # NoMessage)
                /\ Covered(Chat(s), streamBuf[Chat(s)], shown, s, i)

\* What is shown of a stream that has ended is in messages that do not grow.
Fixed(c, b, sh, s, i) ==
    \E m, x \in Nat :
        /\ Still(c, b, sh, <<s, i>>, m, x)
        /\ i > 1 => \E n, y \in Nat : Still(c, b, sh, <<s, i - 1>>, n, y) /\ Before(<<n, y>>, <<m, x>>)
FixedInv == \A s \in finished \ lost : \A i \in 1..made[s] : Fixed(Chat(s), streamBuf[Chat(s)], shown, s, i)

\* A piece that no failure touched has one place, once it is taken.
Once(c, b, sh, s, i) ==
    \A m, x \in Nat : Spot(c, b, sh, <<s, i>>, m, x) =>
        \A n, y \in Nat : Spot(c, b, sh, <<s, i>>, n, y) => n = m /\ y = x
OnceInv ==
    \A s \in Streams \ (failed \cup lost) : \A i \in Nat :
        /\ Once(Chat(s), streamBuf[Chat(s)], shown, s, i)
        /\ \A m, x \in Nat : Spot(Chat(s), streamBuf[Chat(s)], shown, <<s, i>>, m, x) => TakenOf(s, i)

StreamInv ==
    DeliveryTyped /\ LineInv /\ SendTyped /\ SendInv /\ EndInv /\ ApartInv /\ BufInv /\ HomeInv /\ CoverInv /\ FixedInv /\ OnceInv

----------------------------------------------------------------------------
(* The line of messages. *)

LEMMA UnitFacts ==
    ASSUME NEW e \in Units
    PROVE  /\ e.s \in Streams /\ e.chat = Chat(e.s) /\ e.try = 0 /\ e.kind \in {"delta", "end"}
           /\ e.kind = "delta" => e.text = <<<<e.s, Num(e)>>>> /\ e.text[1] = <<e.s, Num(e)>> /\ Num(e) \in Nat
           /\ e.kind = "end" => e.text = <<>>
           /\ e.text \in Texts /\ e = [kind |-> e.kind, s |-> e.s, chat |-> e.chat, text |-> e.text, try |-> 0]
    <1>1. CASE \E s \in Streams, i \in Nat : e = Message("delta", s, <<<<s, i>>>>)
        <2>1. PICK s \in Streams, i \in Nat : e = Message("delta", s, <<<<s, i>>>>) BY <1>1
        <2>2. e = [kind |-> "delta", s |-> s, chat |-> Chat(s), text |-> <<<<s, i>>>>, try |-> 0] BY <2>1 DEF Message
        <2>3. e.kind = "delta" /\ e.s = s /\ e.chat = Chat(s) /\ e.text = <<<<s, i>>>> /\ e.try = 0 BY <2>2
        <2>4. e.text[1] = <<s, i>> /\ e.text \in Texts BY <2>3 DEF Texts
        <2>5. Num(e) = i BY <2>4 DEF Num
        <2> QED BY <2>2, <2>3, <2>4, <2>5
    <1>2. CASE \E s \in Streams : e = Message("end", s, <<>>)
        <2>1. PICK s \in Streams : e = Message("end", s, <<>>) BY <1>2
        <2>2. e = [kind |-> "end", s |-> s, chat |-> Chat(s), text |-> <<>>, try |-> 0] BY <2>1 DEF Message
        <2>3. e.kind = "end" /\ e.s = s /\ e.chat = Chat(s) /\ e.text = <<>> /\ e.try = 0 BY <2>2
        <2> QED BY <2>2, <2>3 DEF Texts
    <1>3. e \in {Message("delta", s, <<<<s, i>>>>) : s \in Streams, i \in Nat} \/ e \in {Message("end", s, <<>>) : s \in Streams}
        BY DEF Units
    <1> QED BY <1>1, <1>2, <1>3

LEMMA LineIs ==
    ASSUME DeliveryTyped
    PROVE  /\ Line \in Seq(Units) /\ Len(Line) \in Nat /\ DOMAIN Line = 1..Len(Line)
           /\ \A j \in DOMAIN Line : Line[j] \in Units
    <1>1. pending \in Seq(Units) /\ outq \in Seq(Units) BY DEF DeliveryTyped
    <1>2. Line \in Seq(Units) BY <1>1 DEF Line
    <1> QED BY <1>2

LEMMA AfterBoth ==
    ASSUME NEW T, NEW p \in Seq(T), NEW q \in Seq(T), NEW e \in T
    PROVE  /\ p \o q \in Seq(T) /\ p \o Append(q, e) \in Seq(T) /\ Len(p \o Append(q, e)) = Len(p \o q) + 1
           /\ \A i \in 1..Len(p \o q) : (p \o Append(q, e))[i] = (p \o q)[i]
           /\ (p \o Append(q, e))[Len(p \o q) + 1] = e
    <1>1. p \o q \in Seq(T) /\ p \o Append(q, e) \in Seq(T) OBVIOUS
    <1>2. Len(p \o Append(q, e)) = Len(p \o q) + 1 OBVIOUS
    <1>3. \A i \in 1..Len(p \o q) : (p \o Append(q, e))[i] = (p \o q)[i] OBVIOUS
    <1>4. (p \o Append(q, e))[Len(p \o q) + 1] = e OBVIOUS
    <1> QED BY <1>1, <1>2, <1>3, <1>4

\* A message that is published comes last.
Grows(e) ==
    /\ Line' \in Seq(Units) /\ Len(Line') = Len(Line) + 1 /\ DOMAIN Line' = 1..Len(Line) + 1
    /\ \A j \in DOMAIN Line : Line'[j] = Line[j]
    /\ Line'[Len(Line) + 1] = e
LEMMA LineGrows ==
    ASSUME DeliveryTyped, NEW e \in Units, outq' = Append(outq, e), pending' = pending
    PROVE  Grows(e) /\ outq' \in Seq(Units)
    <1>1. pending \in Seq(Units) /\ outq \in Seq(Units) BY DEF DeliveryTyped
    <1>2. Line = pending \o outq /\ Line' = pending \o Append(outq, e) BY DEF Line
    <1>3. outq' \in Seq(Units) BY <1>1
    <1>4. Line' \in Seq(Units) /\ Len(Line') = Len(Line) + 1 /\ Line'[Len(Line) + 1] = e
          /\ \A i \in 1..Len(Line) : Line'[i] = Line[i]
        BY <1>1, <1>2, AfterBoth
    <1>5. DOMAIN Line' = 1..Len(Line') BY <1>4
    <1> QED BY <1>3, <1>4, <1>5, LineIs DEF Grows

----------------------------------------------------------------------------
(* What the dispatcher takes from it. *)

LEMMA PrefixIs ==
    ASSUME NEW first, NEW q \in Seq(Units)
    PROVE  /\ Prefix(first, q) \in 0..Len(q)
           /\ \A i \in 1..Prefix(first, q) : q[i].kind = "delta" /\ q[i].chat = first.chat
    <1> DEFINE Fit(i) == q[i].kind = "delta" /\ q[i].chat = first.chat
               Odd == {i \in 1..Len(q) : ~Fit(i)}
    <1>1. \E n \in 0..Len(q) : (\A i \in 1..n : Fit(i)) /\ (n < Len(q) => ~Fit(n + 1))
        <2>1. CASE Odd = {}
            <3>1. Len(q) \in 0..Len(q) /\ \A i \in 1..Len(q) : Fit(i) BY <2>1
            <3> QED BY <3>1
        <2>2. CASE Odd # {}
            <3>1. PICK i \in Odd : \A j \in Odd : i <= j
                <4>1. Odd \in SUBSET Nat OBVIOUS
                <4> HIDE DEF Odd
                <4> QED BY <4>1, <2>2, LeastNumber
            <3>2. i \in 1..Len(q) /\ ~Fit(i) BY <3>1
            <3>3. i - 1 \in 0..Len(q) /\ (i - 1) + 1 = i BY <3>2
            <3>4. \A j \in 1..(i - 1) : Fit(j) 
                <4> SUFFICES ASSUME NEW j \in 1..(i - 1), ~Fit(j) PROVE FALSE OBVIOUS
                <4>1. j \in Odd /\ ~(i <= j) BY <3>2
                <4> HIDE DEF Odd, Fit
                <4> QED BY <3>1, <4>1
            <3> HIDE DEF Fit
            <3> QED BY <3>2, <3>3, <3>4
        <2> QED BY <2>1, <2>2
    <1>2. Prefix(first, q) = CHOOSE n \in 0..Len(q) : (\A i \in 1..n : Fit(i)) /\ (n < Len(q) => ~Fit(n + 1))
        BY DEF Prefix
    <1> HIDE DEF Fit
    <1>3. Prefix(first, q) \in 0..Len(q) /\ \A i \in 1..Prefix(first, q) : Fit(i) BY <1>1, <1>2
    <1> QED BY <1>3 DEF Fit

LEMMA OneOf ==
    ASSUME NEW T, NEW q \in Seq(T), NEW r \in Seq(T), Len(q) <= 1, q # <<>>
    PROVE  /\ q \o r \in Seq(T) /\ (q \o r)[1] = q[1] /\ Len(q \o r) = Len(r) + 1
           /\ \A j \in 1..Len(r) : (q \o r)[j + 1] = r[j]
    <1>1. Len(q) # 0 OBVIOUS
    <1>2. Len(q) \in Nat OBVIOUS
    <1>3. Len(q) = 1
        <2>1. \A n \in Nat : n <= 1 /\ n # 0 => n = 1 OBVIOUS
        <2> QED BY Zenon, <1>1, <1>2, <2>1
    <1>4. q \o r \in Seq(T) OBVIOUS
    <1>5. Len(q \o r) = Len(q) + Len(r) OBVIOUS
    <1>6. \A j \in 1..Len(q) : (q \o r)[j] = q[j] OBVIOUS
    <1>7. \A j \in 1..Len(r) : (q \o r)[Len(q) + j] = r[j] OBVIOUS
    <1>8. \A j \in 1..Len(r) : j + 1 = 1 + j OBVIOUS
    <1> QED BY <1>3, <1>4, <1>5, <1>6, <1>7, <1>8

LEMMA HeadOfLine ==
    ASSUME DeliveryTyped, DispatchNext
    PROVE  Len(Line) > 0 /\ \E q \in Seq(Units) : Take(Line[1], q) /\ Len(Line) = Len(q) + 1 /\ \A j \in 1..Len(q) : Line[j + 1] = q[j]
    <1>1. pending \in Seq(Units) /\ outq \in Seq(Units) /\ Len(pending) <= 1 BY DEF DeliveryTyped
    <1>2. CASE pending # <<>>
        <2>1. Line[1] = pending[1] /\ Len(Line) = Len(outq) + 1 /\ \A j \in 1..Len(outq) : Line[j + 1] = outq[j]
            BY <1>1, <1>2, OneOf DEF Line
        <2>2. Take(pending[1], outq) BY <1>2 DEF DispatchNext
        <2> QED BY <1>1, <2>1, <2>2
    <1>3. CASE pending = <<>>
        <2>1. Line = outq BY <1>1, <1>3 DEF Line
        <2>2. outq # <<>> /\ Take(Head(outq), Tail(outq)) BY <1>3 DEF DispatchNext
        <2>3. Head(outq) = outq[1] /\ Tail(outq) \in Seq(Units) /\ Len(outq) = Len(Tail(outq)) + 1
              /\ \A j \in 1..Len(Tail(outq)) : outq[j + 1] = Tail(outq)[j]
            BY <1>1, <2>2
        <2>4. Len(outq) > 0 BY <1>1, <2>2
        <2> QED BY <2>1, <2>2, <2>3, <2>4
    <1> QED BY <1>2, <1>3

Sendings == [kind : {"delta", "end"}, s : Streams, chat : Chats2, text : Texts, try : Nat]
Takes(k) ==
    /\ Line' \in Seq(Units) /\ DOMAIN Line' = 1..Len(Line) - k
    /\ \A j \in DOMAIN Line' : Line'[j] = Line[j + k]
    /\ sending' \in Sendings /\ sending'.kind = Line[1].kind /\ sending'.s = Line[1].s /\ sending'.chat = Line[1].chat
    /\ sending'.kind = "end" => k = 1 /\ sending'.text = <<>>
    /\ sending'.kind = "delta" =>
           /\ DOMAIN sending'.text = 1..k
           /\ \A x \in 1..k : Line[x].kind = "delta" /\ Line[x].chat = Line[1].chat /\ sending'.text[x] = Line[x].text[1]
    /\ lost \subseteq lost' /\ lost' \subseteq Streams
    /\ (\A x \in 1..k : Line[x].s = Line[1].s) \/ (\A x \in 1..k : Line[x].s \in lost')

LEMMA ChatIn == ASSUME DeliveryTyped, NEW s \in Streams PROVE Chat(s) \in Chats2
    BY DEF Chat, Chats2, DeliveryTyped

\* What is left of a sequence from its a-th element.
LEMMA RestIs ==
    ASSUME NEW T, NEW q \in Seq(T), NEW a \in Nat \ {0}
    PROVE  /\ SubSeq(q, a, Len(q)) \in Seq(T)
           /\ Len(SubSeq(q, a, Len(q))) = IF a <= Len(q) THEN Len(q) - a + 1 ELSE 0
           /\ \A i \in 1..Len(SubSeq(q, a, Len(q))) : SubSeq(q, a, Len(q))[i] = q[a + i - 1]
    OBVIOUS

LEMMA PairIs ==
    ASSUME NEW a, NEW b, a # b
    PROVE  IsFiniteSet({a, b}) /\ Cardinality({a, b}) = 2
    <1>1. IsFiniteSet({a}) /\ Cardinality({a}) = 1 BY FS_Singleton
    <1>2. {a, b} = {a} \cup {b} /\ b \notin {a} OBVIOUS
    <1>3. Cardinality({a} \cup {b}) = Cardinality({a}) + 1 /\ IsFiniteSet({a} \cup {b}) BY <1>1, <1>2, FS_AddElement
    <1> QED BY <1>1, <1>2, <1>3

\* The streams of the first n messages.
LEMMA SharingFinite ==
    ASSUME NEW n \in Nat, NEW f
    PROVE  IsFiniteSet({f[i].s : i \in 1..n})
    <1> DEFINE g == [i \in 1..n |-> f[i].s]
    <1>1. IsFiniteSet(1..n) BY FS_Interval
    <1>2. g \in Surjection(1..n, {f[i].s : i \in 1..n}) BY DEF Surjection
    <1> QED BY <1>1, <1>2, FS_Surjection

LEMMA DispatchTakes ==
    ASSUME DeliveryTyped, DispatchNext
    PROVE  /\ sending = Nothing
           /\ UNCHANGED <<kind, topic, made, stream, streamBuf, shown, fails, failed, finished>>
           /\ outq' \in Seq(Units) /\ pending' \in Seq(Units) /\ Len(pending') <= 1
           /\ \E k \in 1..Len(Line) : Takes(k)
    <1>1. sending = Nothing /\ UNCHANGED <<kind, topic, made, stream, streamBuf, shown, fails, failed, finished>>
        BY DEF DispatchNext
    <1>2. PICK q \in Seq(Units) : Take(Line[1], q) /\ Len(Line) = Len(q) + 1 /\ \A j \in 1..Len(q) : Line[j + 1] = q[j]
        BY HeadOfLine
    <1> DEFINE first == Line[1]
               n == Prefix(first, q)
               sharing == {first.s} \cup {q[i].s : i \in 1..n}
    <1>3. Line \in Seq(Units) /\ DOMAIN Line = 1..Len(Line) /\ 1 \in DOMAIN Line /\ Len(q) \in Nat BY <1>2, LineIs
    <1>4. first \in Units BY <1>3
    <1>5. n \in 0..Len(q) /\ \A i \in 1..n : q[i].kind = "delta" /\ q[i].chat = first.chat BY PrefixIs
    <1>6. \A i \in 1..Len(q) : q[i] \in Units OBVIOUS
    <1>7. lost \subseteq Streams BY DEF DeliveryTyped
    <1>8. first.s \in Streams /\ first.chat \in Chats2 /\ first.try = 0 /\ first.kind \in {"delta", "end"} /\ first.text \in Texts
          /\ first = [kind |-> first.kind, s |-> first.s, chat |-> first.chat, text |-> first.text, try |-> 0]
        BY <1>4, UnitFacts, ChatIn
    <1>9. CASE first.kind = "end"
        <2>1. sending' = first /\ outq' = q /\ pending' = <<>> /\ lost' = lost BY <1>2, <1>9 DEF Take
        <2>2. Line' = q BY <2>1 DEF Line
        <2>3. first.text = <<>> BY <1>4, <1>9, UnitFacts
        <2>4. Takes(1)
            <3>1. sending' \in Sendings BY <1>8, <2>1 DEF Sendings
            <3>2. DOMAIN Line' = 1..Len(Line) - 1 /\ \A j \in DOMAIN Line' : Line'[j] = Line[j + 1] BY <1>2, <1>3, <2>2
            <3> HIDE DEF first
            <3>3. \A x \in 1..1 : Line[x].s = Line[1].s OBVIOUS
            <3> QED BY <1>7, <1>9, <2>1, <2>2, <2>3, <3>1, <3>2, <3>3 DEF Takes, first
        <2> QED BY <1>1, <1>2, <1>3, <2>1, <2>4
    <1>10. CASE first.kind = "delta"
        <2> DEFINE text == Merged(first, q, n)
        <2>1. sending' = [first EXCEPT !.text = text] /\ pending' = (IF n < Len(q) THEN <<q[n + 1]>> ELSE <<>>)
              /\ outq' = SubSeq(q, n + 2, Len(q)) /\ lost' = (IF Cardinality(sharing) > 1 THEN lost \cup sharing ELSE lost)
            BY <1>2, <1>10 DEF Take
        <2> HIDE DEF n
        <2>2. pending' \in Seq(Units) /\ Len(pending') <= 1
            BY <1>5, <1>6, <2>1
        <2>3. outq' \in Seq(Units) /\ Len(outq') = (IF n < Len(q) THEN Len(q) - n - 1 ELSE 0)
              /\ \A j \in 1..Len(outq') : outq'[j] = q[n + 1 + j]
            <3>1. n + 2 \in Nat \ {0} BY <1>5
            <3>2. outq' = SubSeq(q, n + 2, Len(q)) BY <2>1
            <3>3. outq' \in Seq(Units) /\ Len(outq') = (IF n + 2 <= Len(q) THEN Len(q) - (n + 2) + 1 ELSE 0)
                  /\ \A j \in 1..Len(outq') : outq'[j] = q[n + 2 + j - 1]
                BY <3>1, <3>2, RestIs
            <3>4. \A j \in Nat : n + 2 + j - 1 = n + 1 + j BY <1>5
            <3> QED BY <1>3, <1>5, <3>3, <3>4
        <2>4. Line' \in Seq(Units) /\ Len(Line') = Len(q) - n /\ \A j \in 1..Len(q) - n : Line'[j] = q[n + j]
            <3>1. CASE n < Len(q)
                <4>1. pending' = <<q[n + 1]>> /\ n + 1 \in 1..Len(q) BY <1>5, <2>1, <3>1
                <4>2. pending' \in Seq(Units) /\ Len(pending') <= 1 /\ pending' # <<>> /\ pending'[1] = q[n + 1]
                    BY <1>6, <4>1
                <4>3. Line' \in Seq(Units) /\ Line'[1] = q[n + 1] /\ Len(Line') = Len(outq') + 1
                      /\ \A j \in 1..Len(outq') : Line'[j + 1] = outq'[j]
                    BY <2>3, <4>2, OneOf DEF Line
                <4>4. \A j \in 1..Len(q) - n : j = 1 \/ (j - 1 \in 1..Len(outq') /\ (j - 1) + 1 = j /\ n + 1 + (j - 1) = n + j)
                    BY <1>3, <1>5, <2>3, <3>1
                <4>5. Len(outq') + 1 = Len(q) - n BY <1>3, <1>5, <2>3, <3>1
                <4>6. \A j \in 1..Len(q) - n : Line'[j] = q[n + j]
                    <5> TAKE j \in 1..Len(q) - n
                    <5>1. CASE j = 1 BY <4>3, <5>1
                    <5>2. CASE j # 1
                        <6>1. j - 1 \in 1..Len(outq') /\ (j - 1) + 1 = j /\ n + 1 + (j - 1) = n + j BY <4>4, <5>2
                        <6>2. Line'[(j - 1) + 1] = outq'[j - 1] /\ outq'[j - 1] = q[n + 1 + (j - 1)] BY <2>3, <4>3, <6>1
                        <6> QED BY <6>1, <6>2
                    <5> QED BY <5>1, <5>2
                <4> QED BY <4>3, <4>5, <4>6
            <3>2. CASE ~(n < Len(q))
                <4>1. pending' = <<>> /\ n = Len(q) BY <1>5, <2>1, <3>2
                <4>2. Line' = outq' /\ Len(outq') = 0 BY <2>3, <3>2, <4>1 DEF Line
                <4> QED BY <1>3, <2>3, <4>1, <4>2
            <3> QED BY <3>1, <3>2
        <2>5. first.text = <<first.text[1]>> /\ first.text[1] \in Streams \X Nat BY <1>4, <1>10, UnitFacts
        <2>6. \A i \in 1..n : q[i].text[1] \in Streams \X Nat
            <3> TAKE i \in 1..n
            <3>1. q[i] \in Units /\ q[i].kind = "delta" BY <1>5, <1>6
            <3> QED BY <3>1, UnitFacts
        <2>7. text = <<first.text[1]>> \o [i \in 1..n |-> q[i].text[1]] BY <2>5 DEF Merged
        <2>8. text \in Texts /\ DOMAIN text = 1..n + 1 /\ \A x \in 1..n + 1 : text[x] = Line[x].text[1]
            <3> DEFINE rest == [i \in 1..n |-> q[i].text[1]]
                       e == first.text[1]
            <3>1. rest \in Seq(Streams \X Nat) /\ Len(rest) = n /\ \A i \in 1..n : rest[i] = q[i].text[1] BY <1>5, <2>6
            <3>2. e = Line[1].text[1] /\ e \in Streams \X Nat BY <2>5
            <3>3. text = <<e>> \o rest BY <2>7
            <3> HIDE DEF text, e, rest, first
            <3>4. text \in Seq(Streams \X Nat) /\ Len(text) = n + 1 /\ text[1] = e /\ \A i \in 1..n : text[i + 1] = rest[i]
                BY <1>5, <3>1, <3>2, <3>3
            <3>5. \A x \in 1..n + 1 : x = 1 \/ (x - 1 \in 1..n /\ (x - 1) + 1 = x) BY <1>5
            <3>6. \A i \in 1..n : text[i + 1] = Line[i + 1].text[1] 
                <4> TAKE i \in 1..n
                <4>1. i \in 1..Len(q) BY <1>3, <1>5
                <4>2. Line[i + 1] = q[i] BY <1>2, <4>1
                <4> QED BY <3>1, <3>4, <4>2
            <3>7. \A x \in 1..n + 1 : text[x] = Line[x].text[1] BY <3>2, <3>4, <3>5, <3>6
            <3> QED BY <1>5, <3>4, <3>7 DEF Texts
        <2> HIDE DEF text
        <2>9. sending' = [kind |-> first.kind, s |-> first.s, chat |-> first.chat, text |-> text, try |-> 0] BY <1>8, <2>1
        <2>10. sending' \in Sendings /\ sending'.kind = first.kind /\ sending'.s = first.s /\ sending'.chat = first.chat
               /\ sending'.text = text
            BY <1>8, <2>8, <2>9 DEF Sendings
        <2>11. sharing \subseteq Streams
            <3>1. \A i \in 1..n : q[i].s \in Streams
                <4> TAKE i \in 1..n
                <4>1. q[i] \in Units BY <1>5, <1>6
                <4> QED BY <4>1, UnitFacts
            <3> QED BY <1>8, <3>1
        <2>12. \A x \in 1..n + 1 : Line[x].s \in sharing /\ Line[x].kind = "delta" /\ Line[x].chat = first.chat
            <3> TAKE x \in 1..n + 1
            <3>1. CASE x = 1 BY <1>10, <3>1
            <3>2. CASE x # 1
                <4>1. x - 1 \in 1..n /\ (x - 1) + 1 = x BY <1>5, <3>2
                <4>2. Line[x] = q[x - 1] BY <1>2, <1>5, <4>1
                <4> QED BY <1>5, <4>1, <4>2
            <3> QED BY <3>1, <3>2
        <2>13. (\A x \in 1..n + 1 : Line[x].s = Line[1].s) \/ (\A x \in 1..n + 1 : Line[x].s \in lost')
            <3>1. CASE Cardinality(sharing) > 1 BY <2>1, <2>12, <3>1
            <3>2. CASE ~(Cardinality(sharing) > 1)
                <4> SUFFICES ASSUME NEW x \in 1..n + 1, Line[x].s # Line[1].s PROVE FALSE OBVIOUS
                <4>1. {Line[1].s, Line[x].s} \subseteq sharing
                    BY <2>12
                <4>2. IsFiniteSet(sharing)
                    <5>1. n \in Nat BY <1>5
                    <5>2. IsFiniteSet({q[i].s : i \in 1..n}) BY <5>1, SharingFinite
                    <5>3. IsFiniteSet({first.s}) BY FS_Singleton
                    <5> QED BY <5>2, <5>3, FS_Union
                <4> HIDE DEF sharing
                <4>3. IsFiniteSet({Line[1].s, Line[x].s}) /\ Cardinality({Line[1].s, Line[x].s}) <= Cardinality(sharing)
                    BY <4>1, <4>2, FS_Subset
                <4>6. Cardinality({Line[1].s, Line[x].s}) = 2 BY PairIs
                <4>7. Cardinality(sharing) \in Nat BY <4>2, FS_CardinalityType
                <4> QED BY <3>2, <4>3, <4>6, <4>7
            <3> QED BY <3>1, <3>2
        <2>14. Takes(n + 1)
            <3>1. DOMAIN Line' = 1..Len(Line) - (n + 1) /\ \A j \in DOMAIN Line' : Line'[j] = Line[j + (n + 1)]
                <4>1. DOMAIN Line' = 1..Len(q) - n /\ Len(Line) - (n + 1) = Len(q) - n BY <1>2, <1>3, <1>5, <2>4
                <4>2. \A j \in 1..Len(q) - n : n + j \in 1..Len(q) /\ (n + j) + 1 = j + (n + 1) BY <1>3, <1>5
                <4> QED BY <1>2, <2>4, <4>1, <4>2
            <3>2. lost \subseteq lost' /\ lost' \subseteq Streams BY <1>7, <2>1, <2>11
            <3> QED BY <1>10, <2>4, <2>8, <2>10, <2>12, <2>13, <3>1, <3>2 DEF Takes
        <2>15. n + 1 \in 1..Len(Line) BY <1>2, <1>3, <1>5
        <2> QED BY <1>1, <2>2, <2>3, <2>14, <2>15
    <1> QED BY <1>8, <1>9, <1>10

----------------------------------------------------------------------------
(* A message that is published. *)

LineAll == DeliveryTyped /\ LineInv /\ SendTyped /\ SendInv /\ EndInv /\ ApartInv

LEMMA SameChats == ASSUME topic' = topic PROVE Units' = Units /\ \A s : Chat(s)' = Chat(s)
    BY DEF Units, Message, Chat

\* The pieces that wait after a step.
HasAfter(s, i) == \E j \in DOMAIN Line' : Line'[j].kind = "delta" /\ Line'[j].s = s /\ Num(Line'[j]) = i
HandAfter(s, i) == \E x \in DOMAIN sending'.text : sending'.text[x] = <<s, i>>

LEMMA HasGrown ==
    ASSUME DeliveryTyped, NEW e \in Units, Grows(e)
    PROVE  /\ \A s, i : HasAfter(s, i) <=> LineHas(s, i) \/ (e.kind = "delta" /\ e.s = s /\ Num(e) = i)
           /\ \A j \in DOMAIN Line' : (j = Len(Line) + 1 /\ Line'[j] = e) \/ (j \in DOMAIN Line /\ Line'[j] = Line[j] /\ j < Len(Line) + 1)
           /\ DOMAIN Line \subseteq DOMAIN Line' /\ \A j \in DOMAIN Line : Line'[j] = Line[j]
           /\ Len(Line) + 1 \in DOMAIN Line' /\ Line'[Len(Line) + 1] = e
    <1>1. DOMAIN Line = 1..Len(Line) /\ Len(Line) \in Nat BY LineIs
    <1>2. DOMAIN Line' = 1..Len(Line) + 1 /\ Line'[Len(Line) + 1] = e /\ \A j \in DOMAIN Line : Line'[j] = Line[j] BY DEF Grows
    <1>3. Len(Line) + 1 \in DOMAIN Line' /\ DOMAIN Line \subseteq DOMAIN Line' BY <1>1, <1>2
    <1>4. \A j \in DOMAIN Line' : (j = Len(Line) + 1 /\ Line'[j] = e) \/ (j \in DOMAIN Line /\ Line'[j] = Line[j] /\ j < Len(Line) + 1)
        BY <1>1, <1>2
    <1>5. \A s, i : HasAfter(s, i) <=> LineHas(s, i) \/ (e.kind = "delta" /\ e.s = s /\ Num(e) = i)
        BY <1>2, <1>3, <1>4 DEF LineHas, HasAfter
    <1> QED BY <1>2, <1>3, <1>4, <1>5

\* The pieces that have been taken stay those.
LEMMA TakenGrown ==
    ASSUME DeliveryTyped, NEW e \in Units, Grows(e), sending' = sending, NEW s \in Streams, NEW i,
           \/ made' = made /\ e.kind = "end"
           \/ e.kind = "delta" /\ made[e.s] \in Nat /\ made' = [made EXCEPT ![e.s] = @ + 1] /\ Num(e) = made[e.s] + 1
    PROVE  TakenOf(s, i)' <=> TakenOf(s, i)
    <1>1. LineHas(s, i)' <=> LineHas(s, i) \/ (e.kind = "delta" /\ e.s = s /\ Num(e) = i) 
        <2>1. LineHas(s, i)' <=> HasAfter(s, i) BY DEF LineHas, HasAfter, Num
        <2> QED BY <2>1, HasGrown
    <1>2. HeldNow(s, i)' <=> HeldNow(s, i) BY DEF HeldNow
    <1>3. TakenOf(s, i)' <=> i \in 1..made'[s] /\ ~LineHas(s, i)' /\ ~HeldNow(s, i) BY <1>2 DEF TakenOf
    <1>4. made[s] \in Nat /\ made \in [Streams -> Nat] BY DEF DeliveryTyped
    <1>5. CASE made' = made /\ e.kind = "end" BY <1>1, <1>3, <1>5 DEF TakenOf
    <1>6. CASE e.kind = "delta" /\ made[e.s] \in Nat /\ made' = [made EXCEPT ![e.s] = @ + 1] /\ Num(e) = made[e.s] + 1
        <2>1. CASE e.s = s
            <3>1. made'[s] = made[s] + 1 BY <1>4, <1>6, <2>1
            <3>2. i \in 1..made'[s] /\ i # made[s] + 1 <=> i \in 1..made[s] BY <1>4, <3>1
            <3> QED BY <1>1, <1>3, <1>6, <2>1, <3>2 DEF TakenOf
        <2>2. CASE e.s # s
            <3>1. made'[s] = made[s] BY <1>4, <1>6, <2>2
            <3> QED BY <1>1, <1>3, <2>2, <3>1 DEF TakenOf
        <2> QED BY <2>1, <2>2
    <1> QED BY <1>5, <1>6

\* A stream that is new has nothing in the line.
LEMMA NewHasNone ==
    ASSUME DeliveryTyped, LineInv, NEW s \in Streams, stream[s] = "new"
    PROVE  made[s] = 0 /\ \A j \in DOMAIN Line : Line[j].s # s
    <1>1. made[s] = 0 BY DEF LineInv
    <1>2. ASSUME NEW j \in DOMAIN Line, Line[j].s = s PROVE FALSE
        <2>1. Line[j].kind \in {"delta", "end"} BY LineIs, UnitFacts
        <2>2. CASE Line[j].kind = "delta" BY <1>1, <1>2, <2>2 DEF LineInv
        <2>3. CASE Line[j].kind = "end" BY <1>2, <2>3 DEF LineInv
        <2> QED BY <2>1, <2>2, <2>3
    <1> QED BY <1>1, <1>2

LEMMA PieceGrows ==
    ASSUME DeliveryTyped, NEW s \in Streams, Piece(s)
    PROVE  LET e == Message("delta", s, <<<<s, made[s] + 1>>>>) IN
           /\ e \in Units /\ Grows(e) /\ e.kind = "delta" /\ e.s = s /\ Num(e) = made[s] + 1 /\ made[s] \in Nat
           /\ outq' \in Seq(Units) /\ pending' = pending /\ sending' = sending /\ topic' = topic /\ finished' = finished
           /\ made' = [made EXCEPT ![s] = @ + 1] /\ stream' = [stream EXCEPT ![s] = "open"]
           /\ stream[s] \in {"new", "open"}
           /\ lost \subseteq lost' /\ lost' \subseteq Streams /\ (OthersOpen(s) # {} => {s} \cup OthersOpen(s) \subseteq lost')
    <1> DEFINE e == Message("delta", s, <<<<s, made[s] + 1>>>>)
    <1>1. made[s] \in Nat /\ made[s] + 1 \in Nat BY DEF DeliveryTyped
    <1>2. e \in Units BY <1>1 DEF Units
    <1>3. e.kind = "delta" /\ e.s = s /\ Num(e) = made[s] + 1 BY DEF Message, Num
    <1>4. Grows(e) /\ outq' \in Seq(Units)
        <2>1. outq' = Append(outq, e) /\ pending' = pending BY DEF Piece
        <2> HIDE DEF e
        <2> QED BY <1>2, <2>1, LineGrows
    <1>5. lost \subseteq lost' /\ lost' \subseteq Streams /\ (OthersOpen(s) # {} => {s} \cup OthersOpen(s) \subseteq lost')
        BY DEF Piece, DeliveryTyped, OthersOpen
    <1> QED BY <1>1, <1>2, <1>3, <1>4, <1>5 DEF Piece

LEMMA EndGrows ==
    ASSUME DeliveryTyped, NEW s \in Streams, EndOfStream(s)
    PROVE  LET e == Message("end", s, <<>>) IN
           /\ e \in Units /\ Grows(e) /\ e.kind = "end" /\ e.s = s
           /\ outq' \in Seq(Units) /\ pending' = pending /\ sending' = sending /\ topic' = topic /\ finished' = finished
           /\ made' = made /\ stream' = [stream EXCEPT ![s] = "ended"] /\ stream[s] = "open" /\ lost' = lost
    <1> DEFINE e == Message("end", s, <<>>)
    <1>2. e \in Units BY DEF Units
    <1>3. e.kind = "end" /\ e.s = s BY DEF Message
    <1>4. Grows(e) /\ outq' \in Seq(Units)
        <2>1. outq' = Append(outq, e) /\ pending' = pending BY DEF EndOfStream
        <2> HIDE DEF e
        <2> QED BY <1>2, <2>1, LineGrows
    <1> QED BY <1>2, <1>3, <1>4 DEF EndOfStream, streamHistory

LEMMA PieceKeepsLine ==
    ASSUME StreamAssumption, LineAll, NEW s \in Streams, Piece(s)
    PROVE  LineAll'
    <1> DEFINE e == Message("delta", s, <<<<s, made[s] + 1>>>>)
    <1>1. /\ e \in Units /\ Grows(e) /\ e.kind = "delta" /\ e.s = s /\ Num(e) = made[s] + 1 /\ made[s] \in Nat
          /\ outq' \in Seq(Units) /\ pending' = pending /\ sending' = sending /\ topic' = topic /\ finished' = finished
          /\ made' = [made EXCEPT ![s] = @ + 1] /\ stream' = [stream EXCEPT ![s] = "open"]
          /\ stream[s] \in {"new", "open"}
          /\ lost \subseteq lost' /\ lost' \subseteq Streams /\ (OthersOpen(s) # {} => {s} \cup OthersOpen(s) \subseteq lost')
        BY PieceGrows DEF LineAll
    <1> HIDE DEF e
    <1>2. DeliveryTyped /\ LineInv /\ SendTyped /\ SendInv /\ EndInv /\ ApartInv BY DEF LineAll
    <1>3. Units' = Units /\ \A t : Chat(t)' = Chat(t) BY <1>1, SameChats
    <1>4. /\ \A t, i : HasAfter(t, i) <=> LineHas(t, i) \/ (s = t /\ made[s] + 1 = i)
          /\ \A j \in DOMAIN Line' : (j = Len(Line) + 1 /\ Line'[j] = e) \/ (j \in DOMAIN Line /\ Line'[j] = Line[j] /\ j < Len(Line) + 1)
          /\ DOMAIN Line \subseteq DOMAIN Line' /\ \A j \in DOMAIN Line : Line'[j] = Line[j]
          /\ Len(Line) + 1 \in DOMAIN Line' /\ Line'[Len(Line) + 1] = e
        BY <1>1, <1>2, HasGrown
    <1>5. /\ made \in [Streams -> Nat] /\ stream \in [Streams -> {"new", "open", "ended", "dropped"}]
          /\ made'[s] = made[s] + 1 /\ stream'[s] = "open" /\ made' \in [Streams -> Nat]
          /\ \A t \in Streams \ {s} : made'[t] = made[t] /\ stream'[t] = stream[t]
        BY <1>1, <1>2 DEF DeliveryTyped
    <1>6. \A j \in DOMAIN Line : Line[j] \in Units /\ Line[j].s \in Streams /\ Line[j].kind \in {"delta", "end"}
          /\ (Line[j].kind = "delta" => Num(Line[j]) \in Nat)
        BY <1>2, LineIs, UnitFacts
    <1>7. DOMAIN Line = 1..Len(Line) /\ Len(Line) \in Nat BY <1>2, LineIs
    <1>8. DeliveryTyped'
        <2>1. stream' \in [Streams -> {"new", "open", "ended", "dropped"}] BY <1>1, <1>2 DEF DeliveryTyped
        <2>2. UNCHANGED <<kind, topic, pending, streamBuf, shown, failed, finished>> BY DEF Piece
        <2> QED BY <1>1, <1>2, <1>3, <1>5, <2>1, <2>2 DEF DeliveryTyped, Chats2, Texts
    \* A stream whose entries are not its last is not new, and has not ended.
    <1>9. \A j \in DOMAIN Line : Line[j].s = s => stream[s] = "open" /\ Line[j].kind = "delta" /\ Num(Line[j]) \in 1..made[s]
        <2> TAKE j \in DOMAIN Line
        <2> HAVE Line[j].s = s
        <2>1. stream[s] = "open" BY <1>1, <1>2, NewHasNone
        <2>2. Line[j].kind = "delta" BY <1>2, <1>6, <2>1 DEF LineInv
        <2> QED BY <1>2, <2>1, <2>2 DEF LineInv
    <1>10. LineInv'
        <2>1. \A t \in Streams : (stream'[t] = "new" => made'[t] = 0) /\ (stream'[t] \in {"open", "ended"} => made'[t] > 0)
            <3> TAKE t \in Streams
            <3>1. CASE t = s BY <1>1, <1>5, <3>1
            <3>2. CASE t # s BY <1>2, <1>5, <3>2 DEF LineInv
            <3> QED BY <3>1, <3>2
        <2>2. \A j \in DOMAIN Line : Line[j].kind = "delta" => Num(Line[j]) \in 1..made'[Line[j].s]
            <3> TAKE j \in DOMAIN Line
            <3> HAVE Line[j].kind = "delta"
            <3>1. Num(Line[j]) \in 1..made[Line[j].s] /\ Line[j].s \in Streams BY <1>2, <1>6 DEF LineInv
            <3> QED BY <1>1, <1>5, <3>1
        <2>3. \A j \in DOMAIN Line : Line[j].kind = "end" => stream'[Line[j].s] = "ended"
            BY <1>2, <1>5, <1>6, <1>9 DEF LineInv
        <2>4. \A j \in DOMAIN Line' : /\ Line'[j].kind = "delta" => Num(Line'[j]) \in 1..made'[Line'[j].s]
                                      /\ Line'[j].kind = "end" => stream'[Line'[j].s] = "ended"
            BY <1>1, <1>4, <1>5, <2>2, <2>3
        <2>5. \A j, k \in DOMAIN Line' :
                  j < k /\ Line'[j].s = Line'[k].s =>
                      Line'[j].kind = "delta" /\ (Line'[k].kind = "delta" => Num(Line'[j]) < Num(Line'[k]))
            <3> SUFFICES ASSUME NEW j \in DOMAIN Line', NEW k \in DOMAIN Line', j < k, Line'[j].s = Line'[k].s
                         PROVE  Line'[j].kind = "delta" /\ (Line'[k].kind = "delta" => Num(Line'[j]) < Num(Line'[k]))
                OBVIOUS
            <3>1. j \in DOMAIN Line /\ Line'[j] = Line[j]
                <4>1. CASE j = Len(Line) + 1 BY <1>4, <1>7, <4>1
                <4> QED BY <1>4, <4>1
            <3>2. CASE k \in DOMAIN Line
                <4>1. Line'[k] = Line[k] BY <1>4, <3>2
                <4> QED BY <1>2, <3>1, <3>2, <4>1 DEF LineInv
            <3>3. CASE k = Len(Line) + 1
                <4>1. Line'[k] = e BY <1>4, <3>3
                <4>2. Line[j].kind = "delta" /\ Num(Line[j]) \in 1..made[s] BY <1>1, <1>9, <3>1, <4>1
                <4> QED BY <1>1, <3>1, <4>1, <4>2
            <3> QED BY <1>4, <3>2, <3>3
        <2>6. \A j \in DOMAIN Line' : Line'[j].kind = "delta" =>
                  \A i \in 1..made'[Line'[j].s] : i > Num(Line'[j]) => HasAfter(Line'[j].s, i)
            <3> SUFFICES ASSUME NEW j \in DOMAIN Line', Line'[j].kind = "delta", NEW i \in 1..made'[Line'[j].s], i > Num(Line'[j])
                         PROVE  HasAfter(Line'[j].s, i)
                OBVIOUS
            <3>1. CASE j = Len(Line) + 1 BY <1>1, <1>4, <1>5, <3>1
            <3>2. CASE j \in DOMAIN Line
                <4>1. Line'[j] = Line[j] /\ Line[j].s \in Streams BY <1>4, <1>6, <3>2
                <4>2. i \in 1..made[Line[j].s] \/ (Line[j].s = s /\ i = made[s] + 1) BY <1>1, <1>5, <4>1
                <4>3. CASE i \in 1..made[Line[j].s]
                    <5>1. LineHas(Line[j].s, i) BY <1>2, <3>2, <4>1, <4>3 DEF LineInv
                    <5> QED BY <1>4, <4>1, <5>1
                <4>4. CASE Line[j].s = s /\ i = made[s] + 1 BY <1>4, <4>1, <4>4
                <4> QED BY <4>2, <4>3, <4>4
            <3> QED BY <1>4, <3>1, <3>2
        <2> QED BY <2>1, <2>4, <2>5, <2>6 DEF LineInv, Num, LineHas, HasAfter
    <1>11. SendTyped' BY <1>1, <1>2, <1>3 DEF SendTyped, Texts, Chats2
    <1>12. SendInv'
        <2>1. sending.kind = "end" => stream'[sending.s] = "ended" /\ sending.s \notin finished' /\ \A j \in DOMAIN Line' : Line'[j].s # sending.s
            <3> HAVE sending.kind = "end"
            <3>1. sending.s \in Streams BY <1>2 DEF SendTyped, Nothing
            <3>2. stream[sending.s] = "ended" /\ sending.s \notin finished /\ \A j \in DOMAIN Line : Line[j].s # sending.s
                BY <1>2 DEF SendInv
            <3>3. sending.s # s BY <1>1, <3>2
            <3> QED BY <1>1, <1>4, <1>5, <3>1, <3>2, <3>3
        <2>2. ASSUME NEW x \in DOMAIN sending.text
              PROVE  LET p == sending.text[x] IN
                     /\ Chat(p[1]) = sending.chat /\ p[2] \in 1..made'[p[1]] /\ ~HasAfter(p[1], p[2])
                     /\ p[1] # sending.s => sending.s \in lost' /\ p[1] \in lost'
                     /\ p[1] \notin lost' =>
                            /\ \A y \in DOMAIN sending.text : x < y => p[2] < sending.text[y][2]
                            /\ \A i \in 1..made'[p[1]] : i > p[2] => HasAfter(p[1], i) \/ HeldNow(p[1], i)
            <3> DEFINE p == sending.text[x]
            <3>1. p[1] \in Streams BY <1>2 DEF SendTyped, Texts, Nothing
            <3>2. /\ Chat(p[1]) = sending.chat /\ p[2] \in 1..made[p[1]] /\ ~LineHas(p[1], p[2])
                  /\ p[1] # sending.s => sending.s \in lost /\ p[1] \in lost
                  /\ p[1] \notin lost =>
                         /\ \A y \in DOMAIN sending.text : x < y => p[2] < sending.text[y][2]
                         /\ \A i \in 1..made[p[1]] : i > p[2] => LineHas(p[1], i) \/ HeldNow(p[1], i)
                BY <1>2 DEF SendInv
            <3> HIDE DEF p
            <3>3. made[p[1]] \in Nat BY <1>5, <3>1
            <3>4. CASE p[1] = s
                <4>1. p[2] # made[s] + 1 /\ p[2] \in 1..made'[s] BY <1>5, <3>2, <3>3, <3>4
                <4>2. \A i \in 1..made'[s] : i \in 1..made[s] \/ i = made[s] + 1 BY <1>5, <3>3, <3>4
                <4>3. ~HasAfter(p[1], p[2]) BY <1>4, <3>2, <4>1
                <4>4. p[1] \notin lost' => \A i \in 1..made'[p[1]] : i > p[2] => HasAfter(p[1], i) \/ HeldNow(p[1], i)
                    BY <1>1, <1>4, <3>2, <3>4, <4>2
                <4> QED BY <1>1, <3>2, <3>4, <4>1, <4>3, <4>4 DEF p
            <3>5. CASE p[1] # s
                <4>1. made'[p[1]] = made[p[1]] /\ \A i : HasAfter(p[1], i) <=> LineHas(p[1], i) BY <1>4, <1>5, <3>1, <3>5
                <4> QED BY <1>1, <3>2, <4>1 DEF p
            <3> QED BY <3>4, <3>5
        <2>3. \A t, i : HeldNow(t, i)' <=> HeldNow(t, i) BY <1>1 DEF HeldNow
        <2>4. \A t, i : LineHas(t, i)' <=> HasAfter(t, i) BY DEF LineHas, HasAfter, Num
        <2> QED BY <1>1, <1>3, <2>1, <2>2, <2>3, <2>4 DEF SendInv
    <1>13. EndInv'
        <2> SUFFICES ASSUME NEW t \in Streams
                     PROVE  /\ t \in finished => stream'[t] = "ended" /\ \A j \in DOMAIN Line' : Line'[j].s # t
                            /\ stream'[t] = "ended" /\ t \notin finished =>
                                   (\E j \in DOMAIN Line' : Line'[j].s = t /\ Line'[j].kind = "end") \/ (sending.kind = "end" /\ sending.s = t)
            BY <1>1 DEF EndInv
        <2>1. CASE t = s BY <1>1, <1>2, <1>5, <2>1 DEF EndInv
        <2>2. CASE t # s
            <3>1. stream'[t] = stream[t] BY <1>5, <2>2
            <3>2. t \in finished => \A j \in DOMAIN Line' : Line'[j].s # t BY <1>1, <1>2, <1>4, <2>2 DEF EndInv
            <3>3. (\E j \in DOMAIN Line : Line[j].s = t /\ Line[j].kind = "end") => \E j \in DOMAIN Line' : Line'[j].s = t /\ Line'[j].kind = "end" BY <1>4
            <3> QED BY <1>2, <3>1, <3>2, <3>3 DEF EndInv
        <2> QED BY <2>1, <2>2
    <1>14. ApartInv'
        <2> SUFFICES ASSUME NEW a \in Streams \ lost', NEW t \in Streams \ {a}, Chat(t) = Chat(a)
                     PROVE  /\ ~(stream'[a] = "open" /\ stream'[t] = "open")
                            /\ \A j \in DOMAIN Line' :
                                   Line'[j].s = t /\ (stream'[a] = "open" \/ \E k \in DOMAIN Line' : j < k /\ Line'[k].s = a) =>
                                       HasAfter(a, 1) /\ \A l \in DOMAIN Line' : l < j => Line'[l].s # a
                            /\ sending.s = t /\ MoreOf(a)' => HasAfter(a, 1)
            BY <1>1, <1>3 DEF ApartInv, LineHas, HasAfter, Num
        <2>1. /\ ~(stream[a] = "open" /\ stream[t] = "open")
              /\ \A j \in DOMAIN Line :
                     Line[j].s = t /\ (stream[a] = "open" \/ \E k \in DOMAIN Line : j < k /\ Line[k].s = a) =>
                         LineHas(a, 1) /\ \A l \in DOMAIN Line : l < j => Line[l].s # a
              /\ sending.s = t /\ MoreOf(a) => LineHas(a, 1)
            BY <1>1, <1>2 DEF ApartInv
        <2>2. OthersOpen(s) # {} => s \in lost' /\ \A u \in OthersOpen(s) : u \in lost' BY <1>1
        <2>3. CASE a = s
            <3>1. stream[t] # "open" /\ stream'[t] = stream[t]
                <4>1. stream[t] = "open" => t \in OthersOpen(s) BY <2>3 DEF OthersOpen
                <4> QED BY <1>5, <2>2, <2>3, <4>1
            <3>2. stream[s] = "new" => HasAfter(s, 1) /\ \A l \in DOMAIN Line : Line[l].s # s
                <4> HAVE stream[s] = "new"
                <4>1. made[s] = 0 /\ \A l \in DOMAIN Line : Line[l].s # s BY <1>2, NewHasNone
                <4> QED BY <1>4, <4>1
            <3>3. ASSUME NEW j \in DOMAIN Line', Line'[j].s = t
                  PROVE  HasAfter(s, 1) /\ \A l \in DOMAIN Line' : l < j => Line'[l].s # s
                <4>1. j \in DOMAIN Line /\ Line'[j] = Line[j] BY <1>1, <1>4, <2>3, <3>3
                <4>2. \A l \in DOMAIN Line' : l < j => l \in DOMAIN Line /\ Line'[l] = Line[l] BY <1>4, <1>7, <4>1
                <4>3. CASE stream[s] = "new" BY <3>2, <4>2, <4>3
                <4>4. CASE stream[s] = "open" BY <1>4, <2>1, <2>3, <3>3, <4>1, <4>2, <4>4
                <4> QED BY <1>1, <4>3, <4>4
            <3>4. sending.s = t => HasAfter(s, 1)
                <4>1. CASE stream[s] = "new" BY <3>2, <4>1
                <4>2. CASE stream[s] = "open" BY <1>4, <2>1, <2>3, <4>2 DEF MoreOf
                <4> QED BY <1>1, <4>1, <4>2
            <3> QED BY <2>3, <3>1, <3>3, <3>4
        <2>4. CASE a # s
            <3>1. stream'[a] = stream[a] /\ \A l \in DOMAIN Line' : Line'[l].s = a => l \in DOMAIN Line /\ Line'[l] = Line[l]
                BY <1>1, <1>4, <1>5, <2>4
            <3>2. HasAfter(a, 1) <=> LineHas(a, 1) BY <1>4, <2>4
            <3>3. stream'[a] = "open" => t # s /\ stream'[t] = stream[t]
                <4> HAVE stream'[a] = "open"
                <4>1. t = s => a \in OthersOpen(s) BY <2>4, <3>1 DEF OthersOpen
                <4> QED BY <1>5, <2>2, <4>1
            <3>4. MoreOf(a)' => MoreOf(a)
                <4>1. MoreOf(a)' <=> stream'[a] = "open" \/ \E k \in DOMAIN Line' : Line'[k].s = a BY DEF MoreOf
                <4> QED BY <3>1, <4>1 DEF MoreOf
            <3>5. ASSUME NEW j \in DOMAIN Line', Line'[j].s = t, stream'[a] = "open" \/ \E k \in DOMAIN Line' : j < k /\ Line'[k].s = a
                  PROVE  LineHas(a, 1) /\ \A l \in DOMAIN Line' : l < j => Line'[l].s # a
                <4>1. j \in DOMAIN Line /\ Line'[j] = Line[j]
                    <5>1. CASE j = Len(Line) + 1
                        <6>1. t = s BY <1>1, <1>4, <3>5, <5>1, <1>7
                        <6>2. PICK k \in DOMAIN Line' : j < k /\ Line'[k].s = a BY <3>3, <3>5, <6>1
                        <6>3. k \in DOMAIN Line BY <3>1, <6>2
                        <6> QED BY <1>7, <5>1, <6>2, <6>3
                    <5> QED BY <1>4, <5>1
                <4>2. stream[a] = "open" \/ \E k \in DOMAIN Line : j < k /\ Line[k].s = a BY <3>1, <3>5
                <4>3. LineHas(a, 1) /\ \A l \in DOMAIN Line : l < j => Line[l].s # a BY <2>1, <3>5, <4>1, <4>2
                <4> QED BY <3>1, <4>3
            <3> QED BY <2>1, <3>1, <3>2, <3>3, <3>4, <3>5
        <2> QED BY <2>3, <2>4
    <1> QED BY <1>8, <1>10, <1>11, <1>12, <1>13, <1>14 DEF LineAll

LEMMA EndKeepsLine ==
    ASSUME StreamAssumption, LineAll, NEW s \in Streams, EndOfStream(s)
    PROVE  LineAll'
    <1> DEFINE e == Message("end", s, <<>>)
    <1>1. /\ e \in Units /\ Grows(e) /\ e.kind = "end" /\ e.s = s
          /\ outq' \in Seq(Units) /\ pending' = pending /\ sending' = sending /\ topic' = topic /\ finished' = finished
          /\ made' = made /\ stream' = [stream EXCEPT ![s] = "ended"] /\ stream[s] = "open" /\ lost' = lost
        BY EndGrows DEF LineAll
    <1> HIDE DEF e
    <1>2. DeliveryTyped /\ LineInv /\ SendTyped /\ SendInv /\ EndInv /\ ApartInv BY DEF LineAll
    <1>3. Units' = Units /\ \A t : Chat(t)' = Chat(t) BY <1>1, SameChats
    <1>4. /\ \A t, i : HasAfter(t, i) <=> LineHas(t, i)
          /\ \A j \in DOMAIN Line' : (j = Len(Line) + 1 /\ Line'[j] = e) \/ (j \in DOMAIN Line /\ Line'[j] = Line[j] /\ j < Len(Line) + 1)
          /\ DOMAIN Line \subseteq DOMAIN Line' /\ \A j \in DOMAIN Line : Line'[j] = Line[j]
          /\ Len(Line) + 1 \in DOMAIN Line' /\ Line'[Len(Line) + 1] = e
        BY <1>1, <1>2, HasGrown
    <1>5. /\ stream'[s] = "ended" /\ stream' \in [Streams -> {"new", "open", "ended", "dropped"}]
          /\ \A t \in Streams \ {s} : stream'[t] = stream[t]
        BY <1>1, <1>2 DEF DeliveryTyped
    <1>6. \A j \in DOMAIN Line : Line[j] \in Units /\ Line[j].s \in Streams /\ Line[j].kind \in {"delta", "end"}
        BY <1>2, LineIs, UnitFacts
    <1>7. DOMAIN Line = 1..Len(Line) /\ Len(Line) \in Nat BY <1>2, LineIs
    <1>8. DeliveryTyped'
        <2>1. UNCHANGED <<kind, topic, pending, streamBuf, shown, failed, finished>> BY DEF EndOfStream, streamHistory
        <2> QED BY <1>1, <1>2, <1>3, <1>5, <2>1 DEF DeliveryTyped, Chats2, Texts
    <1>9. \A j \in DOMAIN Line : Line[j].s = s => Line[j].kind = "delta"
        BY <1>1, <1>2, <1>6 DEF LineInv
    <1>10. LineInv'
        <2>1. \A t \in Streams : (stream'[t] = "new" => made[t] = 0) /\ (stream'[t] \in {"open", "ended"} => made[t] > 0)
            <3> TAKE t \in Streams
            <3>1. CASE t = s BY <1>1, <1>2, <1>5, <3>1 DEF LineInv
            <3>2. CASE t # s BY <1>2, <1>5, <3>2 DEF LineInv
            <3> QED BY <3>1, <3>2
        <2>2. \A j \in DOMAIN Line' : /\ Line'[j].kind = "delta" => Num(Line'[j]) \in 1..made[Line'[j].s]
                                      /\ Line'[j].kind = "end" => stream'[Line'[j].s] = "ended"
            <3> TAKE j \in DOMAIN Line'
            <3>1. CASE j = Len(Line) + 1 BY <1>1, <1>4, <1>5, <3>1
            <3>2. CASE j \in DOMAIN Line
                <4>1. Line'[j] = Line[j] /\ Line[j].s \in Streams BY <1>4, <1>6, <3>2
                <4>2. (Line[j].kind = "delta" => Num(Line[j]) \in 1..made[Line[j].s]) /\ (Line[j].kind = "end" => stream[Line[j].s] = "ended")
                    BY <1>2, <3>2 DEF LineInv
                <4>3. Line[j].kind = "end" => Line[j].s # s BY <1>9, <3>2
                <4> QED BY <1>5, <4>1, <4>2, <4>3
            <3> QED BY <1>4, <3>1, <3>2
        <2>3. \A j, k \in DOMAIN Line' :
                  j < k /\ Line'[j].s = Line'[k].s =>
                      Line'[j].kind = "delta" /\ (Line'[k].kind = "delta" => Num(Line'[j]) < Num(Line'[k]))
            <3> SUFFICES ASSUME NEW j \in DOMAIN Line', NEW k \in DOMAIN Line', j < k, Line'[j].s = Line'[k].s
                         PROVE  Line'[j].kind = "delta" /\ (Line'[k].kind = "delta" => Num(Line'[j]) < Num(Line'[k]))
                OBVIOUS
            <3>1. j \in DOMAIN Line /\ Line'[j] = Line[j]
                <4>1. CASE j = Len(Line) + 1 BY <1>4, <1>7, <4>1
                <4> QED BY <1>4, <4>1
            <3>2. CASE k \in DOMAIN Line
                <4>1. Line'[k] = Line[k] BY <1>4, <3>2
                <4> QED BY <1>2, <3>1, <3>2, <4>1 DEF LineInv
            <3>3. CASE k = Len(Line) + 1 BY <1>1, <1>4, <1>9, <3>1, <3>3
            <3> QED BY <1>4, <3>2, <3>3
        <2>4. \A j \in DOMAIN Line' : Line'[j].kind = "delta" =>
                  \A i \in 1..made[Line'[j].s] : i > Num(Line'[j]) => HasAfter(Line'[j].s, i)
            <3> SUFFICES ASSUME NEW j \in DOMAIN Line', Line'[j].kind = "delta", NEW i \in 1..made[Line'[j].s], i > Num(Line'[j])
                         PROVE  HasAfter(Line'[j].s, i)
                OBVIOUS
            <3>1. j \in DOMAIN Line /\ Line'[j] = Line[j] BY <1>1, <1>4
            <3>2. LineHas(Line[j].s, i) BY <1>2, <3>1 DEF LineInv
            <3> QED BY <1>4, <3>1, <3>2
        <2> QED BY <1>1, <2>1, <2>2, <2>3, <2>4 DEF LineInv, Num, LineHas, HasAfter
    <1>11. SendTyped' BY <1>1, <1>2, <1>3 DEF SendTyped, Texts, Chats2
    <1>12. SendInv'
        <2>1. sending.kind = "end" => stream'[sending.s] = "ended" /\ sending.s \notin finished /\ \A j \in DOMAIN Line' : Line'[j].s # sending.s
            <3> HAVE sending.kind = "end"
            <3>1. sending.s \in Streams BY <1>2 DEF SendTyped, Nothing
            <3>2. stream[sending.s] = "ended" /\ sending.s \notin finished /\ \A j \in DOMAIN Line : Line[j].s # sending.s
                BY <1>2 DEF SendInv
            <3>3. sending.s # s BY <1>1, <3>2
            <3> QED BY <1>1, <1>4, <1>5, <3>1, <3>2, <3>3
        <2>2. \A t, i : HeldNow(t, i)' <=> HeldNow(t, i) BY <1>1 DEF HeldNow
        <2>3. \A t, i : LineHas(t, i)' <=> HasAfter(t, i) BY DEF LineHas, HasAfter, Num
        <2> QED BY <1>1, <1>2, <1>3, <1>4, <2>1, <2>2, <2>3 DEF SendInv
    <1>13. EndInv'
        <2> SUFFICES ASSUME NEW t \in Streams
                     PROVE  /\ t \in finished => stream'[t] = "ended" /\ \A j \in DOMAIN Line' : Line'[j].s # t
                            /\ stream'[t] = "ended" /\ t \notin finished =>
                                   (\E j \in DOMAIN Line' : Line'[j].s = t /\ Line'[j].kind = "end") \/ (sending.kind = "end" /\ sending.s = t)
            BY <1>1 DEF EndInv
        <2>1. CASE t = s BY <1>1, <1>2, <1>4, <1>5, <2>1 DEF EndInv
        <2>2. CASE t # s
            <3>1. stream'[t] = stream[t] BY <1>5, <2>2
            <3>2. t \in finished => \A j \in DOMAIN Line' : Line'[j].s # t BY <1>1, <1>2, <1>4, <2>2 DEF EndInv
            <3>3. (\E j \in DOMAIN Line : Line[j].s = t /\ Line[j].kind = "end") => \E j \in DOMAIN Line' : Line'[j].s = t /\ Line'[j].kind = "end" BY <1>4
            <3> QED BY <1>2, <3>1, <3>2, <3>3 DEF EndInv
        <2> QED BY <2>1, <2>2
    <1>14. ApartInv'
        <2> SUFFICES ASSUME NEW a \in Streams \ lost, NEW t \in Streams \ {a}, Chat(t) = Chat(a)
                     PROVE  /\ ~(stream'[a] = "open" /\ stream'[t] = "open")
                            /\ \A j \in DOMAIN Line' :
                                   Line'[j].s = t /\ (stream'[a] = "open" \/ \E k \in DOMAIN Line' : j < k /\ Line'[k].s = a) =>
                                       HasAfter(a, 1) /\ \A l \in DOMAIN Line' : l < j => Line'[l].s # a
                            /\ sending.s = t /\ MoreOf(a)' => HasAfter(a, 1)
            BY <1>1, <1>3 DEF ApartInv, LineHas, HasAfter, Num
        <2>1. /\ ~(stream[a] = "open" /\ stream[t] = "open")
              /\ \A j \in DOMAIN Line :
                     Line[j].s = t /\ (stream[a] = "open" \/ \E k \in DOMAIN Line : j < k /\ Line[k].s = a) =>
                         LineHas(a, 1) /\ \A l \in DOMAIN Line : l < j => Line[l].s # a
              /\ sending.s = t /\ MoreOf(a) => LineHas(a, 1)
            BY <1>1, <1>2 DEF ApartInv
        <2>2. \A u \in Streams : stream'[u] = "open" => stream[u] = "open" /\ u # s
            BY <1>5
        <2>3. MoreOf(a)' => MoreOf(a)
            <3>1. MoreOf(a)' <=> stream'[a] = "open" \/ \E k \in DOMAIN Line' : Line'[k].s = a BY DEF MoreOf
            <3> QED BY <1>1, <1>4, <2>2, <3>1 DEF MoreOf
        <2>4. ASSUME NEW j \in DOMAIN Line', Line'[j].s = t, stream'[a] = "open" \/ \E k \in DOMAIN Line' : j < k /\ Line'[k].s = a
              PROVE  HasAfter(a, 1) /\ \A l \in DOMAIN Line' : l < j => Line'[l].s # a
            <3>1. j \in DOMAIN Line /\ Line'[j] = Line[j] /\ (stream[a] = "open" \/ \E k \in DOMAIN Line : j < k /\ Line[k].s = a)
                <4>1. CASE j = Len(Line) + 1
                    <5>1. t = s BY <1>1, <1>4, <2>4, <4>1, <1>7
                    <5>2. stream[a] # "open" BY <1>1, <2>1, <5>1
                    <5>3. PICK k \in DOMAIN Line' : j < k /\ Line'[k].s = a BY <2>2, <2>4, <5>2
                    <5> QED BY <1>4, <1>7, <4>1, <5>3
                <4>2. CASE j \in DOMAIN Line
                    <5>1. ASSUME NEW k \in DOMAIN Line', j < k, Line'[k].s = a
                          PROVE  stream[a] = "open" \/ \E l \in DOMAIN Line : j < l /\ Line[l].s = a
                        BY <1>1, <1>4, <5>1
                    <5> QED BY <1>4, <2>2, <2>4, <4>2, <5>1
                <4> QED BY <1>4, <4>1, <4>2
            <3>2. LineHas(a, 1) /\ \A l \in DOMAIN Line : l < j => Line[l].s # a BY <2>1, <2>4, <3>1
            <3>3. \A l \in DOMAIN Line' : l < j => l \in DOMAIN Line /\ Line'[l] = Line[l] BY <1>4, <1>7, <3>1
            <3> QED BY <1>4, <3>2, <3>3
        <2> QED BY <1>4, <2>1, <2>2, <2>3, <2>4
    <1> QED BY <1>8, <1>10, <1>11, <1>12, <1>13, <1>14 DEF LineAll

LEMMA DropKeepsLine ==
    ASSUME StreamAssumption, LineAll, NEW s \in Streams, DropStream(s)
    PROVE  LineAll'
    <1>1. /\ stream[s] = "open" /\ stream' = [stream EXCEPT ![s] = "dropped"]
          /\ UNCHANGED <<kind, topic, made, outq, pending, sending, streamBuf, shown, fails, failed, lost, finished>>
        BY DEF DropStream, streamHistory
    <1>2. DeliveryTyped /\ LineInv /\ SendTyped /\ SendInv /\ EndInv /\ ApartInv BY DEF LineAll
    <1>3. Units' = Units /\ \A t : Chat(t)' = Chat(t) BY <1>1, SameChats
    <1>4. Line' = Line BY <1>1 DEF Line
    <1>5. \A t, i : (LineHas(t, i)' <=> LineHas(t, i)) /\ (HeldNow(t, i)' <=> HeldNow(t, i))
        BY <1>1, <1>4 DEF LineHas, HeldNow, Num
    <1>6. /\ stream'[s] = "dropped" /\ stream' \in [Streams -> {"new", "open", "ended", "dropped"}]
          /\ \A t \in Streams \ {s} : stream'[t] = stream[t]
        BY <1>1, <1>2 DEF DeliveryTyped
    <1>7. \A t \in Streams : stream'[t] # "dropped" => stream'[t] = stream[t] BY <1>6
    <1>8. \A t \in Streams : stream[t] # "open" => stream'[t] = stream[t] BY <1>1, <1>6
    <1>9. \A j \in DOMAIN Line : Line[j].s \in Streams BY <1>2, LineIs, UnitFacts
    <1>10. DeliveryTyped' BY <1>1, <1>2, <1>3, <1>6 DEF DeliveryTyped, Chats2, Texts
    <1>11. LineInv'
        <2>1. \A t \in Streams : (stream'[t] = "new" => made[t] = 0) /\ (stream'[t] \in {"open", "ended"} => made[t] > 0)
            BY <1>2, <1>7 DEF LineInv
        <2>2. \A j \in DOMAIN Line : Line[j].kind = "end" => stream'[Line[j].s] = "ended" BY <1>2, <1>8, <1>9 DEF LineInv
        <2> QED BY <1>1, <1>2, <1>4, <1>5, <2>1, <2>2 DEF LineInv, Num
    <1>12. SendTyped' BY <1>1, <1>2, <1>3 DEF SendTyped, Texts, Chats2
    <1>13. SendInv'
        <2>1. sending.kind = "end" => stream'[sending.s] = "ended"
            <3>1. sending.kind = "end" => sending.s \in Streams BY <1>2 DEF SendTyped, Nothing
            <3> QED BY <1>2, <1>8, <3>1 DEF SendInv
        <2> QED BY <1>1, <1>2, <1>3, <1>4, <1>5, <2>1 DEF SendInv
    <1>14. EndInv' BY <1>1, <1>2, <1>4, <1>7, <1>8 DEF EndInv
    <1>15. ApartInv'
        <2>1. \A a : MoreOf(a)' <=> stream'[a] = "open" \/ \E k \in DOMAIN Line : Line[k].s = a BY <1>4 DEF MoreOf
        <2>2. \A a \in Streams : (stream'[a] = "open" => stream[a] = "open") /\ (MoreOf(a)' => MoreOf(a))
            BY <1>7, <2>1 DEF MoreOf
        <2> SUFFICES ASSUME NEW a \in Streams \ lost, NEW t \in Streams \ {a}, Chat(t) = Chat(a)
                     PROVE  /\ ~(stream'[a] = "open" /\ stream'[t] = "open")
                            /\ \A j \in DOMAIN Line :
                                   Line[j].s = t /\ (stream'[a] = "open" \/ \E k \in DOMAIN Line : j < k /\ Line[k].s = a) =>
                                       LineHas(a, 1) /\ \A l \in DOMAIN Line : l < j => Line[l].s # a
                            /\ sending.s = t /\ MoreOf(a)' => LineHas(a, 1)
            BY <1>1, <1>3, <1>4, <1>5 DEF ApartInv
        <2> QED BY <1>2, <2>2 DEF ApartInv
    <1> QED BY <1>10, <1>11, <1>12, <1>13, <1>14, <1>15 DEF LineAll

----------------------------------------------------------------------------
(* The dispatcher takes its next message, and sends it. *)

LEMMA DispatchKeepsLine ==
    ASSUME StreamAssumption, LineAll, DispatchNext
    PROVE  LineAll' /\ \A s \in Streams, i \in Nat : TakenOf(s, i)' <=> TakenOf(s, i)
    <1>1. DeliveryTyped /\ LineInv /\ SendTyped /\ SendInv /\ EndInv /\ ApartInv BY DEF LineAll
    <1>2. /\ sending = Nothing
          /\ UNCHANGED <<kind, topic, made, stream, streamBuf, shown, fails, failed, finished>>
          /\ outq' \in Seq(Units) /\ pending' \in Seq(Units) /\ Len(pending') <= 1
        BY <1>1, DispatchTakes
    <1>3. PICK k \in 1..Len(Line) : Takes(k) BY <1>1, DispatchTakes
    <1>4. /\ DOMAIN Line = 1..Len(Line) /\ Len(Line) \in Nat /\ DOMAIN Line' = 1..Len(Line) - k
          /\ \A j \in DOMAIN Line' : Line'[j] = Line[j + k] /\ j + k \in DOMAIN Line /\ j + k > k
          /\ \A j \in DOMAIN Line : j > k => j - k \in DOMAIN Line' /\ Line'[j - k] = Line[j]
          /\ 1 \in DOMAIN Line /\ \A j \in 1..k : j \in DOMAIN Line
        <2>1. DOMAIN Line = 1..Len(Line) /\ Len(Line) \in Nat BY <1>1, LineIs
        <2>2. DOMAIN Line' = 1..Len(Line) - k /\ \A j \in DOMAIN Line' : Line'[j] = Line[j + k] BY <1>3 DEF Takes
        <2>3. \A j \in DOMAIN Line' : j + k \in DOMAIN Line /\ j + k > k BY <2>1, <2>2
        <2>4. \A j \in DOMAIN Line : j > k => j - k \in DOMAIN Line' /\ (j - k) + k = j BY <2>1, <2>2
        <2>5. 1 \in DOMAIN Line /\ \A j \in 1..k : j \in DOMAIN Line BY <2>1
        <2> QED BY <2>1, <2>2, <2>3, <2>4, <2>5
    <1>5. /\ sending' \in Sendings /\ sending'.kind = Line[1].kind /\ sending'.s = Line[1].s /\ sending'.chat = Line[1].chat
          /\ sending'.kind = "end" => k = 1 /\ sending'.text = <<>>
          /\ sending'.kind = "delta" =>
                 /\ DOMAIN sending'.text = 1..k
                 /\ \A x \in 1..k : Line[x].kind = "delta" /\ Line[x].chat = Line[1].chat /\ sending'.text[x] = Line[x].text[1]
          /\ lost \subseteq lost' /\ lost' \subseteq Streams
          /\ (\A x \in 1..k : Line[x].s = Line[1].s) \/ (\A x \in 1..k : Line[x].s \in lost')
        BY <1>3 DEF Takes
    <1>6. Units' = Units /\ \A t : Chat(t)' = Chat(t) BY <1>2, SameChats
    <1>7. \A j \in DOMAIN Line : /\ Line[j].s \in Streams /\ Line[j].kind \in {"delta", "end"} /\ Line[j].chat = Chat(Line[j].s)
                                 /\ Line[j].kind = "delta" => Line[j].text[1] = <<Line[j].s, Num(Line[j])>> /\ Num(Line[j]) \in Nat
        BY <1>1, LineIs, UnitFacts
    <1>8. sending'.kind = "delta" => sending'.text # <<>> /\ \A x \in 1..k : sending'.text[x] = <<Line[x].s, Num(Line[x])>>
        <2>1. sending'.kind = "delta" => sending'.text # <<>> BY <1>5
        <2>2. ASSUME sending'.kind = "delta", NEW x \in 1..k PROVE sending'.text[x] = <<Line[x].s, Num(Line[x])>>
            <3>1. Line[x].kind = "delta" /\ sending'.text[x] = Line[x].text[1] BY <1>5, <2>2
            <3>2. x \in DOMAIN Line BY <1>4
            <3> QED BY <1>7, <3>1, <3>2
        <2> QED BY <2>1, <2>2
    <1>9. sending'.kind \in {"delta", "end"} BY <1>5 DEF Sendings
    <1>10. DeliveryTyped' BY <1>1, <1>2, <1>5, <1>6 DEF DeliveryTyped, Chats2, Texts
    <1>11. \A t, i : HasAfter(t, i) <=> \E j \in DOMAIN Line : j > k /\ Line[j].kind = "delta" /\ Line[j].s = t /\ Num(Line[j]) = i
        BY <1>4 DEF HasAfter
    <1>12. \A t, i : LineHas(t, i)' <=> HasAfter(t, i) BY DEF LineHas, HasAfter, Num
    <1>13. \A t, i : HasAfter(t, i) => LineHas(t, i) BY <1>11 DEF LineHas
    \* Of a stream whose piece stays, the later ones stay too.
    <1>14. \A t, i, m : LineHas(t, m) /\ HasAfter(t, i) /\ i \in Nat /\ m \in Nat /\ i < m => HasAfter(t, m)
        <2> SUFFICES ASSUME NEW t, NEW i \in Nat, NEW m \in Nat, LineHas(t, m), HasAfter(t, i), i < m PROVE HasAfter(t, m) OBVIOUS
        <2>1. PICK j \in DOMAIN Line : j > k /\ Line[j].kind = "delta" /\ Line[j].s = t /\ Num(Line[j]) = i BY <1>11
        <2>2. PICK l \in DOMAIN Line : Line[l].kind = "delta" /\ Line[l].s = t /\ Num(Line[l]) = m BY DEF LineHas
        <2>3. l > j
            <3>1. CASE l < j
                <4>1. Num(Line[l]) < Num(Line[j]) BY <1>1, <2>1, <2>2, <3>1 DEF LineInv
                <4> QED BY <2>1, <2>2, <4>1
            <3>2. CASE l = j BY <2>1, <2>2, <3>2
            <3> QED BY <1>4, <3>1, <3>2
        <2>4. l > k BY <1>4, <2>1, <2>3
        <2> QED BY <1>11, <2>2, <2>4
    <1>15. LineInv'
        <2>1. \A t \in Streams : (stream[t] = "new" => made[t] = 0) /\ (stream[t] \in {"open", "ended"} => made[t] > 0)
            BY <1>1 DEF LineInv
        <2>2. \A j \in DOMAIN Line' : /\ Line'[j].kind = "delta" => Num(Line'[j]) \in 1..made[Line'[j].s]
                                      /\ Line'[j].kind = "end" => stream[Line'[j].s] = "ended"
            BY <1>1, <1>4 DEF LineInv
        <2>3. \A j, l \in DOMAIN Line' :
                  j < l /\ Line'[j].s = Line'[l].s =>
                      Line'[j].kind = "delta" /\ (Line'[l].kind = "delta" => Num(Line'[j]) < Num(Line'[l]))
            <3> SUFFICES ASSUME NEW j \in DOMAIN Line', NEW l \in DOMAIN Line', j < l, Line'[j].s = Line'[l].s
                         PROVE  Line'[j].kind = "delta" /\ (Line'[l].kind = "delta" => Num(Line'[j]) < Num(Line'[l]))
                OBVIOUS
            <3>1. j + k \in DOMAIN Line /\ l + k \in DOMAIN Line /\ j + k < l + k BY <1>4
            <3>2. Line'[j] = Line[j + k] /\ Line'[l] = Line[l + k] BY <1>4
            <3> QED BY <1>1, <3>1, <3>2 DEF LineInv
        <2>4. \A j \in DOMAIN Line' : Line'[j].kind = "delta" =>
                  \A i \in 1..made[Line'[j].s] : i > Num(Line'[j]) => HasAfter(Line'[j].s, i)
            <3> SUFFICES ASSUME NEW j \in DOMAIN Line', Line'[j].kind = "delta", NEW i \in 1..made[Line'[j].s], i > Num(Line'[j])
                         PROVE  HasAfter(Line'[j].s, i)
                OBVIOUS
            <3>1. Line'[j] = Line[j + k] /\ j + k \in DOMAIN Line BY <1>4
            <3>2. LineHas(Line'[j].s, i) BY <1>1, <3>1 DEF LineInv
            <3>3. HasAfter(Line'[j].s, Num(Line'[j])) BY DEF HasAfter
            <3>4. i \in Nat /\ Num(Line'[j]) \in Nat BY <1>7, <3>1
            <3> QED BY <1>14, <3>2, <3>3, <3>4
        <2> QED BY <1>2, <1>12, <2>1, <2>2, <2>3, <2>4 DEF LineInv, Num, LineHas, HasAfter
    <1>16. SendTyped'
        <2>1. sending'.chat = Chat(sending'.s) BY <1>4, <1>5, <1>7
        <2>2. Chat(sending.s)' = Chat(sending'.s) BY <1>2 DEF Chat
        <2>3. sending' \in [kind : {"delta", "end"}, s : Streams, chat : Chats2, text : Texts, try : Nat] BY <1>5 DEF Sendings
        <2> QED BY <1>2, <1>5, <1>8, <2>1, <2>2, <2>3 DEF SendTyped, Chats2, Texts
    \* What is sent is what has left the line.
    <1>17. \A t, i : HandAfter(t, i) <=> \E x \in 1..k : Line[x].kind = "delta" /\ Line[x].s = t /\ Num(Line[x]) = i
        <2> TAKE t, i
        <2>1. HandAfter(t, i) <=> \E x \in DOMAIN sending'.text : sending'.text[x] = <<t, i>> BY DEF HandAfter
        <2>2. CASE sending'.kind = "end"
            <3>1. k = 1 /\ sending'.text = <<>> /\ Line[1].kind = "end" BY <1>5, <2>2
            <3> QED BY <2>1, <3>1
        <2>3. CASE sending'.kind = "delta"
            <3>1. DOMAIN sending'.text = 1..k /\ \A x \in 1..k : Line[x].kind = "delta" /\ sending'.text[x] = <<Line[x].s, Num(Line[x])>>
                BY <1>5, <1>8, <2>3
            <3> QED BY <2>1, <3>1
        <2> QED BY <1>9, <2>2, <2>3
    <1>18. \A t, i : LineHas(t, i) <=> HasAfter(t, i) \/ HandAfter(t, i)
        <2> TAKE t, i
        <2>1. \A j \in DOMAIN Line : j > k \/ j \in 1..k BY <1>4
        <2> QED BY <1>4, <1>11, <1>17, <2>1 DEF LineHas
    <1>19. \A s \in Streams, i \in Nat : TakenOf(s, i)' <=> TakenOf(s, i)
        <2> TAKE s \in Streams, i \in Nat
        <2>1. ~HeldNow(s, i) BY <1>2 DEF HeldNow, Nothing
        <2>2. TakenOf(s, i)' <=> i \in 1..made[s] /\ ~HasAfter(s, i) /\ ~HandAfter(s, i) BY <1>2, <1>12 DEF TakenOf, HeldNow, HandAfter
        <2> QED BY <1>18, <2>1, <2>2 DEF TakenOf
    <1>20. SendInv'
        <2>1. sending'.kind = "end" =>
                  stream[sending'.s] = "ended" /\ sending'.s \notin finished /\ \A j \in DOMAIN Line' : Line'[j].s # sending'.s
            <3> HAVE sending'.kind = "end"
            <3>1. Line[1].kind = "end" /\ Line[1].s = sending'.s /\ k = 1 BY <1>5
            <3>2. stream[sending'.s] = "ended" BY <1>1, <1>4, <3>1 DEF LineInv
            <3>3. sending'.s \notin finished BY <1>1, <1>4, <1>7, <3>1 DEF EndInv
            <3>4. ASSUME NEW j \in DOMAIN Line', Line'[j].s = sending'.s PROVE FALSE
                <4>1. j + k \in DOMAIN Line /\ 1 < j + k /\ Line[j + k].s = Line[1].s BY <1>4, <3>1, <3>4
                <4> QED BY <1>1, <1>4, <3>1, <4>1 DEF LineInv
            <3> QED BY <3>2, <3>3, <3>4
        <2>2. ASSUME NEW x \in DOMAIN sending'.text
              PROVE  LET p == sending'.text[x] IN
                     /\ Chat(p[1]) = sending'.chat /\ p[2] \in 1..made[p[1]] /\ ~HasAfter(p[1], p[2])
                     /\ p[1] # sending'.s => sending'.s \in lost' /\ p[1] \in lost'
                     /\ p[1] \notin lost' =>
                            /\ \A y \in DOMAIN sending'.text : x < y => p[2] < sending'.text[y][2]
                            /\ \A i \in 1..made[p[1]] : i > p[2] => HasAfter(p[1], i) \/ HandAfter(p[1], i)
            <3>1. sending'.kind = "delta" BY <1>5, <1>9, <2>2
            <3>2. DOMAIN sending'.text = 1..k /\ \A y \in 1..k : Line[y].kind = "delta" /\ sending'.text[y] = <<Line[y].s, Num(Line[y])>>
                  /\ Line[y].chat = Line[1].chat
                BY <1>5, <1>8, <3>1
            <3>3. x \in 1..k /\ x \in DOMAIN Line BY <1>4, <2>2, <3>2
            <3> DEFINE t == Line[x].s
                       n == Num(Line[x])
            <3>4. sending'.text[x][1] = t /\ sending'.text[x][2] = n BY <3>2, <3>3
            <3>5. Chat(t) = sending'.chat /\ n \in 1..made[t] /\ t \in Streams BY <1>1, <1>5, <1>7, <3>2, <3>3 DEF LineInv
            <3>6. ~HasAfter(t, n)
                <4> SUFFICES ASSUME HasAfter(t, n) PROVE FALSE OBVIOUS
                <4>1. PICK j \in DOMAIN Line : j > k /\ Line[j].kind = "delta" /\ Line[j].s = t /\ Num(Line[j]) = n BY <1>11
                <4>2. x < j BY <1>4, <3>3, <4>1
                <4>3. n < Num(Line[j]) BY <1>1, <3>3, <4>1, <4>2 DEF LineInv
                <4> QED BY <3>5, <4>1, <4>3
            <3>7. t # sending'.s => sending'.s \in lost' /\ t \in lost' BY <1>5, <3>3
            <3>8. ASSUME t \notin lost', NEW y \in DOMAIN sending'.text, x < y PROVE n < sending'.text[y][2]
                <4>1. Line[y].s = t /\ y \in 1..k /\ y \in DOMAIN Line BY <1>4, <1>5, <3>2, <3>3, <3>8
                <4>2. n < Num(Line[y]) BY <1>1, <3>2, <3>3, <3>8, <4>1 DEF LineInv
                <4> QED BY <3>2, <4>1, <4>2
            <3>9. \A i \in 1..made[t] : i > n => LineHas(t, i) BY <1>1, <3>2, <3>3 DEF LineInv
            <3>10. \A i \in 1..made[t] : i > n => HasAfter(t, i) \/ HandAfter(t, i) BY <1>18, <3>9
            <3> HIDE DEF t, n
            <3> QED BY <3>4, <3>5, <3>6, <3>7, <3>8, <3>10
        <2> QED BY <1>2, <1>6, <1>12, <2>1, <2>2 DEF SendInv, HeldNow, HandAfter, LineHas, HasAfter, Num
    <1>21. EndInv'
        <2> SUFFICES ASSUME NEW t \in Streams
                     PROVE  /\ t \in finished => stream[t] = "ended" /\ \A j \in DOMAIN Line' : Line'[j].s # t
                            /\ stream[t] = "ended" /\ t \notin finished =>
                                   (\E j \in DOMAIN Line' : Line'[j].s = t /\ Line'[j].kind = "end") \/ (sending'.kind = "end" /\ sending'.s = t)
            BY <1>2 DEF EndInv
        <2>1. t \in finished => stream[t] = "ended" /\ \A j \in DOMAIN Line' : Line'[j].s # t
            <3> HAVE t \in finished
            <3>1. stream[t] = "ended" /\ \A j \in DOMAIN Line : Line[j].s # t BY <1>1 DEF EndInv
            <3> QED BY <1>4, <3>1
        <2>2. ASSUME stream[t] = "ended", t \notin finished
              PROVE  (\E j \in DOMAIN Line' : Line'[j].s = t /\ Line'[j].kind = "end") \/ (sending'.kind = "end" /\ sending'.s = t)
            <3>1. PICK j \in DOMAIN Line : Line[j].s = t /\ Line[j].kind = "end" BY <1>1, <1>2, <2>2 DEF EndInv, Nothing
            <3>2. CASE j > k BY <1>4, <3>1, <3>2
            <3>3. CASE j <= k
                <4>1. j \in 1..k BY <1>4, <3>3
                <4>2. sending'.kind = "end" BY <1>5, <1>9, <3>1, <4>1
                <4>3. j = 1 BY <1>5, <4>1, <4>2
                <4> QED BY <1>5, <3>1, <4>2, <4>3
            <3> QED BY <1>4, <3>2, <3>3
        <2> QED BY <2>1, <2>2
    <1>22. ApartInv'
        <2> SUFFICES ASSUME NEW a \in Streams \ lost', NEW t \in Streams \ {a}, Chat(t) = Chat(a)
                     PROVE  /\ ~(stream[a] = "open" /\ stream[t] = "open")
                            /\ \A j \in DOMAIN Line' :
                                   Line'[j].s = t /\ (stream[a] = "open" \/ \E l \in DOMAIN Line' : j < l /\ Line'[l].s = a) =>
                                       HasAfter(a, 1) /\ \A l \in DOMAIN Line' : l < j => Line'[l].s # a
                            /\ sending'.s = t /\ MoreOf(a)' => HasAfter(a, 1)
            BY <1>2, <1>6, <1>12 DEF ApartInv
        <2>1. /\ ~(stream[a] = "open" /\ stream[t] = "open")
              /\ \A j \in DOMAIN Line :
                     Line[j].s = t /\ (stream[a] = "open" \/ \E l \in DOMAIN Line : j < l /\ Line[l].s = a) =>
                         LineHas(a, 1) /\ \A l \in DOMAIN Line : l < j => Line[l].s # a
            BY <1>1, <1>5 DEF ApartInv
        <2>2. ASSUME NEW j \in DOMAIN Line', Line'[j].s = t, stream[a] = "open" \/ \E l \in DOMAIN Line' : j < l /\ Line'[l].s = a
              PROVE  HasAfter(a, 1) /\ \A l \in DOMAIN Line' : l < j => Line'[l].s # a
            <3>1. j + k \in DOMAIN Line /\ Line[j + k].s = t BY <1>4, <2>2
            <3>2. stream[a] = "open" \/ \E l \in DOMAIN Line : j + k < l /\ Line[l].s = a
                <4>1. ASSUME NEW l \in DOMAIN Line', j < l, Line'[l].s = a PROVE l + k \in DOMAIN Line /\ j + k < l + k /\ Line[l + k].s = a
                    BY <1>4, <4>1
                <4> QED BY <2>2, <4>1
            <3>3. LineHas(a, 1) /\ \A l \in DOMAIN Line : l < j + k => Line[l].s # a BY <2>1, <3>1, <3>2
            <3>4. PICK l \in DOMAIN Line : Line[l].kind = "delta" /\ Line[l].s = a /\ Num(Line[l]) = 1 BY <3>3 DEF LineHas
            <3>5. l > k
                <4>1. ~(l < j + k) BY <3>3, <3>4
                <4> QED BY <1>4, <4>1
            <3>6. HasAfter(a, 1) BY <1>11, <3>4, <3>5
            <3>7. \A m \in DOMAIN Line' : m < j => m + k \in DOMAIN Line /\ m + k < j + k /\ Line'[m] = Line[m + k] BY <1>4
            <3> QED BY <3>3, <3>6, <3>7
        <2>3. ASSUME sending'.s = t, MoreOf(a)' PROVE HasAfter(a, 1)
            <3>1. stream[a] = "open" \/ \E l \in DOMAIN Line' : Line'[l].s = a BY <1>2, <2>3 DEF MoreOf
            <3>2. stream[a] = "open" \/ \E l \in DOMAIN Line : 1 < l /\ Line[l].s = a
                <4>1. ASSUME NEW l \in DOMAIN Line', Line'[l].s = a PROVE l + k \in DOMAIN Line /\ 1 < l + k /\ Line[l + k].s = a
                    BY <1>4, <4>1
                <4> QED BY <3>1, <4>1
            <3>3. LineHas(a, 1) BY <1>4, <1>5, <2>1, <2>3, <3>2
            <3>4. PICK l \in DOMAIN Line : Line[l].kind = "delta" /\ Line[l].s = a /\ Num(Line[l]) = 1 BY <3>3 DEF LineHas
            <3>5. l > k
                <4>1. ASSUME l \in 1..k PROVE FALSE
                    <5>1. Line[l].s # Line[1].s BY <1>5, <2>3, <3>4
                    <5> QED BY <1>5, <3>4, <4>1, <5>1
                <4> QED BY <1>4, <4>1
            <3> QED BY <1>11, <3>4, <3>5
        <2> QED BY <2>1, <2>2, <2>3
    <1> QED BY <1>10, <1>15, <1>16, <1>19, <1>20, <1>21, <1>22 DEF LineAll

----------------------------------------------------------------------------
(* A text cut in chunks. *)

\* What the x-th place of a chunk is in the text.
Place(j, y) == (j - 1) * MaxLen + y

LEMMA PlaceOrder ==
    ASSUME StreamAssumption, NEW j \in Nat \ {0}, NEW k \in Nat \ {0}, NEW y \in 1..MaxLen, NEW z \in 1..MaxLen
    PROVE  /\ Place(j, y) \in Nat \ {0}
           /\ Place(j, y) < Place(k, z) => j < k \/ (j = k /\ y < z)
           /\ Place(j, y) = Place(k, z) => j = k /\ y = z
    <1>1. MaxLen \in Nat \ {0} BY DEF StreamAssumption
    <1> DEFINE L == MaxLen
    <1>2. \A a, b \in Nat : a < b => (a + 1) * L <= b * L /\ (a + 1) * L = a * L + L BY <1>1
    <1>3. j - 1 \in Nat /\ k - 1 \in Nat /\ (j - 1) * L \in Nat /\ (k - 1) * L \in Nat BY <1>1
    <1>4. y \in Nat /\ z \in Nat /\ y >= 1 /\ z >= 1 /\ y <= L /\ z <= L BY <1>1
    <1>5. CASE j < k
        <2>1. (j - 1) * L + L <= (k - 1) * L BY <1>2, <1>3, <1>5
        <2> QED BY <1>1, <1>3, <1>4, <1>5, <2>1 DEF Place
    <1>6. CASE k < j
        <2>1. (k - 1) * L + L <= (j - 1) * L BY <1>2, <1>3, <1>6
        <2> QED BY <1>1, <1>3, <1>4, <1>6, <2>1 DEF Place
    <1>7. CASE j = k BY <1>1, <1>3, <1>4, <1>7 DEF Place
    <1> QED BY <1>5, <1>6, <1>7

LEMMA LeastOfTwo == ASSUME NEW a \in Int, NEW b \in Int PROVE Min({a, b}) = IF a <= b THEN a ELSE b
    <1> DEFINE P(x) == x \in {a, b} /\ \A y \in {a, b} : x <= y
    <1>1. Min({a, b}) = CHOOSE x \in {a, b} : \A y \in {a, b} : x <= y BY DEF Min
    <1>2. \E x \in {a, b} : \A y \in {a, b} : x <= y
        <2>1. CASE a <= b BY <2>1
        <2>2. CASE ~(a <= b) BY <2>2
        <2> QED BY <2>1, <2>2
    <1>3. Min({a, b}) \in {a, b} /\ \A y \in {a, b} : Min({a, b}) <= y BY <1>1, <1>2
    <1> QED BY <1>3

LEMMA ChunksAre ==
    ASSUME StreamAssumption, NEW text \in Texts, text # <<>>
    PROVE  /\ Len(Chunks(text)) \in Nat \ {0} /\ DOMAIN Chunks(text) = 1..Len(Chunks(text))
           /\ \A j \in 1..Len(Chunks(text)) :
                  /\ Chunks(text)[j] \in Texts /\ Chunks(text)[j] # <<>>
                  /\ \A y : y \in DOMAIN Chunks(text)[j] <=> y \in 1..MaxLen /\ Place(j, y) \in DOMAIN text
                  /\ \A y \in DOMAIN Chunks(text)[j] : Chunks(text)[j][y] = text[Place(j, y)]
           /\ \A x \in DOMAIN text : \E j \in 1..Len(Chunks(text)) : \E y \in DOMAIN Chunks(text)[j] : x = Place(j, y)
    <1> DEFINE L == MaxLen
               N == Len(text)
               n == (N + L - 1) \div L
    <1>1. L \in Nat \ {0} /\ N \in Nat \ {0} /\ DOMAIN text = 1..N
        <2>1. text \in Seq(Streams \X Nat) BY DEF Texts
        <2>2. Len(text) # 0 BY <2>1
        <2> QED BY <2>1, <2>2 DEF StreamAssumption
    <1> HIDE DEF L, N
    <1>2. n \in Nat /\ n * L <= N + L - 1 /\ N + L - 1 < n * L + L
        <2> DEFINE M == N + L - 1
        <2>1. M \in Nat BY <1>1
        <2> HIDE DEF M
        <2>2. M \div L \in Nat /\ (M \div L) * L <= M /\ M < (M \div L) * L + L BY <1>1, <2>1
        <2> QED BY <2>2 DEF M
    <1> HIDE DEF n
    <1>3. n # 0
        <2>1. n = 0 => n * L = 0 BY <1>1
        <2>2. N + L - 1 >= L BY <1>1
        <2> QED BY <1>1, <1>2, <2>1, <2>2
    <1>4. Chunks(text) = [i \in 1..n |-> SubSeq(text, (i - 1) * L + 1, Min({i * L, N}))] BY DEF Chunks, n, N, L
    <1>5. Len(Chunks(text)) = n /\ DOMAIN Chunks(text) = 1..n BY <1>2, <1>4
    <1>6. ASSUME NEW j \in 1..n
          PROVE  /\ Chunks(text)[j] \in Texts /\ Chunks(text)[j] # <<>>
                 /\ \A y : y \in DOMAIN Chunks(text)[j] <=> y \in 1..L /\ Place(j, y) \in DOMAIN text
                 /\ \A y \in DOMAIN Chunks(text)[j] : Chunks(text)[j][y] = text[Place(j, y)]
        <2> DEFINE a == (j - 1) * L
                   b == IF a + L <= N THEN a + L ELSE N
        <2>1. a \in Nat /\ j * L = a + L BY <1>1, <1>2
        <2>2. a < N
            <3>1. j = n \/ j + 1 <= n BY <1>2
            <3>2. j * L <= n * L BY <1>1, <1>2
            <3> HIDE DEF a
            <3> QED BY <1>1, <1>2, <2>1, <3>2
        <2>3. Chunks(text)[j] = SubSeq(text, a + 1, b)
            <3>1. Min({a + L, N}) = b BY <1>1, <2>1, LeastOfTwo
            <3>2. Chunks(text)[j] = SubSeq(text, (j - 1) * L + 1, Min({j * L, N})) BY <1>4
            <3> QED BY <2>1, <3>1, <3>2
        <2>4. \A y : Place(j, y) = a + y BY DEF Place, L
        <2> HIDE DEF a
        <2>5. b \in Nat /\ a < b /\ b <= N /\ b - a \in 1..L /\ (b < N => b - a = L) BY <1>1, <2>1, <2>2
        <2> HIDE DEF b
        <2>6. text \in Seq(Streams \X Nat) BY DEF Texts
        <2>8. /\ SubSeq(text, a + 1, b) \in Seq(Streams \X Nat)
              /\ DOMAIN SubSeq(text, a + 1, b) = 1..(b - a)
              /\ \A y \in 1..(b - a) : SubSeq(text, a + 1, b)[y] = text[a + y]
            <3>1. a \in Nat /\ b \in Nat /\ a < b /\ b <= Len(text) BY <2>1, <2>5 DEF N
            <3> QED BY <2>6, <3>1
        <2>9. \A y : y \in 1..(b - a) <=> y \in 1..L /\ a + y \in 1..N BY <1>1, <2>1, <2>5
        <2>10. 1 \in 1..(b - a) BY <2>5
        <2> DEFINE w == Chunks(text)[j]
        <2>11. w \in Seq(Streams \X Nat) /\ DOMAIN w = 1..(b - a) /\ \A y \in 1..(b - a) : w[y] = text[a + y]
            BY <2>3, <2>8
        <2> HIDE DEF w
        <2>12. w # <<>>
            <3>1. Len(w) # 0
                <4>1. DOMAIN w = 1..Len(w) BY <2>11
                <4>2. 1 \in 1..Len(w) BY <2>10, <2>11, <4>1
                <4> HIDE DEF b
                <4> QED BY <4>2
            <3> QED BY <2>11, <3>1
        <2>13. \A y : y \in DOMAIN w <=> y \in 1..L /\ Place(j, y) \in DOMAIN text BY <1>1, <2>4, <2>9, <2>11
        <2>14. \A y \in DOMAIN w : w[y] = text[Place(j, y)] BY <2>4, <2>11
        <2> QED BY <2>11, <2>12, <2>13, <2>14 DEF Texts, w
    <1>7. ASSUME NEW x \in DOMAIN text PROVE \E j \in 1..n : \E y \in DOMAIN Chunks(text)[j] : x = Place(j, y)
        <2> DEFINE q == (x - 1) \div L
                   y == x - q * L
        <2>1. x - 1 \in Nat /\ x <= N BY <1>1
        <2>2. q \in Nat /\ q * L <= x - 1 /\ x - 1 < q * L + L
            <3> DEFINE M == x - 1
            <3>1. M \in Nat BY <2>1
            <3> HIDE DEF M
            <3>2. M \div L \in Nat /\ (M \div L) * L <= M /\ M < (M \div L) * L + L BY <1>1, <3>1
            <3> QED BY <3>2 DEF M
        <2> HIDE DEF q
        <2>3. y \in 1..L /\ x = q * L + y
            <3>1. q * L \in Nat BY <1>1, <2>2
            <3> QED BY <1>1, <2>1, <2>2, <3>1
        <2>4. q < n
            <3>1. CASE n <= q
                <4>1. n * L <= q * L BY <1>1, <1>2, <2>2, <3>1
                <4>2. q * L \in Nat /\ n * L \in Nat BY <1>1, <1>2, <2>2
                <4> QED BY <1>1, <1>2, <2>1, <2>2, <4>1, <4>2
            <3> QED BY <1>2, <2>2, <3>1
        <2>5. q + 1 \in 1..n /\ (q + 1) - 1 = q BY <1>2, <2>2, <2>4
        <2> HIDE DEF y
        <2>6. Place(q + 1, y) = x BY <2>3, <2>5 DEF Place, L
        <2>7. y \in DOMAIN Chunks(text)[q + 1] BY <1>6, <2>3, <2>5, <2>6
        <2> QED BY <2>5, <2>6, <2>7
    <1>8. MaxLen = L BY DEF L
    <1> QED BY <1>2, <1>3, <1>5, <1>6, <1>7, <1>8

----------------------------------------------------------------------------
(* What an attempt writes. *)

Msgs == [chat : Chats2, text : Texts]

LEMMA SetOne ==
    ASSUME NEW M, NEW q \in Seq(M), NEW i \in DOMAIN q, NEW e \in M
    PROVE  /\ [q EXCEPT ![i] = e] \in Seq(M) /\ Len([q EXCEPT ![i] = e]) = Len(q)
           /\ DOMAIN [q EXCEPT ![i] = e] = DOMAIN q /\ [q EXCEPT ![i] = e][i] = e
           /\ \A j \in DOMAIN q \ {i} : [q EXCEPT ![i] = e][j] = q[j]
    OBVIOUS

LEMMA Joined ==
    ASSUME NEW M, NEW p \in Seq(M), NEW q \in Seq(M)
    PROVE  /\ p \o q \in Seq(M) /\ Len(p \o q) = Len(p) + Len(q) /\ DOMAIN (p \o q) = 1..Len(p) + Len(q)
           /\ \A j \in 1..Len(p) : (p \o q)[j] = p[j]
           /\ \A j \in 1..Len(q) : (p \o q)[Len(p) + j] = q[j]
    <1>1. p \o q \in Seq(M) /\ Len(p \o q) = Len(p) + Len(q) /\ DOMAIN (p \o q) = 1..Len(p) + Len(q) OBVIOUS
    <1>2. \A j \in 1..Len(p) : (p \o q)[j] = p[j] OBVIOUS
    <1>3. \A j \in 1..Len(q) : (p \o q)[Len(p) + j] = q[j] OBVIOUS
    <1> QED BY <1>1, <1>2, <1>3


LEMMA OneMore ==
    ASSUME NEW M, NEW q \in Seq(M), NEW e \in M
    PROVE  /\ Append(q, e) \in Seq(M) /\ Len(Append(q, e)) = Len(q) + 1 /\ DOMAIN Append(q, e) = 1..Len(q) + 1
           /\ Append(q, e)[Len(q) + 1] = e /\ \A j \in DOMAIN q : Append(q, e)[j] = q[j]
    OBVIOUS

LEMMA SeqIs == ASSUME NEW M, NEW q \in Seq(M) PROVE Len(q) \in Nat /\ DOMAIN q = 1..Len(q) /\ \A i \in DOMAIN q : q[i] \in M
    OBVIOUS

LEMMA EditedIs ==
    ASSUME shown \in Seq(Msgs), NEW b, b.msg \in DOMAIN shown, NEW t \in Texts
    PROVE  /\ Edited(b, t) \in Seq(Msgs) /\ Len(Edited(b, t)) = Len(shown) /\ DOMAIN Edited(b, t) = DOMAIN shown
           /\ Edited(b, t)[b.msg] = [chat |-> shown[b.msg].chat, text |-> t]
           /\ \A i \in DOMAIN shown \ {b.msg} : Edited(b, t)[i] = shown[i]
    <1> DEFINE e == [chat |-> shown[b.msg].chat, text |-> t]
    <1>1. shown[b.msg] \in Msgs BY SeqIs
    <1>2. e \in Msgs /\ [shown[b.msg] EXCEPT !.text = t] = e BY <1>1 DEF Msgs
    <1>3. Edited(b, t) = [shown EXCEPT ![b.msg] = e] BY <1>2 DEF Edited
    <1> HIDE DEF e
    <1>4. Edited(b, t) \in Seq(Msgs) /\ Len(Edited(b, t)) = Len(shown) /\ DOMAIN Edited(b, t) = DOMAIN shown
          /\ Edited(b, t)[b.msg] = e /\ \A i \in DOMAIN shown \ {b.msg} : Edited(b, t)[i] = shown[i]
        BY <1>2, <1>3, SetOne
    <1> QED BY <1>4 DEF e

LEMMA PostedIs ==
    ASSUME shown \in Seq(Msgs), NEW c \in Chats2, NEW t \in Texts
    PROVE  /\ Posted(shown, c, t) \in Seq(Msgs) /\ Len(Posted(shown, c, t)) = Len(shown) + 1
           /\ DOMAIN Posted(shown, c, t) = 1..Len(shown) + 1
           /\ Posted(shown, c, t)[Len(shown) + 1] = [chat |-> c, text |-> t]
           /\ \A i \in DOMAIN shown : Posted(shown, c, t)[i] = shown[i]
    <1> DEFINE e == [chat |-> c, text |-> t]
    <1>1. e \in Msgs BY DEF Msgs
    <1>2. Posted(shown, c, t) = Append(shown, e) BY DEF Posted
    <1> HIDE DEF e
    <1>3. /\ Posted(shown, c, t) \in Seq(Msgs) /\ Len(Posted(shown, c, t)) = Len(shown) + 1
          /\ DOMAIN Posted(shown, c, t) = 1..Len(shown) + 1
          /\ Posted(shown, c, t)[Len(shown) + 1] = e /\ \A i \in DOMAIN shown : Posted(shown, c, t)[i] = shown[i]
        BY <1>1, <1>2, OneMore
    <1> QED BY <1>3 DEF e

\* The places that an edit and what is sent after it fill: the message that grew, and those behind the last.
Slot(b, j) == IF j = 1 THEN b.msg ELSE Len(shown) + j - 1

\* What an edit to the first of k chunks, and sending the others, leave of the messages.
Spread(b, c, cs, k, sh) ==
    /\ sh \in Seq(Msgs) /\ Len(sh) = Len(shown) + k - 1 /\ DOMAIN sh = 1..Len(shown) + k - 1
    /\ \A i \in DOMAIN shown \ {b.msg} : i \in DOMAIN sh /\ sh[i] = shown[i]
    /\ \A j \in 1..k : Slot(b, j) \in DOMAIN sh /\ sh[Slot(b, j)] = [chat |-> c, text |-> cs[j]]
    /\ \A i \in DOMAIN sh : i \in DOMAIN shown \ {b.msg} \/ \E j \in 1..k : i = Slot(b, j)

LEMMA SpreadIs ==
    ASSUME shown \in Seq(Msgs), NEW c \in Chats2, NEW b, b.msg \in DOMAIN shown, shown[b.msg].chat = c,
           NEW cs, NEW N \in Nat, \A j \in 1..N : cs[j] \in Texts, NEW k \in 1..N
    PROVE  Spread(b, c, cs, k, EditAndSend(b, c, cs, k))
    <1> DEFINE first == Edited(b, cs[1])
               rest == [i \in 1..k - 1 |-> [chat |-> c, text |-> cs[i + 1]]]
               sh == EditAndSend(b, c, cs, k)
               n == Len(shown)
    <1>1. k \in Nat /\ k # 0 /\ k <= N /\ 1 \in 1..N OBVIOUS
    <1>2. n \in Nat /\ DOMAIN shown = 1..n BY SeqIs
    <1>3. sh = first \o rest BY <1>1 DEF EditAndSend
    <1>4. first \in Seq(Msgs) /\ Len(first) = n /\ first[b.msg] = [chat |-> c, text |-> cs[1]]
          /\ \A i \in DOMAIN shown \ {b.msg} : first[i] = shown[i]
        BY <1>1, EditedIs
    <1>5. \A i \in 1..k - 1 : rest[i] = [chat |-> c, text |-> cs[i + 1]] OBVIOUS
    <1>6. \A i \in 1..k - 1 : i + 1 \in 1..N /\ [chat |-> c, text |-> cs[i + 1]] \in Msgs BY <1>1 DEF Msgs
    <1>7. k - 1 \in Nat BY <1>1
    <1>8. rest \in Seq(Msgs) /\ Len(rest) = k - 1 BY <1>6, <1>7
    <1> HIDE DEF sh, first, rest, n
    <1>9. sh \in Seq(Msgs) /\ Len(sh) = n + (k - 1) /\ DOMAIN sh = 1..n + (k - 1)
          /\ (\A i \in 1..n : sh[i] = first[i]) /\ \A i \in 1..k - 1 : sh[n + i] = rest[i]
        <2> DEFINE l == k - 1
        <2>1. Len(rest) = l BY <1>8
        <2> HIDE DEF l
        <2>2. sh \in Seq(Msgs) /\ Len(sh) = n + l /\ DOMAIN sh = 1..n + l
              /\ (\A i \in 1..n : sh[i] = first[i]) /\ \A i \in 1..l : sh[n + i] = rest[i]
            <3>1. first \in Seq(Msgs) BY <1>4
            <3>2. rest \in Seq(Msgs) BY <1>8
            <3>3. first \o rest \in Seq(Msgs) /\ Len(first \o rest) = Len(first) + Len(rest)
                  /\ DOMAIN (first \o rest) = 1..Len(first) + Len(rest)
                BY <3>1, <3>2, Joined
            <3>4. (\A j \in 1..Len(first) : (first \o rest)[j] = first[j])
                  /\ \A j \in 1..Len(rest) : (first \o rest)[Len(first) + j] = rest[j]
                BY <3>1, <3>2, Joined
            <3>5. Len(first) = n /\ Len(rest) = l BY <1>4, <2>1
            <3> QED BY <1>3, <3>3, <3>4, <3>5
        <2> QED BY <2>2 DEF l
    <1>10. Len(sh) = n + k - 1 /\ DOMAIN sh = 1..n + k - 1 /\ 1..n \subseteq DOMAIN sh BY <1>1, <1>2, <1>9
    <1>11. \A i \in DOMAIN shown \ {b.msg} : i \in DOMAIN sh /\ sh[i] = shown[i] BY <1>2, <1>4, <1>9, <1>10
    <1>12. ASSUME NEW j \in 1..k PROVE Slot(b, j) \in DOMAIN sh /\ sh[Slot(b, j)] = [chat |-> c, text |-> cs[j]]
        <2>1. CASE j = 1
            <3>1. Slot(b, j) = b.msg BY <2>1 DEF Slot
            <3>2. b.msg \in 1..n BY <1>2
            <3>3. sh[b.msg] = first[b.msg] BY <1>9, <3>2
            <3> QED BY <1>4, <1>10, <2>1, <3>1, <3>2, <3>3
        <2>2. CASE j # 1
            <3>1. Slot(b, j) = n + (j - 1) /\ j - 1 \in 1..k - 1 /\ (j - 1) + 1 = j BY <1>1, <1>2, <2>2 DEF Slot, n
            <3>2. sh[Slot(b, j)] = rest[j - 1] BY <1>9, <3>1
            <3>3. rest[j - 1] = [chat |-> c, text |-> cs[j]] BY <1>5, <3>1
            <3>4. Slot(b, j) \in DOMAIN sh BY <1>1, <1>2, <1>9, <3>1
            <3> QED BY <3>2, <3>3, <3>4
        <2> QED BY <2>1, <2>2
    <1>13. ASSUME NEW i \in DOMAIN sh PROVE i \in DOMAIN shown \ {b.msg} \/ \E j \in 1..k : i = Slot(b, j)
        <2>1. CASE i = b.msg
            <3>1. 1 \in 1..k /\ Slot(b, 1) = b.msg BY <1>1 DEF Slot
            <3> QED BY <2>1, <3>1
        <2>2. CASE i \in 1..n /\ i # b.msg BY <1>2, <2>2
        <2>3. CASE i \notin 1..n
            <3>1. i - n + 1 \in 1..k /\ i - n + 1 # 1 BY <1>1, <1>2, <1>9, <2>3
            <3>2. Slot(b, i - n + 1) = i BY <1>2, <1>9, <3>1 DEF Slot, n
            <3> QED BY <3>1, <3>2
        <2> QED BY <2>1, <2>2, <2>3
    <1>14. Spread(b, c, cs, k, sh) BY <1>9, <1>10, <1>11, <1>12, <1>13 DEF Spread, n
    <1> QED BY <1>14 DEF sh

\* The chat's own messages change, and with text of its buffer only.
From(t, u) == \A x \in DOMAIN t : \E z \in DOMAIN u : t[x] = u[z]
Starts(t, u) == \A x \in DOMAIN t : x \in DOMAIN u /\ u[x] = t[x]
Written(c, b, sh) ==
    /\ sh \in Seq(Msgs) /\ DOMAIN shown \subseteq DOMAIN sh
    /\ \A i \in DOMAIN shown : i # b.msg => sh[i] = shown[i]
    /\ \A i \in DOMAIN sh : i = b.msg \/ i \notin DOMAIN shown => sh[i].chat = c /\ From(sh[i].text, b.text)

LEMMA WroteNothing ==
    ASSUME shown \in Seq(Msgs), NEW c \in Chats2, NEW b, Fits(c, b, shown), NoMessage \notin DOMAIN shown
    PROVE  Written(c, b, shown)
    BY DEF Written, Fits, From

LEMMA WroteEdit ==
    ASSUME shown \in Seq(Msgs), NEW c \in Chats2, NEW b, b.msg \in DOMAIN shown, shown[b.msg].chat = c,
           NEW t \in Texts, From(t, b.text)
    PROVE  Written(c, b, Edited(b, t))
    <1> DEFINE e == [chat |-> c, text |-> t]
    <1>1. Edited(b, t) \in Seq(Msgs) /\ DOMAIN Edited(b, t) = DOMAIN shown /\ Edited(b, t)[b.msg] = e
          /\ \A i \in DOMAIN shown \ {b.msg} : Edited(b, t)[i] = shown[i]
        BY EditedIs
    <1>2. e.chat = c /\ e.text = t OBVIOUS
    <1> HIDE DEF e
    <1> QED BY <1>1, <1>2 DEF Written

LEMMA WrotePost ==
    ASSUME shown \in Seq(Msgs), NEW c \in Chats2, NEW b, b.msg = NoMessage, b.text \in Texts
    PROVE  Written(c, b, Posted(shown, c, b.text))
    <1> DEFINE e == [chat |-> c, text |-> b.text]
               sh == Posted(shown, c, b.text)
    <1>1. /\ sh \in Seq(Msgs) /\ DOMAIN sh = 1..Len(shown) + 1 /\ sh[Len(shown) + 1] = e
          /\ \A i \in DOMAIN shown : sh[i] = shown[i]
        BY PostedIs
    <1>2. e.chat = c /\ e.text = b.text OBVIOUS
    <1>3. Len(shown) \in Nat /\ DOMAIN shown = 1..Len(shown) BY SeqIs
    <1> HIDE DEF e, sh
    <1>4. DOMAIN shown \subseteq DOMAIN sh /\ \A i \in DOMAIN sh : i \in DOMAIN shown \/ i = Len(shown) + 1 BY <1>1, <1>3
    <1>5. NoMessage \notin DOMAIN sh BY <1>1, <1>3 DEF NoMessage
    <1>6. \A i \in DOMAIN sh : i = b.msg \/ i \notin DOMAIN shown => sh[i] = e BY <1>1, <1>4, <1>5
    <1>7. From(b.text, b.text) BY DEF From
    <1> QED BY <1>1, <1>2, <1>4, <1>6, <1>7 DEF Written, sh

LEMMA WroteSpread ==
    ASSUME NEW c, NEW b, NEW cs, NEW k, NEW sh, Spread(b, c, cs, k, sh), b.msg \in DOMAIN shown, 1 \in 1..k,
           \A j \in 1..k : From(cs[j], b.text)
    PROVE  Written(c, b, sh)
    <1>1. b.msg \in DOMAIN sh BY DEF Spread, Slot
    <1>2. ASSUME NEW i \in DOMAIN sh, i = b.msg \/ i \notin DOMAIN shown PROVE sh[i].chat = c /\ From(sh[i].text, b.text)
        <2>1. PICK j \in 1..k : i = Slot(b, j) BY <1>2 DEF Spread
        <2>2. sh[i] = [chat |-> c, text |-> cs[j]] BY <2>1 DEF Spread
        <2>3. sh[i].chat = c /\ sh[i].text = cs[j] BY <2>2
        <2> QED BY <2>3
    <1> QED BY <1>1, <1>2 DEF Written, Spread

----------------------------------------------------------------------------
(* What an attempt may leave, by its shape. *)

Buffers == [s : Streams \cup {0}, text : Texts, msg : Nat]

\* The buffer goes on with the text of a message, or a new one begins.
LEMMA BaseIs ==
    ASSUME DeliveryTyped, SendTyped, SendInv, BufInv, sending # Nothing, sending.kind = "delta"
    PROVE  LET c == sending.chat
               old == streamBuf[c]
               b == Selected(sending)
           IN  /\ c \in Chats2 /\ old \in Buffers /\ b \in Buffers /\ b.s = sending.s /\ b.text # <<>> /\ Fits(c, b, shown)
               /\ \/ b.msg = NoMessage /\ b.text = sending.text /\ kind # "matrix" /\ old.s \notin {0, sending.s}
                  \/ b.msg = old.msg /\ b.text = old.text \o sending.text
    <1> DEFINE c == sending.chat
               old == streamBuf[c]
               t == sending.text
               b == Selected(sending)
    <1>1. c \in Chats2 /\ t \in Texts /\ t # <<>> /\ sending.s \in Streams BY DEF SendTyped
    <1>2. old \in Buffers BY <1>1 DEF DeliveryTyped, Buffers
    <1>3. \A x \in DOMAIN t : Chat(t[x][1]) = c BY DEF SendInv
    <1>4. Fits(c, old, shown) BY <1>1 DEF BufInv
    <1>5. CASE old.s \in {0, sending.s} \/ kind = "matrix"
        <2>1. b = [old EXCEPT !.s = sending.s, !.text = @ \o t] BY <1>5 DEF Selected
        <2>2. old.text \in Texts /\ old.text \o t \in Texts BY <1>1, <1>2 DEF Texts, Buffers
        <2>3. b \in Buffers /\ b.s = sending.s /\ b.msg = old.msg /\ b.text = old.text \o t BY <1>1, <1>2, <2>1, <2>2 DEF Buffers
        <2> DEFINE u == old.text
        <2> HIDE DEF b, old, c, t, u
        <2>4. /\ DOMAIN (u \o t) = 1..Len(u) + Len(t) /\ Len(u) \in Nat /\ Len(t) \in Nat /\ DOMAIN u = 1..Len(u) /\ DOMAIN t = 1..Len(t)
              /\ (\A j \in 1..Len(u) : (u \o t)[j] = u[j]) /\ \A j \in 1..Len(t) : (u \o t)[Len(u) + j] = t[j]
            <3>1. u \in Seq(Streams \X Nat) /\ t \in Seq(Streams \X Nat) BY <1>1, <2>2 DEF Texts, u
            <3> QED BY <3>1, Joined, SeqIs
        <2>5. Len(t) # 0 BY <1>1, <2>4 DEF Texts
        <2>6. b.text # <<>>
            <3>1. 1 \in DOMAIN (u \o t) BY <2>4, <2>5
            <3>2. DOMAIN <<>> = {} OBVIOUS
            <3> QED BY <2>3, <3>1, <3>2 DEF u
        <2>7. \A x \in DOMAIN (u \o t) : (x \in DOMAIN u /\ (u \o t)[x] = u[x]) \/ \E y \in DOMAIN t : (u \o t)[x] = t[y]
            <3> TAKE x \in DOMAIN (u \o t)
            <3>1. x \in 1..Len(u) \/ (x - Len(u) \in 1..Len(t) /\ Len(u) + (x - Len(u)) = x) BY <2>4
            <3> QED BY <2>4, <3>1
        <2>8. Fits(c, b, shown)
            <3>1. \A x \in DOMAIN u : Chat(u[x][1]) = c BY <1>4 DEF Fits, u
            <3>2. \A x \in DOMAIN b.text : Chat(b.text[x][1]) = c BY <1>3, <2>3, <2>7, <3>1 DEF u
            <3>3. ASSUME b.msg # NoMessage
                  PROVE  /\ b.msg \in DOMAIN shown /\ shown[b.msg].chat = c
                         /\ \A x \in DOMAIN shown[b.msg].text : x \in DOMAIN b.text /\ b.text[x] = shown[b.msg].text[x]
                <4>1. /\ b.msg \in DOMAIN shown /\ shown[b.msg].chat = c
                      /\ \A x \in DOMAIN shown[b.msg].text : x \in DOMAIN u /\ u[x] = shown[b.msg].text[x]
                    BY <1>4, <2>3, <3>3 DEF Fits, u
                <4>2. \A x \in DOMAIN u : x \in DOMAIN (u \o t) /\ (u \o t)[x] = u[x] BY <2>4
                <4> QED BY <2>3, <4>1, <4>2 DEF u
            <3> QED BY <2>6, <3>2, <3>3 DEF Fits
        <2>9. Fits(sending.chat, Selected(sending), shown) BY <2>8 DEF b, c
        <2> QED BY <1>1, <1>2, <2>3, <2>6, <2>9 DEF b, c, old, t
    <1>6. CASE ~(old.s \in {0, sending.s} \/ kind = "matrix")
        <2>1. b = [NoBuf EXCEPT !.s = sending.s, !.text = @ \o t] BY <1>6 DEF Selected
        <2>2. <<>> \o t = t BY <1>1 DEF Texts
        <2>3. b = [s |-> sending.s, text |-> t, msg |-> NoMessage] BY <2>1, <2>2 DEF NoBuf
        <2>4. b.s = sending.s /\ b.text = t /\ b.msg = NoMessage BY <2>3
        <2>5. b \in Buffers BY <1>1, <2>3 DEF Buffers, NoMessage
        <2>6. Fits(c, b, shown) BY <1>3, <2>4 DEF Fits
        <2> QED BY <1>1, <1>2, <1>6, <2>4, <2>5, <2>6
    <1> QED BY <1>5, <1>6

\* The buffer stays as it is, and its message shows a first part of it.
Stays(c, b, o) ==
    /\ o.buf = b /\ Written(c, b, o.shown) /\ (b.msg # NoMessage => Starts(o.shown[b.msg].text, b.text))
    /\ o.how = "done" => DOMAIN o.shown = DOMAIN shown
\* Its text is sent in a new message; or it goes on in the last of several messages.
PostsOf(c, b, o) ==
    o.how = "done" /\ b.msg = NoMessage /\ o.shown = Posted(shown, c, b.text) /\ o.buf = [b EXCEPT !.msg = Len(o.shown)]
Goes(c, b, o) ==
    /\ o.how = "done" /\ b.msg # NoMessage /\ Len(Chunks(b.text)) > 1
    /\ o.shown = EditAndSend(b, c, Chunks(b.text), Len(Chunks(b.text))) /\ o.buf = Moved(b, o.shown, Chunks(b.text))
\* Nothing is shown, without an error.
Falls(c, b, o) == o.how = "lost" /\ o.shown = shown /\ o.buf \in {streamBuf[c], b}
\* All of it is shown; or the rest is gone.
Ends(c, b, o) ==
    /\ o.how = "done" /\ b.msg # NoMessage /\ o.buf = NoBuf
    /\ o.shown \in {EditAndSend(b, c, Chunks(b.text), Len(Chunks(b.text))), Edited(b, b.text)}
Drops(c, b, o) == o.buf = NoBuf /\ Written(c, b, o.shown) /\ (o.how = "lost" \/ (o.how = "raised" /\ kind = "matrix"))

LEMMA HowIs == ASSUME NEW b, NEW sh, NEW how PROVE Result(b, sh, how).buf = b /\ Result(b, sh, how).shown = sh /\ Result(b, sh, how).how = how
    BY DEF Result

\* A first part of a text that is cut in chunks.
LEMMA ChunksFrom ==
    ASSUME StreamAssumption, NEW text \in Texts, text # <<>>
    PROVE  /\ Len(Chunks(text)) \in Nat \ {0} /\ DOMAIN Chunks(text) = 1..Len(Chunks(text))
           /\ \A j \in 1..Len(Chunks(text)) : Chunks(text)[j] \in Texts /\ From(Chunks(text)[j], text)
           /\ Starts(Chunks(text)[1], text)
    <1> DEFINE cs == Chunks(text)
               n == Len(cs)
    <1>1. n \in Nat \ {0} /\ DOMAIN cs = 1..n
          /\ \A j \in 1..n : /\ cs[j] \in Texts
                             /\ \A y : y \in DOMAIN cs[j] <=> y \in 1..MaxLen /\ Place(j, y) \in DOMAIN text
                             /\ \A y \in DOMAIN cs[j] : cs[j][y] = text[Place(j, y)]
        BY ChunksAre
    <1> HIDE DEF cs, n
    <1>2. \A j \in 1..n : From(cs[j], text) BY <1>1 DEF From
    <1>3. \A y \in 1..MaxLen : Place(1, y) = y
        <2> TAKE y \in 1..MaxLen
        <2>1. MaxLen \in Nat /\ y \in Nat BY DEF StreamAssumption
        <2> QED BY <2>1 DEF Place
    <1>4. 1 \in 1..n BY <1>1
    <1>5. Starts(cs[1], text) BY <1>1, <1>3, <1>4 DEF Starts
    <1> QED BY <1>1, <1>2, <1>5 DEF cs, n

\* A buffer, its chat and the messages before an attempt.
Ready(c, b) ==
    StreamAssumption /\ shown \in Seq(Msgs) /\ c \in Chats2 /\ b \in Buffers /\ Fits(c, b, shown)

LEMMA ReadyIs ==
    ASSUME NEW c, NEW b, Ready(c, b)
    PROVE  /\ b.text \in Texts /\ b.msg \in Nat /\ NoMessage \notin DOMAIN shown
           /\ b.msg # NoMessage => b.msg \in DOMAIN shown /\ shown[b.msg].chat = c /\ Starts(shown[b.msg].text, b.text) /\ b.text # <<>>
    <1>1. b.text \in Texts /\ b.msg \in Nat BY DEF Ready, Buffers
    <1>2. NoMessage \notin DOMAIN shown
        <2>1. Len(shown) \in Nat /\ DOMAIN shown = 1..Len(shown) BY SeqIs DEF Ready
        <2> QED BY <2>1 DEF NoMessage
    <1> QED BY <1>1, <1>2 DEF Ready, Fits, Starts

LEMMA KeepsAll ==
    ASSUME NEW c, NEW b, Ready(c, b), NEW how
    PROVE  Stays(c, b, Result(b, shown, how))
    <1>1. Written(c, b, shown) BY ReadyIs, WroteNothing DEF Ready
    <1> QED BY <1>1, ReadyIs, HowIs DEF Stays

LEMMA KeepsEdit ==
    ASSUME NEW c, NEW b, Ready(c, b), b.msg # NoMessage, NEW t \in Texts, Starts(t, b.text), NEW how
    PROVE  Stays(c, b, Result(b, Edited(b, t), how))
    <1> DEFINE sh == Edited(b, t)
    <1>1. Written(c, b, sh) BY ReadyIs, WroteEdit DEF Ready, From, Starts
    <1>2. sh[b.msg] = [chat |-> shown[b.msg].chat, text |-> t] /\ DOMAIN sh = DOMAIN shown BY ReadyIs, EditedIs DEF Ready
    <1>3. sh[b.msg].text = t BY <1>2
    <1> HIDE DEF sh
    <1>4. Stays(c, b, Result(b, sh, how)) BY <1>1, <1>2, <1>3, HowIs DEF Stays
    <1> QED BY <1>4 DEF sh

LEMMA KeepsPost ==
    ASSUME NEW c, NEW b, Ready(c, b), b.msg = NoMessage, NEW how, how # "done"
    PROVE  Stays(c, b, Result(b, Posted(shown, c, b.text), how))
    <1>1. Written(c, b, Posted(shown, c, b.text)) BY ReadyIs, WrotePost DEF Ready
    <1> QED BY <1>1, HowIs DEF Stays

LEMMA SpreadsChunks ==
    ASSUME NEW c, NEW b, Ready(c, b), b.msg # NoMessage, NEW k \in 1..Len(Chunks(b.text))
    PROVE  /\ Spread(b, c, Chunks(b.text), k, EditAndSend(b, c, Chunks(b.text), k))
           /\ Written(c, b, EditAndSend(b, c, Chunks(b.text), k))
           /\ Starts(EditAndSend(b, c, Chunks(b.text), k)[b.msg].text, b.text)
    <1> DEFINE cs == Chunks(b.text)
               N == Len(cs)
               sh == EditAndSend(b, c, cs, k)
    <1>1. N \in Nat \ {0} /\ (\A j \in 1..N : cs[j] \in Texts /\ From(cs[j], b.text)) /\ Starts(cs[1], b.text)
        BY ReadyIs, ChunksFrom DEF Ready
    <1>2. k \in 1..N OBVIOUS
    <1> HIDE DEF cs, N
    <1>3. 1 \in 1..k /\ \A j \in 1..k : j \in 1..N BY <1>1, <1>2
    <1>4. Spread(b, c, cs, k, sh) BY <1>1, <1>2, ReadyIs, SpreadIs DEF Ready
    <1> HIDE DEF sh
    <1>5. Written(c, b, sh) BY <1>1, <1>3, <1>4, ReadyIs, WroteSpread
    <1>6. Slot(b, 1) = b.msg BY DEF Slot
    <1>7. sh[b.msg] = [chat |-> c, text |-> cs[1]] BY <1>3, <1>4, <1>6 DEF Spread
    <1>8. sh[b.msg].text = cs[1] BY <1>7
    <1> QED BY <1>1, <1>4, <1>5, <1>8 DEF sh, cs

LEMMA KeepsSpread ==
    ASSUME NEW c, NEW b, Ready(c, b), b.msg # NoMessage, NEW k \in 0..Len(Chunks(b.text)), NEW how, how # "done"
    PROVE  Stays(c, b, Result(b, EditAndSend(b, c, Chunks(b.text), k), how))
    <1>1. CASE k = 0
        <2>1. EditAndSend(b, c, Chunks(b.text), k) = shown BY <1>1 DEF EditAndSend
        <2> QED BY <2>1, KeepsAll
    <1>2. CASE k # 0
        <2>1. Len(Chunks(b.text)) \in Nat BY ReadyIs, ChunksFrom DEF Ready
        <2>2. k \in 1..Len(Chunks(b.text)) BY <1>2, <2>1
        <2> DEFINE sh == EditAndSend(b, c, Chunks(b.text), k)
        <2>3. Written(c, b, sh) /\ Starts(sh[b.msg].text, b.text) BY <2>2, SpreadsChunks
        <2> HIDE DEF sh
        <2>4. Stays(c, b, Result(b, sh, how)) BY <2>3, HowIs DEF Stays
        <2> QED BY <2>4 DEF sh
    <1> QED BY <1>1, <1>2

LEMMA PostAdds ==
    ASSUME NEW c, NEW b, Ready(c, b)
    PROVE  DOMAIN Posted(shown, c, b.text) # DOMAIN shown
    <1>1. b.text \in Texts /\ shown \in Seq(Msgs) /\ c \in Chats2 BY ReadyIs DEF Ready
    <1>2. DOMAIN Posted(shown, c, b.text) = 1..Len(shown) + 1 BY <1>1, PostedIs
    <1>3. DOMAIN shown = 1..Len(shown) /\ Len(shown) \in Nat BY <1>1, SeqIs
    <1>4. Len(shown) + 1 \in 1..Len(shown) + 1 /\ Len(shown) + 1 \notin 1..Len(shown) BY <1>3
    <1> QED BY <1>2, <1>3, <1>4

LEMMA FirstShapes ==
    ASSUME NEW c, NEW b, Ready(c, b), b.msg = NoMessage, NEW o \in FirstSend(b, c)
    PROVE  (Stays(c, b, o) /\ o.how \in {"raised", "refused"}) \/ PostsOf(c, b, o)
    <1> DEFINE sh == Posted(shown, c, b.text)
    <1>1. \/ o = Result(b, shown, "refused") \/ o = Result([b EXCEPT !.msg = Len(sh)], sh, "done")
          \/ o = Result(b, shown, "raised") \/ o = Result(b, sh, "raised")
        BY DEF FirstSend
    <1>2. Stays(c, b, Result(b, shown, "refused")) /\ Stays(c, b, Result(b, shown, "raised"))
          /\ Stays(c, b, Result(b, sh, "raised"))
        BY KeepsAll, KeepsPost
    <1> HIDE DEF sh
    <1>3. CASE o = Result([b EXCEPT !.msg = Len(sh)], sh, "done")
        <2>1. o.how = "done" /\ o.shown = sh /\ o.buf = [b EXCEPT !.msg = Len(sh)] BY <1>3, HowIs
        <2> QED BY <2>1 DEF PostsOf, sh
    <1> QED BY <1>1, <1>2, <1>3, HowIs

LEMMA DeltaShapes ==
    ASSUME NEW c, NEW b, c = sending.chat, b = Selected(sending), Ready(c, b), sending.kind = "delta", NEW o \in Outcomes(sending),
           kind \in Kinds
    PROVE  /\ Stays(c, b, o) \/ PostsOf(c, b, o) \/ Goes(c, b, o) \/ Falls(c, b, o)
           /\ o.how \in {"done", "raised", "refused", "swallowed", "lost"} /\ (o.how = "swallowed" => kind = "matrix")
           /\ Stays(c, b, o) /\ o.how = "done" => b.msg # NoMessage
    <1> DEFINE cs == Chunks(b.text)
               n == Len(cs)
               Fine(x) == /\ Stays(c, b, x) \/ PostsOf(c, b, x) \/ Goes(c, b, x) \/ Falls(c, b, x)
                          /\ x.how \in {"done", "raised", "refused", "swallowed", "lost"} /\ (x.how = "swallowed" => kind = "matrix")
                          /\ Stays(c, b, x) /\ x.how = "done" => b.msg # NoMessage
    <1>1. kind \in {"telegram", "discord", "matrix"} BY DEF Ready, StreamAssumption
    <1>2. ASSUME b.msg = NoMessage, o \in FirstSend(b, c) PROVE Fine(o)
        <2>1. (Stays(c, b, o) /\ o.how \in {"raised", "refused"}) \/ PostsOf(c, b, o) BY <1>2, FirstShapes
        <2>2. PostsOf(c, b, o) => o.how = "done" /\ ~Stays(c, b, o)
            <3> HAVE PostsOf(c, b, o)
            <3>1. o.how = "done" /\ o.shown = Posted(shown, c, b.text) BY DEF PostsOf
            <3>2. DOMAIN o.shown # DOMAIN shown BY <3>1, PostAdds
            <3> QED BY <3>1, <3>2 DEF Stays
        <2> QED BY <2>1, <2>2
    <1>3. CASE kind = "telegram"
        <2>1. o \in TelegramDelta(sending) BY <1>3 DEF Outcomes
        <2>2. CASE b.msg = NoMessage
            <3>1. o \in FirstSend(b, c) BY <2>1, <2>2 DEF TelegramDelta
            <3> QED BY <1>2, <2>2, <3>1
        <2>3. CASE b.msg # NoMessage
            <3> DEFINE sh == EditAndSend(b, c, cs, n)
            <3>1. \/ o = Result(b, shown, "done") \/ (n > 1 /\ o = Result(Moved(b, sh, cs), sh, "done"))
                  \/ (~(n > 1) /\ o = Result(b, sh, "done"))
                  \/ \E k \in 0..n : o = Result(b, EditAndSend(b, c, cs, k), "raised")
                BY <2>1, <2>3 DEF TelegramDelta
            <3>2. CASE o = Result(b, shown, "done")
                <4>1. Stays(c, b, o) BY <3>2, KeepsAll
                <4> QED BY <2>3, <3>2, <4>1, HowIs
            <3>3. CASE n > 1 /\ o = Result(Moved(b, sh, cs), sh, "done")
                <4>1. o.how = "done" /\ o.shown = sh /\ o.buf = Moved(b, sh, cs) BY <3>3, HowIs
                <4>2. Goes(c, b, o) BY <2>3, <3>3, <4>1 DEF Goes
                <4> QED BY <2>3, <4>1, <4>2
            <3>4. CASE ~(n > 1) /\ o = Result(b, sh, "done")
                <4>1. n \in Nat \ {0} BY <2>3, ReadyIs, ChunksFrom DEF Ready
                <4>2. n = 1 /\ n \in 1..n
                    <5> HIDE DEF n
                    <5>1. n = 1 BY <3>4, <4>1
                    <5> QED BY <5>1
                <4>3. Written(c, b, sh) /\ Starts(sh[b.msg].text, b.text) /\ Spread(b, c, cs, n, sh) BY <2>3, <4>2, SpreadsChunks
                <4>4. DOMAIN sh = DOMAIN shown
                    <5>1. DOMAIN sh = 1..Len(shown) + n - 1 BY <4>3 DEF Spread
                    <5>2. DOMAIN shown = 1..Len(shown) /\ Len(shown) \in Nat BY SeqIs DEF Ready
                    <5>3. Len(shown) + n - 1 = Len(shown) BY <4>2, <5>2
                    <5> QED BY <5>1, <5>2, <5>3
                <4> HIDE DEF sh
                <4>5. Stays(c, b, o) BY <2>3, <3>4, <4>3, <4>4, HowIs DEF Stays
                <4> QED BY <2>3, <3>4, <4>5, HowIs
            <3>5. ASSUME NEW k \in 0..n, o = Result(b, EditAndSend(b, c, cs, k), "raised") PROVE Fine(o)
                <4>1. Stays(c, b, o) BY <2>3, <3>5, KeepsSpread
                <4> QED BY <2>3, <3>5, <4>1, HowIs
            <3> QED BY <3>1, <3>2, <3>3, <3>4, <3>5
        <2> QED BY <2>2, <2>3
    <1>4. CASE kind = "discord"
        <2>1. o \in DiscordDelta(sending) BY <1>4 DEF Outcomes
        <2>2. CASE o \in {Result(streamBuf[c], shown, "lost"), Result(b, shown, "lost")}
            <3>1. o.how = "lost" /\ o.shown = shown /\ o.buf \in {streamBuf[c], b} BY <2>2, HowIs
            <3> QED BY <3>1 DEF Falls
        <2>3. CASE b.msg = NoMessage /\ o \in FirstSend(b, c) BY <1>2, <2>3
        <2>4. CASE b.msg # NoMessage /\ o \in {Result(b, shown, "done"), Result(b, Edited(b, cs[1]), "done"), Result(b, shown, "raised"),
                                               Result(b, Edited(b, cs[1]), "raised")}
            <3>1. n \in Nat \ {0} /\ (\A j \in 1..n : cs[j] \in Texts) /\ Starts(cs[1], b.text)
                BY <2>4, ReadyIs, ChunksFrom DEF Ready
            <3>2. 1 \in 1..n BY <3>1
            <3>3. cs[1] \in Texts /\ Starts(cs[1], b.text) BY <3>1, <3>2
            <3>4. Stays(c, b, o) BY <2>4, <3>3, KeepsAll, KeepsEdit
            <3>5. o.how \in {"done", "raised"} BY <2>4, HowIs
            <3> QED BY <2>4, <3>4, <3>5
        <2>5. o \in {Result(streamBuf[c], shown, "lost"), Result(b, shown, "lost")}
              \/ (b.msg = NoMessage /\ o \in FirstSend(b, c))
              \/ (b.msg # NoMessage /\ o \in {Result(b, shown, "done"), Result(b, Edited(b, cs[1]), "done"), Result(b, shown, "raised"),
                                              Result(b, Edited(b, cs[1]), "raised")})
            BY <2>1 DEF DiscordDelta
        <2> QED BY <2>2, <2>3, <2>4, <2>5
    <1>5. CASE kind = "matrix"
        <2>1. o \in MatrixDelta(sending) BY <1>5 DEF Outcomes
        <2>2. CASE b.msg = NoMessage
            <3> DEFINE sh == Posted(shown, c, b.text)
            <3>1. \/ o = Result([b EXCEPT !.msg = Len(sh)], sh, "done") \/ o = Result(b, shown, "swallowed")
                  \/ o = Result(b, sh, "swallowed")
                BY <2>1, <2>2 DEF MatrixDelta
            <3>2. CASE o = Result([b EXCEPT !.msg = Len(sh)], sh, "done")
                <4>1. o.how = "done" /\ o.shown = sh /\ o.buf = [b EXCEPT !.msg = Len(sh)] BY <3>2, HowIs
                <4>2. PostsOf(c, b, o) BY <2>2, <4>1 DEF PostsOf
                <4>3. ~Stays(c, b, o)
                    <5>1. DOMAIN o.shown # DOMAIN shown BY <4>1, PostAdds
                    <5> QED BY <4>1, <5>1 DEF Stays
                <4> QED BY <4>1, <4>2, <4>3
            <3>3. Stays(c, b, Result(b, shown, "swallowed")) /\ Stays(c, b, Result(b, sh, "swallowed")) BY <2>2, KeepsAll, KeepsPost
            <3> QED BY <1>5, <3>1, <3>2, <3>3, HowIs
        <2>3. CASE b.msg # NoMessage
            <3>1. PICK x \in {shown, Edited(b, b.text)}, how \in {"done", "swallowed"} : o = Result(b, x, how)
                BY <2>1, <2>3 DEF MatrixDelta
            <3>2. Starts(b.text, b.text) /\ b.text \in Texts BY ReadyIs DEF Starts
            <3>3. Stays(c, b, o) BY <2>3, <3>1, <3>2, KeepsAll, KeepsEdit
            <3>4. o.how = how BY <3>1, HowIs
            <3> QED BY <1>5, <2>3, <3>1, <3>3, <3>4
        <2> QED BY <2>2, <2>3
    <1> QED BY <1>1, <1>3, <1>4, <1>5

LEMMA EndShapes ==
    ASSUME NEW c, NEW b, c = sending.chat, b = streamBuf[c], Ready(c, b), sending.kind = "end", NEW o \in Outcomes(sending)
    PROVE  /\ (Stays(c, b, o) /\ (o.how = "done" => o.shown = shown /\ NotMine(sending) /\ kind # "matrix")) \/ Ends(c, b, o) \/ Falls(c, b, o) \/ Drops(c, b, o)
           /\ o.how \in {"done", "raised", "lost"} /\ (kind = "matrix" => o.buf = NoBuf)
    <1> DEFINE cs == Chunks(b.text)
               n == Len(cs)
    <1>1. CASE kind = "matrix"
        <2>1. o \in MatrixEnd(sending) BY <1>1 DEF Outcomes
        <2>2. CASE NotMine(sending)
            <3>1. o = Result(NoBuf, shown, "lost") BY <2>1, <2>2 DEF MatrixEnd
            <3>2. Written(c, b, shown) BY ReadyIs, WroteNothing DEF Ready
            <3>3. o.buf = NoBuf /\ o.shown = shown /\ o.how = "lost" BY <3>1, HowIs
            <3> QED BY <3>2, <3>3 DEF Drops
        <2>3. CASE ~NotMine(sending)
            <3>1. b.msg # NoMessage BY <2>3 DEF NotMine
            <3>2. \/ o = Result(NoBuf, Edited(b, b.text), "done")
                  \/ \E x \in {shown, Edited(b, b.text)} : o = Result(NoBuf, x, "raised")
                BY <2>1, <2>3 DEF MatrixEnd
            <3>3. CASE o = Result(NoBuf, Edited(b, b.text), "done")
                <4>1. o.buf = NoBuf /\ o.shown = Edited(b, b.text) /\ o.how = "done" BY <3>3, HowIs
                <4> QED BY <3>1, <4>1 DEF Ends
            <3>4. ASSUME NEW x \in {shown, Edited(b, b.text)}, o = Result(NoBuf, x, "raised") PROVE Drops(c, b, o) /\ o.how = "raised" /\ o.buf = NoBuf
                <4>1. o.buf = NoBuf /\ o.shown = x /\ o.how = "raised" BY <3>4, HowIs
                <4>2. Written(c, b, shown) BY ReadyIs, WroteNothing DEF Ready
                <4>3. From(b.text, b.text) BY DEF From
                <4>4. Written(c, b, Edited(b, b.text)) BY <3>1, <4>3, ReadyIs, WroteEdit DEF Ready
                <4> QED BY <1>1, <3>4, <4>1, <4>2, <4>4 DEF Drops
            <3> QED BY <3>2, <3>3, <3>4
        <2> QED BY <2>2, <2>3
    <1>2. CASE kind # "matrix"
        <2>1. o \in SplitEnd(sending)
            <3>1. sending.kind # "delta" OBVIOUS
            <3> QED BY <1>2, <3>1 DEF Outcomes
        <2>2. CASE NotMine(sending)
            <3>1. o = Result(b, shown, "done") BY <2>1, <2>2 DEF SplitEnd
            <3>2. Stays(c, b, o) /\ o.shown = shown /\ o.how = "done" BY <3>1, KeepsAll, HowIs
            <3> QED BY <1>2, <2>2, <3>2
        <2>3. CASE ~NotMine(sending)
            <3>1. b.msg # NoMessage BY <2>3 DEF NotMine
            <3>2. \/ o = Result(NoBuf, EditAndSend(b, c, cs, n), "done")
                  \/ \E k \in 0..n : o = Result(b, EditAndSend(b, c, cs, k), "raised")
                  \/ n > 1 /\ o = Result(NoBuf, EditAndSend(b, c, cs, 1), "lost")
                  \/ o = Result(b, shown, "lost")
                BY <2>1, <2>3 DEF SplitEnd
            <3>3. CASE o = Result(NoBuf, EditAndSend(b, c, cs, n), "done")
                <4>1. o.buf = NoBuf /\ o.shown = EditAndSend(b, c, cs, n) /\ o.how = "done" BY <3>3, HowIs
                <4> QED BY <1>2, <3>1, <4>1 DEF Ends
            <3>4. ASSUME NEW k \in 0..n, o = Result(b, EditAndSend(b, c, cs, k), "raised") PROVE Stays(c, b, o) /\ o.how = "raised"
                <4>1. Stays(c, b, Result(b, EditAndSend(b, c, Chunks(b.text), k), "raised")) BY <3>1, <3>4, KeepsSpread
                <4> QED BY <3>4, <4>1, HowIs
            <3>5. CASE n > 1 /\ o = Result(NoBuf, EditAndSend(b, c, cs, 1), "lost")
                <4>1. n \in Nat BY <3>1, ReadyIs, ChunksFrom DEF Ready
                <4>2. 1 \in 1..n BY <3>5, <4>1
                <4>3. Written(c, b, EditAndSend(b, c, cs, 1)) BY <3>1, <4>2, SpreadsChunks
                <4>4. o.buf = NoBuf /\ o.shown = EditAndSend(b, c, cs, 1) /\ o.how = "lost" BY <3>5, HowIs
                <4> QED BY <1>2, <4>3, <4>4 DEF Drops
            <3>6. CASE o = Result(b, shown, "lost")
                <4>1. o.how = "lost" /\ o.shown = shown /\ o.buf = streamBuf[c] BY <3>6, HowIs
                <4> QED BY <1>2, <4>1 DEF Falls
            <3> QED BY <1>2, <3>2, <3>3, <3>4, <3>5, <3>6
        <2> QED BY <2>2, <2>3
    <1> QED BY <1>1, <1>2

----------------------------------------------------------------------------
(* What stays where it was, and where the rest goes. *)

LEMMA SpotIs ==
    ASSUME NEW c, NEW b, NEW sh, NEW e, NEW m, NEW x
    PROVE  /\ Spot(c, b, sh, e, m, x) <=> Still(c, b, sh, e, m, x) \/ Growing(b, e, m, x)
           /\ Kept(c, b, sh, e, m, x) <=> Spot(c, b, sh, e, m, x) /\ m <= b.msg
    BY DEF Spot, Kept

LEMMA StaysPlaces ==
    ASSUME NEW c, NEW b, NEW o, Stays(c, b, o), NEW e, NEW m, NEW x
    PROVE  /\ Kept(c, b, shown, e, m, x) => Kept(c, o.buf, o.shown, e, m, x)
           /\ o.how = "done" /\ Spot(c, o.buf, o.shown, e, m, x) => Spot(c, b, shown, e, m, x)
    <1>1. o.buf = b /\ Written(c, b, o.shown) /\ (o.how = "done" => DOMAIN o.shown = DOMAIN shown) BY DEF Stays
    <1>2. Still(c, b, shown, e, m, x) => Still(c, b, o.shown, e, m, x) BY <1>1 DEF Written, Still
    <1>3. o.how = "done" /\ Still(c, b, o.shown, e, m, x) => Still(c, b, shown, e, m, x) BY <1>1 DEF Written, Still
    <1> QED BY <1>1, <1>2, <1>3, SpotIs

LEMMA PostsPlaces ==
    ASSUME NEW c, NEW b, Ready(c, b), NEW o, PostsOf(c, b, o)
    PROVE  /\ o.buf.msg = Len(shown) + 1 /\ o.buf.msg \notin DOMAIN shown /\ o.buf.text = b.text /\ o.buf.s = b.s /\ b.msg = NoMessage
           /\ o.buf \in Buffers
           /\ DOMAIN o.shown = 1..Len(shown) + 1 /\ o.shown[Len(shown) + 1] = [chat |-> c, text |-> b.text]
           /\ \A e, m, x : Kept(c, b, shown, e, m, x) => m = NoMessage /\ Kept(c, o.buf, o.shown, e, o.buf.msg, x)
           /\ \A e, m, x : Spot(c, o.buf, o.shown, e, m, x) =>
                  \/ m \in DOMAIN shown /\ Still(c, b, shown, e, m, x)
                  \/ m = o.buf.msg /\ Growing(b, e, NoMessage, x)
    <1>1. o.shown = Posted(shown, c, b.text) /\ o.buf = [b EXCEPT !.msg = Len(o.shown)] /\ b.msg = NoMessage BY DEF PostsOf
    <1> DEFINE n == Len(shown)
               sh == o.shown
    <1>2. Len(sh) = n + 1 /\ DOMAIN sh = 1..n + 1 /\ sh[n + 1] = [chat |-> c, text |-> b.text] /\ \A i \in DOMAIN shown : sh[i] = shown[i]
        BY <1>1, PostedIs, ReadyIs DEF Ready
    <1>3. n \in Nat /\ DOMAIN shown = 1..n BY SeqIs DEF Ready
    <1>4. o.buf = [b EXCEPT !.msg = n + 1] BY <1>1, <1>2
    <1> HIDE DEF n, sh
    <1>5. o.buf.msg = n + 1 /\ o.buf.text = b.text /\ o.buf.s = b.s /\ o.buf \in Buffers
        <2>1. b \in Buffers /\ n + 1 \in Nat BY <1>3 DEF Ready
        <2>2. b = [s |-> b.s, text |-> b.text, msg |-> b.msg] /\ b.s \in Streams \cup {0} /\ b.text \in Texts BY <2>1 DEF Buffers
        <2>3. o.buf = [s |-> b.s, text |-> b.text, msg |-> n + 1] BY <1>4, <2>2
        <2> QED BY <2>1, <2>2, <2>3 DEF Buffers
    <1>6. n + 1 \notin DOMAIN shown /\ NoMessage \notin DOMAIN shown /\ n + 1 \in Nat BY <1>3 DEF NoMessage
    <1>7. ASSUME NEW e, NEW m, NEW x, Kept(c, b, shown, e, m, x) PROVE m = NoMessage /\ Kept(c, o.buf, sh, e, o.buf.msg, x)
        <2>1. ~Still(c, b, shown, e, m, x)
            <3> SUFFICES ASSUME Still(c, b, shown, e, m, x) PROVE FALSE OBVIOUS
            <3>1. m \in 1..n /\ m <= 0 BY <1>1, <1>3, <1>7 DEF Still, Kept, NoMessage
            <3> QED BY <1>3, <3>1
        <2>2. Growing(b, e, m, x) BY <1>7, <2>1, SpotIs
        <2>3. m = NoMessage /\ Growing(o.buf, e, o.buf.msg, x) BY <1>1, <1>5, <2>2 DEF Growing
        <2>4. o.buf.msg <= o.buf.msg BY <1>5, <1>6
        <2> QED BY <2>3, <2>4, SpotIs
    <1>8. ASSUME NEW e, NEW m, NEW x, Spot(c, o.buf, sh, e, m, x)
          PROVE  (m \in DOMAIN shown /\ Still(c, b, shown, e, m, x)) \/ (m = o.buf.msg /\ Growing(b, e, NoMessage, x))
        <2>1. CASE Growing(o.buf, e, m, x) BY <1>1, <1>5, <2>1 DEF Growing
        <2>2. CASE Still(c, o.buf, sh, e, m, x)
            <3>1. m \in 1..n + 1 /\ m # n + 1 BY <1>2, <1>5, <2>2 DEF Still
            <3>2. m \in DOMAIN shown BY <1>3, <3>1
            <3> QED BY <1>1, <1>2, <1>6, <2>2, <3>2 DEF Still
        <2> QED BY <1>8, <2>1, <2>2, SpotIs
    <1> QED BY <1>1, <1>2, <1>5, <1>6, <1>7, <1>8 DEF n, sh

\* Where a place of a buffer goes when its text is cut in chunks.
To(b, m, x, n, y) ==
    \/ m # b.msg /\ n = m /\ y = x
    \/ m = b.msg /\ \E j \in 1..Len(Chunks(b.text)) : n = Slot(b, j) /\ y \in 1..MaxLen /\ x = Place(j, y)

\* The buffer after the whole text was shown in chunks: it goes on in the last, or is gone.
Rest(b, b2) ==
    \/ b2 = NoBuf
    \/ LET cs == Chunks(b.text) IN Len(cs) > 1 /\ b2.msg = Slot(b, Len(cs)) /\ b2.text = cs[Len(cs)]

\* All of the text is shown in chunks.
Spreads(c, b, b2, sh) == Ready(c, b) /\ b.msg # NoMessage /\ Spread(b, c, Chunks(b.text), Len(Chunks(b.text)), sh) /\ Rest(b, b2)

LEMMA SlotOrder ==
    ASSUME NEW b, shown \in Seq(Msgs), b.msg \in DOMAIN shown, NEW j \in Nat \ {0}, NEW k \in Nat \ {0}
    PROVE  /\ Slot(b, j) \in Nat \ {0} /\ b.msg <= Slot(b, j) /\ (j < k => Slot(b, j) < Slot(b, k)) /\ (Slot(b, j) = Slot(b, k) => j = k)
           /\ j > 1 => Slot(b, j) \notin DOMAIN shown
    <1>1. Len(shown) \in Nat /\ DOMAIN shown = 1..Len(shown) BY SeqIs
    <1>2. b.msg \in 1..Len(shown) BY <1>1
    <1> DEFINE n == Len(shown)
               g == b.msg
    <1>3. Slot(b, j) = (IF j = 1 THEN g ELSE n + j - 1) /\ Slot(b, k) = (IF k = 1 THEN g ELSE n + k - 1) BY DEF Slot
    <1> HIDE DEF n, g
    <1>4. n \in Nat /\ g \in 1..n /\ DOMAIN shown = 1..n BY <1>1, <1>2 DEF n, g
    <1>5. Slot(b, j) \in Nat \ {0} /\ g <= Slot(b, j) /\ (j < k => Slot(b, j) < Slot(b, k)) BY <1>3, <1>4
    <1>6. k < j => Slot(b, k) < Slot(b, j) BY <1>3, <1>4
    <1>7. Slot(b, j) = Slot(b, k) => j = k
        <2>1. Slot(b, k) \in Nat BY <1>3, <1>4
        <2>2. j < k \/ k < j \/ j = k OBVIOUS
        <2> QED BY <1>5, <1>6, <2>1, <2>2
    <1>8. j > 1 => Slot(b, j) \notin DOMAIN shown BY <1>3, <1>4
    <1> QED BY <1>5, <1>7, <1>8 DEF g

LEMMA SpreadsIs ==
    ASSUME NEW c, NEW b, NEW b2, NEW sh, Spreads(c, b, b2, sh)
    PROVE  LET cs == Chunks(b.text)
               N == Len(cs)
           IN  /\ N \in Nat \ {0} /\ b.msg \in DOMAIN shown /\ shown \in Seq(Msgs) /\ NoMessage \notin DOMAIN sh /\ DOMAIN sh \subseteq Nat
               /\ DOMAIN shown \subseteq Nat
               /\ \A j \in 1..N : /\ j \in Nat \ {0} /\ Slot(b, j) \in DOMAIN sh
                                  /\ sh[Slot(b, j)].chat = c /\ sh[Slot(b, j)].text = cs[j]
                                  /\ \A y : y \in DOMAIN cs[j] <=> y \in 1..MaxLen /\ Place(j, y) \in DOMAIN b.text
                                  /\ \A y \in DOMAIN cs[j] : cs[j][y] = b.text[Place(j, y)] /\ y \in Nat
                                  /\ b2.msg = Slot(b, j) => j = N /\ b2.text = cs[N]
               /\ \A i \in DOMAIN shown \ {b.msg} : i \in DOMAIN sh /\ sh[i] = shown[i] /\ i # b2.msg
               /\ \A i \in DOMAIN sh : i \in DOMAIN shown \ {b.msg} \/ \E j \in 1..N : i = Slot(b, j)
               /\ b2.msg = NoMessage \/ (b2.msg = Slot(b, N) /\ b2.text = cs[N] /\ b2.msg \notin DOMAIN shown)
               /\ b2 = NoBuf \/ b2.msg # NoMessage
               /\ DOMAIN b.text \subseteq Nat
               /\ \A x \in DOMAIN b.text : \E j \in 1..N : \E y \in DOMAIN cs[j] : x = Place(j, y)
    <1> DEFINE cs == Chunks(b.text)
               N == Len(cs)
    <1>1. b.msg \in DOMAIN shown /\ shown \in Seq(Msgs) /\ b.text \in Texts /\ b.text # <<>> /\ StreamAssumption /\ NoMessage \notin DOMAIN shown
        BY ReadyIs DEF Spreads, Ready
    <1>2. /\ N \in Nat \ {0} /\ DOMAIN cs = 1..N
          /\ \A j \in 1..N :
                  /\ cs[j] \in Texts
                  /\ \A y : y \in DOMAIN cs[j] <=> y \in 1..MaxLen /\ Place(j, y) \in DOMAIN b.text
                  /\ \A y \in DOMAIN cs[j] : cs[j][y] = b.text[Place(j, y)]
          /\ \A x \in DOMAIN b.text : \E j \in 1..N : \E y \in DOMAIN cs[j] : x = Place(j, y)
        BY <1>1, ChunksAre
    <1>3. Spread(b, c, cs, N, sh) /\ Rest(b, b2) BY DEF Spreads
    <1>4. Rest(b, b2) <=> (b2 = NoBuf \/ (N > 1 /\ b2.msg = Slot(b, N) /\ b2.text = cs[N])) BY DEF Rest
    <1> HIDE DEF cs, N
    <1>5. DOMAIN sh = 1..Len(sh) /\ DOMAIN shown = 1..Len(shown) /\ Len(sh) \in Nat /\ Len(shown) \in Nat BY <1>1, <1>3, SeqIs DEF Spread
    <1>6. NoMessage \notin DOMAIN sh /\ DOMAIN sh \subseteq Nat /\ DOMAIN shown \subseteq Nat BY <1>5 DEF NoMessage
    <1>7. DOMAIN b.text \subseteq Nat
        <2>1. b.text \in Seq(Streams \X Nat) BY <1>1 DEF Texts
        <2>2. DOMAIN b.text = 1..Len(b.text) /\ Len(b.text) \in Nat BY <2>1, SeqIs
        <2> QED BY <2>2
    <1>8. b2.msg = NoMessage \/ (N > 1 /\ b2.msg = Slot(b, N) /\ b2.text = cs[N]) BY <1>3, <1>4 DEF NoBuf
    <1>9. b2.msg = NoMessage \/ (b2.msg = Slot(b, N) /\ b2.text = cs[N] /\ b2.msg \notin DOMAIN shown)
        BY <1>1, <1>2, <1>8, SlotOrder
    <1>10. b2 = NoBuf \/ b2.msg # NoMessage
        <2>1. Slot(b, N) # NoMessage BY <1>1, <1>2, SlotOrder DEF NoMessage
        <2> QED BY <1>3, <1>4, <2>1
    <1>11. ASSUME NEW j \in 1..N
           PROVE  /\ j \in Nat \ {0} /\ Slot(b, j) \in DOMAIN sh /\ sh[Slot(b, j)].chat = c /\ sh[Slot(b, j)].text = cs[j]
                  /\ b2.msg = Slot(b, j) => j = N /\ b2.text = cs[N]
                  /\ \A y \in DOMAIN cs[j] : y \in Nat
        <2>1. j \in Nat \ {0} OBVIOUS
        <2>2. Slot(b, j) \in DOMAIN sh /\ sh[Slot(b, j)] = [chat |-> c, text |-> cs[j]] BY <1>3 DEF Spread
        <2>3. sh[Slot(b, j)].chat = c /\ sh[Slot(b, j)].text = cs[j] BY <2>2
        <2>4. b2.msg = Slot(b, j) => j = N /\ b2.text = cs[N]
            <3> HAVE b2.msg = Slot(b, j)
            <3>1. b2.msg # NoMessage BY <1>6, <2>2
            <3>2. b2.msg = Slot(b, N) /\ b2.text = cs[N] BY <1>8, <3>1
            <3>3. Slot(b, j) = Slot(b, N) /\ N \in Nat \ {0} BY <1>2, <3>2
            <3>4. j = N BY <1>1, <2>1, <3>3, SlotOrder
            <3> QED BY <3>2, <3>4
        <2>5. \A y \in DOMAIN cs[j] : y \in Nat
            <3>1. cs[j] \in Seq(Streams \X Nat) BY <1>2 DEF Texts
            <3>2. DOMAIN cs[j] = 1..Len(cs[j]) /\ Len(cs[j]) \in Nat BY <3>1, SeqIs
            <3> QED BY <3>2
        <2> QED BY <2>1, <2>2, <2>3, <2>4, <2>5
    <1>12. \A i \in DOMAIN shown \ {b.msg} : i \in DOMAIN sh /\ sh[i] = shown[i] /\ i # b2.msg
        BY <1>1, <1>3, <1>9 DEF Spread
    <1>13. \A i \in DOMAIN sh : i \in DOMAIN shown \ {b.msg} \/ \E j \in 1..N : i = Slot(b, j) BY <1>3 DEF Spread
    <1> QED BY <1>1, <1>2, <1>6, <1>7, <1>9, <1>10, <1>11, <1>12, <1>13 DEF cs, N

LEMMA SpreadsOn ==
    ASSUME NEW c, NEW b, NEW b2, NEW sh, Spreads(c, b, b2, sh), NEW e, NEW m, NEW x, Spot(c, b, shown, e, m, x)
    PROVE  \E n, y \in Nat : To(b, m, x, n, y) /\ Spot(c, b2, sh, e, n, y) /\ n \in DOMAIN sh
    <1> DEFINE cs == Chunks(b.text)
               N == Len(cs)
    <1>1. /\ NoMessage \notin DOMAIN sh /\ DOMAIN sh \subseteq Nat /\ DOMAIN b.text \subseteq Nat
          /\ \A j \in 1..N : /\ Slot(b, j) \in DOMAIN sh /\ sh[Slot(b, j)].chat = c /\ sh[Slot(b, j)].text = cs[j]
                             /\ \A y : y \in DOMAIN cs[j] <=> y \in 1..MaxLen /\ Place(j, y) \in DOMAIN b.text
                             /\ \A y \in DOMAIN cs[j] : cs[j][y] = b.text[Place(j, y)] /\ y \in Nat
                             /\ b2.msg = Slot(b, j) => j = N /\ b2.text = cs[N]
          /\ \A i \in DOMAIN shown \ {b.msg} : i \in DOMAIN sh /\ sh[i] = shown[i] /\ i # b2.msg
          /\ \A z \in DOMAIN b.text : \E j \in 1..N : \E y \in DOMAIN cs[j] : z = Place(j, y)
        BY SpreadsIs
    <1>2. \A n, y : To(b, m, x, n, y) <=> \/ m # b.msg /\ n = m /\ y = x
                                          \/ m = b.msg /\ \E j \in 1..N : n = Slot(b, j) /\ y \in 1..MaxLen /\ x = Place(j, y)
        BY DEF To
    <1> HIDE DEF cs, N
    <1>3. CASE Still(c, b, shown, e, m, x)
        <2>1. m \in DOMAIN shown \ {b.msg} /\ shown[m].chat = c /\ x \in DOMAIN shown[m].text /\ shown[m].text[x] = e BY <1>3 DEF Still
        <2>2. Still(c, b2, sh, e, m, x) /\ m \in DOMAIN sh BY <1>1, <2>1 DEF Still
        <2>3. x \in Nat
            <3>1. shown \in Seq(Msgs) BY DEF Spreads, Ready
            <3>2. shown[m] \in Msgs BY <2>1, <3>1, SeqIs
            <3>3. shown[m].text \in Seq(Streams \X Nat) BY <3>2 DEF Msgs, Texts
            <3>4. DOMAIN shown[m].text = 1..Len(shown[m].text) /\ Len(shown[m].text) \in Nat BY <3>3, SeqIs
            <3> QED BY <2>1, <3>4
        <2>4. To(b, m, x, m, x) BY <1>2, <2>1
        <2>5. m \in Nat BY <1>1, <2>2
        <2> QED BY <2>2, <2>3, <2>4, <2>5, SpotIs
    <1>4. CASE Growing(b, e, m, x)
        <2>1. m = b.msg /\ x \in DOMAIN b.text /\ b.text[x] = e BY <1>4 DEF Growing
        <2>2. PICK j \in 1..N : \E y \in DOMAIN cs[j] : x = Place(j, y) BY <1>1, <2>1
        <2>3. PICK y \in DOMAIN cs[j] : x = Place(j, y) BY <2>2
        <2> DEFINE n == Slot(b, j)
        <2>4. y \in 1..MaxLen /\ y \in Nat /\ cs[j][y] = e /\ n \in DOMAIN sh /\ sh[n].chat = c /\ sh[n].text = cs[j]
            BY <1>1, <2>1, <2>3
        <2>5. To(b, m, x, n, y) BY <1>2, <2>1, <2>3, <2>4
        <2>6. Spot(c, b2, sh, e, n, y)
            <3>1. CASE n = b2.msg
                <4>1. j = N /\ b2.text = cs[N] BY <1>1, <3>1
                <4>2. Growing(b2, e, n, y) BY <2>4, <3>1, <4>1 DEF Growing
                <4> QED BY <4>2, SpotIs
            <3>2. CASE n # b2.msg
                <4>1. Still(c, b2, sh, e, n, y) BY <2>4, <3>2 DEF Still
                <4> QED BY <4>1, SpotIs
            <3> QED BY <3>1, <3>2
        <2>7. n \in Nat BY <1>1, <2>4
        <2> HIDE DEF n
        <2> QED BY <2>4, <2>5, <2>6, <2>7
    <1> QED BY <1>3, <1>4, SpotIs

LEMMA SpreadsFrom ==
    ASSUME NEW c, NEW b, NEW b2, NEW sh, Spreads(c, b, b2, sh), NEW e, NEW n, NEW y, Spot(c, b2, sh, e, n, y)
    PROVE  \E m, x \in Nat : Spot(c, b, shown, e, m, x) /\ To(b, m, x, n, y)
    <1> DEFINE cs == Chunks(b.text)
               N == Len(cs)
    <1>1. /\ N \in Nat \ {0} /\ DOMAIN sh \subseteq Nat /\ DOMAIN b.text \subseteq Nat /\ b.msg \in DOMAIN shown /\ DOMAIN shown \subseteq Nat
          /\ \A j \in 1..N : /\ Slot(b, j) \in DOMAIN sh /\ sh[Slot(b, j)].chat = c /\ sh[Slot(b, j)].text = cs[j]
                             /\ \A z : z \in DOMAIN cs[j] <=> z \in 1..MaxLen /\ Place(j, z) \in DOMAIN b.text
                             /\ \A z \in DOMAIN cs[j] : cs[j][z] = b.text[Place(j, z)] /\ z \in Nat
          /\ \A i \in DOMAIN shown \ {b.msg} : i \in DOMAIN sh /\ sh[i] = shown[i] /\ i # b2.msg
          /\ \A i \in DOMAIN sh : i \in DOMAIN shown \ {b.msg} \/ \E j \in 1..N : i = Slot(b, j)
          /\ b2 = NoBuf \/ b2.msg # NoMessage
          /\ b2.msg = NoMessage \/ (b2.msg = Slot(b, N) /\ b2.text = cs[N])
        BY SpreadsIs
    <1>2. \A m, x : To(b, m, x, n, y) <=> \/ m # b.msg /\ n = m /\ y = x
                                          \/ m = b.msg /\ \E j \in 1..N : n = Slot(b, j) /\ y \in 1..MaxLen /\ x = Place(j, y)
        BY DEF To
    <1> HIDE DEF cs, N
    \* A place in a message is one of its text, also in the one that grows.
    <1>3. n \in DOMAIN sh /\ sh[n].chat = c /\ y \in DOMAIN sh[n].text /\ sh[n].text[y] = e
        <2>1. CASE Still(c, b2, sh, e, n, y) BY <2>1 DEF Still
        <2>2. CASE Growing(b2, e, n, y)
            <3>1. n = b2.msg /\ y \in DOMAIN b2.text /\ b2.text[y] = e BY <2>2 DEF Growing
            <3>2. b2 # NoBuf
                <4>1. NoBuf.text = <<>> BY DEF NoBuf
                <4>2. DOMAIN <<>> = {} OBVIOUS
                <4> QED BY <3>1, <4>1, <4>2
            <3>3. b2.msg = Slot(b, N) /\ b2.text = cs[N] BY <1>1, <3>2
            <3>4. N \in 1..N BY <1>1
            <3> QED BY <1>1, <3>1, <3>3, <3>4
        <2> QED BY <2>1, <2>2, SpotIs
    <1>4. CASE n \in DOMAIN shown \ {b.msg}
        <2>1. sh[n] = shown[n] BY <1>1, <1>4
        <2>2. Still(c, b, shown, e, n, y) BY <1>3, <1>4, <2>1 DEF Still
        <2>3. y \in Nat
            <3>1. shown \in Seq(Msgs) BY DEF Spreads, Ready
            <3>2. shown[n] \in Msgs BY <1>4, <3>1, SeqIs
            <3>3. shown[n].text \in Seq(Streams \X Nat) BY <3>2 DEF Msgs, Texts
            <3>4. DOMAIN shown[n].text = 1..Len(shown[n].text) /\ Len(shown[n].text) \in Nat BY <3>3, SeqIs
            <3> QED BY <1>3, <2>1, <3>4
        <2>4. To(b, n, y, n, y) BY <1>2, <1>4
        <2>5. n \in Nat BY <1>1, <1>4
        <2> QED BY <2>2, <2>3, <2>4, <2>5, SpotIs
    <1>5. CASE \E j \in 1..N : n = Slot(b, j)
        <2>1. PICK j \in 1..N : n = Slot(b, j) BY <1>5
        <2>2. y \in DOMAIN cs[j] /\ cs[j][y] = e BY <1>1, <1>3, <2>1
        <2> DEFINE x == Place(j, y)
        <2>3. y \in 1..MaxLen /\ x \in DOMAIN b.text /\ b.text[x] = e BY <1>1, <2>2
        <2>4. Growing(b, e, b.msg, x) BY <2>3 DEF Growing
        <2>5. To(b, b.msg, x, n, y) BY <1>2, <2>1, <2>3
        <2>6. b.msg \in Nat /\ x \in Nat BY <1>1, <2>3
        <2> HIDE DEF x
        <2> QED BY <2>4, <2>5, <2>6, SpotIs
    <1> QED BY <1>1, <1>3, <1>4, <1>5

LEMMA ToOrder ==
    ASSUME NEW c, NEW b, NEW b2, NEW sh, Spreads(c, b, b2, sh),
           NEW m \in Nat, NEW x \in Nat, NEW n \in Nat, NEW y \in Nat, To(b, m, x, n, y),
           NEW k \in Nat, NEW z \in Nat, NEW l \in Nat, NEW w \in Nat, To(b, k, z, l, w)
    PROVE  m <= b.msg /\ k <= b.msg /\ Before(<<k, z>>, <<m, x>>) => Before(<<l, w>>, <<n, y>>)
    <1> DEFINE N == Len(Chunks(b.text))
               g == b.msg
    <1>1. N \in Nat /\ g \in DOMAIN shown /\ shown \in Seq(Msgs) /\ StreamAssumption /\ g \in Nat BY SpreadsIs DEF Spreads, Ready
    <1>2. CASE m # g /\ n = m /\ y = x
        <2>1. CASE k # g /\ l = k /\ w = z BY <1>2, <2>1
        <2>2. CASE k = g
            <3>1. m <= g /\ k <= g /\ Before(<<k, z>>, <<m, x>>) => FALSE BY <1>1, <1>2, <2>2 DEF Before
            <3> QED BY <1>2, <2>2, <3>1
        <2> QED BY <2>1, <2>2 DEF To
    <1>3. CASE m = g /\ \E j \in 1..N : n = Slot(b, j) /\ y \in 1..MaxLen /\ x = Place(j, y)
        <2>1. PICK j \in 1..N : n = Slot(b, j) /\ y \in 1..MaxLen /\ x = Place(j, y) BY <1>3
        <2>2. j \in Nat \ {0} OBVIOUS
        <2>3. g <= n BY <1>1, <2>1, <2>2, SlotOrder
        <2>4. CASE k # g /\ l = k /\ w = z
            <3>1. k <= g => l < n BY <1>1, <2>3, <2>4
            <3> QED BY <1>3, <2>4, <3>1 DEF Before
        <2>5. CASE k = g /\ \E i \in 1..N : l = Slot(b, i) /\ w \in 1..MaxLen /\ z = Place(i, w)
            <3>1. PICK i \in 1..N : l = Slot(b, i) /\ w \in 1..MaxLen /\ z = Place(i, w) BY <2>5
            <3>2. i \in Nat \ {0} OBVIOUS
            <3>3. /\ Place(i, w) < Place(j, y) => i < j \/ (i = j /\ w < y)
                  /\ Place(i, w) = Place(j, y) => i = j /\ w = y
                BY <1>1, <2>1, <2>2, <3>1, <3>2, PlaceOrder
            <3>4. i < j => l < n BY <1>1, <2>1, <2>2, <3>1, <3>2, SlotOrder
            <3>5. Before(<<k, z>>, <<m, x>>) => z < x
                <4>1. k = g /\ m = g BY <1>3, <2>5
                <4>2. ~(g < g) BY <1>1
                <4>3. Before(<<k, z>>, <<m, x>>) = (k < m \/ (k = m /\ z < x)) BY DEF Before
                <4> HIDE DEF g
                <4> QED BY <4>1, <4>2, <4>3
            <3>6. i = j => l = n BY <2>1, <3>1
            <3>7. (l < n \/ (l = n /\ w < y)) => Before(<<l, w>>, <<n, y>>) BY DEF Before
            <3> QED BY <2>1, <3>1, <3>3, <3>4, <3>5, <3>6, <3>7
        <2> QED BY <2>4, <2>5 DEF To
    <1> QED BY <1>2, <1>3 DEF To

LEMMA ToOne ==
    ASSUME NEW c, NEW b, NEW b2, NEW sh, Spreads(c, b, b2, sh), NEW m \in Nat, NEW x \in Nat,
           NEW n \in Nat, NEW y \in Nat, To(b, m, x, n, y), NEW l \in Nat, NEW w \in Nat, To(b, m, x, l, w)
    PROVE  l = n /\ w = y
    <1>1. StreamAssumption BY DEF Spreads, Ready
    <1>2. CASE m # b.msg BY <1>2 DEF To
    <1>3. CASE m = b.msg
        <2> DEFINE N == Len(Chunks(b.text))
        <2>1. PICK j \in 1..N : n = Slot(b, j) /\ y \in 1..MaxLen /\ x = Place(j, y) BY <1>3 DEF To
        <2>2. PICK k \in 1..N : l = Slot(b, k) /\ w \in 1..MaxLen /\ x = Place(k, w) BY <1>3 DEF To
        <2>3. j \in Nat \ {0} /\ k \in Nat \ {0} OBVIOUS
        <2>4. Place(j, y) = Place(k, w) => j = k /\ y = w BY <1>1, <2>1, <2>2, <2>3, PlaceOrder
        <2>5. j = k /\ y = w BY <2>1, <2>2, <2>4
        <2> QED BY <2>1, <2>2, <2>5
    <1> QED BY <1>2, <1>3

----------------------------------------------------------------------------
(* What holds after an attempt, whatever its outcome. *)

Shape(c, b, o) == Stays(c, b, o) \/ PostsOf(c, b, o) \/ Goes(c, b, o) \/ Falls(c, b, o) \/ Ends(c, b, o) \/ Drops(c, b, o)

LEMMA GoesIs ==
    ASSUME NEW c, NEW b, Ready(c, b), NEW o, Goes(c, b, o)
    PROVE  LET cs == Chunks(b.text)
               N == Len(cs)
           IN  /\ Spreads(c, b, o.buf, o.shown) /\ o.buf \in Buffers /\ o.buf.s = b.s /\ o.buf.text = cs[N]
               /\ o.buf.msg = Slot(b, N) /\ o.buf.msg = Len(o.shown) /\ o.shown \in Seq(Msgs)
               /\ cs[N] # <<>> /\ From(cs[N], b.text) /\ o.buf.msg \in DOMAIN o.shown /\ o.buf.msg \notin DOMAIN shown
               /\ o.shown[o.buf.msg].chat = c /\ o.shown[o.buf.msg].text = cs[N] /\ o.buf.msg # NoMessage
    <1> DEFINE cs == Chunks(b.text)
               N == Len(cs)
               sh == o.shown
    <1>1. b.msg # NoMessage /\ N > 1 /\ sh = EditAndSend(b, c, cs, N) /\ o.buf = Moved(b, sh, cs) BY DEF Goes
    <1>2. b.text \in Texts /\ b.text # <<>> /\ StreamAssumption BY <1>1, ReadyIs DEF Ready
    <1>3. N \in Nat \ {0} /\ \A j \in 1..N : cs[j] \in Texts /\ cs[j] # <<>> /\ From(cs[j], b.text)
        BY <1>2, ChunksAre, ChunksFrom
    <1>4. N \in 1..N
        <2> HIDE DEF N
        <2> QED BY <1>3
    <1>5. Spread(b, c, cs, N, sh) BY <1>1, <1>4, SpreadsChunks
    <1> HIDE DEF N, sh
    <1>6. Len(sh) = Len(shown) + N - 1 /\ sh \in Seq(Msgs) BY <1>5 DEF Spread
    <1>7. Slot(b, N) = Len(sh) BY <1>1, <1>3, <1>6 DEF Slot
    <1>8. o.buf = [b EXCEPT !.msg = Len(sh), !.text = cs[N]] BY <1>1 DEF Moved, Last, N
    <1>9. cs[N] \in Texts /\ cs[N] # <<>> /\ From(cs[N], b.text) BY <1>3, <1>4
    <1>10. Len(sh) \in Nat BY <1>6, SeqIs
    <1>11. o.buf \in Buffers /\ o.buf.s = b.s /\ o.buf.text = cs[N] /\ o.buf.msg = Len(sh)
        <2>1. b \in Buffers BY DEF Ready
        <2>2. b = [s |-> b.s, text |-> b.text, msg |-> b.msg] /\ b.s \in Streams \cup {0} BY <2>1 DEF Buffers
        <2> DEFINE t == cs[N]
                   l == Len(sh)
        <2> HIDE DEF t, l, cs
        <2>3. o.buf = [s |-> b.s, text |-> t, msg |-> l] BY <1>8, <2>2 DEF t, l
        <2>4. t \in Texts /\ l \in Nat BY <1>9, <1>10 DEF t, l
        <2>5. o.buf \in Buffers BY <2>2, <2>3, <2>4 DEF Buffers
        <2>6. o.buf.s = b.s /\ o.buf.text = t /\ o.buf.msg = l BY <2>3
        <2> QED BY <2>5, <2>6 DEF t, l
    <1>12. Rest(b, o.buf) BY <1>1, <1>7, <1>11 DEF Rest, N
    <1>13. Spreads(c, b, o.buf, sh) BY <1>1, <1>5, <1>12 DEF Spreads, N
    <1>14. Slot(b, N) \in DOMAIN sh /\ sh[Slot(b, N)] = [chat |-> c, text |-> cs[N]] BY <1>4, <1>5 DEF Spread
    <1>15. sh[Slot(b, N)].chat = c /\ sh[Slot(b, N)].text = cs[N] BY <1>14
    <1>16. Slot(b, N) \notin DOMAIN shown /\ Slot(b, N) # NoMessage
        <2>1. b.msg \in DOMAIN shown /\ shown \in Seq(Msgs) BY <1>1, ReadyIs DEF Ready
        <2> QED BY <1>1, <1>3, <2>1, SlotOrder DEF NoMessage
    <1> QED BY <1>6, <1>7, <1>9, <1>11, <1>13, <1>14, <1>15, <1>16 DEF sh, N

LEMMA EndsIs ==
    ASSUME NEW c, NEW b, Ready(c, b), NEW o, Ends(c, b, o)
    PROVE  /\ Written(c, b, o.shown)
           /\ \/ Spreads(c, b, NoBuf, o.shown)
              \/ /\ DOMAIN o.shown = DOMAIN shown /\ b.msg \in DOMAIN shown /\ o.shown[b.msg].chat = c /\ o.shown[b.msg].text = b.text
                 /\ \A i \in DOMAIN shown \ {b.msg} : o.shown[i] = shown[i]
    <1> DEFINE cs == Chunks(b.text)
               N == Len(cs)
    <1>1. b.msg # NoMessage /\ (o.shown = EditAndSend(b, c, cs, N) \/ o.shown = Edited(b, b.text)) BY DEF Ends
    <1>2. b.text \in Texts /\ b.text # <<>> /\ StreamAssumption /\ b.msg \in DOMAIN shown /\ shown[b.msg].chat = c /\ shown \in Seq(Msgs) /\ c \in Chats2
        BY <1>1, ReadyIs DEF Ready
    <1>3. CASE o.shown = EditAndSend(b, c, cs, N)
        <2>1. N \in Nat \ {0} BY <1>2, ChunksFrom
        <2>2. N \in 1..N
            <3> HIDE DEF N
            <3> QED BY <2>1
        <2>3. Written(c, b, o.shown) /\ Spread(b, c, cs, N, o.shown) BY <1>1, <1>3, <2>2, SpreadsChunks
        <2>4. Rest(b, NoBuf) BY DEF Rest
        <2> QED BY <1>1, <2>3, <2>4 DEF Spreads
    <1>4. CASE o.shown = Edited(b, b.text)
        <2>1. From(b.text, b.text) BY DEF From
        <2>2. Written(c, b, o.shown) BY <1>2, <1>4, <2>1, WroteEdit
        <2>3. DOMAIN o.shown = DOMAIN shown /\ o.shown[b.msg] = [chat |-> shown[b.msg].chat, text |-> b.text]
              /\ \A i \in DOMAIN shown \ {b.msg} : o.shown[i] = shown[i]
            BY <1>2, <1>4, EditedIs
        <2>4. o.shown[b.msg].chat = c /\ o.shown[b.msg].text = b.text BY <1>2, <2>3
        <2> QED BY <1>2, <2>2, <2>3, <2>4
    <1> QED BY <1>1, <1>3, <1>4

LEMMA EmptyFits == ASSUME NEW c, NEW sh PROVE NoBuf \in Buffers /\ Fits(c, NoBuf, sh) /\ \A t : From(NoBuf.text, t)
    <1>1. NoBuf.s = 0 /\ NoBuf.text = <<>> /\ NoBuf.msg = NoMessage BY DEF NoBuf
    <1>2. <<>> \in Texts /\ NoMessage \in Nat BY DEF Texts, NoMessage
    <1>3. NoBuf \in Buffers BY <1>2 DEF Buffers, NoBuf
    <1>4. DOMAIN <<>> = {} OBVIOUS
    <1> QED BY <1>1, <1>3, <1>4 DEF Fits, From

LEMMA OutcomeFits ==
    ASSUME NEW c, NEW b, Ready(c, b), Ready(c, streamBuf[c]), b.msg \in {NoMessage, streamBuf[c].msg}, NEW o, Shape(c, b, o),
           PostsOf(c, b, o) => b.text # <<>>
    PROVE  /\ Written(c, b, o.shown) /\ o.buf \in Buffers /\ Fits(c, o.buf, o.shown)
           /\ o.buf.msg \in {NoMessage, streamBuf[c].msg} \/ o.buf.msg \notin DOMAIN shown
           /\ From(o.buf.text, b.text) \/ o.buf = streamBuf[c]
    <1>1. From(b.text, b.text) BY DEF From
    <1>2. \A t : From(t, b.text) => \A x \in DOMAIN t : Chat(t[x][1]) = c
        <2>1. \A x \in DOMAIN b.text : Chat(b.text[x][1]) = c BY DEF Ready, Fits
        <2> QED BY <2>1 DEF From
    <1>3. b \in Buffers /\ streamBuf[c] \in Buffers /\ Fits(c, b, shown) /\ Fits(c, streamBuf[c], shown) BY DEF Ready
    <1>4. CASE Stays(c, b, o)
        <2>1. o.buf = b /\ Written(c, b, o.shown) /\ (b.msg # NoMessage => Starts(o.shown[b.msg].text, b.text)) BY <1>4 DEF Stays
        <2>2. ASSUME b.msg # NoMessage
              PROVE  /\ b.msg \in DOMAIN o.shown /\ o.shown[b.msg].chat = c /\ b.text # <<>>
                     /\ \A x \in DOMAIN o.shown[b.msg].text : x \in DOMAIN b.text /\ b.text[x] = o.shown[b.msg].text[x]
            <3>1. b.msg \in DOMAIN shown /\ b.text # <<>> BY <2>2, ReadyIs
            <3>2. b.msg \in DOMAIN o.shown BY <2>1, <3>1 DEF Written
            <3>3. o.shown[b.msg].chat = c BY <2>1, <3>2 DEF Written
            <3> QED BY <2>1, <2>2, <3>1, <3>2, <3>3 DEF Starts
        <2>3. Fits(c, b, o.shown) BY <1>1, <1>2, <2>2 DEF Fits
        <2> QED BY <1>1, <1>3, <2>1, <2>3
    <1>5. CASE PostsOf(c, b, o)
        <2>1. o.buf.msg = Len(shown) + 1 /\ o.buf.msg \notin DOMAIN shown /\ o.buf.text = b.text /\ o.buf \in Buffers
              /\ DOMAIN o.shown = 1..Len(shown) + 1 /\ o.shown[Len(shown) + 1] = [chat |-> c, text |-> b.text]
            BY <1>5, PostsPlaces
        <2>2. o.buf.msg \in DOMAIN o.shown
            <3>1. Len(shown) \in Nat BY SeqIs DEF Ready
            <3> QED BY <2>1, <3>1
        <2>3. o.shown[o.buf.msg].chat = c /\ o.shown[o.buf.msg].text = b.text BY <2>1
        <2>4. Written(c, b, o.shown) BY <1>5, WrotePost, ReadyIs DEF PostsOf, Ready
        <2>5. Fits(c, o.buf, o.shown) BY <1>1, <1>2, <1>5, <2>1, <2>2, <2>3 DEF Fits
        <2> QED BY <1>1, <2>1, <2>4, <2>5
    <1>6. CASE Goes(c, b, o)
        <2> DEFINE t == Chunks(b.text)[Len(Chunks(b.text))]
        <2>1. /\ Spreads(c, b, o.buf, o.shown) /\ o.buf \in Buffers /\ o.buf.text = t
              /\ t # <<>> /\ From(t, b.text) /\ o.buf.msg \in DOMAIN o.shown /\ o.buf.msg \notin DOMAIN shown
              /\ o.shown[o.buf.msg].chat = c /\ o.shown[o.buf.msg].text = t
            BY <1>6, GoesIs
        <2> HIDE DEF t
        <2>2. Fits(c, o.buf, o.shown) BY <1>2, <2>1 DEF Fits
        <2>3. Written(c, b, o.shown)
            <3>1. Len(Chunks(b.text)) \in 1..Len(Chunks(b.text)) /\ b.msg # NoMessage
                <4>1. b.msg # NoMessage BY <1>6 DEF Goes
                <4>2. Len(Chunks(b.text)) \in Nat \ {0} BY <4>1, ReadyIs, ChunksFrom DEF Ready
                <4> DEFINE N == Len(Chunks(b.text))
                <4> HIDE DEF N
                <4>3. N \in Nat \ {0} => N \in 1..N OBVIOUS
                <4> QED BY <4>1, <4>2, <4>3 DEF N
            <3> QED BY <1>6, <3>1, SpreadsChunks DEF Goes
        <2> QED BY <2>1, <2>2, <2>3
    <1>7. CASE Falls(c, b, o)
        <2>1. o.shown = shown /\ o.buf \in {streamBuf[c], b} BY <1>7 DEF Falls
        <2>2. Written(c, b, shown) BY ReadyIs, WroteNothing DEF Ready
        <2> QED BY <1>1, <1>3, <2>1, <2>2
    <1>8. CASE Ends(c, b, o)
        <2>1. o.buf = NoBuf /\ Written(c, b, o.shown) BY <1>8, EndsIs DEF Ends
        <2> QED BY <2>1, EmptyFits DEF NoBuf
    <1>9. CASE Drops(c, b, o)
        <2>1. o.buf = NoBuf /\ Written(c, b, o.shown) BY <1>9 DEF Drops
        <2> QED BY <2>1, EmptyFits DEF NoBuf
    <1> QED BY <1>4, <1>5, <1>6, <1>7, <1>8, <1>9 DEF Shape

\* What was shown up to the message that grows still is, in the same order.
LEMMA CoverKeeps ==
    ASSUME NEW c, NEW b, Ready(c, b), NEW o, Stays(c, b, o) \/ PostsOf(c, b, o) \/ Goes(c, b, o),
           NEW s, NEW i, Covered(c, b, shown, s, i)
    PROVE  Covered(c, o.buf, o.shown, s, i)
    <1>1. PICK m, x \in Nat :
              /\ Kept(c, b, shown, <<s, i>>, m, x)
              /\ i > 1 => \E n, y \in Nat : Kept(c, b, shown, <<s, i - 1>>, n, y) /\ Before(<<n, y>>, <<m, x>>)
        BY DEF Covered
    <1>2. CASE Stays(c, b, o)
        <2>1. \A e, n, y : Kept(c, b, shown, e, n, y) => Kept(c, o.buf, o.shown, e, n, y) BY <1>2, StaysPlaces
        <2> QED BY <1>1, <2>1 DEF Covered
    <1>3. CASE PostsOf(c, b, o)
        <2> DEFINE k == o.buf.msg
        <2>1. \A e, n, y : Kept(c, b, shown, e, n, y) => n = NoMessage /\ Kept(c, o.buf, o.shown, e, k, y) BY <1>3, PostsPlaces
        <2>2. k \in Nat BY <1>3, PostsPlaces DEF Buffers
        <2> HIDE DEF k
        <2>3. m = NoMessage /\ Kept(c, o.buf, o.shown, <<s, i>>, k, x) BY <1>1, <2>1
        <2>4. ASSUME i > 1 PROVE \E n, y \in Nat : Kept(c, o.buf, o.shown, <<s, i - 1>>, n, y) /\ Before(<<n, y>>, <<k, x>>)
            <3>1. PICK n, y \in Nat : Kept(c, b, shown, <<s, i - 1>>, n, y) /\ Before(<<n, y>>, <<m, x>>) BY <1>1, <2>4
            <3>2. n = NoMessage /\ Kept(c, o.buf, o.shown, <<s, i - 1>>, k, y) BY <2>1, <3>1
            <3>3. Before(<<k, y>>, <<k, x>>) BY <2>2, <2>3, <3>1, <3>2 DEF Before, NoMessage
            <3> QED BY <2>2, <3>2, <3>3
        <2> QED BY <2>2, <2>3, <2>4 DEF Covered
    <1>4. CASE Goes(c, b, o)
        <2> DEFINE sh == o.shown
        <2>1. Spreads(c, b, o.buf, sh) /\ o.buf.msg = Len(sh) /\ sh \in Seq(Msgs) BY <1>4, GoesIs
        <2>2. \A n \in DOMAIN sh : n <= o.buf.msg
            <3>1. DOMAIN sh = 1..Len(sh) /\ Len(sh) \in Nat BY <2>1, SeqIs
            <3> QED BY <2>1, <3>1
        <2>3. \A e, n, y : Kept(c, b, shown, e, n, y) =>
                  n <= b.msg /\ \E l, w \in Nat : To(b, n, y, l, w) /\ Kept(c, o.buf, sh, e, l, w)
            <3> TAKE e, n, y
            <3> HAVE Kept(c, b, shown, e, n, y)
            <3>1. Spot(c, b, shown, e, n, y) /\ n <= b.msg BY SpotIs
            <3>2. PICK l, w \in Nat : To(b, n, y, l, w) /\ Spot(c, o.buf, sh, e, l, w) /\ l \in DOMAIN sh BY <2>1, <3>1, SpreadsOn
            <3>3. Kept(c, o.buf, sh, e, l, w) BY <2>2, <3>2, SpotIs
            <3> QED BY <3>1, <3>2, <3>3
        <2> HIDE DEF sh
        <2>4. PICK l, w \in Nat : To(b, m, x, l, w) /\ Kept(c, o.buf, sh, <<s, i>>, l, w) BY <1>1, <2>3
        <2>5. ASSUME i > 1 PROVE \E n, y \in Nat : Kept(c, o.buf, sh, <<s, i - 1>>, n, y) /\ Before(<<n, y>>, <<l, w>>)
            <3>1. PICK n, y \in Nat : Kept(c, b, shown, <<s, i - 1>>, n, y) /\ Before(<<n, y>>, <<m, x>>) BY <1>1, <2>5
            <3>2. PICK n2, y2 \in Nat : To(b, n, y, n2, y2) /\ Kept(c, o.buf, sh, <<s, i - 1>>, n2, y2) BY <2>3, <3>1
            <3>3. n <= b.msg /\ m <= b.msg BY <1>1, <2>3, <3>1
            <3>4. To(b, m, x, l, w) /\ To(b, n, y, n2, y2) /\ Before(<<n, y>>, <<m, x>>) BY <2>4, <3>1, <3>2
            <3>5. ASSUME NEW b2, Spreads(c, b, b2, sh) PROVE Before(<<n2, y2>>, <<l, w>>) BY Zenon, <3>3, <3>4, <3>5, ToOrder
            <3> QED BY <2>1, <3>2, <3>5
        <2> QED BY <2>4, <2>5 DEF Covered, sh
    <1> QED BY <1>2, <1>3, <1>4

\* At the end it is in messages that do not grow.
LEMMA CoverEnds ==
    ASSUME NEW c, NEW b, Ready(c, b), NEW o, Ends(c, b, o), NEW s, NEW i, Covered(c, b, shown, s, i)
    PROVE  Fixed(c, o.buf, o.shown, s, i)
    <1> DEFINE sh == o.shown
    <1>1. PICK m, x \in Nat :
              /\ Kept(c, b, shown, <<s, i>>, m, x)
              /\ i > 1 => \E n, y \in Nat : Kept(c, b, shown, <<s, i - 1>>, n, y) /\ Before(<<n, y>>, <<m, x>>)
        BY DEF Covered
    <1>2. o.buf = NoBuf /\ NoBuf.msg = NoMessage /\ NoBuf.text = <<>> BY DEF Ends, NoBuf
    <1>3. NoMessage \notin DOMAIN sh
        <2>1. sh \in Seq(Msgs) BY EndsIs DEF Written
        <2>2. DOMAIN sh = 1..Len(sh) /\ Len(sh) \in Nat BY <2>1, SeqIs
        <2> QED BY <2>2 DEF NoMessage
    <1>4. CASE Spreads(c, b, NoBuf, sh)
        <2>1. \A e, n, y : Kept(c, b, shown, e, n, y) =>
                  n <= b.msg /\ \E l, w \in Nat : To(b, n, y, l, w) /\ Still(c, NoBuf, sh, e, l, w)
            <3> TAKE e, n, y
            <3> HAVE Kept(c, b, shown, e, n, y)
            <3>1. Spot(c, b, shown, e, n, y) /\ n <= b.msg BY SpotIs
            <3>2. PICK l, w \in Nat : To(b, n, y, l, w) /\ Spot(c, NoBuf, sh, e, l, w) /\ l \in DOMAIN sh BY <1>4, <3>1, SpreadsOn
            <3>3. ~Growing(NoBuf, e, l, w) BY <1>2, <1>3, <3>2 DEF Growing
            <3>4. Still(c, NoBuf, sh, e, l, w) BY <3>2, <3>3, SpotIs
            <3> QED BY <3>1, <3>2, <3>4
        <2> HIDE DEF sh
        <2>2. PICK l, w \in Nat : To(b, m, x, l, w) /\ Still(c, NoBuf, sh, <<s, i>>, l, w) BY <1>1, <2>1
        <2>3. ASSUME i > 1 PROVE \E n, y \in Nat : Still(c, NoBuf, sh, <<s, i - 1>>, n, y) /\ Before(<<n, y>>, <<l, w>>)
            <3>1. PICK n, y \in Nat : Kept(c, b, shown, <<s, i - 1>>, n, y) /\ Before(<<n, y>>, <<m, x>>) BY <1>1, <2>3
            <3>2. PICK n2, y2 \in Nat : To(b, n, y, n2, y2) /\ Still(c, NoBuf, sh, <<s, i - 1>>, n2, y2) BY <2>1, <3>1
            <3>3. n <= b.msg /\ m <= b.msg BY <1>1, <2>1, <3>1
            <3>4. To(b, m, x, l, w) /\ To(b, n, y, n2, y2) /\ Before(<<n, y>>, <<m, x>>) BY <2>2, <3>1, <3>2
            <3>5. Before(<<n2, y2>>, <<l, w>>) BY Zenon, <1>4, <3>3, <3>4, ToOrder
            <3> QED BY <3>2, <3>5
        <2> QED BY <1>2, <2>2, <2>3 DEF Fixed, sh
    <1>5. CASE /\ DOMAIN sh = DOMAIN shown /\ b.msg \in DOMAIN shown /\ sh[b.msg].chat = c /\ sh[b.msg].text = b.text
               /\ \A n \in DOMAIN shown \ {b.msg} : sh[n] = shown[n]
        <2>1. \A e, n, y : Kept(c, b, shown, e, n, y) => Still(c, NoBuf, sh, e, n, y)
            <3> TAKE e, n, y
            <3> HAVE Kept(c, b, shown, e, n, y)
            <3>1. CASE Still(c, b, shown, e, n, y)
                <4>1. n \in DOMAIN shown \ {b.msg} /\ shown[n].chat = c /\ y \in DOMAIN shown[n].text /\ shown[n].text[y] = e BY <3>1 DEF Still
                <4>2. n \in DOMAIN sh /\ sh[n] = shown[n] /\ n # NoMessage BY <1>3, <1>5, <4>1
                <4> QED BY <1>2, <4>1, <4>2 DEF Still
            <3>2. CASE Growing(b, e, n, y)
                <4>1. n = b.msg /\ y \in DOMAIN b.text /\ b.text[y] = e BY <3>2 DEF Growing
                <4>2. n \in DOMAIN sh /\ n # NoMessage BY <1>3, <1>5, <4>1
                <4> QED BY <1>2, <1>5, <4>1, <4>2 DEF Still
            <3> QED BY <3>1, <3>2, SpotIs
        <2> HIDE DEF sh
        <2>2. Still(c, NoBuf, sh, <<s, i>>, m, x) BY <1>1, <2>1
        <2>3. i > 1 => \E n, y \in Nat : Still(c, NoBuf, sh, <<s, i - 1>>, n, y) /\ Before(<<n, y>>, <<m, x>>) BY <1>1, <2>1
        <2> QED BY <1>2, <2>2, <2>3 DEF Fixed, sh
    <1> QED BY <1>4, <1>5, EndsIs

\* What had one place has one, and nothing else is shown.
LEMMA OnceKeeps ==
    ASSUME NEW c, NEW b, Ready(c, b), NEW o, o.how = "done", Stays(c, b, o) \/ PostsOf(c, b, o) \/ Goes(c, b, o) \/ Ends(c, b, o),
           NEW s, NEW i, Once(c, b, shown, s, i)
    PROVE  /\ Once(c, o.buf, o.shown, s, i)
           /\ \A m, x \in Nat : Spot(c, o.buf, o.shown, <<s, i>>, m, x) => \E n, y \in Nat : Spot(c, b, shown, <<s, i>>, n, y)
    <1> DEFINE e == <<s, i>>
               sh == o.shown
    <1>1. \A m, x, n, y \in Nat : Spot(c, b, shown, e, m, x) /\ Spot(c, b, shown, e, n, y) => n = m /\ y = x BY DEF Once
    <1> HIDE DEF e
    <1>2. (\A m, x \in Nat : Spot(c, o.buf, sh, e, m, x) => Spot(c, b, shown, e, m, x))
          => Once(c, o.buf, sh, s, i) /\ \A m, x \in Nat : Spot(c, o.buf, sh, e, m, x) => \E n, y \in Nat : Spot(c, b, shown, e, n, y)
        BY <1>1 DEF Once, e
    <1>3. CASE Stays(c, b, o)
        <2>1. \A m, x \in Nat : Spot(c, o.buf, sh, e, m, x) => Spot(c, b, shown, e, m, x) BY <1>3, StaysPlaces
        <2> QED BY <1>2, <2>1 DEF e
    <1>4. CASE PostsOf(c, b, o)
        <2> DEFINE k == o.buf.msg
        <2>1. \A m, x : Spot(c, o.buf, sh, e, m, x) =>
                  \/ m \in DOMAIN shown /\ Still(c, b, shown, e, m, x)
                  \/ m = k /\ Growing(b, e, NoMessage, x)
            BY <1>4, PostsPlaces
        <2>2. NoMessage \notin DOMAIN shown /\ NoMessage \in Nat BY ReadyIs DEF NoMessage
        <2> HIDE DEF k, sh
        <2>3. \A m, x \in Nat : Spot(c, o.buf, sh, e, m, x) =>
                  \/ m \in DOMAIN shown /\ Spot(c, b, shown, e, m, x)
                  \/ m = k /\ Spot(c, b, shown, e, NoMessage, x)
            BY <2>1, SpotIs
        <2>4. \A m, x, n, y \in Nat : Spot(c, o.buf, sh, e, m, x) /\ Spot(c, o.buf, sh, e, n, y) => n = m /\ y = x
            <3> SUFFICES ASSUME NEW m \in Nat, NEW x \in Nat, NEW n \in Nat, NEW y \in Nat,
                                Spot(c, o.buf, sh, e, m, x), Spot(c, o.buf, sh, e, n, y)
                         PROVE  n = m /\ y = x
                OBVIOUS
            <3>1. \/ m \in DOMAIN shown /\ Spot(c, b, shown, e, m, x)
                  \/ m = k /\ Spot(c, b, shown, e, NoMessage, x)
                BY <2>3
            <3>2. \/ n \in DOMAIN shown /\ Spot(c, b, shown, e, n, y)
                  \/ n = k /\ Spot(c, b, shown, e, NoMessage, y)
                BY <2>3
            <3> QED BY <1>1, <2>2, <3>1, <3>2
        <2>5. \A m, x \in Nat : Spot(c, o.buf, sh, e, m, x) => \E n, y \in Nat : Spot(c, b, shown, e, n, y) BY <2>2, <2>3
        <2> QED BY <2>4, <2>5 DEF Once, e, sh
    <1>5. CASE \E b2 : b2 = o.buf /\ Spreads(c, b, b2, sh)
        <2>1. Spreads(c, b, o.buf, sh) BY <1>5
        <2>2. \A m, x \in Nat : Spot(c, o.buf, sh, e, m, x) => \E n, y \in Nat : Spot(c, b, shown, e, n, y) /\ To(b, n, y, m, x)
            BY <2>1, SpreadsFrom
        <2>3. \A m, x, n, y \in Nat : Spot(c, o.buf, sh, e, m, x) /\ Spot(c, o.buf, sh, e, n, y) => n = m /\ y = x
            <3> SUFFICES ASSUME NEW m \in Nat, NEW x \in Nat, NEW n \in Nat, NEW y \in Nat,
                                Spot(c, o.buf, sh, e, m, x), Spot(c, o.buf, sh, e, n, y)
                         PROVE  n = m /\ y = x
                OBVIOUS
            <3>1. PICK m1, x1 \in Nat : Spot(c, b, shown, e, m1, x1) /\ To(b, m1, x1, m, x) BY <2>2
            <3>2. PICK n1, y1 \in Nat : Spot(c, b, shown, e, n1, y1) /\ To(b, n1, y1, n, y) BY <2>2
            <3>3. n1 = m1 /\ y1 = x1 BY <1>1, <3>1, <3>2
            <3>4. To(b, m1, x1, m, x) /\ To(b, m1, x1, n, y) BY <3>1, <3>2, <3>3
            <3> QED BY Zenon, <2>1, <3>4, ToOne
        <2> QED BY <2>2, <2>3 DEF Once, e
    <1>6. CASE Ends(c, b, o)
        <2>1. o.buf = NoBuf BY <1>6 DEF Ends
        <2>2. CASE Spreads(c, b, NoBuf, sh) BY <1>5, <2>1, <2>2
        <2>3. CASE /\ DOMAIN sh = DOMAIN shown /\ b.msg \in DOMAIN shown /\ sh[b.msg].chat = c /\ sh[b.msg].text = b.text
                   /\ \A n \in DOMAIN shown \ {b.msg} : sh[n] = shown[n]
            <3>1. ASSUME NEW m \in Nat, NEW x \in Nat, Spot(c, o.buf, sh, e, m, x) PROVE Spot(c, b, shown, e, m, x)
                <4>1. ~Growing(NoBuf, e, m, x)
                    <5>1. NoBuf.text = <<>> BY DEF NoBuf
                    <5>2. DOMAIN <<>> = {} OBVIOUS
                    <5> QED BY <5>1, <5>2 DEF Growing
                <4>2. Still(c, NoBuf, sh, e, m, x) BY <2>1, <3>1, <4>1, SpotIs
                <4>3. m \in DOMAIN shown /\ sh[m].chat = c /\ x \in DOMAIN sh[m].text /\ sh[m].text[x] = e BY <2>3, <4>2 DEF Still
                <4>4. CASE m = b.msg
                    <5>1. Growing(b, e, m, x) BY <2>3, <4>3, <4>4 DEF Growing
                    <5> QED BY <5>1, SpotIs
                <4>5. CASE m # b.msg
                    <5>1. sh[m] = shown[m] BY <2>3, <4>3, <4>5
                    <5>2. Still(c, b, shown, e, m, x) BY <4>3, <4>5, <5>1 DEF Still
                    <5> QED BY <5>2, SpotIs
                <4> QED BY <4>4, <4>5
            <3> QED BY <1>2, <3>1 DEF e
        <2> QED BY <1>6, <2>2, <2>3, EndsIs
    <1>7. CASE Goes(c, b, o)
        <2>1. Spreads(c, b, o.buf, sh) BY <1>7, GoesIs
        <2> QED BY <1>5, <2>1
    <1> QED BY <1>3, <1>4, <1>6, <1>7

----------------------------------------------------------------------------
(* What an attempt begins with. *)

\* The buffer that a piece goes to, or that an end finds.
Start == IF sending.kind = "delta" THEN Selected(sending) ELSE streamBuf[sending.chat]

LEMMA SendingIs ==
    ASSUME SendTyped, sending # Nothing
    PROVE  /\ sending.kind \in {"delta", "end"} /\ sending.s \in Streams /\ sending.chat \in Chats2 /\ sending.chat = Chat(sending.s)
           /\ sending.text \in Texts /\ sending.text \in Seq(Streams \X Nat) /\ sending.try \in Nat
           /\ (sending.kind = "end" => sending.text = <<>>) /\ (sending.kind = "delta" => sending.text # <<>>)
           /\ sending.kind = "end" => sending.kind # "delta"
    BY DEF SendTyped, Texts

\* A buffer joins what it held and what is sent after it.
Extends(c, old, b, t, L) ==
    /\ \A e, m, x : Spot(c, b, shown, e, m, x) =>
           Spot(c, old, shown, e, m, x) \/ (m = b.msg /\ \E z \in DOMAIN t : x = L + z /\ t[z] = e)
    /\ \A z \in DOMAIN t : Growing(b, t[z], b.msg, L + z)
    /\ old.s = b.s => \A e, m, x : Kept(c, old, shown, e, m, x) => Kept(c, b, shown, e, m, x) /\ (m = b.msg => x \in 1..L)

LEMMA JoinedTexts ==
    ASSUME NEW p \in Seq(Streams \X Nat), NEW q \in Seq(Streams \X Nat)
    PROVE  /\ DOMAIN (p \o q) = 1..Len(p) + Len(q)
           /\ (\A j \in 1..Len(p) : (p \o q)[j] = p[j]) /\ \A j \in 1..Len(q) : (p \o q)[Len(p) + j] = q[j]
    <1> DEFINE M == Streams \X Nat
    <1>1. p \in Seq(M) /\ q \in Seq(M) OBVIOUS
    <1> HIDE DEF M
    <1> QED BY <1>1, Joined

LEMMA JoinedSpots ==
    ASSUME NEW c, NEW old, NEW b, old.text \in Seq(Streams \X Nat), NEW t \in Seq(Streams \X Nat), b.msg = old.msg, b.text = old.text \o t
    PROVE  \E L \in Nat : Extends(c, old, b, t, L)
    <1> DEFINE u == old.text
               L == Len(u)
    <1>1. /\ DOMAIN (u \o t) = 1..L + Len(t) /\ L \in Nat /\ Len(t) \in Nat /\ DOMAIN u = 1..L /\ DOMAIN t = 1..Len(t)
          /\ (\A j \in 1..L : (u \o t)[j] = u[j]) /\ \A j \in 1..Len(t) : (u \o t)[L + j] = t[j]
        <2>1. u \in Seq(Streams \X Nat) OBVIOUS
        <2> HIDE DEF u
        <2>2. Len(u) \in Nat /\ DOMAIN u = 1..Len(u) /\ Len(t) \in Nat /\ DOMAIN t = 1..Len(t) BY <2>1, SeqIs
        <2>3. /\ DOMAIN (u \o t) = 1..Len(u) + Len(t)
              /\ (\A j \in 1..Len(u) : (u \o t)[j] = u[j]) /\ \A j \in 1..Len(t) : (u \o t)[Len(u) + j] = t[j]
            BY <2>1, JoinedTexts
        <2> QED BY <2>2, <2>3
    <1> DEFINE w == u \o t
    <1>2. b.text = w OBVIOUS
    <1> HIDE DEF u, L, w
    <1>3. /\ DOMAIN w = 1..L + Len(t) /\ L \in Nat /\ Len(t) \in Nat /\ DOMAIN u = 1..L /\ DOMAIN t = 1..Len(t)
          /\ (\A j \in 1..L : w[j] = u[j]) /\ \A j \in 1..Len(t) : w[L + j] = t[j]
        BY <1>1 DEF w
    <1>4. ASSUME NEW x \in DOMAIN w PROVE (x \in DOMAIN u /\ w[x] = u[x]) \/ \E z \in DOMAIN t : x = L + z /\ w[x] = t[z]
        <2>1. CASE x \in 1..L BY <1>3, <2>1
        <2>2. CASE x \notin 1..L
            <3>1. x - L \in DOMAIN t /\ x = L + (x - L) BY <1>3, <2>2
            <3>2. w[L + (x - L)] = t[x - L] BY <1>3, <3>1
            <3> QED BY <3>1, <3>2
        <2> QED BY <2>1, <2>2
    <1>5. ASSUME NEW e, NEW m, NEW x, Spot(c, b, shown, e, m, x)
          PROVE  Spot(c, old, shown, e, m, x) \/ (m = b.msg /\ \E z \in DOMAIN t : x = L + z /\ t[z] = e)
        <2>1. CASE Still(c, b, shown, e, m, x)
            <3>1. Still(c, old, shown, e, m, x) BY <2>1 DEF Still
            <3> QED BY <3>1, SpotIs
        <2>2. CASE Growing(b, e, m, x)
            <3>1. m = b.msg /\ x \in DOMAIN w /\ w[x] = e BY <1>2, <2>2 DEF Growing
            <3>2. CASE x \in DOMAIN u /\ w[x] = u[x]
                <4>1. Growing(old, e, m, x) BY <3>1, <3>2 DEF Growing, u
                <4> QED BY <4>1, SpotIs
            <3> QED BY <1>4, <3>1, <3>2
        <2> QED BY <1>5, <2>1, <2>2, SpotIs
    <1>6. \A z \in DOMAIN t : Growing(b, t[z], b.msg, L + z)
        <2> TAKE z \in DOMAIN t
        <2>1. L + z \in DOMAIN w /\ w[L + z] = t[z] BY <1>3
        <2> QED BY <1>2, <2>1 DEF Growing
    <1>7. ASSUME NEW e, NEW m, NEW x, Kept(c, old, shown, e, m, x)
          PROVE  Kept(c, b, shown, e, m, x) /\ (m = b.msg => x \in 1..L)
        <2>1. Spot(c, old, shown, e, m, x) /\ m <= b.msg BY <1>7, SpotIs
        <2>2. CASE Still(c, old, shown, e, m, x)
            <3>1. Still(c, b, shown, e, m, x) /\ m # b.msg BY <2>2 DEF Still
            <3> QED BY <2>1, <3>1, SpotIs
        <2>3. CASE Growing(old, e, m, x)
            <3>1. m = b.msg /\ x \in DOMAIN u /\ u[x] = e BY <2>3 DEF Growing, u
            <3>2. x \in DOMAIN w /\ w[x] = e BY <1>3, <3>1
            <3>3. Growing(b, e, m, x) BY <1>2, <3>1, <3>2 DEF Growing
            <3> QED BY <1>3, <2>1, <3>1, <3>3, SpotIs
        <2> QED BY <2>1, <2>2, <2>3, SpotIs
    <1>8. L \in Nat /\ Extends(c, old, b, t, L) BY <1>3, <1>5, <1>6, <1>7 DEF Extends
    <1> QED BY <1>8

LEMMA StartIs ==
    ASSUME StreamAssumption, DeliveryTyped, SendTyped, SendInv, BufInv, sending # Nothing
    PROVE  LET c == sending.chat
               old == streamBuf[c]
           IN  /\ Ready(c, Start) /\ Ready(c, old) /\ Start.msg \in {NoMessage, old.msg}
               /\ sending.kind = "delta" => Start = Selected(sending) /\ Start.s = sending.s /\ Start.text # <<>>
               /\ sending.kind = "end" => Start = old
               /\ \/ Start.msg = old.msg /\ Start.text = old.text \o sending.text
                  \/ Start.msg = NoMessage /\ Start.text = sending.text /\ old.s # Start.s
    <1> DEFINE c == sending.chat
               old == streamBuf[c]
    <1>1. c \in Chats2 /\ old \in Buffers
        <2>1. c \in Chats2 BY SendingIs
        <2> QED BY <2>1 DEF DeliveryTyped, Buffers
    <1>2. shown \in Seq(Msgs) BY DEF DeliveryTyped, Msgs
    <1>3. Ready(c, old) BY <1>1, <1>2 DEF Ready, BufInv
    <1>4. CASE sending.kind = "delta"
        <2>1. Start = Selected(sending) BY <1>4 DEF Start
        <2>2. /\ Start \in Buffers /\ Start.s = sending.s /\ Start.text # <<>> /\ Fits(c, Start, shown)
              /\ \/ Start.msg = NoMessage /\ Start.text = sending.text /\ kind # "matrix" /\ old.s \notin {0, sending.s}
                 \/ Start.msg = old.msg /\ Start.text = old.text \o sending.text
            BY <1>4, <2>1, BaseIs
        <2>3. Ready(c, Start) BY <1>1, <1>2, <2>2 DEF Ready
        <2> QED BY <1>3, <1>4, <2>1, <2>2, <2>3
    <1>5. CASE sending.kind = "end"
        <2>1. Start = old /\ sending.text = <<>> BY <1>5, SendingIs DEF Start
        <2>2. old.text \in Seq(Streams \X Nat) BY <1>1 DEF Buffers, Texts
        <2>3. old.text \o <<>> = old.text BY <2>2
        <2> QED BY <1>3, <1>5, <2>1, <2>3
    <1> QED BY <1>4, <1>5, SendingIs

\* Its places are those of the buffer before it, and those of what is sent.
LEMMA StartSpots ==
    ASSUME StreamAssumption, DeliveryTyped, SendTyped, SendInv, BufInv, sending # Nothing
    PROVE  LET c == sending.chat
               old == streamBuf[c]
               t == sending.text
           IN  /\ old.s = sending.s => old.s = Start.s /\ old.msg = Start.msg
               /\ \E L \in Nat : Extends(c, old, Start, t, L)
    <1> DEFINE c == sending.chat
               old == streamBuf[c]
               t == sending.text
    <1>1. /\ Ready(c, Start) /\ Ready(c, old)
          /\ \/ Start.msg = old.msg /\ Start.text = old.text \o t
             \/ Start.msg = NoMessage /\ Start.text = t /\ old.s # Start.s
        BY StartIs
    <1>6. old.s = sending.s => old.s = Start.s /\ old.msg = Start.msg BY StartIs, SendingIs
    <1>2. old.text \in Seq(Streams \X Nat) /\ t \in Seq(Streams \X Nat) BY <1>1, ReadyIs, SendingIs DEF Texts
    <1> HIDE DEF c, old, t
    <1>3. CASE Start.msg = old.msg /\ Start.text = old.text \o t
        <2>1. \E L \in Nat : Extends(c, old, Start, t, L) BY <1>2, <1>3, JoinedSpots
        <2> QED BY <1>3, <1>6, <2>1 DEF c, old, t
    <1>4. CASE Start.msg = NoMessage /\ Start.text = t /\ old.s # Start.s
        <2>1. \A e, m, x : Spot(c, Start, shown, e, m, x) =>
                  Spot(c, old, shown, e, m, x) \/ (m = Start.msg /\ \E z \in DOMAIN t : x = 0 + z /\ t[z] = e)
            <3> TAKE e, m, x
            <3> HAVE Spot(c, Start, shown, e, m, x)
            <3>1. CASE Still(c, Start, shown, e, m, x)
                <4>1. m \in DOMAIN shown /\ shown[m].chat = c /\ x \in DOMAIN shown[m].text /\ shown[m].text[x] = e BY <3>1 DEF Still
                <4>2. CASE m = old.msg
                    <5>1. old.msg # NoMessage BY <1>1, <4>1, <4>2, ReadyIs
                    <5>2. x \in DOMAIN old.text /\ old.text[x] = e BY <1>1, <4>1, <4>2, <5>1, ReadyIs DEF Starts
                    <5>3. Growing(old, e, m, x) BY <4>2, <5>2 DEF Growing
                    <5> QED BY <5>3, SpotIs
                <4>3. CASE m # old.msg
                    <5>1. Still(c, old, shown, e, m, x) BY <4>1, <4>3 DEF Still
                    <5> QED BY <5>1, SpotIs
                <4> QED BY <4>2, <4>3
            <3>2. CASE Growing(Start, e, m, x)
                <4>1. m = Start.msg /\ x \in DOMAIN t /\ t[x] = e BY <1>4, <3>2 DEF Growing
                <4>2. x \in Nat
                    <5>1. DOMAIN t = 1..Len(t) /\ Len(t) \in Nat BY <1>2, SeqIs
                    <5> QED BY <4>1, <5>1
                <4>3. x = 0 + x BY <4>2
                <4> QED BY <4>1, <4>3
            <3> QED BY <3>1, <3>2, SpotIs
        <2>2. \A z \in DOMAIN t : Growing(Start, t[z], Start.msg, 0 + z)
            <3> TAKE z \in DOMAIN t
            <3>1. z \in Nat
                <4>1. DOMAIN t = 1..Len(t) /\ Len(t) \in Nat BY <1>2, SeqIs
                <4> QED BY <4>1
            <3>2. 0 + z = z BY <3>1
            <3> QED BY <1>4, <3>2 DEF Growing
        <2>3. Extends(c, old, Start, t, 0) BY <1>4, <2>1, <2>2 DEF Extends
        <2> QED BY <1>4, <1>6, <2>3 DEF c, old, t
    <1> QED BY <1>1, <1>3, <1>4

\* A piece that waits is followed by the later ones of its stream; what is in hand is one of made.
LEMMA LineUp ==
    ASSUME DeliveryTyped, LineInv, NEW s, NEW i \in Nat, LineHas(s, i), NEW k \in 1..made[s], i < k
    PROVE  LineHas(s, k)
    <1>1. PICK j \in DOMAIN Line : Line[j].kind = "delta" /\ Line[j].s = s /\ Num(Line[j]) = i BY DEF LineHas
    <1>2. \A n \in 1..made[Line[j].s] : n > Num(Line[j]) => LineHas(Line[j].s, n) BY <1>1 DEF LineInv
    <1>3. k > i BY DEF DeliveryTyped
    <1> QED BY <1>1, <1>2, <1>3

LEMMA HandIs ==
    ASSUME DeliveryTyped, LineInv, SendInv, NEW s, NEW i, HeldNow(s, i)
    PROVE  /\ i \in 1..made[s] /\ ~LineHas(s, i) /\ Chat(s) = sending.chat /\ (s # sending.s => sending.s \in lost /\ s \in lost)
           /\ i - 1 \in 1..made[s] => ~LineHas(s, i - 1)
    <1>1. PICK x \in DOMAIN sending.text : sending.text[x] = <<s, i>> BY DEF HeldNow
    <1>2. sending.text[x][1] = s /\ sending.text[x][2] = i BY <1>1
    <1>3. i \in 1..made[s] /\ ~LineHas(s, i) /\ Chat(s) = sending.chat /\ (s # sending.s => sending.s \in lost /\ s \in lost)
        BY <1>2 DEF SendInv
    <1>4. ASSUME i - 1 \in 1..made[s], LineHas(s, i - 1) PROVE FALSE
        <2>1. i - 1 \in Nat /\ i - 1 < i BY <1>3, <1>4
        <2> DEFINE k == i - 1
        <2>2. k \in Nat /\ k < i /\ LineHas(s, k) BY <1>4, <2>1
        <2> HIDE DEF k
        <2> QED BY <1>3, <2>2, LineUp
    <1> QED BY <1>3, <1>4

\* In hand, the pieces of a stream that is not lost are in their order.
LEMMA HandOrder ==
    ASSUME SendInv, sending.text \in Seq(Streams \X Nat), NEW s \in Streams \ lost, NEW x \in DOMAIN sending.text, NEW y \in DOMAIN sending.text,
           NEW i \in Nat, NEW k \in Nat, sending.text[x] = <<s, i>>, sending.text[y] = <<s, k>>
    PROVE  (i < k => x < y) /\ (i = k => x = y)
    <1>1. \A u, w \in DOMAIN sending.text : u < w /\ sending.text[u][1] = s => sending.text[u][2] < sending.text[w][2]
        BY DEF SendInv
    <1>2. sending.text[x][1] = s /\ sending.text[x][2] = i /\ sending.text[y][1] = s /\ sending.text[y][2] = k OBVIOUS
    <1>3. x \in Nat /\ y \in Nat
        <2>1. DOMAIN sending.text = 1..Len(sending.text) /\ Len(sending.text) \in Nat BY SeqIs
        <2> QED BY <2>1
    <1>4. (x < y => i < k) /\ (y < x => k < i) BY <1>1, <1>2
    <1> QED BY <1>3, <1>4

\* Of the stream that is sent, the buffer has what was taken and what is in hand, in its order.
LEMMA CoverBase ==
    ASSUME StreamAssumption, LineAll, BufInv, CoverInv, sending # Nothing,
           NEW s \in Streams \ lost, s = sending.s, Live(s), NEW i \in Nat, TakenOf(s, i) \/ HeldNow(s, i)
    PROVE  /\ Covered(sending.chat, Start, shown, s, i)
           /\ TakenOf(s, i) => streamBuf[sending.chat].s = s /\ (kind # "matrix" => Start.msg # NoMessage)
    <1>1. DeliveryTyped /\ LineInv /\ SendTyped /\ SendInv BY DEF LineAll
    <1> DEFINE c == sending.chat
               old == streamBuf[c]
               t == sending.text
    <1>2. c = Chat(s) /\ t \in Seq(Streams \X Nat) BY <1>1, SendingIs
    <1>3. old.s = s => old.s = Start.s /\ old.msg = Start.msg BY <1>1, StartSpots
    <1>4. PICK L \in Nat : Extends(c, old, Start, t, L) BY <1>1, StartSpots
    <1>5. \A k \in Nat : TakenOf(s, k) => old.s = s /\ (kind # "matrix" => old.msg # NoMessage) /\ Covered(c, old, shown, s, k)
        BY <1>2 DEF CoverInv
    <1>6. Start.msg \in Nat
        <2>1. Ready(c, Start) BY <1>1, StartIs
        <2> QED BY <2>1, ReadyIs
    <1>7. \A z \in DOMAIN t : z \in Nat \ {0}
        <2>1. DOMAIN t = 1..Len(t) /\ Len(t) \in Nat BY <1>2, SeqIs
        <2> QED BY <2>1
    <1> HIDE DEF c, old
    <1>8. ASSUME NEW k \in Nat, TakenOf(s, k), NEW m, NEW x, Kept(c, old, shown, <<s, k>>, m, x)
          PROVE  Kept(c, Start, shown, <<s, k>>, m, x) /\ (m = Start.msg => x \in 1..L) /\ m <= Start.msg
        <2>1. old.s = Start.s BY <1>3, <1>5, <1>8
        <2>2. Kept(c, Start, shown, <<s, k>>, m, x) /\ (m = Start.msg => x \in 1..L) BY <1>4, <1>8, <2>1 DEF Extends
        <2> QED BY <2>2, SpotIs
    <1>9. CASE TakenOf(s, i)
        <2>1. Covered(c, old, shown, s, i) BY <1>5, <1>9
        <2>3. PICK m, x \in Nat :
                  /\ Kept(c, old, shown, <<s, i>>, m, x)
                  /\ i > 1 => \E n, y \in Nat : Kept(c, old, shown, <<s, i - 1>>, n, y) /\ Before(<<n, y>>, <<m, x>>)
            BY <2>1 DEF Covered
        <2>4. \A e, n, y : Kept(c, old, shown, e, n, y) => Kept(c, Start, shown, e, n, y)
            <3>1. old.s = Start.s BY <1>3, <1>5, <1>9
            <3> QED BY <1>4, <3>1 DEF Extends
        <2>5. Covered(c, Start, shown, s, i) BY <2>3, <2>4 DEF Covered
        <2> QED BY <1>3, <1>5, <1>9, <2>5 DEF c, old
    <1>10. CASE ~TakenOf(s, i)
        <2>1. HeldNow(s, i) BY <1>10
        <2>2. i \in 1..made[s] /\ (i - 1 \in 1..made[s] => ~LineHas(s, i - 1)) BY <1>1, <2>1, HandIs
        <2>3. PICK z \in DOMAIN t : t[z] = <<s, i>> BY <2>1 DEF HeldNow
        <2> DEFINE x == L + z
        <2>4. Growing(Start, <<s, i>>, Start.msg, x) BY <1>4, <2>3 DEF Extends
        <2>5. Kept(c, Start, shown, <<s, i>>, Start.msg, x) /\ x \in Nat
            <3>1. Start.msg <= Start.msg BY <1>6
            <3>2. x \in Nat BY <1>7
            <3> QED BY <2>4, <3>1, <3>2, SpotIs
        <2>6. ASSUME i > 1 PROVE \E n, y \in Nat : Kept(c, Start, shown, <<s, i - 1>>, n, y) /\ Before(<<n, y>>, <<Start.msg, x>>)
            <3> DEFINE k == i - 1
            <3>1. k \in Nat /\ k < i /\ k \in 1..made[s]
                <4>1. made[s] \in Nat BY <1>1 DEF DeliveryTyped
                <4>2. i \in 1..made[s] BY <2>2
                <4> DEFINE n == made[s]
                <4> HIDE DEF n
                <4>3. n \in Nat /\ i \in 1..n BY <4>1, <4>2 DEF n
                <4>4. k \in Nat /\ k < i /\ k \in 1..n BY <2>6, <4>3
                <4> QED BY <4>4 DEF n
            <3>2. ~LineHas(s, k) BY <2>2, <3>1
            <3>3. TakenOf(s, k) \/ HeldNow(s, k) BY <3>1, <3>2 DEF TakenOf
            <3> HIDE DEF k
            <3>4. CASE HeldNow(s, k)
                <4>1. PICK w \in DOMAIN t : t[w] = <<s, k>> BY <3>4 DEF HeldNow
                <4>2. w < z BY <1>1, <1>2, <2>3, <3>1, <4>1, HandOrder
                <4> DEFINE y == L + w
                <4>3. y \in Nat /\ y < x BY <1>7, <4>2
                <4>4. Growing(Start, <<s, k>>, Start.msg, y) BY <1>4, <4>1 DEF Extends
                <4> HIDE DEF x, y
                <4>5. Kept(c, Start, shown, <<s, k>>, Start.msg, y)
                    <5>1. Start.msg <= Start.msg BY <1>6
                    <5> QED BY <4>4, <5>1, SpotIs
                <4>6. Before(<<Start.msg, y>>, <<Start.msg, x>>) BY <4>3 DEF Before
                <4> QED BY <1>6, <4>3, <4>5, <4>6 DEF k
            <3>5. CASE TakenOf(s, k)
                <4>1. Covered(c, old, shown, s, k) BY <1>5, <3>1, <3>5
                <4>2. PICK n, y \in Nat : Kept(c, old, shown, <<s, k>>, n, y) BY <4>1 DEF Covered
                <4>3. Kept(c, Start, shown, <<s, k>>, n, y) /\ (n = Start.msg => y \in 1..L) /\ n <= Start.msg BY <1>8, <3>1, <3>5, <4>2
                <4>4. n < Start.msg \/ (n = Start.msg /\ y < x) BY <1>6, <1>7, <4>3
                <4> HIDE DEF x
                <4>5. Before(<<n, y>>, <<Start.msg, x>>) BY <4>4 DEF Before
                <4> QED BY <4>3, <4>5 DEF k
            <3> QED BY <3>3, <3>4, <3>5
        <2> HIDE DEF x
        <2>7. Covered(c, Start, shown, s, i) BY <1>6, <2>5, <2>6 DEF Covered
        <2> QED BY <1>10, <2>7 DEF c
    <1> QED BY <1>9, <1>10

\* And of a stream that no failure touched it has nothing twice, and nothing else.
LEMMA OnceBase ==
    ASSUME StreamAssumption, LineAll, BufInv, OnceInv, sending # Nothing,
           NEW s \in Streams \ (failed \cup lost), Chat(s) = sending.chat, NEW i \in Nat
    PROVE  /\ Once(sending.chat, Start, shown, s, i)
           /\ \A m, x \in Nat : Spot(sending.chat, Start, shown, <<s, i>>, m, x) => TakenOf(s, i) \/ HeldNow(s, i)
    <1>1. DeliveryTyped /\ LineInv /\ SendTyped /\ SendInv BY DEF LineAll
    <1> DEFINE c == sending.chat
               old == streamBuf[c]
               t == sending.text
               e == <<s, i>>
    <1>2. t \in Seq(Streams \X Nat) BY <1>1, SendingIs
    <1>3. PICK L \in Nat : Extends(c, old, Start, t, L) BY <1>1, StartSpots
    <1>4. /\ \A m, x \in Nat : Spot(c, old, shown, e, m, x) => \A n, y \in Nat : Spot(c, old, shown, e, n, y) => n = m /\ y = x
          /\ \A m, x \in Nat : Spot(c, old, shown, e, m, x) => TakenOf(s, i)
        BY DEF OnceInv, Once
    <1> HIDE DEF c, old
    <1>5. \A m, x : Spot(c, Start, shown, e, m, x) =>
              Spot(c, old, shown, e, m, x) \/ (m = Start.msg /\ \E z \in DOMAIN t : x = L + z /\ t[z] = e)
        BY <1>3 DEF Extends
    <1>6. ASSUME NEW m \in Nat, NEW x \in Nat, Spot(c, Start, shown, e, m, x) PROVE TakenOf(s, i) \/ HeldNow(s, i)
        <2>1. CASE Spot(c, old, shown, e, m, x) BY <1>4, <2>1
        <2>2. CASE \E z \in DOMAIN t : t[z] = e BY <2>2 DEF HeldNow
        <2> QED BY <1>5, <1>6, <2>1, <2>2
    <1>7. TakenOf(s, i) => ~\E z \in DOMAIN t : t[z] = e BY DEF TakenOf, HeldNow
    <1>8. \A z, w \in DOMAIN t : t[z] = e /\ t[w] = e => z = w BY <1>1, <1>2, HandOrder
    <1> HIDE DEF e, t
    <1>9. ASSUME NEW m \in Nat, NEW x \in Nat, NEW n \in Nat, NEW y \in Nat, Spot(c, Start, shown, e, m, x), Spot(c, Start, shown, e, n, y)
          PROVE  n = m /\ y = x
        <2>1. CASE Spot(c, old, shown, e, m, x) /\ Spot(c, old, shown, e, n, y) BY <1>4, <2>1
        <2>2. CASE \E z \in DOMAIN t : t[z] = e
            <3>1. ~TakenOf(s, i) BY <1>7, <2>2
            <3>2. ~Spot(c, old, shown, e, m, x) /\ ~Spot(c, old, shown, e, n, y) BY <1>4, <3>1
            <3>3. m = Start.msg /\ \E z \in DOMAIN t : x = L + z /\ t[z] = e BY <1>5, <1>9, <3>2
            <3>4. n = Start.msg /\ \E z \in DOMAIN t : y = L + z /\ t[z] = e BY <1>5, <1>9, <3>2
            <3> QED BY <1>8, <3>3, <3>4
        <2> QED BY <1>5, <1>9, <2>1, <2>2
    <1>10. Once(c, Start, shown, s, i) BY <1>9 DEF Once, e
    <1> QED BY <1>6, <1>10 DEF c, e

----------------------------------------------------------------------------
(* An attempt. *)

Retried(o) == o.how \in {"raised", "refused"} /\ sending.try + 1 < MaxAttempts

Tries(o) ==
    /\ sending # Nothing /\ o \in Outcomes(sending)
    /\ streamBuf' = [streamBuf EXCEPT ![sending.chat] = o.buf] /\ shown' = o.shown
    /\ sending' = IF Retried(o) THEN [sending EXCEPT !.try = @ + 1] ELSE Nothing
    /\ failed' = IF o.how \in {"raised", "refused"} \/ o.how = "swallowed" THEN failed \cup AtStake(sending) ELSE failed
    /\ lost' = IF o.how = "lost" \/ (o.how \in {"raised", "refused"} /\ (~Retried(o) \/ kind = "matrix"))
               THEN lost \cup AtStake(sending) ELSE lost
    /\ finished' = IF sending.kind = "end" /\ ~Retried(o) THEN finished \cup {sending.s} ELSE finished
    /\ UNCHANGED <<kind, topic, made, stream, outq, pending>>

\* What an outcome comes to, if it does not lose the stream.
Delivers(o) ==
    /\ Stays(sending.chat, Start, o) \/ PostsOf(sending.chat, Start, o) \/ Goes(sending.chat, Start, o)
    /\ o.buf.s = sending.s /\ (Retried(o) => Stays(sending.chat, Start, o))
    /\ ~Retried(o) => (kind # "matrix" => o.buf.msg # NoMessage)
Closes(o) ==
    IF Retried(o) THEN Stays(sending.chat, Start, o)
    ELSE o.how = "done" /\ (Ends(sending.chat, Start, o) \/ (NotMine(sending) /\ kind # "matrix"))

LEMMA AttemptTries == ASSUME Attempt PROVE \E o : Tries(o)
    BY DEF Attempt, Tries, Retried

LEMMA StakeIs ==
    ASSUME DeliveryTyped, SendTyped, sending # Nothing
    PROVE  /\ AtStake(sending) \subseteq Streams /\ sending.s \in AtStake(sending)
           /\ \A x \in DOMAIN sending.text : sending.text[x][1] \in AtStake(sending)
           /\ \A x \in DOMAIN streamBuf[sending.chat].text : streamBuf[sending.chat].text[x][1] \in AtStake(sending)
    <1> DEFINE t == sending.text
               u == streamBuf[sending.chat].text
    <1>1. t \in Seq(Streams \X Nat) /\ u \in Seq(Streams \X Nat) /\ sending.s \in Streams
        <2>1. sending.chat \in Chats2 /\ t \in Seq(Streams \X Nat) /\ sending.s \in Streams BY SendingIs
        <2>2. streamBuf[sending.chat] \in [s : Streams \cup {0}, text : Texts, msg : Nat] BY <2>1 DEF DeliveryTyped
        <2> QED BY <2>1, <2>2 DEF Texts
    <1>2. AtStake(sending) = {sending.s} \cup {p[1] : p \in ToSet(t) \cup ToSet(u)} BY DEF AtStake
    <1> HIDE DEF t, u
    <1>3. ToSet(t) = {t[i] : i \in DOMAIN t} /\ ToSet(u) = {u[i] : i \in DOMAIN u} BY DEF ToSet
    <1>4. \A x \in DOMAIN t : t[x] \in Streams \X Nat BY <1>1, SeqIs
    <1>5. \A x \in DOMAIN u : u[x] \in Streams \X Nat BY <1>1, SeqIs
    <1>6. \A p \in ToSet(t) \cup ToSet(u) : p[1] \in Streams BY <1>3, <1>4, <1>5
    <1>7. AtStake(sending) \subseteq Streams BY <1>1, <1>2, <1>6
    <1>8. (\A x \in DOMAIN t : t[x][1] \in AtStake(sending)) /\ \A x \in DOMAIN u : u[x][1] \in AtStake(sending)
        <2>1. \A x \in DOMAIN t : t[x] \in ToSet(t) BY <1>3
        <2>2. \A x \in DOMAIN u : u[x] \in ToSet(u) BY <1>3
        <2> QED BY <1>2, <2>1, <2>2
    <1> QED BY <1>2, <1>7, <1>8 DEF t, u

\* The histories of a step.
LEMMA TriesHistory ==
    ASSUME DeliveryTyped, SendTyped, NEW o, Tries(o)
    PROVE  /\ lost \subseteq lost' /\ lost' \subseteq Streams /\ failed \subseteq failed' /\ failed' \subseteq Streams
           /\ finished' = IF sending.kind = "end" /\ ~Retried(o) THEN finished \cup {sending.s} ELSE finished
           /\ finished' \subseteq Streams
           /\ sending.s \notin lost' =>
                  o.how # "lost" /\ (o.how \in {"raised", "refused"} => Retried(o) /\ kind # "matrix")
           /\ o.how \in {"raised", "refused", "swallowed", "lost"} => AtStake(sending) \subseteq failed' \cup lost'
    <1>1. sending # Nothing BY DEF Tries
    <1>2. AtStake(sending) \subseteq Streams /\ sending.s \in AtStake(sending) /\ sending.s \in Streams BY <1>1, StakeIs, SendingIs
    <1>3. lost \subseteq Streams /\ failed \subseteq Streams /\ finished \subseteq Streams BY DEF DeliveryTyped
    <1>4. lost' = IF o.how = "lost" \/ (o.how \in {"raised", "refused"} /\ (~Retried(o) \/ kind = "matrix"))
                  THEN lost \cup AtStake(sending) ELSE lost
        BY DEF Tries
    <1>5. failed' = IF o.how \in {"raised", "refused"} \/ o.how = "swallowed" THEN failed \cup AtStake(sending) ELSE failed BY DEF Tries
    <1>6. finished' = IF sending.kind = "end" /\ ~Retried(o) THEN finished \cup {sending.s} ELSE finished BY DEF Tries
    <1>7. finished' \subseteq Streams BY <1>2, <1>3, <1>6
    <1>8. lost \subseteq lost' /\ lost' \subseteq Streams BY <1>2, <1>3, <1>4
    <1>9. failed \subseteq failed' /\ failed' \subseteq Streams BY <1>2, <1>3, <1>5
    <1>10. sending.s \notin lost' => o.how # "lost" /\ (o.how \in {"raised", "refused"} => Retried(o) /\ kind # "matrix")
        BY <1>2, <1>4
    <1>11. o.how \in {"raised", "refused", "swallowed", "lost"} => AtStake(sending) \subseteq failed' \cup lost' BY <1>4, <1>5
    <1> QED BY <1>6, <1>7, <1>8, <1>9, <1>10, <1>11

LEMMA AgainIs ==
    ASSUME SendTyped, NEW o, Tries(o)
    PROVE  /\ Retried(o) => /\ sending'.kind = sending.kind /\ sending'.s = sending.s /\ sending'.chat = sending.chat
                          /\ sending'.text = sending.text /\ sending'.try \in Nat
                          /\ sending' \in [kind : {"delta", "end"}, s : Streams, chat : Chats2, text : Texts, try : Nat]
           /\ ~Retried(o) => sending' = Nothing
    <1>1. ~Retried(o) => sending' = Nothing BY DEF Tries
    <1>2. ASSUME Retried(o)
          PROVE  /\ sending'.kind = sending.kind /\ sending'.s = sending.s /\ sending'.chat = sending.chat
                 /\ sending'.text = sending.text /\ sending'.try \in Nat
                 /\ sending' \in [kind : {"delta", "end"}, s : Streams, chat : Chats2, text : Texts, try : Nat]
        <2>1. sending' = [sending EXCEPT !.try = @ + 1] BY <1>2 DEF Tries
        <2>2. sending \in [kind : {"delta", "end"}, s : Streams, chat : Chats2, text : Texts, try : Nat]
            BY DEF Tries, SendTyped
        <2> QED BY <2>1, <2>2
    <1> QED BY <1>1, <1>2

LEMMA PostsBuf ==
    ASSUME NEW c, NEW b, Ready(c, b), NEW o, PostsOf(c, b, o)
    PROVE  o.buf.s = b.s /\ o.buf.msg # NoMessage
    <1>1. shown \in Seq(Msgs) /\ c \in Chats2 /\ b.text \in Texts /\ b \in Buffers BY ReadyIs DEF Ready
    <1>2. o.shown = Posted(shown, c, b.text) BY DEF PostsOf
    <1>3. Len(Posted(shown, c, b.text)) = Len(shown) + 1 BY <1>1, PostedIs
    <1>4. Len(shown) \in Nat BY <1>1, SeqIs
    <1>5. o.buf = [b EXCEPT !.msg = Len(o.shown)] BY DEF PostsOf
    <1>6. o.buf.s = b.s /\ o.buf.msg = Len(o.shown) BY <1>1, <1>5 DEF Buffers
    <1> QED BY <1>2, <1>3, <1>4, <1>6 DEF NoMessage

\* What an attempt may leave.
LEMMA TriesShape ==
    ASSUME StreamAssumption, DeliveryTyped, SendTyped, SendInv, BufInv, NEW o, Tries(o)
    PROVE  LET c == sending.chat
               b == Start
           IN  /\ Shape(c, b, o) /\ (PostsOf(c, b, o) => b.text # <<>>) /\ o.how \in {"done", "raised", "refused", "swallowed", "lost"}
               /\ o.how = "done" => Stays(c, b, o) \/ PostsOf(c, b, o) \/ Goes(c, b, o) \/ Ends(c, b, o)
               /\ sending.s \notin lost' => IF sending.kind = "delta" THEN Delivers(o) ELSE Closes(o)
    <1> DEFINE c == sending.chat
               b == Start
    <1>1. sending # Nothing /\ o \in Outcomes(sending) BY DEF Tries
    <1>2. Ready(c, b) /\ (sending.kind = "delta" => b = Selected(sending) /\ b.s = sending.s /\ b.text # <<>>)
          /\ (sending.kind = "end" => b = streamBuf[c])
        BY <1>1, StartIs
    <1>3. kind \in Kinds BY DEF DeliveryTyped
    <1>4. sending.s \notin lost' => o.how # "lost" /\ (o.how \in {"raised", "refused"} => Retried(o) /\ kind # "matrix") BY TriesHistory
    <1>5. Retried(o) => o.how \in {"raised", "refused"} BY DEF Retried
    <1>6. (PostsOf(c, b, o) => o.how = "done" /\ b.msg = NoMessage) /\ (Goes(c, b, o) => o.how = "done") /\ (Falls(c, b, o) => o.how = "lost")
          /\ (Ends(c, b, o) => o.how = "done" /\ b.msg # NoMessage) /\ (Drops(c, b, o) => o.how = "lost" \/ (o.how = "raised" /\ kind = "matrix"))
        BY DEF PostsOf, Goes, Falls, Ends, Drops
    <1>7. CASE sending.kind = "delta"
        <2>1. b = Selected(sending) /\ b.s = sending.s /\ b.text # <<>> BY <1>2, <1>7
        <2>2. /\ Stays(c, b, o) \/ PostsOf(c, b, o) \/ Goes(c, b, o) \/ Falls(c, b, o)
              /\ o.how \in {"done", "raised", "refused", "swallowed", "lost"} /\ (o.how = "swallowed" => kind = "matrix")
              /\ Stays(c, b, o) /\ o.how = "done" => b.msg # NoMessage
            <3> HIDE DEF b, c
            <3>1. c = sending.chat BY DEF c
            <3> QED BY <1>1, <1>2, <1>3, <1>7, <2>1, <3>1, DeltaShapes
        <2> HIDE DEF b, c
        <2>3. Shape(c, b, o) BY <2>2 DEF Shape
        <2>4. o.how = "done" => Stays(c, b, o) \/ PostsOf(c, b, o) \/ Goes(c, b, o) BY <1>6, <2>2
        <2>5. Stays(c, b, o) => o.buf = b BY DEF Stays
        <2>6. PostsOf(c, b, o) => o.buf.s = b.s /\ o.buf.msg # NoMessage
            <3> HAVE PostsOf(c, b, o)
            <3> QED BY <1>2, PostsBuf
        <2>7. Goes(c, b, o) => o.buf.s = b.s /\ o.buf.msg # NoMessage BY <1>2, GoesIs
        <2>8. ASSUME sending.s \notin lost'
              PROVE  /\ Stays(c, b, o) \/ PostsOf(c, b, o) \/ Goes(c, b, o)
                     /\ o.buf.s = sending.s /\ (Retried(o) => Stays(c, b, o))
                     /\ ~Retried(o) => (kind # "matrix" => o.buf.msg # NoMessage)
            <3>1. Stays(c, b, o) \/ PostsOf(c, b, o) \/ Goes(c, b, o) BY <1>4, <1>6, <2>2, <2>8
            <3>2. o.buf.s = sending.s BY <2>1, <2>5, <2>6, <2>7, <3>1
            <3>3. Retried(o) => Stays(c, b, o) BY <1>5, <1>6, <3>1
            <3>4. ~Retried(o) => (kind # "matrix" => o.buf.msg # NoMessage) BY <1>4, <2>2, <2>5, <2>6, <2>7, <2>8, <3>1
            <3> QED BY <3>1, <3>2, <3>3, <3>4
        <2>9. sending.s \notin lost' => Delivers(o) BY <2>8 DEF Delivers, b, c
        <2> QED BY <1>7, <2>1, <2>2, <2>3, <2>4, <2>9 DEF b, c
    <1>8. CASE sending.kind = "end"
        <2>1. b = streamBuf[c] /\ sending.kind # "delta" BY <1>2, <1>8
        <2>2. /\ (Stays(c, b, o) /\ (o.how = "done" => o.shown = shown /\ NotMine(sending) /\ kind # "matrix")) \/ Ends(c, b, o) \/ Falls(c, b, o) \/ Drops(c, b, o)
              /\ o.how \in {"done", "raised", "lost"} /\ (kind = "matrix" => o.buf = NoBuf)
            <3> HIDE DEF b, c
            <3>1. c = sending.chat BY DEF c
            <3> QED BY <1>1, <1>2, <1>8, <2>1, <3>1, EndShapes
        <2> HIDE DEF b, c
        <2>3. Shape(c, b, o) BY <2>2 DEF Shape
        <2>4. ~PostsOf(c, b, o)
            <3> SUFFICES ASSUME PostsOf(c, b, o) PROVE FALSE OBVIOUS
            <3>1. o.how = "done" /\ b.msg = NoMessage /\ o.shown = Posted(shown, c, b.text) BY DEF PostsOf
            <3>2. o.shown = shown BY <1>6, <2>2, <3>1
            <3> QED BY <1>2, <3>1, <3>2, PostAdds
        <2>5. o.how = "done" => Stays(c, b, o) \/ Ends(c, b, o) BY <1>6, <2>2
        <2>6. ASSUME sending.s \notin lost'
              PROVE  IF Retried(o) THEN Stays(c, b, o) ELSE o.how = "done" /\ (Ends(c, b, o) \/ (NotMine(sending) /\ kind # "matrix"))
            BY <1>4, <1>5, <1>6, <2>2, <2>6
        <2>7. sending.s \notin lost' => Closes(o) BY <2>6 DEF Closes, b, c
        <2> QED BY <2>1, <2>2, <2>3, <2>4, <2>5, <2>7 DEF b, c
    <1> QED BY <1>1, <1>7, <1>8, SendingIs

\* What holds of the messages after it.
LEMMA TriesFits ==
    ASSUME StreamAssumption, DeliveryTyped, SendTyped, SendInv, BufInv, NEW o, Tries(o)
    PROVE  LET c == sending.chat IN
           /\ Written(c, Start, o.shown) /\ o.buf \in Buffers /\ Fits(c, o.buf, o.shown)
           /\ o.buf.msg \in {NoMessage, streamBuf[c].msg} \/ o.buf.msg \notin DOMAIN shown
           /\ From(o.buf.text, Start.text) \/ o.buf = streamBuf[c]
           /\ c \in Chats2 /\ streamBuf' \in [Chats2 -> Buffers] /\ streamBuf'[c] = o.buf
           /\ \A d \in Chats2 \ {c} : streamBuf'[d] = streamBuf[d]
    <1> DEFINE c == sending.chat
               b == Start
    <1>1. sending # Nothing BY DEF Tries
    <1>2. Ready(c, b) /\ Ready(c, streamBuf[c]) /\ b.msg \in {NoMessage, streamBuf[c].msg} BY <1>1, StartIs
    <1>3. Shape(c, b, o) /\ (PostsOf(c, b, o) => b.text # <<>>) BY TriesShape
    <1>4. c \in Chats2 BY <1>2 DEF Ready
    <1>5. streamBuf \in [Chats2 -> Buffers] BY DEF DeliveryTyped, Buffers
    <1>6. streamBuf' = [streamBuf EXCEPT ![c] = o.buf] BY DEF Tries
    <1> HIDE DEF c, b
    <1>7. /\ Written(c, b, o.shown) /\ o.buf \in Buffers /\ Fits(c, o.buf, o.shown)
          /\ o.buf.msg \in {NoMessage, streamBuf[c].msg} \/ o.buf.msg \notin DOMAIN shown
          /\ From(o.buf.text, b.text) \/ o.buf = streamBuf[c]
        BY <1>2, <1>3, OutcomeFits
    <1>8. streamBuf' \in [Chats2 -> Buffers] /\ streamBuf'[c] = o.buf /\ \A d \in Chats2 \ {c} : streamBuf'[d] = streamBuf[d]
        BY <1>4, <1>5, <1>6, <1>7
    <1> QED BY <1>4, <1>7, <1>8 DEF c, b

LEMMA TriesKeepsLine ==
    ASSUME StreamAssumption, LineAll, BufInv, NEW o, Tries(o)
    PROVE  LineAll'
    <1>1. DeliveryTyped /\ LineInv /\ SendTyped /\ SendInv /\ EndInv /\ ApartInv BY DEF LineAll
    <1>2. UNCHANGED <<kind, topic, made, stream, outq, pending>> /\ sending # Nothing /\ shown' = o.shown BY DEF Tries
    <1>3. Units' = Units /\ \A t : Chat(t)' = Chat(t) BY <1>2, SameChats
    <1>4. Line' = Line BY <1>2 DEF Line
    <1>5. \A t, i : LineHas(t, i)' <=> LineHas(t, i) BY <1>4 DEF LineHas, Num
    <1>6. /\ lost \subseteq lost' /\ lost' \subseteq Streams /\ failed' \subseteq Streams /\ finished' \subseteq Streams
          /\ finished' = IF sending.kind = "end" /\ ~Retried(o) THEN finished \cup {sending.s} ELSE finished
        BY <1>1, TriesHistory
    <1>7. /\ Retried(o) => /\ sending'.kind = sending.kind /\ sending'.s = sending.s /\ sending'.chat = sending.chat
                         /\ sending'.text = sending.text
                         /\ sending' \in [kind : {"delta", "end"}, s : Streams, chat : Chats2, text : Texts, try : Nat]
          /\ ~Retried(o) => sending' = Nothing
        BY <1>1, AgainIs
    <1>8. Nothing.kind = "none" /\ Nothing.s = 0 /\ Nothing.text = <<>> /\ 0 \notin Streams BY DEF Nothing, StreamAssumption
    <1>9. /\ sending.kind \in {"delta", "end"} /\ sending.s \in Streams /\ sending.chat = Chat(sending.s)
          /\ (sending.kind = "end" => sending.text = <<>>) /\ (sending.kind = "delta" => sending.text # <<>>)
        BY <1>1, <1>2, SendingIs
    <1>10. DeliveryTyped'
        <2>1. streamBuf' \in [Chats2 -> Buffers] /\ o.shown \in Seq(Msgs) BY <1>1, TriesFits DEF Written
        <2> QED BY <1>1, <1>2, <1>3, <1>6, <2>1 DEF DeliveryTyped, Buffers, Msgs, Chats2, Texts
    <1>11. LineInv' BY <1>1, <1>2, <1>4, <1>5 DEF LineInv, Num
    <1>12. SendTyped'
        <2>1. CASE ~Retried(o) BY <1>7, <2>1 DEF SendTyped, Nothing
        <2>2. CASE Retried(o)
            <3>1. Chat(sending.s)' = Chat(sending'.s) BY <1>2 DEF Chat
            <3>2. sending'.chat = Chat(sending'.s) BY <1>7, <1>9, <2>2
            <3> QED BY <1>7, <1>9, <2>2, <3>1, <3>2 DEF SendTyped, Chats2, Texts
        <2> QED BY <2>1, <2>2
    <1>13. SendInv'
        <2>1. CASE ~Retried(o)
            <3>1. sending'.kind # "end" /\ DOMAIN sending'.text = {} BY <1>7, <1>8, <2>1
            <3> QED BY <3>1 DEF SendInv
        <2>2. CASE Retried(o)
            <3>1. finished' = finished BY <1>6, <2>2
            <3>2. \A t, i : HeldNow(t, i)' <=> HeldNow(t, i) BY <1>7, <2>2 DEF HeldNow
            <3> DEFINE q == sending.text
            <3>3. sending'.kind = "end" =>
                      stream[sending'.s] = "ended" /\ sending'.s \notin finished /\ \A j \in DOMAIN Line : Line[j].s # sending'.s
                BY <1>1, <1>7, <2>2 DEF SendInv
            <3>4. \A x \in DOMAIN q :
                      /\ Chat(q[x][1]) = sending.chat /\ q[x][2] \in 1..made[q[x][1]] /\ ~LineHas(q[x][1], q[x][2])
                      /\ q[x][1] # sending.s => sending.s \in lost' /\ q[x][1] \in lost'
                      /\ q[x][1] \notin lost' =>
                             /\ \A y \in DOMAIN q : x < y => q[x][2] < q[y][2]
                             /\ \A i \in 1..made[q[x][1]] : i > q[x][2] => LineHas(q[x][1], i) \/ HeldNow(q[x][1], i)
                BY <1>1, <1>6 DEF SendInv
            <3> QED BY <1>2, <1>3, <1>4, <1>5, <1>7, <2>2, <3>1, <3>2, <3>3, <3>4 DEF SendInv
        <2> QED BY <2>1, <2>2
    <1>14. EndInv'
        <2> SUFFICES ASSUME NEW t \in Streams
                     PROVE  /\ t \in finished' => stream[t] = "ended" /\ \A j \in DOMAIN Line : Line[j].s # t
                            /\ stream[t] = "ended" /\ t \notin finished' =>
                                   (\E j \in DOMAIN Line : Line[j].s = t /\ Line[j].kind = "end") \/ (sending'.kind = "end" /\ sending'.s = t)
            BY <1>2, <1>4 DEF EndInv
        <2>1. ASSUME t \in finished' PROVE stream[t] = "ended" /\ \A j \in DOMAIN Line : Line[j].s # t
            <3>1. CASE t \in finished BY <1>1, <3>1 DEF EndInv
            <3>2. CASE t \notin finished
                <4>1. sending.kind = "end" /\ t = sending.s BY <1>6, <2>1, <3>2
                <4> QED BY <1>1, <4>1 DEF SendInv
            <3> QED BY <3>1, <3>2
        <2>2. ASSUME stream[t] = "ended", t \notin finished'
              PROVE  (\E j \in DOMAIN Line : Line[j].s = t /\ Line[j].kind = "end") \/ (sending'.kind = "end" /\ sending'.s = t)
            <3>1. t \notin finished /\ (sending.kind = "end" /\ sending.s = t => Retried(o)) BY <1>6, <2>2
            <3>2. (\E j \in DOMAIN Line : Line[j].s = t /\ Line[j].kind = "end") \/ (sending.kind = "end" /\ sending.s = t)
                BY <1>1, <2>2, <3>1 DEF EndInv
            <3> QED BY <1>7, <3>1, <3>2
        <2> QED BY <2>1, <2>2
    <1>15. ApartInv'
        <2>1. \A a : MoreOf(a)' <=> MoreOf(a) BY <1>2, <1>4 DEF MoreOf
        <2>2. \A t \in Streams : sending'.s = t => sending.s = t BY <1>7, <1>8
        <2> SUFFICES ASSUME NEW a \in Streams \ lost', NEW t \in Streams \ {a}, Chat(t) = Chat(a)
                     PROVE  /\ ~(stream[a] = "open" /\ stream[t] = "open")
                            /\ \A j \in DOMAIN Line :
                                   Line[j].s = t /\ (stream[a] = "open" \/ \E l \in DOMAIN Line : j < l /\ Line[l].s = a) =>
                                       LineHas(a, 1) /\ \A l \in DOMAIN Line : l < j => Line[l].s # a
                            /\ sending'.s = t /\ MoreOf(a)' => LineHas(a, 1)
            BY <1>2, <1>3, <1>4, <1>5 DEF ApartInv
        <2>3. a \in Streams \ lost BY <1>6
        <2> QED BY <1>1, <2>1, <2>2, <2>3 DEF ApartInv
    <1> QED BY <1>10, <1>11, <1>12, <1>13, <1>14, <1>15 DEF LineAll

----------------------------------------------------------------------------
(* What the chats show after an attempt. *)

LiveAfter(s) == stream'[s] = "open" \/ (stream'[s] = "ended" /\ s \notin finished')

LEMMA ShownAfter ==
    ASSUME topic' = topic
    PROVE  /\ BufInv' <=> \A c \in Chats2 : Fits(c, streamBuf'[c], shown')
           /\ HomeInv' <=> \A m \in DOMAIN shown' : \A x \in DOMAIN shown'[m].text : Chat(shown'[m].text[x][1]) = shown'[m].chat
           /\ CoverInv' <=>
                  \A s \in Streams \ lost' :
                      LiveAfter(s) =>
                          \A i \in Nat : TakenOf(s, i)' =>
                              /\ streamBuf'[Chat(s)].s = s /\ (kind' # "matrix" => streamBuf'[Chat(s)].msg # NoMessage)
                              /\ Covered(Chat(s), streamBuf'[Chat(s)], shown', s, i)
           /\ FixedInv' <=>
                  \A s \in finished' \ lost' : \A i \in 1..made'[s] : Fixed(Chat(s), streamBuf'[Chat(s)], shown', s, i)
           /\ OnceInv' <=>
                  \A s \in Streams \ (failed' \cup lost') : \A i \in Nat :
                      /\ Once(Chat(s), streamBuf'[Chat(s)], shown', s, i)
                      /\ \A m, x \in Nat : Spot(Chat(s), streamBuf'[Chat(s)], shown', <<s, i>>, m, x) => TakenOf(s, i)'
    <1>1. BufInv' <=> \A c \in Chats2 : Fits(c, streamBuf'[c], shown') BY DEF BufInv, Fits, Chat
    <1>2. HomeInv' <=> \A m \in DOMAIN shown' : \A x \in DOMAIN shown'[m].text : Chat(shown'[m].text[x][1]) = shown'[m].chat
        BY DEF HomeInv, Chat
    <1>3. CoverInv' <=>
              \A s \in Streams \ lost' :
                  LiveAfter(s) =>
                      \A i \in Nat : TakenOf(s, i)' =>
                          /\ streamBuf'[Chat(s)].s = s /\ (kind' # "matrix" => streamBuf'[Chat(s)].msg # NoMessage)
                          /\ Covered(Chat(s), streamBuf'[Chat(s)], shown', s, i)
        BY DEF CoverInv, Chat, Live, LiveAfter
    <1>4. FixedInv' <=>
              \A s \in finished' \ lost' : \A i \in 1..made'[s] : Fixed(Chat(s), streamBuf'[Chat(s)], shown', s, i)
        BY DEF FixedInv, Chat
    <1>5. OnceInv' <=>
              \A s \in Streams \ (failed' \cup lost') : \A i \in Nat :
                  /\ Once(Chat(s), streamBuf'[Chat(s)], shown', s, i)
                  /\ \A m, x \in Nat : Spot(Chat(s), streamBuf'[Chat(s)], shown', <<s, i>>, m, x) => TakenOf(s, i)'
        BY DEF OnceInv, Chat
    <1> QED BY <1>1, <1>2, <1>3, <1>4, <1>5

\* The channel takes what was sent, unless it is sent again.
LEMMA TakenAfter ==
    ASSUME DeliveryTyped, LineInv, SendTyped, SendInv, NEW o, Tries(o), NEW s, NEW i
    PROVE  /\ Retried(o) => (TakenOf(s, i)' <=> TakenOf(s, i))
           /\ ~Retried(o) => (TakenOf(s, i)' <=> TakenOf(s, i) \/ HeldNow(s, i))
           /\ TakenOf(s, i) => TakenOf(s, i)'
    <1>1. made' = made /\ Line' = Line BY DEF Tries, Line
    <1>2. LineHas(s, i)' <=> LineHas(s, i) BY <1>1 DEF LineHas, Num
    <1>3. TakenOf(s, i)' <=> i \in 1..made[s] /\ ~LineHas(s, i) /\ ~HandAfter(s, i) BY <1>1, <1>2 DEF TakenOf, HeldNow, HandAfter
    <1>4. Retried(o) => (HandAfter(s, i) <=> HeldNow(s, i))
        <2>1. Retried(o) => sending'.text = sending.text BY AgainIs
        <2> QED BY <2>1 DEF HandAfter, HeldNow
    <1>5. ~Retried(o) => ~HandAfter(s, i)
        <2>1. ~Retried(o) => sending' = Nothing BY AgainIs
        <2>2. DOMAIN Nothing.text = {} BY DEF Nothing
        <2> QED BY <2>1, <2>2 DEF HandAfter
    <1>6. HeldNow(s, i) => i \in 1..made[s] /\ ~LineHas(s, i) BY HandIs
    <1> QED BY <1>3, <1>4, <1>5, <1>6 DEF TakenOf

\* Nothing changes in the other chats.
LEMMA OtherChats ==
    ASSUME NEW c, NEW b, NEW sh, Ready(c, b), Written(c, b, sh), NEW d, d # c, NEW a, NEW e, NEW m, NEW x
    PROVE  /\ Still(d, a, sh, e, m, x) <=> Still(d, a, shown, e, m, x)
           /\ Spot(d, a, sh, e, m, x) <=> Spot(d, a, shown, e, m, x)
           /\ Kept(d, a, sh, e, m, x) <=> Kept(d, a, shown, e, m, x)
    <1>1. b.msg \in DOMAIN shown => shown[b.msg].chat = c
        <2>1. b.msg # NoMessage => shown[b.msg].chat = c BY ReadyIs
        <2> QED BY <2>1, ReadyIs
    <1>2. Still(d, a, shown, e, m, x) => m \in DOMAIN sh /\ sh[m] = shown[m] BY <1>1 DEF Still, Written
    <1>3. Still(d, a, sh, e, m, x) => m \in DOMAIN shown /\ sh[m] = shown[m] BY DEF Still, Written
    <1>4. Still(d, a, sh, e, m, x) <=> Still(d, a, shown, e, m, x) BY <1>2, <1>3 DEF Still
    <1> QED BY <1>4, SpotIs

LEMMA AttemptKeepsBuf ==
    ASSUME StreamAssumption, LineAll, BufInv, HomeInv, NEW o, Tries(o)
    PROVE  BufInv' /\ HomeInv'
    <1>1. DeliveryTyped /\ SendTyped /\ SendInv BY DEF LineAll
    <1>2. topic' = topic /\ shown' = o.shown /\ sending # Nothing BY DEF Tries
    <1> DEFINE c == sending.chat
               b == Start
    <1>3. Ready(c, b) BY <1>1, <1>2, StartIs
    <1>4. /\ Written(c, b, o.shown) /\ Fits(c, o.buf, o.shown) /\ c \in Chats2 /\ streamBuf'[c] = o.buf
          /\ \A d \in Chats2 \ {c} : streamBuf'[d] = streamBuf[d]
        BY <1>1, TriesFits
    <1>5. shown \in Seq(Msgs) BY <1>3 DEF Ready
    <1> HIDE DEF c, b
    <1>6. b.msg \in DOMAIN shown => shown[b.msg].chat = c
        <2>1. b.msg # NoMessage => shown[b.msg].chat = c BY <1>3, ReadyIs
        <2> QED BY <1>3, <2>1, ReadyIs
    <1>7. ASSUME NEW d \in Chats2 \ {c} PROVE Fits(d, streamBuf[d], o.shown)
        <2>1. Fits(d, streamBuf[d], shown) BY DEF BufInv
        <2>2. ASSUME streamBuf[d].msg # NoMessage PROVE streamBuf[d].msg \in DOMAIN o.shown /\ o.shown[streamBuf[d].msg] = shown[streamBuf[d].msg]
            <3>1. streamBuf[d].msg \in DOMAIN shown /\ shown[streamBuf[d].msg].chat = d BY <2>1, <2>2 DEF Fits
            <3> QED BY <1>4, <1>6, <3>1 DEF Written
        <2> QED BY <2>1, <2>2 DEF Fits
    <1>8. \A d \in Chats2 : Fits(d, streamBuf'[d], shown') BY <1>2, <1>4, <1>7
    <1>9. ASSUME NEW m \in DOMAIN o.shown, NEW x \in DOMAIN o.shown[m].text PROVE Chat(o.shown[m].text[x][1]) = o.shown[m].chat
        <2>1. CASE m = b.msg \/ m \notin DOMAIN shown
            <3>1. o.shown[m].chat = c /\ From(o.shown[m].text, b.text) BY <1>4, <2>1 DEF Written
            <3>2. PICK z \in DOMAIN b.text : o.shown[m].text[x] = b.text[z] BY <3>1 DEF From
            <3>3. Chat(b.text[z][1]) = c BY <1>3 DEF Ready, Fits
            <3> QED BY <3>1, <3>2, <3>3
        <2>2. CASE m # b.msg /\ m \in DOMAIN shown
            <3>1. o.shown[m] = shown[m] BY <1>4, <2>2 DEF Written
            <3> QED BY <2>2, <3>1 DEF HomeInv
        <2> QED BY <2>1, <2>2
    <1> QED BY <1>2, <1>8, <1>9, ShownAfter

\* Of the other streams of the chat, nothing is taken yet.
LEMMA OthersWait ==
    ASSUME StreamAssumption, LineAll, sending # Nothing, NEW s \in Streams \ lost, s # sending.s, Chat(s) = sending.chat, Live(s),
           NEW i \in Nat
    PROVE  ~TakenOf(s, i) /\ ~HeldNow(s, i)
    <1>1. DeliveryTyped /\ LineInv /\ SendTyped /\ SendInv /\ EndInv /\ ApartInv BY DEF LineAll
    <1>2. sending.s \in Streams \ {s} /\ Chat(sending.s) = Chat(s) BY <1>1, SendingIs
    <1>3. MoreOf(s)
        <2>1. CASE stream[s] = "open" BY <2>1 DEF MoreOf
        <2>2. CASE stream[s] = "ended" /\ s \notin finished
            <3>1. \E j \in DOMAIN Line : Line[j].s = s BY <1>1, <2>2 DEF EndInv
            <3> QED BY <3>1 DEF MoreOf
        <2> QED BY <2>1, <2>2 DEF Live
    <1>4. LineHas(s, 1) BY <1>1, <1>2, <1>3 DEF ApartInv
    <1>5. ~TakenOf(s, i)
        <2> SUFFICES ASSUME TakenOf(s, i) PROVE FALSE OBVIOUS
        <2>1. i \in 1..made[s] /\ ~LineHas(s, i) BY DEF TakenOf
        <2>2. i # 1 BY <1>4, <2>1
        <2>3. 1 < i BY <2>1, <2>2
        <2> QED BY <1>1, <1>4, <2>1, <2>3, LineUp
    <1>6. ~HeldNow(s, i) BY <1>1, HandIs
    <1> QED BY <1>5, <1>6

\* A stream that goes on keeps what was taken, and has what was sent.
LEMMA AttemptKeepsCover ==
    ASSUME StreamAssumption, LineAll, BufInv, CoverInv, NEW o, Tries(o)
    PROVE  CoverInv'
    <1>1. DeliveryTyped /\ LineInv /\ SendTyped /\ SendInv BY DEF LineAll
    <1>2. UNCHANGED <<kind, topic, made, stream>> /\ shown' = o.shown /\ sending # Nothing BY DEF Tries
    <1> DEFINE c == sending.chat
               b == Start
    <1>3. Ready(c, b) /\ (sending.kind = "end" => b = streamBuf[c]) BY <1>1, <1>2, StartIs
    <1>4. /\ Written(c, b, o.shown) /\ c \in Chats2 /\ streamBuf'[c] = o.buf
          /\ \A d \in Chats2 \ {c} : streamBuf'[d] = streamBuf[d]
        BY <1>1, TriesFits
    <1>5. lost \subseteq lost' /\ finished' = IF sending.kind = "end" /\ ~Retried(o) THEN finished \cup {sending.s} ELSE finished
        BY <1>1, TriesHistory
    <1>6. SUFFICES ASSUME NEW s \in Streams \ lost', LiveAfter(s), NEW i \in Nat, TakenOf(s, i)'
                   PROVE  /\ streamBuf'[Chat(s)].s = s /\ (kind # "matrix" => streamBuf'[Chat(s)].msg # NoMessage)
                          /\ Covered(Chat(s), streamBuf'[Chat(s)], o.shown, s, i)
        BY <1>2, ShownAfter
    <1>7. s \in Streams \ lost BY <1>5, <1>6
    <1>8. Live(s)
        <2>1. finished \subseteq finished' BY <1>5
        <2> QED BY <1>2, <1>6, <2>1 DEF Live, LiveAfter
    <1>9. TakenOf(s, i) \/ HeldNow(s, i) BY <1>1, <1>6, TakenAfter
    <1>10. Chat(s) \in Chats2 BY <1>1, ChatIn
    <1>11. TakenOf(s, i) => /\ streamBuf[Chat(s)].s = s /\ (kind # "matrix" => streamBuf[Chat(s)].msg # NoMessage)
                          /\ Covered(Chat(s), streamBuf[Chat(s)], shown, s, i)
        BY <1>7, <1>8 DEF CoverInv
    <1>12. CASE Chat(s) # c
        <2> DEFINE d == Chat(s)
        <2>1. ~HeldNow(s, i) BY <1>1, <1>12, HandIs
        <2>2. TakenOf(s, i) BY <1>9, <2>1
        <2>3. streamBuf'[d] = streamBuf[d] BY <1>4, <1>10, <1>12
        <2>4. d # c BY <1>12
        <2>5. Covered(d, streamBuf[d], shown, s, i) BY <1>11, <2>2
        <2> HIDE DEF c, d, b
        <2>6. \A e, m, x : Kept(d, streamBuf[d], o.shown, e, m, x) <=> Kept(d, streamBuf[d], shown, e, m, x)
            BY <1>3, <1>4, <2>4, OtherChats
        <2>7. Covered(d, streamBuf[d], o.shown, s, i) BY <2>5, <2>6 DEF Covered
        <2> QED BY <1>11, <2>2, <2>3, <2>7 DEF d
    <1>13. CASE Chat(s) = c /\ s # sending.s
        <2>1. ~TakenOf(s, i) /\ ~HeldNow(s, i) BY <1>2, <1>7, <1>8, <1>13, OthersWait
        <2> QED BY <1>9, <2>1
    <1>14. CASE Chat(s) = c /\ s = sending.s
        <2>1. /\ Covered(c, b, shown, s, i)
              /\ TakenOf(s, i) => streamBuf[c].s = s /\ (kind # "matrix" => b.msg # NoMessage)
            BY <1>2, <1>7, <1>8, <1>9, <1>14, CoverBase
        <2>2. sending.s \notin lost' BY <1>6, <1>14
        <2>3. IF sending.kind = "delta" THEN Delivers(o) ELSE Closes(o) BY <1>1, <2>2, TriesShape
        <2>4. Stays(c, b, o) => o.buf = b BY DEF Stays
        <2>5. CASE sending.kind = "delta"
            <3>1. /\ Stays(c, b, o) \/ PostsOf(c, b, o) \/ Goes(c, b, o)
                  /\ o.buf.s = s /\ (Retried(o) => Stays(c, b, o))
                  /\ ~Retried(o) => (kind # "matrix" => o.buf.msg # NoMessage)
                BY <1>14, <2>3, <2>5 DEF Delivers
            <3>2. kind # "matrix" => o.buf.msg # NoMessage
                <4>1. CASE ~Retried(o) BY <3>1, <4>1
                <4>2. CASE Retried(o)
                    <5>1. TakenOf(s, i) BY <1>1, <1>6, <4>2, TakenAfter
                    <5> QED BY <2>1, <2>4, <3>1, <4>2, <5>1
                <4> QED BY <4>1, <4>2
            <3> HIDE DEF c, b
            <3>3. Covered(c, o.buf, o.shown, s, i) BY <1>3, <2>1, <3>1, CoverKeeps
            <3> QED BY <1>4, <1>14, <3>1, <3>2, <3>3
        <2>6. CASE sending.kind # "delta"
            <3>1. sending.kind = "end" BY <1>1, <1>2, <2>6, SendingIs
            <3>2. Retried(o)
                <4>1. s \notin finished'
                    <5>1. stream[s] = "ended" BY <1>1, <1>14, <3>1 DEF SendInv
                    <5> QED BY <1>2, <1>6, <5>1 DEF LiveAfter
                <4> QED BY <1>5, <1>14, <3>1, <4>1
            <3>3. Stays(c, b, o) BY <2>3, <2>6, <3>2 DEF Closes
            <3>4. TakenOf(s, i) BY <1>1, <1>6, <3>2, TakenAfter
            <3>5. o.buf = b /\ b = streamBuf[c] BY <1>3, <2>4, <3>1, <3>3
            <3> HIDE DEF c, b
            <3>6. Covered(c, o.buf, o.shown, s, i) BY <1>3, <2>1, <3>3, CoverKeeps
            <3>7. streamBuf[c].s = s /\ (kind # "matrix" => b.msg # NoMessage) BY <2>1, <3>4
            <3> QED BY <1>4, <1>14, <3>5, <3>6, <3>7
        <2> QED BY <2>5, <2>6
    <1> QED BY <1>12, <1>13, <1>14

\* What is shown of a stream that has ended stays, and the end of a stream shows all of it.
LEMMA AttemptKeepsFixed ==
    ASSUME StreamAssumption, LineAll, BufInv, CoverInv, FixedInv, NEW o, Tries(o)
    PROVE  FixedInv'
    <1>1. DeliveryTyped /\ LineInv /\ SendTyped /\ SendInv BY DEF LineAll
    <1>2. UNCHANGED <<kind, topic, made, stream>> /\ shown' = o.shown /\ sending # Nothing BY DEF Tries
    <1> DEFINE c == sending.chat
               b == Start
    <1>3. Ready(c, b) /\ Ready(c, streamBuf[c]) /\ b.msg \in {NoMessage, streamBuf[c].msg} /\ (sending.kind = "end" => b = streamBuf[c])
        BY <1>1, <1>2, StartIs
    <1>4. /\ Written(c, b, o.shown) /\ c \in Chats2 /\ streamBuf'[c] = o.buf
          /\ \A d \in Chats2 \ {c} : streamBuf'[d] = streamBuf[d]
          /\ o.buf.msg \in {NoMessage, streamBuf[c].msg} \/ o.buf.msg \notin DOMAIN shown
        BY <1>1, TriesFits
    <1>5. lost \subseteq lost' /\ finished' = IF sending.kind = "end" /\ ~Retried(o) THEN finished \cup {sending.s} ELSE finished
        BY <1>1, TriesHistory
    <1>6. SUFFICES ASSUME NEW s \in finished' \ lost', NEW i \in 1..made[s]
                   PROVE  Fixed(Chat(s), streamBuf'[Chat(s)], o.shown, s, i)
        BY <1>2, ShownAfter
    <1>7. s \in Streams
        <2>1. finished' \subseteq Streams BY <1>1, TriesHistory
        <2> QED BY <1>6, <2>1
    <1>8. Chat(s) \in Chats2 BY <1>1, <1>7, ChatIn
    <1>9. CASE s \in finished /\ Chat(s) # c
        <2> DEFINE d == Chat(s)
        <2>1. Fixed(d, streamBuf[d], shown, s, i) BY <1>5, <1>6, <1>9 DEF FixedInv
        <2>2. streamBuf'[d] = streamBuf[d] /\ d # c BY <1>4, <1>8, <1>9
        <2> HIDE DEF c, d, b
        <2>3. \A e, m, x : Still(d, streamBuf[d], o.shown, e, m, x) <=> Still(d, streamBuf[d], shown, e, m, x)
            BY <1>3, <1>4, <2>2, OtherChats
        <2>4. Fixed(d, streamBuf[d], o.shown, s, i) BY <2>1, <2>3 DEF Fixed
        <2> QED BY <2>2, <2>4 DEF d
    <1>10. CASE s \in finished /\ Chat(s) = c
        <2>1. Fixed(c, streamBuf[c], shown, s, i) BY <1>5, <1>6, <1>10 DEF FixedInv
        <2> DEFINE old == streamBuf[c]
        <2> HIDE DEF c, b, old
        <2>2. ASSUME NEW e, NEW m, NEW x, Still(c, old, shown, e, m, x) PROVE Still(c, o.buf, o.shown, e, m, x)
            <3>1. m \in DOMAIN shown /\ m # old.msg /\ shown[m].chat = c /\ x \in DOMAIN shown[m].text /\ shown[m].text[x] = e
                BY <2>2 DEF Still
            <3>2. m # NoMessage BY <1>3, <3>1, ReadyIs
            <3>3. m # b.msg BY <1>3, <3>1, <3>2 DEF old
            <3>4. m \in DOMAIN o.shown /\ o.shown[m] = shown[m] BY <1>4, <3>1, <3>3 DEF Written
            <3>5. m # o.buf.msg BY <1>4, <3>1, <3>2 DEF old
            <3> QED BY <3>1, <3>4, <3>5 DEF Still
        <2>3. Fixed(c, old, shown, s, i) BY <2>1 DEF old
        <2>4. Fixed(c, o.buf, o.shown, s, i) BY <2>2, <2>3 DEF Fixed
        <2> QED BY <1>4, <1>10, <2>4
    <1>11. CASE s \notin finished
        <2>1. sending.kind = "end" /\ ~Retried(o) /\ s = sending.s BY <1>5, <1>6, <1>11
        <2>2. stream[s] = "ended" /\ (\A j \in DOMAIN Line : Line[j].s # s) /\ sending.text = <<>> /\ c = Chat(s)
            BY <1>1, <1>2, <2>1, SendingIs DEF SendInv
        <2>3. \A k \in 1..made[s] : TakenOf(s, k)
            <3>1. \A k : ~LineHas(s, k) BY <2>2 DEF LineHas
            <3>2. \A k : ~HeldNow(s, k) BY <2>2 DEF HeldNow
            <3> QED BY <3>1, <3>2 DEF TakenOf
        <2>4. i \in Nat /\ s \in Streams \ lost
            <3>1. i \in Nat BY <1>6
            <3> QED BY <1>5, <1>6, <1>7, <3>1
        <2>5. /\ streamBuf[c].s = s /\ (kind # "matrix" => streamBuf[c].msg # NoMessage)
              /\ Covered(c, streamBuf[c], shown, s, i)
            <3>1. TakenOf(s, i) BY <1>6, <2>3
            <3>2. Live(s) BY <1>11, <2>2 DEF Live
            <3> QED BY <2>2, <2>4, <3>1, <3>2 DEF CoverInv
        <2>6. Closes(o)
            <3>1. sending.s \notin lost' BY <1>6, <2>1
            <3>2. sending.kind # "delta" BY <2>1
            <3> QED BY <1>1, <3>1, <3>2, TriesShape
        <2>7. Ends(c, b, o)
            <3>1. Ends(c, b, o) \/ (NotMine(sending) /\ kind # "matrix") BY <2>1, <2>6 DEF Closes
            <3>2. kind # "matrix" => ~NotMine(sending) BY <2>1, <2>5 DEF NotMine
            <3> QED BY <3>1, <3>2
        <2>8. b = streamBuf[c] BY <1>3, <2>1
        <2>9. Covered(c, b, shown, s, i) BY <2>5, <2>8
        <2> HIDE DEF c, b
        <2>10. Fixed(c, o.buf, o.shown, s, i) BY <1>3, <2>7, <2>9, CoverEnds
        <2> QED BY <1>4, <2>2, <2>10
    <1> QED BY <1>9, <1>10, <1>11

\* Of a stream that is not at stake nothing moves.
LEMMA NotAtStake ==
    ASSUME StreamAssumption, LineAll, BufInv, NEW o, Tries(o), NEW s, s \notin AtStake(sending), NEW i, NEW m, NEW x
    PROVE  Spot(sending.chat, o.buf, o.shown, <<s, i>>, m, x) => Spot(sending.chat, streamBuf[sending.chat], shown, <<s, i>>, m, x)
    <1> DEFINE c == sending.chat
               b == Start
               old == streamBuf[c]
               t == sending.text
               e == <<s, i>>
    <1>1. DeliveryTyped /\ SendTyped /\ SendInv /\ sending # Nothing BY DEF LineAll, Tries
    <1>2. /\ Ready(c, b) /\ Ready(c, old)
          /\ (b.msg = old.msg /\ b.text = old.text \o t) \/ (b.msg = NoMessage /\ b.text = t)
        BY <1>1, StartIs
    <1>3. Written(c, b, o.shown) /\ (From(o.buf.text, b.text) \/ o.buf = old) BY <1>1, TriesFits
    <1>4. (\A z \in DOMAIN t : t[z] # e) /\ \A z \in DOMAIN old.text : old.text[z] # e
        <2>1. /\ \A z \in DOMAIN t : t[z][1] \in AtStake(sending)
              /\ \A z \in DOMAIN old.text : old.text[z][1] \in AtStake(sending)
            BY <1>1, StakeIs
        <2>2. e[1] = s OBVIOUS
        <2> HIDE DEF t, old, e, c
        <2> QED BY <2>1, <2>2
    <1>5. old.text \in Seq(Streams \X Nat) /\ t \in Seq(Streams \X Nat) BY <1>1, <1>2, ReadyIs, SendingIs DEF Texts
    <1> HIDE DEF c, b, old, t, e
    <1>6. \A z \in DOMAIN b.text : b.text[z] # e
        <2>1. CASE b.text = t BY <1>4, <2>1
        <2>2. CASE b.text = old.text \o t
            <3>1. /\ DOMAIN (old.text \o t) = 1..Len(old.text) + Len(t)
                  /\ \A j \in 1..Len(old.text) : (old.text \o t)[j] = old.text[j]
                  /\ \A j \in 1..Len(t) : (old.text \o t)[Len(old.text) + j] = t[j]
                BY <1>5, Joined
            <3>2. DOMAIN old.text = 1..Len(old.text) /\ Len(old.text) \in Nat /\ DOMAIN t = 1..Len(t) /\ Len(t) \in Nat BY <1>5, SeqIs
            <3> DEFINE L == Len(old.text)
                       w == old.text \o t
            <3> HIDE DEF L, w
            <3>3. /\ DOMAIN w = 1..L + Len(t) /\ (\A j \in 1..L : w[j] = old.text[j]) /\ \A j \in 1..Len(t) : w[L + j] = t[j]
                  /\ DOMAIN old.text = 1..L /\ L \in Nat /\ DOMAIN t = 1..Len(t) /\ Len(t) \in Nat
                BY <3>1, <3>2 DEF L, w
            <3>4. ASSUME NEW z \in DOMAIN w PROVE w[z] # e
                <4>1. CASE z \in 1..L BY <1>4, <3>3, <4>1
                <4>2. CASE z \notin 1..L
                    <5>1. z - L \in DOMAIN t /\ z = L + (z - L) BY <3>3, <4>2
                    <5>2. w[L + (z - L)] = t[z - L] BY <3>3, <5>1
                    <5> QED BY <1>4, <5>1, <5>2
                <4> QED BY <4>1, <4>2
            <3> QED BY <2>2, <3>4 DEF w
        <2> QED BY <1>2, <2>1, <2>2
    <1>7. SUFFICES ASSUME Spot(c, o.buf, o.shown, e, m, x) PROVE Spot(c, old, shown, e, m, x) BY DEF c, old, e
    <1>8. ~Growing(o.buf, e, m, x)
        <2>1. \A z \in DOMAIN o.buf.text : o.buf.text[z] # e BY <1>3, <1>4, <1>6 DEF From
        <2> QED BY <2>1 DEF Growing
    <1>9. m \in DOMAIN o.shown /\ o.shown[m].chat = c /\ x \in DOMAIN o.shown[m].text /\ o.shown[m].text[x] = e
        <2>1. Still(c, o.buf, o.shown, e, m, x) BY <1>7, <1>8, SpotIs
        <2> QED BY <2>1 DEF Still
    <1>10. m \in DOMAIN shown /\ o.shown[m] = shown[m]
        <2>1. CASE m = b.msg \/ m \notin DOMAIN shown
            <3>1. From(o.shown[m].text, b.text) BY <1>3, <1>9, <2>1 DEF Written
            <3> QED BY <1>6, <1>9, <3>1 DEF From
        <2>2. CASE m # b.msg /\ m \in DOMAIN shown BY <1>3, <2>2 DEF Written
        <2> QED BY <2>1, <2>2
    <1>11. CASE m = old.msg
        <2>1. old.msg # NoMessage BY <1>2, <1>10, <1>11, ReadyIs
        <2>2. Starts(shown[old.msg].text, old.text) BY <1>2, <2>1, ReadyIs
        <2>3. Growing(old, e, m, x) BY <1>9, <1>10, <1>11, <2>2 DEF Starts, Growing
        <2> QED BY <2>3, SpotIs
    <1>12. CASE m # old.msg
        <2>1. Still(c, old, shown, e, m, x) BY <1>9, <1>10, <1>12 DEF Still
        <2> QED BY <2>1, SpotIs
    <1> QED BY <1>11, <1>12

LEMMA AttemptKeepsOnce ==
    ASSUME StreamAssumption, LineAll, BufInv, OnceInv, NEW o, Tries(o)
    PROVE  OnceInv'
    <1>1. DeliveryTyped /\ LineInv /\ SendTyped /\ SendInv BY DEF LineAll
    <1>2. UNCHANGED <<kind, topic, made, stream>> /\ shown' = o.shown /\ sending # Nothing BY DEF Tries
    <1> DEFINE c == sending.chat
               b == Start
    <1>3. Ready(c, b) BY <1>1, <1>2, StartIs
    <1>4. /\ Written(c, b, o.shown) /\ c \in Chats2 /\ streamBuf'[c] = o.buf
          /\ \A d \in Chats2 \ {c} : streamBuf'[d] = streamBuf[d]
        BY <1>1, TriesFits
    <1>5. /\ lost \subseteq lost' /\ failed \subseteq failed'
          /\ o.how \in {"raised", "refused", "swallowed", "lost"} => AtStake(sending) \subseteq failed' \cup lost'
        BY <1>1, TriesHistory
    <1>6. SUFFICES ASSUME NEW s \in Streams \ (failed' \cup lost'), NEW i \in Nat
                   PROVE  /\ Once(Chat(s), streamBuf'[Chat(s)], o.shown, s, i)
                          /\ \A m, x \in Nat : Spot(Chat(s), streamBuf'[Chat(s)], o.shown, <<s, i>>, m, x) => TakenOf(s, i)'
        BY <1>2, ShownAfter
    <1>7. s \in Streams \ (failed \cup lost) BY <1>5, <1>6
    <1>8. Chat(s) \in Chats2 BY <1>1, <1>7, ChatIn
    <1>9. /\ TakenOf(s, i) => TakenOf(s, i)'
          /\ ~Retried(o) => (TakenOf(s, i)' <=> TakenOf(s, i) \/ HeldNow(s, i))
        BY <1>1, TakenAfter
    <1> DEFINE d == Chat(s)
               old == streamBuf[d]
               e == <<s, i>>
    <1>10. /\ Once(d, old, shown, s, i)
           /\ \A m, x \in Nat : Spot(d, old, shown, e, m, x) => TakenOf(s, i)
        BY <1>7 DEF OnceInv
    <1>11. CASE d # c
        <2>1. streamBuf'[d] = old BY <1>4, <1>8, <1>11
        <2> HIDE DEF c, d, b, old, e
        <2>2. \A m, x : Spot(d, old, o.shown, e, m, x) <=> Spot(d, old, shown, e, m, x)
            BY <1>3, <1>4, <1>11, OtherChats
        <2>3. Once(d, old, o.shown, s, i) BY <1>10, <2>2 DEF Once, e
        <2> QED BY <1>9, <1>10, <2>1, <2>2, <2>3 DEF d, e
    <1>12. CASE d = c /\ o.how # "done"
        <2>1. o.how \in {"done", "raised", "refused", "swallowed", "lost"} BY <1>1, TriesShape
        <2>2. s \notin AtStake(sending) BY <1>5, <1>6, <1>12, <2>1
        <2>3. \A m, x : Spot(c, o.buf, o.shown, e, m, x) => Spot(c, streamBuf[c], shown, e, m, x) BY <2>2, NotAtStake
        <2>4. streamBuf'[d] = o.buf BY <1>4, <1>12
        <2>5. streamBuf[c] = old BY <1>12
        <2> HIDE DEF c, d, b, old, e
        <2>6. \A m, x : Spot(d, o.buf, o.shown, e, m, x) => Spot(d, old, shown, e, m, x) BY <1>12, <2>3, <2>5
        <2>7. Once(d, o.buf, o.shown, s, i) BY <1>10, <2>6 DEF Once, e
        <2> QED BY <1>9, <1>10, <2>4, <2>6, <2>7 DEF d, e
    <1>13. CASE d = c /\ o.how = "done"
        <2>1. /\ Once(c, b, shown, s, i)
              /\ \A m, x \in Nat : Spot(c, b, shown, e, m, x) => TakenOf(s, i) \/ HeldNow(s, i)
            BY <1>2, <1>7, <1>13, OnceBase
        <2>2. Stays(c, b, o) \/ PostsOf(c, b, o) \/ Goes(c, b, o) \/ Ends(c, b, o) BY <1>1, <1>13, TriesShape
        <2>3. ~Retried(o) BY <1>13 DEF Retried
        <2>4. streamBuf'[d] = o.buf BY <1>4, <1>13
        <2> HIDE DEF c, d, b, old
        <2>5. /\ Once(c, o.buf, o.shown, s, i)
              /\ \A m, x \in Nat : Spot(c, o.buf, o.shown, <<s, i>>, m, x) => \E n, y \in Nat : Spot(c, b, shown, <<s, i>>, n, y)
            BY <1>3, <1>13, <2>1, <2>2, OnceKeeps
        <2> QED BY <1>9, <1>13, <2>1, <2>3, <2>4, <2>5 DEF d
    <1> QED BY <1>11, <1>12, <1>13

----------------------------------------------------------------------------
(* The other steps, and the first state. *)

ShownAll == BufInv /\ HomeInv /\ CoverInv /\ FixedInv /\ OnceInv

LEMMA SameShown ==
    ASSUME FixedInv, BufInv, HomeInv, CoverInv, OnceInv, UNCHANGED <<kind, topic, streamBuf, shown, failed, finished>>, lost \subseteq lost',
           \A s \in Streams, i \in Nat : TakenOf(s, i)' <=> TakenOf(s, i),
           \A s \in Streams, i \in Nat : LiveAfter(s) /\ TakenOf(s, i) => Live(s),
           \A s \in finished : made'[s] = made[s],
           DeliveryTyped
    PROVE  ShownAll'
    <1>1. BufInv' BY ShownAfter DEF BufInv
    <1>2. HomeInv' BY ShownAfter DEF HomeInv
    <1>3. CoverInv' BY ShownAfter DEF CoverInv
    <1>4. FixedInv'
        <2>1. finished \subseteq Streams BY DEF DeliveryTyped
        <2>2. \A s \in finished \ lost' : \A i \in 1..made'[s] : Fixed(Chat(s), streamBuf[Chat(s)], shown, s, i) BY DEF FixedInv
        <2> QED BY <2>2, ShownAfter
    <1>5. OnceInv' BY ShownAfter DEF OnceInv
    <1> QED BY <1>1, <1>2, <1>3, <1>4, <1>5 DEF ShownAll

LEMMA PieceKeepsShown ==
    ASSUME LineAll, ShownAll, NEW t \in Streams, Piece(t)
    PROVE  ShownAll'
    <1> DEFINE e == Message("delta", t, <<<<t, made[t] + 1>>>>)
    <1>1. DeliveryTyped /\ LineInv /\ EndInv BY DEF LineAll
    <1>2. UNCHANGED <<kind, topic, streamBuf, shown, failed, finished>> BY DEF Piece
    <1>3. /\ e \in Units /\ Grows(e) /\ e.kind = "delta" /\ e.s = t /\ Num(e) = made[t] + 1 /\ made[t] \in Nat
          /\ sending' = sending /\ made' = [made EXCEPT ![t] = @ + 1] /\ stream' = [stream EXCEPT ![t] = "open"]
          /\ stream[t] \in {"new", "open"} /\ lost \subseteq lost'
        BY <1>1, PieceGrows
    <1> HIDE DEF e
    <1>4. \A s \in Streams, i \in Nat : TakenOf(s, i)' <=> TakenOf(s, i)
        <2>1. made' = [made EXCEPT ![e.s] = @ + 1] /\ made[e.s] \in Nat /\ Num(e) = made[e.s] + 1 BY <1>3
        <2> QED BY <1>1, <1>3, <2>1, TakenGrown
    <1>5. made \in [Streams -> Nat] /\ stream \in [Streams -> {"new", "open", "ended", "dropped"}] /\ finished \subseteq Streams
        BY <1>1 DEF DeliveryTyped
    <1>6. ASSUME NEW s \in Streams, NEW i \in Nat, LiveAfter(s), TakenOf(s, i) PROVE Live(s)
        <2>1. CASE s = t
            <3>1. stream[t] # "new"
                <4>1. i \in 1..made[t] BY <1>6, <2>1 DEF TakenOf
                <4>2. made[t] # 0 BY <4>1
                <4> QED BY <1>1, <4>2 DEF LineInv
            <3> QED BY <1>3, <2>1, <3>1 DEF Live
        <2>2. CASE s # t
            <3>1. stream'[s] = stream[s] BY <1>3, <1>5, <2>2
            <3> QED BY <1>2, <1>6, <3>1 DEF Live, LiveAfter
        <2> QED BY <2>1, <2>2
    <1>7. ASSUME NEW s \in finished PROVE made'[s] = made[s]
        <2>1. stream[s] = "ended" BY <1>1, <1>5 DEF EndInv
        <2>2. s # t BY <1>3, <2>1
        <2> QED BY <1>3, <1>5, <2>2
    <1> QED BY <1>1, <1>2, <1>3, <1>4, <1>6, <1>7, SameShown DEF ShownAll

LEMMA EndKeepsShown ==
    ASSUME LineAll, ShownAll, NEW t \in Streams, EndOfStream(t)
    PROVE  ShownAll'
    <1> DEFINE e == Message("end", t, <<>>)
    <1>1. DeliveryTyped BY DEF LineAll
    <1>2. UNCHANGED <<kind, topic, streamBuf, shown, failed, finished>> BY DEF EndOfStream, streamHistory
    <1>3. /\ e \in Units /\ Grows(e) /\ e.kind = "end" /\ sending' = sending /\ made' = made
          /\ stream' = [stream EXCEPT ![t] = "ended"] /\ stream[t] = "open" /\ lost' = lost
        BY <1>1, EndGrows
    <1> HIDE DEF e
    <1>4. \A s \in Streams, i \in Nat : TakenOf(s, i)' <=> TakenOf(s, i) BY <1>1, <1>3, TakenGrown
    <1>5. stream \in [Streams -> {"new", "open", "ended", "dropped"}] BY <1>1 DEF DeliveryTyped
    <1>6. ASSUME NEW s \in Streams, LiveAfter(s) PROVE Live(s)
        <2>1. CASE s = t BY <1>3, <2>1 DEF Live
        <2>2. CASE s # t
            <3>1. stream'[s] = stream[s] BY <1>3, <1>5, <2>2
            <3> QED BY <1>2, <1>6, <3>1 DEF Live, LiveAfter
        <2> QED BY <2>1, <2>2
    <1> QED BY <1>1, <1>2, <1>3, <1>4, <1>6, SameShown DEF ShownAll

LEMMA DropKeepsShown ==
    ASSUME LineAll, ShownAll, NEW t \in Streams, DropStream(t)
    PROVE  ShownAll'
    <1>1. DeliveryTyped BY DEF LineAll
    <1>2. UNCHANGED <<kind, topic, made, outq, pending, sending, streamBuf, shown, failed, lost, finished>> BY DEF DropStream, streamHistory
    <1>3. stream' = [stream EXCEPT ![t] = "dropped"] BY DEF DropStream
    <1>4. \A s \in Streams, i \in Nat : TakenOf(s, i)' <=> TakenOf(s, i)
        <2>1. Line' = Line BY <1>2 DEF Line
        <2> QED BY <1>2, <2>1 DEF TakenOf, LineHas, HeldNow, Num
    <1>5. stream \in [Streams -> {"new", "open", "ended", "dropped"}] BY <1>1 DEF DeliveryTyped
    <1>6. ASSUME NEW s \in Streams, LiveAfter(s) PROVE Live(s)
        <2>1. s # t BY <1>3, <1>5, <1>6 DEF LiveAfter
        <2>2. stream'[s] = stream[s] BY <1>3, <1>5, <2>1
        <2> QED BY <1>2, <1>6, <2>2 DEF Live, LiveAfter
    <1> QED BY <1>1, <1>2, <1>4, <1>6, SameShown DEF ShownAll

LEMMA DispatchKeepsShown ==
    ASSUME StreamAssumption, LineAll, ShownAll, DispatchNext
    PROVE  ShownAll'
    <1>1. DeliveryTyped BY DEF LineAll
    <1>2. UNCHANGED <<kind, topic, made, stream, streamBuf, shown, failed, finished>> BY DEF DispatchNext
    <1>3. \A s \in Streams, i \in Nat : TakenOf(s, i)' <=> TakenOf(s, i) BY DispatchKeepsLine
    <1>4. lost \subseteq lost'
        <2>1. \A k \in 1..Len(Line) : Takes(k) => lost \subseteq lost' BY DEF Takes
        <2> QED BY <1>1, <2>1, DispatchTakes
    <1>5. \A s \in Streams : LiveAfter(s) => Live(s) BY <1>2 DEF Live, LiveAfter
    <1> QED BY <1>1, <1>2, <1>3, <1>4, <1>5, SameShown DEF ShownAll

LEMMA StreamInitInv ==
    ASSUME StreamAssumption, StreamInit
    PROVE  LineAll /\ ShownAll
    <1>1. /\ kind \in Kinds /\ topic \in [Streams -> Topics] /\ made = [s \in Streams |-> 0] /\ stream = [s \in Streams |-> "new"]
          /\ outq = <<>> /\ pending = <<>> /\ sending = Nothing
          /\ streamBuf = [c \in Chats2 |-> NoBuf] /\ shown = <<>>
          /\ failed = {} /\ lost = {} /\ finished = {}
        BY DEF StreamInit, StreamAssumption
    <1>2. Line = <<>> /\ DOMAIN Line = {} BY <1>1 DEF Line
    <1>3. sending.kind = "none" /\ sending.s = 0 /\ DOMAIN sending.text = {} /\ 0 \notin Streams BY <1>1 DEF Nothing, StreamAssumption
    <1>4. \A s, i : ~LineHas(s, i) /\ ~HeldNow(s, i) BY <1>2, <1>3 DEF LineHas, HeldNow
    <1>5. \A s \in Streams : made[s] = 0 /\ stream[s] = "new" BY <1>1
    <1>6. \A s \in Streams, i \in Nat : ~TakenOf(s, i) BY <1>5 DEF TakenOf
    <1>7. \A c \in Chats2 : NoBuf \in Buffers /\ Fits(c, NoBuf, shown) /\ streamBuf[c] = NoBuf BY <1>1, EmptyFits
    <1>8. DOMAIN shown = {} /\ NoBuf.text = <<>> /\ DOMAIN NoBuf.text = {} BY <1>1 DEF NoBuf
    <1>9. DeliveryTyped
        <2>1. streamBuf \in [Chats2 -> Buffers] BY <1>1, <1>7
        <2>2. outq \in Seq(Units) /\ pending \in Seq(Units) /\ Len(pending) <= 1 /\ shown \in Seq([chat : Chats2, text : Texts]) BY <1>1
        <2> QED BY <1>1, <2>1, <2>2 DEF DeliveryTyped, Buffers
    <1>10. LineInv BY <1>2, <1>5 DEF LineInv
    <1>11. SendTyped BY <1>1 DEF SendTyped
    <1>12. SendInv BY <1>3 DEF SendInv
    <1>13. EndInv BY <1>1, <1>5 DEF EndInv
    <1>14. ApartInv BY <1>2, <1>3, <1>5 DEF ApartInv
    <1>15. BufInv BY <1>7 DEF BufInv
    <1>16. HomeInv BY <1>8 DEF HomeInv
    <1>17. CoverInv BY <1>6 DEF CoverInv
    <1>18. FixedInv BY <1>1 DEF FixedInv
    <1>19. OnceInv
        <2>1. \A s \in Streams : streamBuf[Chat(s)] = NoBuf BY <1>7, <1>9, ChatIn
        <2>2. \A c, e, m, x : ~Spot(c, NoBuf, shown, e, m, x)
            <3>1. \A c, e, m, x : ~Still(c, NoBuf, shown, e, m, x) BY <1>8 DEF Still
            <3>2. \A e, m, x : ~Growing(NoBuf, e, m, x) BY <1>8 DEF Growing
            <3> QED BY <3>1, <3>2, SpotIs
        <2> QED BY <2>1, <2>2 DEF OnceInv, Once
    <1> QED BY <1>9, <1>10, <1>11, <1>12, <1>13, <1>14, <1>15, <1>16, <1>17, <1>18, <1>19 DEF LineAll, ShownAll

LEMMA StreamNextInv ==
    ASSUME StreamAssumption, LineAll, ShownAll, [StreamNext]_streamVars
    PROVE  LineAll' /\ ShownAll'
    <1>1. CASE \E s \in Streams : Piece(s)
        <2>1. PICK s \in Streams : Piece(s) BY <1>1
        <2> QED BY <2>1, PieceKeepsLine, PieceKeepsShown
    <1>2. CASE \E s \in Streams : EndOfStream(s)
        <2>1. PICK s \in Streams : EndOfStream(s) BY <1>2
        <2> QED BY <2>1, EndKeepsLine, EndKeepsShown
    <1>3. CASE \E s \in Streams : DropStream(s)
        <2>1. PICK s \in Streams : DropStream(s) BY <1>3
        <2> QED BY <2>1, DropKeepsLine, DropKeepsShown
    <1>4. CASE DispatchNext BY <1>4, DispatchKeepsLine, DispatchKeepsShown
    <1>5. CASE Attempt
        <2>1. PICK o : Tries(o) BY <1>5, AttemptTries
        <2>2. BufInv /\ HomeInv /\ CoverInv /\ FixedInv /\ OnceInv BY DEF ShownAll
        <2>3. LineAll' BY <2>1, <2>2, TriesKeepsLine
        <2>4. BufInv' /\ HomeInv' BY <2>1, <2>2, AttemptKeepsBuf
        <2>5. CoverInv' BY <2>1, <2>2, AttemptKeepsCover
        <2>6. FixedInv' BY <2>1, <2>2, AttemptKeepsFixed
        <2>7. OnceInv' BY <2>1, <2>2, AttemptKeepsOnce
        <2> QED BY <2>3, <2>4, <2>5, <2>6, <2>7 DEF ShownAll
    <1>6. CASE UNCHANGED streamVars
        <2>1. UNCHANGED <<kind, topic, made, stream, outq, pending, sending, streamBuf, shown, fails, failed, lost, finished>>
            BY <1>6 DEF streamVars
        <2>2. Line' = Line BY <2>1 DEF Line
        <2>3. LineAll'
            <3>1. DeliveryTyped /\ LineInv /\ SendTyped /\ SendInv /\ EndInv /\ ApartInv BY DEF LineAll
            <3>2. Units' = Units /\ \A t : Chat(t)' = Chat(t) BY <2>1, SameChats
            <3>3. \A t, i : (LineHas(t, i)' <=> LineHas(t, i)) /\ (HeldNow(t, i)' <=> HeldNow(t, i))
                BY <2>1, <2>2 DEF LineHas, HeldNow, Num
            <3>4. DeliveryTyped' BY <2>1, <3>1, <3>2 DEF DeliveryTyped, Chats2, Texts
            <3>5. LineInv' BY <2>1, <2>2, <3>1, <3>3 DEF LineInv, Num
            <3>6. SendTyped'
                <4>1. Chat(sending.s)' = Chat(sending.s) BY <2>1 DEF Chat
                <4> QED BY <2>1, <3>1, <4>1 DEF SendTyped, Chats2, Texts
            <3>7. SendInv' BY <2>1, <2>2, <3>1, <3>2, <3>3 DEF SendInv
            <3>8. EndInv' BY <2>1, <2>2, <3>1 DEF EndInv
            <3>9. ApartInv'
                <4>1. \A a : MoreOf(a)' <=> MoreOf(a) BY <2>1, <2>2 DEF MoreOf
                <4> QED BY <2>1, <2>2, <3>1, <3>2, <3>3, <4>1 DEF ApartInv
            <3> QED BY <3>4, <3>5, <3>6, <3>7, <3>8, <3>9 DEF LineAll
        <2>4. ShownAll'
            <3>1. DeliveryTyped BY DEF LineAll
            <3>2. \A s, i : TakenOf(s, i)' <=> TakenOf(s, i) BY <2>1, <2>2 DEF TakenOf, LineHas, HeldNow, Num
            <3>3. \A s : LiveAfter(s) => Live(s) BY <2>1 DEF Live, LiveAfter
            <3> QED BY <2>1, <3>1, <3>2, <3>3, SameShown DEF ShownAll
        <2> QED BY <2>3, <2>4
    <1> QED BY <1>1, <1>2, <1>3, <1>4, <1>5, <1>6 DEF StreamNext

----------------------------------------------------------------------------
(* The properties. *)

LEMMA PlacesAre ==
    ASSUME NEW s, NEW i
    PROVE  /\ \A m, x : <<m, x>> \in Places(s, i) <=> m \in DOMAIN shown /\ x \in DOMAIN shown[m].text /\ shown[m].text[x] = <<s, i>>
           /\ \A p \in Places(s, i) : p = <<p[1], p[2]>>
    BY DEF Places

LEMMA OnePlace == ASSUME NEW S, \A p, q \in S : p = q PROVE Cardinality(S) <= 1
    <1>1. CASE S = {}
        <2>1. Cardinality(S) = 0 BY <1>1, FS_EmptySet
        <2> QED BY <2>1
    <1>2. CASE S # {}
        <2>1. PICK p \in S : TRUE BY <1>2
        <2>2. S = {p} BY <2>1
        <2>3. Cardinality({p}) = 1 BY FS_Singleton
        <2> QED BY <2>2, <2>3
    <1> QED BY <1>1, <1>2

LEMMA ShownSound ==
    ASSUME DeliveryTyped, ShownAll
    PROVE  StreamSound
    <1>1. BufInv /\ HomeInv /\ FixedInv /\ OnceInv BY DEF ShownAll
    <1>2. AllShown
        <2> SUFFICES ASSUME NEW s \in finished \ lost, NEW i \in 1..made[s]
                     PROVE  \E p \in Places(s, i) : i > 1 => \E q \in Places(s, i - 1) : Before(q, p)
            BY DEF AllShown
        <2> DEFINE c == Chat(s)
                   b == streamBuf[c]
        <2>1. PICK m, x \in Nat :
                  /\ Still(c, b, shown, <<s, i>>, m, x)
                  /\ i > 1 => \E n, y \in Nat : Still(c, b, shown, <<s, i - 1>>, n, y) /\ Before(<<n, y>>, <<m, x>>)
            BY <1>1 DEF FixedInv, Fixed
        <2>2. <<m, x>> \in Places(s, i) BY <2>1, PlacesAre DEF Still
        <2>3. ASSUME i > 1 PROVE \E q \in Places(s, i - 1) : Before(q, <<m, x>>)
            <3>1. PICK n, y \in Nat : Still(c, b, shown, <<s, i - 1>>, n, y) /\ Before(<<n, y>>, <<m, x>>) BY <2>1, <2>3
            <3>2. <<n, y>> \in Places(s, i - 1) BY <3>1, PlacesAre DEF Still
            <3> QED BY <3>1, <3>2
        <2> QED BY <2>2, <2>3
    <1>3. ShownOnce
        <2> SUFFICES ASSUME NEW s \in Streams \ (failed \cup lost), NEW i \in 1..made[s] PROVE Cardinality(Places(s, i)) <= 1
            BY DEF ShownOnce
        <2> DEFINE c == Chat(s)
                   b == streamBuf[c]
                   e == <<s, i>>
        <2>1. i \in Nat /\ c \in Chats2 BY ChatIn
        <2>2. \A m, x \in Nat : Spot(c, b, shown, e, m, x) => \A n, y \in Nat : Spot(c, b, shown, e, n, y) => n = m /\ y = x
            BY <1>1, <2>1 DEF OnceInv, Once
        <2>3. ASSUME NEW m, NEW x, <<m, x>> \in Places(s, i) PROVE m \in Nat /\ x \in Nat /\ Spot(c, b, shown, e, m, x)
            <3>1. m \in DOMAIN shown /\ x \in DOMAIN shown[m].text /\ shown[m].text[x] = e BY <2>3, PlacesAre
            <3>2. shown \in Seq(Msgs) BY DEF DeliveryTyped, Msgs
            <3>3. DOMAIN shown = 1..Len(shown) /\ Len(shown) \in Nat /\ shown[m] \in Msgs BY <3>1, <3>2, SeqIs
            <3>4. shown[m].text \in Seq(Streams \X Nat) BY <3>3 DEF Msgs, Texts
            <3>5. DOMAIN shown[m].text = 1..Len(shown[m].text) /\ Len(shown[m].text) \in Nat BY <3>4, SeqIs
            <3>6. m \in Nat /\ x \in Nat BY <3>1, <3>3, <3>5
            <3>7. shown[m].chat = c
                <4>1. Chat(shown[m].text[x][1]) = shown[m].chat BY <1>1, <3>1 DEF HomeInv
                <4>2. shown[m].text[x][1] = s BY <3>1
                <4> QED BY <4>1, <4>2
            <3>8. CASE m = b.msg
                <4>1. m # NoMessage BY <3>1, <3>3 DEF NoMessage
                <4>2. Fits(c, b, shown) BY <1>1, <2>1 DEF BufInv
                <4>3. x \in DOMAIN b.text /\ b.text[x] = shown[m].text[x] BY <3>1, <3>8, <4>1, <4>2 DEF Fits
                <4>4. Growing(b, e, m, x) BY <3>1, <3>8, <4>3 DEF Growing
                <4> QED BY <3>6, <4>4, SpotIs
            <3>9. CASE m # b.msg
                <4>1. Still(c, b, shown, e, m, x) BY <3>1, <3>7, <3>9 DEF Still
                <4> QED BY <3>6, <4>1, SpotIs
            <3> QED BY <3>8, <3>9
        <2> HIDE DEF c, b, e
        <2>4. ASSUME NEW p \in Places(s, i), NEW q \in Places(s, i) PROVE p = q
            <3>1. p = <<p[1], p[2]>> /\ q = <<q[1], q[2]>> BY PlacesAre
            <3>2. <<p[1], p[2]>> \in Places(s, i) /\ <<q[1], q[2]>> \in Places(s, i) BY <3>1
            <3>3. p[1] = q[1] /\ p[2] = q[2] BY <2>2, <2>3, <3>2
            <3> QED BY <3>1, <3>3
        <2> QED BY <2>4, OnePlace
    <1> QED BY <1>2, <1>3 DEF StreamSound

\* Whatever is merged, split, retried or edited: when the end of a stream was taken, the chat shows all of it in
\* its order, unless something of it was given up or it shared its chat with another one; and it shows nothing
\* twice, unless an attempt failed (ChannelManager._dispatch_outbound, send_delta of the channels).
THEOREM StreamsKept == StreamSpec => []StreamSound
    <1>1. StreamInit => LineAll /\ ShownAll BY StreamInitInv, StreamAssumption
    <1>2. (LineAll /\ ShownAll) /\ [StreamNext]_streamVars => (LineAll /\ ShownAll)' BY StreamNextInv, StreamAssumption
    <1>3. LineAll /\ ShownAll => StreamSound BY ShownSound DEF LineAll
    <1> QED BY <1>1, <1>2, <1>3, PTL DEF StreamSpec

================================================================================
