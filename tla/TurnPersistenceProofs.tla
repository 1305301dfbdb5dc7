------------------------- MODULE TurnPersistenceProofs -------------------------
(* Proofs about TurnPersistence.  The rows a turn leaves in its session have their types and   *)
(* stand in the order they were made, and the checkpoint saved is that of the last turn,       *)
(* whatever interruption, recovery, command or follow-up wrote them.  Where interruptions are  *)
(* all that disturbs the turns, the session never holds half a tool exchange, an unanswered    *)
(* message is closed, nothing is saved twice, and a turn that ends has all of it saved.        *)
EXTENDS MCTurnPersistence, FiniteSetTheorems, LoopLemmas, TLAPS

----------------------------------------------------------------------------
(* Least and greatest indices. *)

\* Earliest is the least of a set, Latest the greatest of a bounded one.
LEMMA EarliestIs ==
    ASSUME NEW S \in SUBSET Nat, S # {} PROVE Earliest(S) \in S /\ \A j \in S : Earliest(S) <= j
    BY LeastNumber DEF Earliest

\* Mirrored at n, the greatest of a set is the least of another.
LEMMA LatestIs ==
    ASSUME NEW n \in Nat, NEW S \in SUBSET (0..n), S # {}
    PROVE  Latest(S) \in S /\ \A j \in S : j <= Latest(S)
    <1> DEFINE T == {n - i : i \in S}
    <1>1. T \in SUBSET Nat /\ T # {}
        <2>1. \A i \in S : n - i \in Nat OBVIOUS
        <2> QED BY <2>1
    <1>2. PICK t \in T : \A u \in T : t <= u
        <2> HIDE DEF T
        <2> QED BY <1>1, LeastNumber
    <1>3. PICK i \in S : t = n - i BY <1>2
    <1>4. \A j \in S : n - i <= n - j BY <1>2, <1>3
    <1>5. \A j \in S : j <= i BY <1>4
    <1> QED BY <1>5 DEF Latest

----------------------------------------------------------------------------
(* The operators on sequences of rows. *)

\* A part of a sequence.
LEMMA SubSeqIs ==
    ASSUME NEW D, NEW s \in Seq(D), NEW m \in 1..(Len(s) + 1), NEW n \in 0..Len(s)
    PROVE  /\ SubSeq(s, m, n) \in Seq(D)
           /\ Len(SubSeq(s, m, n)) = IF n < m THEN 0 ELSE n - m + 1
           /\ \A i \in 1..Len(SubSeq(s, m, n)) : SubSeq(s, m, n)[i] = s[m + i - 1]
    OBVIOUS

\* A part of a sequence with one more of its elements.
LEMMA SubSeqMore ==
    ASSUME NEW D, NEW s \in Seq(D), NEW k \in 1..Len(s)
    PROVE  Append(SubSeq(s, 1, k - 1), s[k]) = SubSeq(s, 1, k)
    <1> DEFINE a == SubSeq(s, 1, k - 1)
               b == SubSeq(s, 1, k)
    <1>1. Len(s) \in Nat /\ k \in Nat /\ k - 1 \in 0..Len(s) /\ s[k] \in D OBVIOUS
    <1>2. a \in Seq(D) /\ Len(a) = k - 1 /\ \A i \in 1..(k - 1) : a[i] = s[i] BY <1>1
    <1>3. b \in Seq(D) /\ Len(b) = k /\ \A i \in 1..k : b[i] = s[i] BY <1>1
    <1> HIDE DEF a, b
    <1>4. /\ Append(a, s[k]) \in Seq(D) /\ Len(Append(a, s[k])) = k
          /\ \A i \in 1..k : Append(a, s[k])[i] = IF i = k THEN s[k] ELSE a[i]
        BY <1>1, <1>2
    <1>5. \A i \in 1..k : Append(a, s[k])[i] = b[i] BY <1>1, <1>2, <1>3, <1>4
    <1> DEFINE c == Append(a, s[k])
    <1>6. c \in Seq(D) /\ Len(c) = k /\ \A i \in 1..k : c[i] = b[i] BY <1>4, <1>5
    <1> HIDE DEF c
    <1>7. c = b BY <1>1, <1>3, <1>6
    <1> QED BY <1>7 DEF a, b, c

\* The loop of get_history is defined: what it has collected after each row.
LEMMA PlainLoop ==
    ASSUME NEW D, NEW s \in Seq(D)
    PROVE  \E out : /\ PlainRows(s) = out[Len(s)]
                    /\ \A i \in 0..Len(s) : out[i] = IF i = 0 THEN <<>>
                                                     ELSE IF Plain(s[i]) THEN Append(out[i - 1], s[i]) ELSE out[i - 1]
    <1> DEFINE n == Len(s)
               Step(f, i) == IF i = 0 THEN <<>> ELSE IF Plain(s[i]) THEN Append(f[i - 1], s[i]) ELSE f[i - 1]
               Collects(f, k) == f \in [0..k -> Seq(D)] /\ \A i \in 0..k : f[i] = Step(f, i)
               Bad == {k \in 0..n : \A f \in [0..k -> Seq(D)] : ~Collects(f, k)}
    <1>1. n \in Nat OBVIOUS
    <1>2. Bad = {}
        <2> SUFFICES ASSUME Bad # {} PROVE FALSE OBVIOUS
        <2>1. PICK k \in Bad : \A j \in Bad : k <= j
            <3>1. Bad \in SUBSET Nat BY <1>1
            <3> HIDE DEF Bad
            <3> QED BY <3>1, LeastNumber
        <2>2. k \in 0..n /\ \A f \in [0..k -> Seq(D)] : ~Collects(f, k) BY <2>1
        <2>3. CASE k = 0
            <3> DEFINE f == [i \in 0..0 |-> <<>>]
            <3>1. <<>> \in Seq(D) OBVIOUS
            <3>2. f \in [0..0 -> Seq(D)] /\ f[0] = <<>> BY <3>1
            <3>3. Collects(f, 0) BY <3>2
            <3> QED BY <2>2, <2>3, <3>2, <3>3
        <2>4. CASE k # 0
            <3>1. k - 1 \in 0..n /\ k - 1 \notin Bad
                <4>1. k - 1 \in 0..n /\ ~(k <= k - 1) BY <1>1, <2>2, <2>4
                <4> HIDE DEF Bad
                <4> QED BY <2>1, <4>1
            <3>2. PICK g \in [0..(k - 1) -> Seq(D)] : Collects(g, k - 1)
                <4> HIDE DEF Collects
                <4> QED BY <3>1
            <3>3. \A i \in 0..(k - 1) : g[i] = Step(g, i) BY <3>2
            <3>4. s[k] \in D /\ g[k - 1] \in Seq(D) BY <1>1, <2>2, <2>4
            <3> DEFINE f == [i \in 0..k |-> IF i = k THEN Step(g, k) ELSE g[i]]
            <3>5. Step(g, k) \in Seq(D) BY <2>4, <3>4
            <3>6. f \in [0..k -> Seq(D)] BY <2>2, <3>5
            <3>7. \A i \in 0..(k - 1) : f[i] = g[i] BY <2>2
            <3>8. f[k] = Step(f, k)
                <4>1. f[k] = Step(g, k) BY <2>2
                <4>2. f[k - 1] = g[k - 1] BY <2>2, <2>4, <3>7
                <4> QED BY <4>1, <4>2, <2>4
            <3>9. \A i \in 0..(k - 1) : f[i] = Step(f, i)
                <4> SUFFICES ASSUME NEW i \in 0..(k - 1) PROVE f[i] = Step(f, i) OBVIOUS
                <4>1. f[i] = Step(g, i) BY <3>3, <3>7
                <4>2. i # 0 => f[i - 1] = g[i - 1] BY <2>2, <3>7
                <4> HIDE DEF f
                <4> QED BY <4>1, <4>2
            <3>10. \A i \in 0..k : i \in 0..(k - 1) \/ i = k BY <2>2
            <3> HIDE DEF f
            <3>11. Collects(f, k) BY <3>6, <3>8, <3>9, <3>10
            <3> QED BY <2>2, <3>6, <3>11
        <2> QED BY <2>3, <2>4
    <1>3. PICK f \in [0..n -> Seq(D)] : Collects(f, n)
        <2>1. n \in 0..n BY <1>1
        <2> HIDE DEF Collects
        <2> QED BY <1>2, <2>1
    <1>4. f = [i \in 0..n |-> Step(f, i)] BY <1>3
    <1> DEFINE out == CHOOSE g : g = [i \in 0..n |-> Step(g, i)]
    <1>5. out = [i \in 0..n |-> Step(out, i)] BY <1>4
    <1>6. PlainRows(s) = out[n] BY DEF PlainRows
    <1> HIDE DEF out
    <1>7. \A i \in 0..n : out[i] = Step(out, i) BY <1>5
    <1> QED BY <1>6, <1>7

\* It collects rows of its argument.
LEMMA PlainRowsType == ASSUME NEW D, NEW s \in Seq(D) PROVE PlainRows(s) \in Seq(D)
    <1> DEFINE n == Len(s)
               Step(f, i) == IF i = 0 THEN <<>> ELSE IF Plain(s[i]) THEN Append(f[i - 1], s[i]) ELSE f[i - 1]
    <1>1. n \in Nat OBVIOUS
    <1>2. PICK out : PlainRows(s) = out[n] /\ \A i \in 0..n : out[i] = Step(out, i) BY PlainLoop
    <1> DEFINE Wrong == {k \in 0..n : out[k] \notin Seq(D)}
    <1>7. Wrong = {}
        <2> SUFFICES ASSUME Wrong # {} PROVE FALSE OBVIOUS
        <2>1. PICK k \in Wrong : \A j \in Wrong : k <= j
            <3>1. Wrong \in SUBSET Nat BY <1>1
            <3> HIDE DEF Wrong
            <3> QED BY <3>1, LeastNumber
        <2>2. k \in 0..n /\ out[k] \notin Seq(D) BY <2>1
        <2>3. out[k] = Step(out, k) BY <1>2, <2>2
        <2>4. CASE k = 0 BY <2>2, <2>3, <2>4
        <2>5. CASE k # 0
            <3>1. k - 1 \in 0..n /\ k - 1 \notin Wrong BY <1>1, <2>1, <2>2, <2>5
            <3>2. out[k - 1] \in Seq(D) /\ s[k] \in D BY <1>1, <2>2, <2>5, <3>1
            <3> QED BY <2>2, <2>3, <2>5, <3>2
        <2> QED BY <2>4, <2>5
    <1> QED BY <1>1, <1>2, <1>7

\* Where every row is plain it collects them all.
LEMMA PlainRowsAll ==
    ASSUME NEW D, NEW s \in Seq(D), \A i \in DOMAIN s : Plain(s[i])
    PROVE  PlainRows(s) = s
    <1> DEFINE n == Len(s)
               Step(f, i) == IF i = 0 THEN <<>> ELSE IF Plain(s[i]) THEN Append(f[i - 1], s[i]) ELSE f[i - 1]
    <1>1. n \in Nat /\ DOMAIN s = 1..n OBVIOUS
    <1>2. PICK out : PlainRows(s) = out[n] /\ \A i \in 0..n : out[i] = Step(out, i) BY PlainLoop
    <1> DEFINE Wrong == {k \in 0..n : out[k] # SubSeq(s, 1, k)}
    <1>3. Wrong = {}
        <2> SUFFICES ASSUME Wrong # {} PROVE FALSE OBVIOUS
        <2>1. PICK k \in Wrong : \A j \in Wrong : k <= j
            <3>1. Wrong \in SUBSET Nat BY <1>1
            <3> HIDE DEF Wrong
            <3> QED BY <3>1, LeastNumber
        <2>2. k \in 0..n /\ out[k] # SubSeq(s, 1, k) BY <2>1
        <2>3. out[k] = Step(out, k) BY <1>2, <2>2
        <2>4. CASE k = 0
            <3>1. out[k] = <<>> /\ SubSeq(s, 1, 0) = <<>> BY <2>3, <2>4
            <3> QED BY <2>2, <2>4, <3>1
        <2>5. CASE k # 0
            <3>1. k - 1 \in 0..n /\ k \in 1..n /\ k - 1 \notin Wrong BY <1>1, <2>1, <2>2, <2>5
            <3>2. out[k - 1] = SubSeq(s, 1, k - 1) BY <3>1
            <3>3. out[k] = Append(SubSeq(s, 1, k - 1), s[k]) BY <1>1, <2>3, <2>5, <3>1, <3>2
            <3>4. Append(SubSeq(s, 1, k - 1), s[k]) = SubSeq(s, 1, k) BY <1>1, <3>1, SubSeqMore
            <3> QED BY <2>2, <3>3, <3>4
        <2> QED BY <2>4, <2>5
    <1>4. SubSeq(s, 1, n) = s BY <1>1
    <1>5. n \in 0..n /\ n \notin Wrong BY <1>1, <1>3
    <1>6. out[n] = SubSeq(s, 1, n) BY <1>5
    <1> QED BY <1>2, <1>4, <1>6

\* A history is made of rows of the session.
LEMMA HistoryType == ASSUME NEW D, NEW s \in Seq(D) PROVE History(s) \in Seq(D)
    <1> DEFINE users == {i \in 1..Len(s) : IsUser(s[i])}
               t == IF users = {} THEN s ELSE SubSeq(s, Earliest(users), Len(s))
               Starts == {i \in 1..(Len(t) + 1) : \A k \in i..Len(t) :
                             IsTool(t[k]) => \E c \in i..(k - 1) : Answers(t[k], t[c])}
    <1>1. t \in Seq(D)
        <2>1. CASE users = {} BY <2>1
        <2>2. CASE users # {}
            <3>1. users \in SUBSET Nat OBVIOUS
            <3> HIDE DEF users
            <3>2. Earliest(users) \in users BY <2>2, <3>1, EarliestIs
            <3>3. Earliest(users) \in 1..(Len(s) + 1) BY <3>2 DEF users
            <3>4. SubSeq(s, Earliest(users), Len(s)) \in Seq(D) BY <3>3, SubSeqIs
            <3> QED BY <2>2, <3>4
        <2> QED BY <2>1, <2>2
    <1> HIDE DEF t
    <1>2. LegalStart(t) \in 1..(Len(t) + 1)
        <2>1. Len(t) \in Nat BY <1>1
        <2>2. Starts \in SUBSET Nat OBVIOUS
        <2>3. Len(t) + 1 \in Starts BY <2>1
        <2>4. LegalStart(t) = Earliest(Starts) BY DEF LegalStart
        <2>5. Starts \subseteq 1..(Len(t) + 1) OBVIOUS
        <2> HIDE DEF Starts
        <2>6. Earliest(Starts) \in Starts BY <2>2, <2>3, EarliestIs
        <2> QED BY <2>4, <2>5, <2>6
    <1>3. SubSeq(t, LegalStart(t), Len(t)) \in Seq(D) BY <1>1, <1>2, SubSeqIs
    <1>4. PlainRows(SubSeq(t, LegalStart(t), Len(t))) \in Seq(D) BY <1>3, PlainRowsType
    <1> QED BY <1>4 DEF History, t

\* What a checkpoint adds to the rows is an end of it.
LEMMA RestoredIs ==
    ASSUME NEW D, NEW s \in Seq(D), NEW c \in Seq(D), Len(c) <= 2
    PROVE  \E k \in 0..Len(c) : Restored(s, c) = s \o SubSeq(c, k + 1, Len(c))
    <1> DEFINE shorter == IF Len(s) < Len(c) THEN Len(s) ELSE Len(c)
               Same == {k \in 0..shorter : SubSeq(s, Len(s) - k + 1, Len(s)) = SubSeq(c, 1, k)}
    <1>1. shorter \in Nat /\ shorter <= Len(c) OBVIOUS
    <1>2. 0 \in Same
        <2>1. SubSeq(s, Len(s) + 1, Len(s)) = <<>> /\ SubSeq(c, 1, 0) = <<>> OBVIOUS
        <2>2. Len(s) - 0 + 1 = Len(s) + 1 OBVIOUS
        <2> QED BY <1>1, <2>1, <2>2
    <1>3. Same \in SUBSET (0..shorter) OBVIOUS
    <1>4. Restored(s, c) = s \o SubSeq(c, Latest(Same) + 1, Len(c)) BY DEF Restored
    <1> HIDE DEF Same
    <1>5. Latest(Same) \in Same BY <1>1, <1>2, <1>3, LatestIs
    <1>6. \A k \in 0..shorter : k \in 0..Len(c) BY <1>1
    <1>7. Latest(Same) \in 0..shorter
        <2> HIDE DEF shorter
        <2> QED BY <1>3, <1>5
    <1> QED BY <1>4, <1>6, <1>7

----------------------------------------------------------------------------
(* Rows and their order. *)

N == IF MaxIter < MaxCommands THEN MaxCommands ELSE MaxIter

\* The rows of a session that has had t turns: a user row is of user messages alone.
RowOf(t) ==
    {r \in [role : Roles, of : SUBSET (Msgs \cup Subs), turn : 0..t, n : 0..N] :
        r.role = "user" => r.of \subseteq Msgs}

Before(p, q) == p.turn > 0 /\ q.turn > 0 => p.turn <= q.turn /\ (p.turn = q.turn => p.n <= q.n)
Ordered(s) == \A i, j \in DOMAIN s : i < j => Before(s[i], s[j])

\* Beyond the first k, the rows of s are of turn t, up to its call n, in their order.
MadeBeyond(s, k, t, n) ==
    /\ \A i \in DOMAIN s : i > k => s[i].turn = 0 \/ (s[i].turn = t /\ s[i].n <= n)
    /\ \A i, j \in DOMAIN s : k < i /\ i < j => Before(s[i], s[j])

\* A row of the turn that is made by call n may come last.
LEMMA MadeBeyondAppend ==
    ASSUME NEW t \in Nat, NEW n \in Nat, NEW k \in Nat, NEW s \in Seq(RowOf(t)), MadeBeyond(s, k, t, n),
           NEW r \in RowOf(t), r.turn = 0 \/ (r.turn = t /\ r.n = n)
    PROVE  Append(s, r) \in Seq(RowOf(t)) /\ MadeBeyond(Append(s, r), k, t, n)
    <1> DEFINE w == Append(s, r)
    <1>1. w \in Seq(RowOf(t)) OBVIOUS
    <1>2. Len(w) = Len(s) + 1 /\ w[Len(s) + 1] = r /\ \A i \in 1..Len(s) : w[i] = s[i] OBVIOUS
    <1>3. DOMAIN w = 1..Len(w) /\ DOMAIN s = 1..Len(s) BY <1>1
    <1> HIDE DEF w
    <1>4. \A i \in DOMAIN w : i = Len(s) + 1 \/ i \in DOMAIN s BY <1>2, <1>3
    <1>5. ASSUME NEW i \in DOMAIN w, i > k PROVE w[i].turn = 0 \/ (w[i].turn = t /\ w[i].n <= n)
        <2>1. CASE i = Len(s) + 1 BY <1>2, <2>1 DEF RowOf
        <2>2. CASE i \in DOMAIN s BY <1>2, <1>3, <1>5, <2>2 DEF MadeBeyond
        <2> QED BY <1>4, <2>1, <2>2
    <1>6. ASSUME NEW i \in DOMAIN w, NEW j \in DOMAIN w, k < i, i < j PROVE Before(w[i], w[j])
        <2>1. i \in DOMAIN s BY <1>2, <1>3, <1>6
        <2>2. CASE j = Len(s) + 1
            <3>1. s[i].turn = 0 \/ (s[i].turn = t /\ s[i].n <= n) BY <1>6, <2>1 DEF MadeBeyond
            <3>2. w[i] = s[i] /\ w[j] = r BY <1>2, <1>3, <2>1, <2>2
            <3>3. s[i] \in RowOf(t) BY <1>3, <2>1
            <3> QED BY <3>1, <3>2, <3>3 DEF Before, RowOf
        <2>3. CASE j \in DOMAIN s BY <1>2, <1>3, <1>6, <2>1, <2>3 DEF MadeBeyond
        <2> QED BY <1>4, <2>2, <2>3
    <1> QED BY <1>1, <1>5, <1>6 DEF MadeBeyond, w

\* Or take the place of the last one.
LEMMA MadeBeyondLast ==
    ASSUME NEW t \in Nat, NEW n \in Nat, NEW k \in Nat, NEW s \in Seq(RowOf(t)), MadeBeyond(s, k, t, n), s # <<>>,
           NEW r \in RowOf(t),
           \/ r.turn = 0 \/ (r.turn = t /\ r.n = n)
           \/ r.turn = LastRow(s).turn /\ r.n = LastRow(s).n
    PROVE  [s EXCEPT ![Len(s)] = r] \in Seq(RowOf(t)) /\ MadeBeyond([s EXCEPT ![Len(s)] = r], k, t, n)
    <1> DEFINE w == [s EXCEPT ![Len(s)] = r]
    <1>1. Len(s) \in 1..Len(s) /\ DOMAIN s = 1..Len(s) OBVIOUS
    <1>2. w \in Seq(RowOf(t)) /\ DOMAIN w = DOMAIN s /\ w[Len(s)] = r /\ \A i \in DOMAIN s : i # Len(s) => w[i] = s[i]
        BY <1>1
    <1> HIDE DEF w
    <1>3. \A i \in DOMAIN s : s[i] \in RowOf(t) /\ w[i] \in RowOf(t) BY <1>2
    <1>4. ASSUME NEW i \in DOMAIN w, i > k PROVE w[i].turn = 0 \/ (w[i].turn = t /\ w[i].n <= n)
        <2>1. CASE i = Len(s)
            <3>1. s[i].turn = 0 \/ (s[i].turn = t /\ s[i].n <= n) BY <1>2, <1>4 DEF MadeBeyond
            <3>2. w[i] = r /\ LastRow(s) = s[i] BY <1>2, <2>1 DEF LastRow
            <3> QED BY <3>1, <3>2
        <2>2. CASE i # Len(s) BY <1>2, <1>4, <2>2 DEF MadeBeyond
        <2> QED BY <2>1, <2>2
    <1>5. ASSUME NEW i \in DOMAIN w, NEW j \in DOMAIN w, k < i, i < j PROVE Before(w[i], w[j])
        <2>1. i # Len(s) /\ w[i] = s[i] BY <1>1, <1>2, <1>5
        <2>2. s[i].turn = 0 \/ (s[i].turn = t /\ s[i].n <= n) BY <1>2, <1>5 DEF MadeBeyond
        <2>3. Before(s[i], s[j]) BY <1>2, <1>5 DEF MadeBeyond
        <2>4. CASE j = Len(s)
            <3>1. w[j] = r /\ LastRow(s) = s[j] BY <1>2, <2>4 DEF LastRow
            <3>2. CASE r.turn = 0 BY <2>1, <3>1, <3>2 DEF Before
            <3>3. CASE r.turn = t /\ r.n = n
                <4>1. s[i].turn \in Nat BY <1>2, <1>3 DEF RowOf
                <4>2. s[i].turn > 0 => s[i].turn = t /\ s[i].n <= n BY <2>2, <4>1
                <4>3. Before(s[i], r) BY <3>3, <4>2 DEF Before
                <4> QED BY <2>1, <3>1, <4>3
            <3>4. CASE r.turn = LastRow(s).turn /\ r.n = LastRow(s).n BY <2>1, <2>3, <3>1, <3>4 DEF Before
            <3> QED BY <3>2, <3>3, <3>4
        <2>5. CASE j # Len(s) BY <1>2, <2>1, <2>3, <2>5
        <2> QED BY <2>4, <2>5
    <1> QED BY <1>2, <1>4, <1>5 DEF MadeBeyond, w

----------------------------------------------------------------------------
(* The invariant. *)

Running == {"model", "tools", "exhausted", "final"}

Typed ==
    /\ rows \in Seq(RowOf(turn)) /\ msgs \in Seq(RowOf(turn)) /\ ckpt \in Seq(RowOf(turn)) /\ Len(ckpt) <= 2
    /\ pending \in BOOLEAN /\ phase \in Phases
    /\ cur \subseteq Msgs \cup Subs /\ taken \subseteq Msgs \cup Subs /\ again \subseteq SUBSET Msgs
    /\ skip \in Nat /\ turn \in Nat /\ iter \in 0..MaxIter
    /\ interrupts \in 0..MaxInterrupts /\ commands \in 0..MaxCommands

\* A checkpoint stands for rows of one call of the last turn.
OneCheckpoint ==
    /\ CheckpointCurrent
    /\ \A i, j \in DOMAIN ckpt : ckpt[i].n = ckpt[j].n

\* While a turn runs, its message waits to be closed, or its checkpoint to be folded in, the session
\* has no row the turn made.
NoneSaved == \A i \in DOMAIN rows : rows[i].turn < turn
SavedAtEnd == pending \/ ckpt # <<>> \/ phase \in Running => turn > 0 /\ NoneSaved

Recovered0 == phase = "recovered" => ckpt = <<>>

\* What a running turn adds to its message list is its own, in order.
RunInOrder == phase \in Running => iter > 0 /\ MadeBeyond(msgs, skip, turn, iter)

PersistInv == Typed /\ Ordered(rows) /\ OneCheckpoint /\ SavedAtEnd /\ Recovered0 /\ RunInOrder

\* What was a row of a session still is one after more turns.
LEMMA MoreTurns == ASSUME NEW t \in Nat, NEW s \in Seq(RowOf(t)) PROVE s \in Seq(RowOf(t + 1))
    <1>1. RowOf(t) \subseteq RowOf(t + 1)
        <2> SUFFICES ASSUME NEW r \in RowOf(t) PROVE r \in RowOf(t + 1) OBVIOUS
        <2>1. 0..t \subseteq 0..(t + 1) OBVIOUS
        <2>2. \A u \in 0..t : u \in 0..(t + 1) BY <2>1
        <2>3. /\ r = [role |-> r.role, of |-> r.of, turn |-> r.turn, n |-> r.n]
              /\ r.role \in Roles /\ r.of \in SUBSET (Msgs \cup Subs) /\ r.turn \in 0..t /\ r.n \in 0..N
              /\ r.role = "user" => r.of \subseteq Msgs
            BY DEF RowOf
        <2>4. r.turn \in 0..(t + 1) BY <2>2, <2>3
        <2> QED BY <2>3, <2>4 DEF RowOf
    <1> QED BY <1>1

\* The rows the code makes.
LEMMA UserRowIs ==
    ASSUME NEW t \in Nat, NEW of \in SUBSET Msgs
    PROVE  UserRow(of) \in RowOf(t) /\ UserRow(of).turn = 0 /\ UserRow(of).of = of /\ UserRow(of).role = "user"
    BY PersistenceAssumption DEF UserRow, RowOf, Roles, N

\* What the runner makes is a row of this turn and this call.
LEMMA MadeIs ==
    ASSUME Typed, NEW role \in Roles
    PROVE  Made(role) \in RowOf(turn) /\ Made(role).turn = turn /\ Made(role).n = iter
    <1>1. iter \in 0..N BY PersistenceAssumption DEF Typed, N
    <1>2. turn \in 0..turn BY DEF Typed
    <1> QED BY <1>1, <1>2 DEF Made, RowOf

\* The two rows of a command belong to no turn.
LEMMA CommandRowsAre ==
    ASSUME Typed
    PROVE  /\ CommandRows \in Seq(RowOf(turn)) /\ Len(CommandRows) = 2
           /\ \A i \in 1..2 : CommandRows[i].turn = 0
    <1>1. commands \in 0..N BY PersistenceAssumption DEF Typed, N
    <1>2. 0 \in 0..turn BY DEF Typed
    <1> DEFINE a == [role |-> "cmdUser", of |-> {}, turn |-> 0, n |-> commands]
               b == [role |-> "cmdReply", of |-> {}, turn |-> 0, n |-> commands]
    <1>3. a \in RowOf(turn) /\ b \in RowOf(turn) BY <1>1, <1>2 DEF RowOf, Roles
    <1>4. CommandRows = <<a, b>> BY DEF CommandRows
    <1>5. a.turn = 0 /\ b.turn = 0 OBVIOUS
    <1> HIDE DEF a, b
    <1> QED BY <1>3, <1>4, <1>5

----------------------------------------------------------------------------
(* The message list of a running turn. *)

Kept(s, n) == s \in Seq(RowOf(turn)) /\ MadeBeyond(s, skip, turn, n)

\* Rows of calls so far are rows of calls up to the next.
LEMMA KeptLater == ASSUME Typed, NEW s, Kept(s, iter) PROVE Kept(s, iter + 1)
    BY SMTT(30) DEF Kept, MadeBeyond, RowOf, Typed

\* A row of this call may follow.
LEMMA KeptMade == ASSUME Typed, NEW role \in Roles, NEW s, Kept(s, iter) PROVE Kept(Append(s, Made(role)), iter)
    BY MadeIs, MadeBeyondAppend DEF Kept, Typed

\* A message that is injected is merged into the user row at the end, or comes after it.
LEMMA KeptUser == ASSUME Typed, NEW s, Kept(s, iter), NEW f \in Injectable PROVE Kept(AddUser(s, UserRow(f)), iter)
    <1>1. f \in SUBSET Msgs BY PersistenceAssumption DEF Injectable
    <1>2. UserRow(f) \in RowOf(turn) /\ UserRow(f).turn = 0 /\ UserRow(f).of = f BY <1>1, UserRowIs DEF Typed
    <1>3. CASE EndsWith(s, "user")
        <2>1. s # <<>> /\ LastRow(s) = s[Len(s)] /\ LastRow(s).role = "user" BY <1>3 DEF EndsWith, LastRow
        <2> DEFINE r == [LastRow(s) EXCEPT !.of = @ \cup f]
        <2>2. LastRow(s) \in RowOf(turn) BY <2>1 DEF Kept
        <2>3. r \in RowOf(turn) /\ r.turn = LastRow(s).turn /\ r.n = LastRow(s).n BY <1>1, <2>1, <2>2 DEF RowOf
        <2>4. AddUser(s, UserRow(f)) = [s EXCEPT ![Len(s)] = r]
            BY <1>2, <1>3, <2>1 DEF AddUser
        <2> HIDE DEF r
        <2>5. /\ turn \in Nat /\ iter \in Nat /\ skip \in Nat
              /\ s \in Seq(RowOf(turn)) /\ MadeBeyond(s, skip, turn, iter)
            BY DEF Typed, Kept
        <2>6. Kept([s EXCEPT ![Len(s)] = r], iter)
            BY <2>1, <2>3, <2>5, MadeBeyondLast DEF Kept
        <2> QED BY <2>4, <2>6
    <1>4. CASE ~EndsWith(s, "user")
        <2>1. AddUser(s, UserRow(f)) = Append(s, UserRow(f)) BY <1>4 DEF AddUser
        <2> QED BY <1>2, <2>1, MadeBeyondAppend DEF Kept, Typed
    <1> QED BY <1>3, <1>4

\* The program's own last words replace a text at the end, or come after it.
LEMMA KeptFinal ==
    ASSUME Typed, NEW s, Kept(s, iter)
    PROVE  Kept(AddFinal(s, Made("notice")), iter) /\ Kept(AddPlaceholder(s, Made("notice")), iter)
    <1>1. "notice" \in Roles BY DEF Roles
    <1>2. CASE EndsWithText(s)
        <2>1. s # <<>> BY <1>2 DEF EndsWithText, EndsWith
        <2>2. AddFinal(s, Made("notice")) = [s EXCEPT ![Len(s)] = Made("notice")] BY <1>2 DEF AddFinal
        <2>3. AddPlaceholder(s, Made("notice")) = s BY <1>2 DEF AddPlaceholder
        <2>4. /\ turn \in Nat /\ iter \in Nat /\ skip \in Nat
              /\ s \in Seq(RowOf(turn)) /\ MadeBeyond(s, skip, turn, iter)
            BY DEF Typed, Kept
        <2>5. Made("notice") \in RowOf(turn) /\ Made("notice").turn = turn /\ Made("notice").n = iter
            BY <1>1, MadeIs
        <2>6. Kept([s EXCEPT ![Len(s)] = Made("notice")], iter)
            BY <2>1, <2>4, <2>5, MadeBeyondLast DEF Kept
        <2> QED BY <2>2, <2>3, <2>6
    <1>3. CASE ~EndsWithText(s)
        <2>1. /\ AddFinal(s, Made("notice")) = Append(s, Made("notice"))
              /\ AddPlaceholder(s, Made("notice")) = Append(s, Made("notice"))
            BY <1>3 DEF AddFinal, AddPlaceholder
        <2> QED BY <1>1, <2>1, KeptMade
    <1> QED BY <1>2, <1>3

\* What every step of the runner comes to.
RunsOn ==
    /\ Kept(msgs', iter') /\ iter' \in 1..MaxIter /\ phase' \in Running /\ taken' \subseteq Msgs \cup Subs

\* The runner goes on with this call or the next, below the limit.
LEMMA GoesOn == ASSUME Typed, iter > 0, GoOn PROVE (iter' = iter \/ iter' = iter + 1) /\ iter' \in 1..MaxIter /\ phase' \in Running
    BY PersistenceAssumption DEF Typed, GoOn, Running

\* The runner goes on with the list it was given.
LEMMA GoesOnWith ==
    ASSUME Typed, iter > 0, GoOn, NEW s, Kept(s, iter), msgs' = s, taken' \subseteq Msgs \cup Subs
    PROVE  RunsOn
    <1>1. Kept(s, iter') BY GoesOn, KeptLater
    <1> QED BY <1>1, GoesOn DEF RunsOn

\* A follow-up that is injected is a message.
LEMMA InjectsMessage == ASSUME Typed, NEW f \in Injectable PROVE taken \cup f \subseteq Msgs \cup Subs
    BY PersistenceAssumption DEF Injectable, Typed

\* The list is kept, or takes one injected message.
LEMMA ContinueRuns == ASSUME Typed, iter > 0, NEW s, Kept(s, iter), Continue(s) PROVE RunsOn
    <1>1. GoOn BY DEF Continue
    <1>2. CASE msgs' = s /\ UNCHANGED taken BY <1>1, <1>2, GoesOnWith DEF Typed
    <1>3. ASSUME NEW f \in Injectable, msgs' = AddUser(s, UserRow(f)), taken' = taken \cup f PROVE RunsOn
        BY <1>1, <1>3, KeptUser, InjectsMessage, GoesOnWith
    <1> QED BY <1>2, <1>3 DEF Continue

\* An injected message before the next call.
LEMMA InjectRuns ==
    ASSUME Typed, iter > 0, NEW s, Kept(s, iter), NEW f \in Injectable,
           msgs' = AddUser(s, UserRow(f)), taken' = taken \cup f, GoOn
    PROVE  RunsOn
    BY KeptUser, InjectsMessage, GoesOnWith

\* The end of the loop, unless a message was injected.
LEMMA FinishRuns == ASSUME Typed, iter > 0, NEW s, Kept(s, iter), FinishOr(s) PROVE RunsOn
    <1>1. CASE msgs' = s /\ phase' = "final" /\ UNCHANGED <<taken, iter>>
        BY <1>1 DEF RunsOn, Running, Typed
    <1>2. ASSUME NEW f \in Injectable, msgs' = AddUser(s, UserRow(f)), taken' = taken \cup f, GoOn PROVE RunsOn
        BY <1>2, InjectRuns
    <1> QED BY <1>1, <1>2 DEF FinishOr

\* A failed call ends the loop, or goes on with the list it began with.
LEMMA FailsRuns == ASSUME Typed, iter > 0, Kept(msgs, iter), NEW s, Kept(s, iter), Fails(s) PROVE RunsOn
    <1>1. ASSUME NEW f \in Injectable, msgs' = AddUser(msgs, UserRow(f)), taken' = taken \cup f, GoOn PROVE RunsOn
        BY <1>1, InjectRuns
    <1>2. CASE FinishOr(s) BY <1>2, FinishRuns
    <1> QED BY <1>1, <1>2 DEF Fails

\* A step of the runner, which leaves the session's rows alone and may save a checkpoint of the
\* call it is at, keeps the invariant.
LEMMA RunStepKeeps ==
    ASSUME PersistInv, phase \in Running, RunsOn,
           UNCHANGED <<rows, pending, cur, skip, turn, again, interrupts, commands>>,
           \/ UNCHANGED ckpt
           \/ /\ ckpt' \in Seq(RowOf(turn)) /\ Len(ckpt') <= 2
              /\ \A i \in DOMAIN ckpt' : ckpt'[i].turn = turn /\ ckpt'[i].n = iter
    PROVE  PersistInv'
    <1>1. /\ Typed /\ Ordered(rows) /\ OneCheckpoint /\ turn > 0 /\ NoneSaved BY DEF PersistInv, SavedAtEnd
    <1>2. /\ msgs' \in Seq(RowOf(turn)) /\ MadeBeyond(msgs', skip, turn, iter') /\ iter' \in 1..MaxIter
          /\ phase' \in Running /\ taken' \subseteq Msgs \cup Subs
        BY DEF RunsOn, Kept
    <1>3. phase' \in Phases /\ phase' # "recovered" BY <1>2 DEF Running, Phases
    <1>4. iter' \in 0..MaxIter /\ iter' > 0 BY <1>2
    <1>5. ckpt' \in Seq(RowOf(turn)) /\ Len(ckpt') <= 2 BY <1>1 DEF Typed
    <1>6. Typed'
        BY <1>1, <1>2, <1>3, <1>4, <1>5 DEF Typed
    <1>7. OneCheckpoint' BY <1>1 DEF OneCheckpoint, CheckpointCurrent
    <1>8. SavedAtEnd' BY <1>1 DEF SavedAtEnd, NoneSaved
    <1>9. Recovered0' BY <1>3 DEF Recovered0
    <1>10. RunInOrder' BY <1>2, <1>4 DEF RunInOrder
    <1>11. Ordered(rows)' BY <1>1 DEF Ordered
    <1> QED BY <1>6, <1>7, <1>8, <1>9, <1>10, <1>11 DEF PersistInv

\* The steps of the runner.
LEMMA RunnerKeeps ==
    ASSUME PersistInv,
           \/ CallTools \/ ToolsDone \/ ToolsFatal \/ Reply \/ Truncated
           \/ ModelError \/ BlankAnswer \/ Exhausted
    PROVE  PersistInv'
    <1>1. phase \in Running
        BY DEF CallTools, ToolsDone, ToolsFatal, Reply, Truncated, ModelError, BlankAnswer, Exhausted, Running
    <1>2. Typed /\ iter > 0 /\ Kept(msgs, iter)
        BY <1>1 DEF PersistInv, RunInOrder, Kept, Typed
    <1>3. \A role \in {"calls", "interrupted", "tool", "assistant", "notice", "user"} : role \in Roles
        BY DEF Roles
    <1>4. /\ Kept(Append(msgs, Made("calls")), iter) /\ Kept(Append(msgs, Made("tool")), iter)
          /\ Kept(Append(msgs, Made("assistant")), iter)
        BY <1>2, <1>3, KeptMade
    <1>5. iter \in 1..MaxIter /\ taken \subseteq Msgs \cup Subs BY <1>2 DEF Typed
    <1> DEFINE Saves(c) == /\ c \in Seq(RowOf(turn)) /\ Len(c) <= 2
                           /\ \A i \in DOMAIN c : c[i].turn = turn /\ c[i].n = iter
    <1>6. ASSUME NEW p \in Roles, NEW q \in Roles PROVE Saves(<<Made(p), Made(q)>>)
        BY <1>2, MadeIs
    <1>7. ASSUME NEW p \in Roles PROVE Saves(<<Made(p)>>)
        BY <1>2, MadeIs
    <1> HIDE DEF Saves
    <1>8. CASE CallTools
        <2>1. /\ msgs' = Append(msgs, Made("calls")) /\ ckpt' = <<Made("calls"), Made("interrupted")>>
              /\ phase' = "tools"
              /\ UNCHANGED <<rows, pending, cur, skip, turn, iter, taken, again, interrupts, commands>>
            BY <1>8 DEF CallTools
        <2>2. RunsOn BY <1>4, <1>5, <2>1 DEF RunsOn, Running
        <2>3. Saves(ckpt') BY <1>3, <1>6, <2>1
        <2> QED BY <1>1, <2>1, <2>2, <2>3, RunStepKeeps DEF Saves
    <1>9. CASE ToolsDone
        <2>1. /\ ckpt' = <<Made("calls"), Made("tool")>> /\ Continue(Append(msgs, Made("tool")))
              /\ UNCHANGED <<rows, pending, cur, skip, turn, again, interrupts, commands>>
            BY <1>9 DEF ToolsDone
        <2>2. RunsOn BY <1>2, <1>4, <2>1, ContinueRuns
        <2>3. Saves(ckpt') BY <1>3, <1>6, <2>1
        <2> QED BY <1>1, <2>1, <2>2, <2>3, RunStepKeeps DEF Saves
    <1>10. CASE ToolsFatal
        <2>1. /\ FinishOr(AddFinal(Append(msgs, Made("tool")), Made("notice")))
              /\ UNCHANGED <<saved, cur, skip, turn, again, interrupts, commands>>
            BY <1>10 DEF ToolsFatal
        <2>2. RunsOn BY <1>2, <1>4, <2>1, KeptFinal, FinishRuns
        <2> QED BY <1>1, <2>1, <2>2, RunStepKeeps DEF saved
    <1>11. CASE Reply
        <2>1. /\ ckpt' = <<Made("assistant")>> /\ FinishOr(Append(msgs, Made("assistant")))
              /\ UNCHANGED <<rows, pending, cur, skip, turn, again, interrupts, commands>>
            BY <1>11 DEF Reply
        <2>2. RunsOn BY <1>2, <1>4, <2>1, FinishRuns
        <2>3. Saves(ckpt') BY <1>3, <1>7, <2>1
        <2> QED BY <1>1, <2>1, <2>2, <2>3, RunStepKeeps DEF Saves
    <1>12. CASE Truncated
        <2>1. /\ msgs' = msgs \o <<Made("assistant"), Nudge>> /\ GoOn
              /\ UNCHANGED <<saved, cur, skip, turn, taken, again, interrupts, commands>>
            BY <1>12 DEF Truncated
        <2>2. Kept(Append(Append(msgs, Made("assistant")), Nudge), iter) BY <1>2, <1>3, <1>4, KeptMade DEF Nudge
        <2>3. Made("assistant") \in RowOf(turn) /\ Nudge \in RowOf(turn) /\ msgs \in Seq(RowOf(turn))
            BY <1>2, <1>3, MadeIs DEF Nudge, Typed
        <2>4. msgs \o <<Made("assistant"), Nudge>> = Append(Append(msgs, Made("assistant")), Nudge) BY <2>3
        <2>5. RunsOn BY <1>2, <1>5, <2>1, <2>2, <2>4, GoesOnWith
        <2> QED BY <1>1, <2>1, <2>5, RunStepKeeps DEF saved
    <1>13. CASE ModelError
        <2>1. /\ Fails(AddPlaceholder(msgs, Made("notice")))
              /\ UNCHANGED <<saved, cur, skip, turn, again, interrupts, commands>>
            BY <1>13 DEF ModelError
        <2>2. RunsOn BY <1>2, <2>1, KeptFinal, FailsRuns
        <2> QED BY <1>1, <2>1, <2>2, RunStepKeeps DEF saved
    <1>14. CASE BlankAnswer
        <2>1. /\ Fails(AddFinal(msgs, Made("notice")))
              /\ UNCHANGED <<saved, cur, skip, turn, again, interrupts, commands>>
            BY <1>14 DEF BlankAnswer
        <2>2. RunsOn BY <1>2, <2>1, KeptFinal, FailsRuns
        <2> QED BY <1>1, <2>1, <2>2, RunStepKeeps DEF saved
    <1>15. CASE Exhausted
        <2> DEFINE s == AddFinal(msgs, Made("notice"))
        <2>1. /\ phase' = "final" /\ UNCHANGED <<saved, cur, skip, turn, iter, again, interrupts, commands>>
              /\ \/ msgs' = s /\ UNCHANGED taken
                 \/ \E f \in Injectable : msgs' = AddUser(s, UserRow(f)) /\ taken' = taken \cup f
            BY <1>15 DEF Exhausted
        <2>2. Kept(s, iter) BY <1>2, KeptFinal
        <2> HIDE DEF s
        <2>3. Kept(msgs', iter) /\ taken' \subseteq Msgs \cup Subs
            BY <1>2, <1>5, <2>1, <2>2, KeptUser, InjectsMessage
        <2>4. RunsOn BY <1>5, <2>1, <2>3 DEF RunsOn, Running
        <2> QED BY <1>1, <2>1, <2>4, RunStepKeeps DEF saved
    <1> QED BY <1>8, <1>9, <1>10, <1>11, <1>12, <1>13, <1>14, <1>15

----------------------------------------------------------------------------
(* The session's rows. *)

\* Rows in order, followed by rows in order that come no earlier.
LEMMA Joined ==
    ASSUME NEW t \in Nat, NEW s \in Seq(RowOf(t)), NEW w \in Seq(RowOf(t)), Ordered(s), Ordered(w),
           \A i \in DOMAIN s, j \in DOMAIN w : Before(s[i], w[j])
    PROVE  s \o w \in Seq(RowOf(t)) /\ Ordered(s \o w)
    <1> DEFINE b == s \o w
    <1>1. b \in Seq(RowOf(t)) OBVIOUS
    <1>2. /\ DOMAIN s = 1..Len(s) /\ DOMAIN w = 1..Len(w) /\ DOMAIN b = 1..(Len(s) + Len(w))
          /\ Len(s) \in Nat /\ Len(w) \in Nat
        OBVIOUS
    <1>3. \A i \in 1..(Len(s) + Len(w)) : b[i] = IF i <= Len(s) THEN s[i] ELSE w[i - Len(s)] OBVIOUS
    <1> HIDE DEF b
    <1>4. ASSUME NEW i \in DOMAIN b, NEW j \in DOMAIN b, i < j PROVE Before(b[i], b[j])
        <2>1. CASE j <= Len(s)
            <3>1. i \in DOMAIN s /\ j \in DOMAIN s /\ b[i] = s[i] /\ b[j] = s[j] BY <1>2, <1>3, <1>4, <2>1
            <3> QED BY <1>4, <3>1 DEF Ordered
        <2>2. CASE i <= Len(s) /\ j > Len(s)
            <3>1. i \in DOMAIN s /\ j - Len(s) \in DOMAIN w /\ b[i] = s[i] /\ b[j] = w[j - Len(s)]
                BY <1>2, <1>3, <1>4, <2>2
            <3> QED BY <3>1
        <2>3. CASE i > Len(s)
            <3>1. /\ i - Len(s) \in DOMAIN w /\ j - Len(s) \in DOMAIN w /\ i - Len(s) < j - Len(s)
                  /\ b[i] = w[i - Len(s)] /\ b[j] = w[j - Len(s)]
                BY <1>2, <1>3, <1>4, <2>3
            <3> QED BY <3>1 DEF Ordered
        <2> QED BY <1>2, <1>4, <2>1, <2>2, <2>3
    <1> QED BY <1>1, <1>4 DEF Ordered, b

\* A row of no turn, or of the present one, may follow rows of earlier turns.
LEMMA JoinedRow ==
    ASSUME NEW t \in Nat, NEW s \in Seq(RowOf(t)), Ordered(s), NEW r \in RowOf(t),
           r.turn = 0 \/ \A i \in DOMAIN s : s[i].turn < r.turn
    PROVE  Append(s, r) \in Seq(RowOf(t)) /\ Ordered(Append(s, r))
    <1>1. <<r>> \in Seq(RowOf(t)) /\ Ordered(<<r>>) /\ DOMAIN <<r>> = {1} BY DEF Ordered
    <1>2. \A i \in DOMAIN s : s[i] \in RowOf(t) OBVIOUS
    <1>3. \A i \in DOMAIN s, j \in DOMAIN <<r>> : Before(s[i], <<r>>[j])
        BY <1>1, <1>2 DEF Before, RowOf
    <1>4. Append(s, r) = s \o <<r>> OBVIOUS
    <1> QED BY <1>1, <1>3, <1>4, Joined

\* The exchange of a command.
LEMMA JoinedCommand ==
    ASSUME Typed, NEW s \in Seq(RowOf(turn)), Ordered(s)
    PROVE  /\ s \o CommandRows \in Seq(RowOf(turn)) /\ Ordered(s \o CommandRows)
           /\ turn > 0 /\ (\A i \in DOMAIN s : s[i].turn < turn) =>
                 \A i \in DOMAIN (s \o CommandRows) : (s \o CommandRows)[i].turn < turn
    <1> DEFINE w == CommandRows
    <1>1. w \in Seq(RowOf(turn)) /\ Len(w) = 2 /\ \A i \in 1..2 : w[i].turn = 0 BY CommandRowsAre
    <1>2. turn \in Nat BY DEF Typed
    <1> HIDE DEF w
    <1>3. \A i \in DOMAIN w : w[i].turn = 0 BY <1>1
    <1>4. Ordered(w) BY <1>3 DEF Ordered, Before
    <1>5. \A i \in DOMAIN s, j \in DOMAIN w : Before(s[i], w[j]) BY <1>3 DEF Before
    <1>6. s \o w \in Seq(RowOf(turn)) /\ Ordered(s \o w) BY <1>1, <1>2, <1>4, <1>5, Joined
    <1>7. ASSUME turn > 0, \A i \in DOMAIN s : s[i].turn < turn, NEW i \in DOMAIN (s \o w)
          PROVE  (s \o w)[i].turn < turn
        <2>1. i \in 1..(Len(s) + Len(w)) /\ (s \o w)[i] = IF i <= Len(s) THEN s[i] ELSE w[i - Len(s)]
            <3>1. w \in Seq(RowOf(turn)) /\ s \in Seq(RowOf(turn)) BY <1>1
            <3>2. \A j \in 1..(Len(s) + Len(w)) : (s \o w)[j] = IF j <= Len(s) THEN s[j] ELSE w[j - Len(s)] BY <3>1
            <3>3. DOMAIN (s \o w) = 1..(Len(s) + Len(w)) BY <3>1
            <3> QED BY <1>7, <3>2, <3>3
        <2>2. CASE i <= Len(s) BY <1>7, <2>1, <2>2
        <2>3. CASE i > Len(s)
            <3>1. i - Len(s) \in DOMAIN w BY <1>1, <2>1, <2>3
            <3> QED BY <1>3, <1>7, <2>1, <2>3, <3>1
        <2> QED BY <2>1, <2>2, <2>3
    <1> QED BY <1>6, <1>7 DEF w

\* The rows of a checkpoint come after those saved.
LEMMA RestoredInOrder ==
    ASSUME PersistInv, ckpt # <<>>
    PROVE  Restored(rows, ckpt) \in Seq(RowOf(turn)) /\ Ordered(Restored(rows, ckpt))
    <1>1. /\ turn \in Nat /\ rows \in Seq(RowOf(turn)) /\ ckpt \in Seq(RowOf(turn)) /\ Len(ckpt) <= 2
          /\ Ordered(rows)
        BY DEF PersistInv, Typed
    <1>2. \A i \in DOMAIN rows : rows[i].turn < turn BY DEF PersistInv, SavedAtEnd, NoneSaved
    <1>3. \A i, j \in DOMAIN ckpt : ckpt[i].turn = turn /\ ckpt[i].n = ckpt[j].n
        BY DEF PersistInv, OneCheckpoint, CheckpointCurrent
    <1>4. PICK k \in 0..Len(ckpt) : Restored(rows, ckpt) = rows \o SubSeq(ckpt, k + 1, Len(ckpt))
        BY <1>1, RestoredIs
    <1> DEFINE w == SubSeq(ckpt, k + 1, Len(ckpt))
    <1>5. k + 1 \in 1..(Len(ckpt) + 1) /\ Len(ckpt) \in 0..Len(ckpt) BY <1>1
    <1>6. w \in Seq(RowOf(turn)) /\ \A i \in 1..Len(w) : w[i] = ckpt[k + 1 + i - 1]
        BY <1>1, <1>5, SubSeqIs
    <1>7. \A i \in 1..Len(w) : k + 1 + i - 1 \in DOMAIN ckpt
        <2>1. Len(w) = IF Len(ckpt) < k + 1 THEN 0 ELSE Len(ckpt) - (k + 1) + 1 BY <1>1, <1>5, SubSeqIs
        <2> HIDE DEF w
        <2> QED BY <1>1, <2>1
    <1> HIDE DEF w
    <1>8. DOMAIN w = 1..Len(w) BY <1>6
    <1>9. \A i, j \in DOMAIN w : w[i].turn = turn /\ w[i].n = w[j].n BY <1>3, <1>6, <1>7, <1>8
    <1>10. \A i \in DOMAIN w : w[i] \in RowOf(turn) BY <1>6
    <1>11. Ordered(w) BY <1>1, <1>9, <1>10 DEF Ordered, Before, RowOf
    <1>12. \A i \in DOMAIN rows : rows[i] \in RowOf(turn) BY <1>1
    <1>13. \A i \in DOMAIN rows, j \in DOMAIN w : Before(rows[i], w[j])
        BY SMTT(30), <1>2, <1>9, <1>12, <1>1 DEF Before, RowOf
    <1>14. rows \o w \in Seq(RowOf(turn)) /\ Ordered(rows \o w) BY <1>1, <1>6, <1>11, <1>13, Joined
    <1> QED BY <1>4, <1>14 DEF w

\* The rows a later turn, or a command that is one, begins with.
LEMMA RecoveredInOrder == ASSUME PersistInv PROVE Recovered \in Seq(RowOf(turn)) /\ Ordered(Recovered)
    <1>1. Typed /\ Ordered(rows) /\ rows \in Seq(RowOf(turn)) BY DEF PersistInv, Typed
    <1>2. CASE ckpt # <<>> BY <1>2, RestoredInOrder DEF Recovered
    <1>3. CASE ckpt = <<>> /\ pending /\ rows # <<>> /\ IsUser(LastRow(rows))
        <2>1. Recovered = Append(rows, Closing) BY <1>3 DEF Recovered
        <2>2. \A i \in DOMAIN rows : rows[i].turn < turn BY <1>3 DEF PersistInv, SavedAtEnd, NoneSaved
        <2>3. turn \in Nat /\ 0 \in 0..N BY <1>1, PersistenceAssumption DEF Typed, N
        <2>4. Closing \in RowOf(turn) /\ Closing.turn = turn BY <2>3 DEF Closing, RowOf, Roles
        <2> QED BY <1>1, <2>1, <2>2, <2>3, <2>4, JoinedRow
    <1>4. CASE ckpt = <<>> /\ ~(pending /\ rows # <<>> /\ IsUser(LastRow(rows)))
        <2>1. Recovered = rows BY <1>4 DEF Recovered
        <2> QED BY <1>1, <2>1
    <1> QED BY <1>2, <1>3, <1>4

\* What a command that cancels the running turn leaves.
LEMMA CancelledInOrder ==
    ASSUME PersistInv
    PROVE  /\ AfterCancel \in Seq(RowOf(turn)) /\ Ordered(AfterCancel)
           /\ ~CancelRestores => AfterCancel = rows
    BY RestoredInOrder DEF AfterCancel, CancelRestores, PersistInv, Typed

----------------------------------------------------------------------------
(* The steps that end a turn, and the commands. *)

\* A session at rest: what is still to be closed or folded in has none of its rows saved.
LEMMA RestKeeps ==
    ASSUME PersistInv, Idle, UNCHANGED <<turn, taken>>,
           rows' \in Seq(RowOf(turn)), Ordered(rows'), again' \subseteq SUBSET Msgs, pending' \in BOOLEAN,
           interrupts' \in 0..MaxInterrupts, commands' \in 0..MaxCommands,
           ckpt' = ckpt \/ ckpt' = <<>>,
           pending' \/ ckpt' # <<>> => turn > 0 /\ \A i \in DOMAIN rows' : rows'[i].turn < turn
    PROVE  PersistInv'
    <1>1. Typed /\ OneCheckpoint BY DEF PersistInv
    <1>2. phase' = "idle" /\ msgs' = <<>> /\ cur' = {} /\ skip' = 0 /\ iter' = 0 BY DEF Idle
    <1>3. <<>> \in Seq(RowOf(turn)) /\ Len(<<>>) <= 2 OBVIOUS
    <1>4. ckpt' \in Seq(RowOf(turn)) /\ Len(ckpt') <= 2 BY <1>1, <1>3 DEF Typed
    <1>5. 0 \in 0..MaxIter BY PersistenceAssumption
    <1>6. Typed' BY <1>1, <1>2, <1>3, <1>4, <1>5 DEF Typed, Phases
    <1>7. OneCheckpoint'
        <2>1. CASE ckpt' = ckpt BY <1>1, <2>1 DEF OneCheckpoint, CheckpointCurrent
        <2>2. CASE ckpt' = <<>> BY <2>2 DEF OneCheckpoint, CheckpointCurrent
        <2> QED BY <2>1, <2>2
    <1>8. phase' \notin Running /\ phase' # "recovered" BY <1>2 DEF Running
    <1>9. SavedAtEnd' BY <1>8 DEF SavedAtEnd, NoneSaved
    <1>10. Ordered(rows)' BY DEF Ordered
    <1> QED BY <1>6, <1>7, <1>8, <1>9, <1>10 DEF PersistInv, Recovered0, RunInOrder

\* A turn that ends saves what it added.
LEMMA EndTurnKeepsInv == ASSUME PersistInv, EndTurn PROVE PersistInv'
    <1>1. phase = "final" /\ Idle /\ rows' = rows \o SubSeq(msgs, skip + 1, Len(msgs)) /\ pending' = FALSE
          /\ ckpt' = <<>> /\ UNCHANGED <<turn, taken, again, interrupts, commands>>
        BY DEF EndTurn
    <1>2. /\ turn \in Nat /\ skip \in Nat /\ rows \in Seq(RowOf(turn)) /\ msgs \in Seq(RowOf(turn)) /\ Ordered(rows)
          /\ again \subseteq SUBSET Msgs /\ interrupts \in 0..MaxInterrupts /\ commands \in 0..MaxCommands
        BY DEF PersistInv, Typed
    <1>3. MadeBeyond(msgs, skip, turn, iter) /\ NoneSaved
        BY <1>1 DEF PersistInv, RunInOrder, SavedAtEnd, Running
    <1> DEFINE w == SubSeq(msgs, skip + 1, Len(msgs))
    <1>4. w \in Seq(RowOf(turn)) /\ \A i \in DOMAIN w : skip + i \in DOMAIN msgs /\ w[i] = msgs[skip + i]
        <2>1. CASE skip + 1 \in 1..(Len(msgs) + 1)
            <3>1. Len(msgs) \in 0..Len(msgs) BY <1>2
            <3>2. /\ w \in Seq(RowOf(turn)) /\ Len(w) = IF Len(msgs) < skip + 1 THEN 0 ELSE Len(msgs) - (skip + 1) + 1
                  /\ \A i \in 1..Len(w) : w[i] = msgs[skip + 1 + i - 1]
                BY <1>2, <2>1, <3>1, SubSeqIs
            <3> HIDE DEF w
            <3>3. DOMAIN w = 1..Len(w) BY <3>2
            <3>4. \A i \in 1..Len(w) : skip + 1 + i - 1 = skip + i /\ skip + i \in 1..Len(msgs) BY <1>2, <3>2
            <3>5. DOMAIN msgs = 1..Len(msgs) BY <1>2
            <3> QED BY <3>2, <3>3, <3>4, <3>5
        <2>2. CASE skip + 1 \notin 1..(Len(msgs) + 1)
            <3>1. w = <<>> BY <1>2, <2>2
            <3> HIDE DEF w
            <3>2. w \in Seq(RowOf(turn)) /\ DOMAIN w = {} BY <3>1
            <3> QED BY <3>2
        <2> QED BY <2>1, <2>2
    <1> HIDE DEF w
    <1>5. DOMAIN w = 1..Len(w) BY <1>4
    <1>6. Ordered(w)
        <2> SUFFICES ASSUME NEW i \in DOMAIN w, NEW j \in DOMAIN w, i < j PROVE Before(w[i], w[j]) BY DEF Ordered
        <2>1. skip < skip + i /\ skip + i < skip + j BY <1>2, <1>5
        <2> QED BY <1>3, <1>4, <2>1 DEF MadeBeyond
    <1>7. ASSUME NEW i \in DOMAIN rows, NEW j \in DOMAIN w PROVE Before(rows[i], w[j])
        <2>1. skip + j > skip BY <1>2, <1>5
        <2>2. w[j].turn = 0 \/ w[j].turn = turn BY <1>3, <1>4, <2>1 DEF MadeBeyond
        <2>3. rows[i] \in RowOf(turn) /\ rows[i].turn < turn BY <1>2, <1>3 DEF NoneSaved
        <2> QED BY <1>2, <2>2, <2>3 DEF Before, RowOf
    <1>8. rows \o w \in Seq(RowOf(turn)) /\ Ordered(rows \o w) BY <1>2, <1>4, <1>6, <1>7, Joined
    <1>9. rows' = rows \o w BY <1>1 DEF w
    <1> QED BY <1>1, <1>2, <1>8, <1>9, RestKeeps

\* A turn cut short leaves what was saved.
LEMMA InterruptKeeps == ASSUME PersistInv, Interrupt PROVE PersistInv'
    <1>1. /\ Idle /\ UNCHANGED <<rows, pending, ckpt, turn, taken, again, commands>>
          /\ interrupts < MaxInterrupts /\ interrupts' = interrupts + 1
        BY DEF Interrupt, saved
    <1>2. /\ rows \in Seq(RowOf(turn)) /\ Ordered(rows) /\ again \subseteq SUBSET Msgs /\ pending \in BOOLEAN
          /\ interrupts \in 0..MaxInterrupts /\ commands \in 0..MaxCommands
        BY DEF PersistInv, Typed
    <1>3. interrupts' \in 0..MaxInterrupts BY <1>1, <1>2, PersistenceAssumption
    <1>4. pending \/ ckpt # <<>> => turn > 0 /\ \A i \in DOMAIN rows : rows[i].turn < turn
        BY DEF PersistInv, SavedAtEnd, NoneSaved
    <1> QED BY <1>1, <1>2, <1>3, <1>4, RestKeeps

\* The commands that end a turn.
LEMMA CommandsKeep == ASSUME PersistInv, Stop \/ New \/ Regenerate PROVE PersistInv'
    <1>1. /\ Typed /\ turn \in Nat /\ rows \in Seq(RowOf(turn)) /\ Ordered(rows) /\ again \subseteq SUBSET Msgs
          /\ pending \in BOOLEAN /\ interrupts \in 0..MaxInterrupts /\ commands \in 0..MaxCommands
        BY DEF PersistInv, Typed
    <1>2. \A c : Command(c) => commands' \in 0..MaxCommands BY <1>1, PersistenceAssumption DEF Command
    <1>3. pending \/ ckpt # <<>> => turn > 0 /\ \A i \in DOMAIN rows : rows[i].turn < turn
        BY DEF PersistInv, SavedAtEnd, NoneSaved
    <1>4. /\ AfterCancel \in Seq(RowOf(turn)) /\ Ordered(AfterCancel)
          /\ ~CancelRestores => AfterCancel = rows
        BY CancelledInOrder
    <1>5. FlagsAfterCancel => /\ ckpt' = ckpt \/ ckpt' = <<>>
                              /\ pending' \in BOOLEAN
                              /\ pending' \/ ckpt' # <<>> => ~CancelRestores /\ (pending \/ ckpt # <<>>)
        BY <1>1 DEF FlagsAfterCancel
    <1>6. CASE Stop
        <2>1. /\ Idle /\ FlagsAfterCancel /\ rows' = AfterCancel \o CommandRows /\ commands' \in 0..MaxCommands
              /\ UNCHANGED <<turn, taken, again, interrupts>>
            BY <1>2, <1>6 DEF Stop
        <2>2. rows' \in Seq(RowOf(turn)) /\ Ordered(rows') BY <1>1, <1>4, <2>1, JoinedCommand
        <2>3. pending' \/ ckpt' # <<>> => turn > 0 /\ \A i \in DOMAIN rows' : rows'[i].turn < turn
            BY <1>1, <1>3, <1>4, <1>5, <2>1, JoinedCommand
        <2> QED BY <1>1, <1>5, <2>1, <2>2, <2>3, RestKeeps
    <1>7. CASE New
        <2>1. /\ Idle /\ rows' = <<>> /\ ckpt' = <<>> /\ commands' \in 0..MaxCommands
              /\ pending' = (phase # "idle" /\ pending /\ ~CancelRestores)
              /\ UNCHANGED <<turn, taken, again, interrupts>>
            BY <1>2, <1>7 DEF New
        <2>2. rows' \in Seq(RowOf(turn)) /\ Ordered(rows') /\ DOMAIN rows' = {} BY <2>1 DEF Ordered
        <2>3. pending' => turn > 0 BY <1>3, <2>1
        <2>4. pending' \in BOOLEAN BY <2>1
        <2> QED BY <1>1, <2>1, <2>2, <2>3, <2>4, RestKeeps
    <1>8. CASE Regenerate
        <2> DEFINE users == {i \in DOMAIN AfterCancel : IsUser(AfterCancel[i])}
                   last == Latest(users)
        <2>1. /\ Idle /\ FlagsAfterCancel /\ commands' \in 0..MaxCommands /\ UNCHANGED <<turn, taken, interrupts>>
              /\ IF users = {}
                 THEN rows' = AfterCancel /\ UNCHANGED again
                 ELSE /\ rows' = SubSeq(AfterCancel, 1, last)
                      /\ again' = IF AfterCancel[last].role = "user"
                                  THEN again \cup {AfterCancel[last].of} ELSE again
            BY <1>2, <1>8 DEF Regenerate
        <2>2. /\ rows' \in Seq(RowOf(turn)) /\ Ordered(rows') /\ again' \subseteq SUBSET Msgs
              /\ \A i \in DOMAIN rows' : i \in DOMAIN AfterCancel /\ rows'[i] = AfterCancel[i]
            <3>1. CASE users = {} BY <1>1, <1>4, <2>1, <3>1
            <3>2. CASE users # {}
                <4>1. users \in SUBSET (0..Len(AfterCancel)) /\ Len(AfterCancel) \in Nat /\ users \subseteq 1..Len(AfterCancel)
                    BY <1>4
                <4>2. rows' = SubSeq(AfterCancel, 1, last) BY <2>1, <3>2
                <4>3. again' = IF AfterCancel[last].role = "user" THEN again \cup {AfterCancel[last].of} ELSE again
                    BY <2>1, <3>2
                <4> HIDE DEF users
                <4>4. last \in users BY <3>2, <4>1, LatestIs
                <4>5. last \in 1..Len(AfterCancel) BY <4>1, <4>4
                <4> HIDE DEF last
                <4>6. AfterCancel[last] \in RowOf(turn) BY <1>4, <4>5
                <4>7. again' \subseteq SUBSET Msgs BY <1>1, <4>3, <4>6 DEF RowOf
                <4>8. 1 \in 1..(Len(AfterCancel) + 1) /\ last \in 0..Len(AfterCancel) BY <4>1, <4>5
                <4>9. /\ rows' \in Seq(RowOf(turn)) /\ Len(rows') = last
                      /\ \A i \in 1..Len(rows') : rows'[i] = AfterCancel[1 + i - 1]
                    BY <1>4, <4>2, <4>5, <4>8, SubSeqIs
                <4>10. \A i \in 1..last : 1 + i - 1 = i /\ i \in 1..Len(AfterCancel) BY <4>1, <4>5
                <4>11. \A i \in DOMAIN rows' : i \in DOMAIN AfterCancel /\ rows'[i] = AfterCancel[i]
                    BY <1>4, <4>9, <4>10
                <4>12. Ordered(rows') BY <1>4, <4>11 DEF Ordered
                <4> QED BY <4>7, <4>9, <4>11, <4>12
            <3> QED BY <3>1, <3>2
        <2>3. pending' \/ ckpt' # <<>> => turn > 0 /\ \A i \in DOMAIN rows' : rows'[i].turn < turn
            BY <1>3, <1>4, <1>5, <2>1, <2>2
        <2> QED BY <1>1, <1>5, <2>1, <2>2, <2>3, RestKeeps
    <1> QED BY <1>6, <1>7, <1>8

----------------------------------------------------------------------------
(* The steps that begin a turn, and the commands beside one. *)

\* A session that is recovered has nothing to be closed or folded in.
LEMMA RecoverKeepsInv == ASSUME PersistInv, NEW of \in SUBSET (Msgs \cup Subs), Recover(of) PROVE PersistInv'
    <1>1. /\ rows' = Recovered /\ pending' = FALSE /\ ckpt' = <<>> /\ phase' = "recovered" /\ cur' = of
          /\ taken' = taken \cup of /\ again' \subseteq again
          /\ UNCHANGED <<msgs, skip, turn, iter, interrupts, commands>>
        BY DEF Recover
    <1>2. Typed BY DEF PersistInv
    <1>3. Recovered \in Seq(RowOf(turn)) /\ Ordered(Recovered) BY RecoveredInOrder
    <1>4. <<>> \in Seq(RowOf(turn)) /\ Len(<<>>) <= 2 OBVIOUS
    <1>5. Typed' BY <1>1, <1>2, <1>3, <1>4 DEF Typed, Phases
    <1>6. OneCheckpoint' BY <1>1 DEF OneCheckpoint, CheckpointCurrent
    <1>7. phase' \notin Running BY <1>1 DEF Running
    <1>8. Ordered(rows)' BY <1>1, <1>3 DEF Ordered
    <1> QED BY <1>1, <1>5, <1>6, <1>7, <1>8 DEF PersistInv, SavedAtEnd, Recovered0, RunInOrder

\* A turn begins: what is saved of it has no number, and what it is to save is still to be made.
LEMMA BeginKeeps ==
    ASSUME PersistInv, phase = "recovered", phase' = "model", turn' = turn + 1, iter' = 1, pending' \in BOOLEAN,
           NEW r \in RowOf(turn), r.turn = 0, rows' = Append(rows, r),
           msgs' \in Seq(RowOf(turn)), skip' \in Nat, Len(msgs') <= skip',
           UNCHANGED <<ckpt, cur, taken, again, interrupts, commands>>
    PROVE  PersistInv'
    <1>1. Typed /\ Ordered(rows) /\ ckpt = <<>> /\ turn \in Nat /\ rows \in Seq(RowOf(turn))
        BY DEF PersistInv, Recovered0, Typed
    <1>2. Append(rows, r) \in Seq(RowOf(turn)) /\ Ordered(Append(rows, r)) BY <1>1, JoinedRow
    <1>3. rows' \in Seq(RowOf(turn')) /\ msgs' \in Seq(RowOf(turn')) BY <1>1, <1>2, MoreTurns
    <1>4. ckpt' = <<>> /\ ckpt' \in Seq(RowOf(turn')) /\ Len(ckpt') <= 2 BY <1>1
    <1>5. turn' \in Nat /\ iter' \in 0..MaxIter BY <1>1, PersistenceAssumption
    <1>6. Typed' BY <1>1, <1>3, <1>4, <1>5 DEF Typed, Phases
    <1>7. OneCheckpoint' BY <1>4 DEF OneCheckpoint, CheckpointCurrent
    <1>8. turn' > 0 /\ \A i \in DOMAIN rows' : rows'[i].turn < turn'
        <2>1. \A i \in DOMAIN rows' : rows'[i] \in RowOf(turn) BY <1>2
        <2>2. \A i \in DOMAIN rows' : rows'[i].turn \in 0..turn BY <2>1 DEF RowOf
        <2> QED BY <1>1, <2>2
    <1>9. MadeBeyond(msgs', skip', turn', iter')
        <2>1. \A i \in DOMAIN msgs' : ~(i > skip') BY <1>3
        <2>2. \A i, j \in DOMAIN msgs' : ~(skip' < i /\ i < j) BY <1>3
        <2> QED BY <2>1, <2>2 DEF MadeBeyond
    <1>10. Ordered(rows)' BY <1>2 DEF Ordered
    <1> QED BY <1>4, <1>6, <1>7, <1>8, <1>9, <1>10 DEF PersistInv, SavedAtEnd, NoneSaved, Recovered0, RunInOrder

\* A turn of a user begins: its row is saved first, behind what was recovered.
LEMMA BeginUserKeeps == ASSUME PersistInv, BeginUserTurn PROVE PersistInv'
    <1>1. /\ phase = "recovered" /\ cur \cap Subs = {} /\ phase' = "model" /\ turn' = turn + 1 /\ iter' = 1
          /\ msgs' = AddUser(History(rows), UserRow(cur)) /\ skip' = Len(History(rows)) + 1
          /\ rows' = Append(rows, UserRow(cur)) /\ pending' = TRUE
          /\ UNCHANGED <<ckpt, cur, taken, again, interrupts, commands>>
        BY DEF BeginUserTurn
    <1>2. turn \in Nat /\ cur \in SUBSET Msgs /\ rows \in Seq(RowOf(turn)) BY <1>1 DEF PersistInv, Typed
    <1>3. UserRow(cur) \in RowOf(turn) /\ UserRow(cur).turn = 0 /\ UserRow(cur).of = cur BY <1>2, UserRowIs
    <1> DEFINE h == History(rows)
    <1>4. h \in Seq(RowOf(turn)) BY <1>2, HistoryType
    <1> HIDE DEF h
    <1>5. AddUser(h, UserRow(cur)) \in Seq(RowOf(turn)) /\ Len(AddUser(h, UserRow(cur))) <= Len(h) + 1
        <2>1. CASE EndsWith(h, "user")
            <3>1. h # <<>> /\ h[Len(h)].role = "user" BY <2>1 DEF EndsWith, LastRow
            <3>2. Len(h) \in 1..Len(h) BY <1>4, <3>1
            <3>3. h[Len(h)] \in RowOf(turn) BY <1>4, <3>2
            <3> DEFINE q == [h[Len(h)] EXCEPT !.of = @ \cup cur]
            <3>4. q \in RowOf(turn) BY <1>2, <3>1, <3>3 DEF RowOf
            <3>5. AddUser(h, UserRow(cur)) = [h EXCEPT ![Len(h)] = q] BY <1>3, <2>1 DEF AddUser
            <3> HIDE DEF q
            <3>6. [h EXCEPT ![Len(h)] = q] \in Seq(RowOf(turn)) /\ Len([h EXCEPT ![Len(h)] = q]) = Len(h)
                BY <1>4, <3>2, <3>4
            <3> QED BY <1>4, <3>5, <3>6
        <2>2. CASE ~EndsWith(h, "user")
            <3>1. AddUser(h, UserRow(cur)) = Append(h, UserRow(cur)) BY <2>2 DEF AddUser
            <3> QED BY <1>3, <1>4, <3>1
        <2> QED BY <2>1, <2>2
    <1>6. /\ msgs' \in Seq(RowOf(turn)) /\ skip' \in Nat /\ Len(msgs') <= skip' BY <1>1, <1>4, <1>5 DEF h
    <1> QED BY <1>1, <1>3, <1>6, BeginKeeps

\* A turn of a subagent result begins likewise.
LEMMA BeginSubKeeps == ASSUME PersistInv, BeginSubTurn PROVE PersistInv'
    <1>1. PICK s \in Subs : /\ phase = "recovered" /\ cur = {s} /\ phase' = "model" /\ turn' = turn + 1 /\ iter' = 1
                            /\ rows' = Append(rows, SubRow(s))
                            /\ msgs' = History(rows') /\ skip' = Len(History(rows'))
                            /\ UNCHANGED <<pending, ckpt, cur, taken, again, interrupts, commands>>
        BY DEF BeginSubTurn
    <1>2. turn \in Nat /\ rows \in Seq(RowOf(turn)) /\ pending \in BOOLEAN BY DEF PersistInv, Typed
    <1>3. SubRow(s) \in RowOf(turn) /\ SubRow(s).turn = 0
        BY <1>2, PersistenceAssumption DEF SubRow, RowOf, Roles, N
    <1>4. rows' \in Seq(RowOf(turn)) BY <1>1, <1>2, <1>3
    <1>5. msgs' \in Seq(RowOf(turn)) BY <1>1, <1>4, HistoryType
    <1>6. skip' = Len(msgs') /\ skip' \in Nat /\ Len(msgs') <= skip' BY <1>1, <1>5
    <1> QED BY <1>1, <1>2, <1>3, <1>5, <1>6, BeginKeeps

\* A command beside a running turn, and one that is a turn, add their exchange.
LEMMA InlineKeeps == ASSUME PersistInv, InlineCommand PROVE PersistInv'
    <1>1. /\ rows' = rows \o CommandRows /\ Command("inline")
          /\ UNCHANGED <<pending, ckpt, phase, cur, msgs, skip, turn, iter, taken, again, interrupts>>
        BY DEF InlineCommand, volatile
    <1>2. Typed /\ Ordered(rows) /\ rows \in Seq(RowOf(turn)) BY DEF PersistInv, Typed
    <1>3. commands' \in 0..MaxCommands BY <1>1, <1>2, PersistenceAssumption DEF Command, Typed
    <1>4. rows' \in Seq(RowOf(turn)) /\ Ordered(rows') BY <1>1, <1>2, JoinedCommand
    <1>5. Typed' BY <1>1, <1>2, <1>3, <1>4 DEF Typed
    <1>6. OneCheckpoint' BY <1>1 DEF PersistInv, OneCheckpoint, CheckpointCurrent
    <1>7. SavedAtEnd'
        <2> SUFFICES ASSUME pending \/ ckpt # <<>> \/ phase \in Running PROVE turn > 0 /\ NoneSaved'
            BY <1>1 DEF SavedAtEnd
        <2>1. turn > 0 /\ \A i \in DOMAIN rows : rows[i].turn < turn BY DEF PersistInv, SavedAtEnd, NoneSaved
        <2>2. \A i \in DOMAIN rows' : rows'[i].turn < turn BY <1>1, <1>2, <2>1, JoinedCommand
        <2> QED BY <1>1, <2>1, <2>2 DEF NoneSaved
    <1>8. Ordered(rows)' BY <1>4 DEF Ordered
    <1>9. Recovered0' /\ RunInOrder' BY <1>1 DEF PersistInv, Recovered0, RunInOrder, MadeBeyond
    <1> QED BY <1>5, <1>6, <1>7, <1>8, <1>9 DEF PersistInv

\* A command saves two rows of its own.
LEMMA CommandTurnKeeps == ASSUME PersistInv, CommandTurn PROVE PersistInv'
    <1>1. /\ phase = "idle" /\ rows' = Recovered \o CommandRows /\ pending' = FALSE /\ ckpt' = <<>> /\ Command("inline")
          /\ UNCHANGED <<phase, cur, msgs, skip, turn, iter, taken, again, interrupts>>
        BY DEF CommandTurn, volatile
    <1>2. Typed BY DEF PersistInv
    <1>3. commands' \in 0..MaxCommands BY <1>1, <1>2, PersistenceAssumption DEF Command, Typed
    <1>4. rows' \in Seq(RowOf(turn)) /\ Ordered(rows') BY <1>1, <1>2, RecoveredInOrder, JoinedCommand
    <1>5. <<>> \in Seq(RowOf(turn)) /\ Len(<<>>) <= 2 OBVIOUS
    <1>6. Typed' BY <1>1, <1>2, <1>3, <1>4, <1>5 DEF Typed
    <1>7. OneCheckpoint' BY <1>1 DEF OneCheckpoint, CheckpointCurrent
    <1>8. phase' \notin Running /\ phase' # "recovered" BY <1>1 DEF Running
    <1>9. Ordered(rows)' BY <1>4 DEF Ordered
    <1> QED BY <1>1, <1>6, <1>7, <1>8, <1>9 DEF PersistInv, SavedAtEnd, Recovered0, RunInOrder

----------------------------------------------------------------------------

\* Every step, those of the environment included, keeps the invariant.
LEMMA PersistInvNext == ASSUME PersistInv, [Next]_vars PROVE PersistInv'
    <1>1. ASSUME NEW of \in SUBSET (Msgs \cup Subs), Recover(of) PROVE PersistInv' BY <1>1, RecoverKeepsInv
    <1>2. CASE BeginUserTurn BY <1>2, BeginUserKeeps
    <1>3. CASE BeginSubTurn BY <1>3, BeginSubKeeps
    <1>4. CASE \/ CallTools \/ ToolsDone \/ ToolsFatal \/ Reply \/ Truncated
               \/ ModelError \/ BlankAnswer \/ Exhausted
        BY <1>4, RunnerKeeps
    <1>5. CASE EndTurn BY <1>5, EndTurnKeepsInv
    <1>6. CASE Interrupt BY <1>6, InterruptKeeps
    <1>7. CASE Stop \/ New \/ Regenerate BY <1>7, CommandsKeep
    <1>8. CASE InlineCommand BY <1>8, InlineKeeps
    <1>9. CASE CommandTurn BY <1>9, CommandTurnKeeps
    <1>10. CASE UNCHANGED vars
        BY <1>10 DEF vars, saved, volatile, PersistInv, Typed, Ordered, OneCheckpoint, CheckpointCurrent,
                     SavedAtEnd, NoneSaved, Recovered0, RunInOrder, MadeBeyond
    <1> QED BY <1>1, <1>2, <1>3, <1>4, <1>5, <1>6, <1>7, <1>8, <1>9, <1>10 DEF Next

\* It holds of a new session.
LEMMA PersistInvInit == ASSUME Init PROVE PersistInv
    <1>1. <<>> \in Seq(RowOf(0)) /\ Len(<<>>) = 0 /\ DOMAIN <<>> = {} OBVIOUS
    <1>2. 0 \in 0..MaxIter /\ 0 \in 0..MaxInterrupts /\ 0 \in 0..MaxCommands BY PersistenceAssumption
    <1>3. Typed
        <2>1. /\ rows = <<>> /\ msgs = <<>> /\ ckpt = <<>> /\ pending = FALSE /\ phase = "idle" /\ cur = {} /\ taken = {}
              /\ again = {} /\ skip = 0 /\ turn = 0 /\ iter = 0 /\ interrupts = 0 /\ commands = 0
            BY DEF Init
        <2>2. rows \in Seq(RowOf(turn)) /\ msgs \in Seq(RowOf(turn)) /\ ckpt \in Seq(RowOf(turn)) /\ Len(ckpt) <= 2
            BY <1>1, <2>1
        <2> QED BY <1>2, <2>1, <2>2 DEF Typed, Phases
    <1>4. Ordered(rows) BY <1>1 DEF Init, Ordered
    <1>5. OneCheckpoint BY <1>1 DEF Init, OneCheckpoint, CheckpointCurrent
    <1>6. SavedAtEnd /\ Recovered0 /\ RunInOrder BY DEF Init, SavedAtEnd, Recovered0, RunInOrder, Running
    <1> QED BY <1>3, <1>4, <1>5, <1>6 DEF PersistInv

\* Whatever interruptions, recoveries, commands and follow-ups a session goes through, its rows
\* have their types and stand in the order turns made them, and a checkpoint that is saved is that
\* of the last turn: for every number of messages, turns, model calls and commands.
THEOREM SessionKept == Spec => []SessionSound
    <1>1. PersistInv => SessionSound
        <2> SUFFICES ASSUME PersistInv PROVE SessionSound OBVIOUS
        <2>1. RowOf(turn) \subseteq Row BY DEF RowOf, Row, N
        <2>2. Typed /\ Ordered(rows) /\ CheckpointCurrent BY DEF PersistInv, OneCheckpoint
        <2>3. rows \in Seq(Row) /\ msgs \in Seq(Row) /\ ckpt \in Seq(Row)
            <3> HIDE DEF Row
            <3> QED BY <2>1, <2>2 DEF Typed
        <2>4. TypeOK BY <2>2, <2>3 DEF Typed, TypeOK
        <2>5. RowsInOrder BY <2>2 DEF Ordered, Before, RowsInOrder
        <2> QED BY <2>2, <2>4, <2>5 DEF SessionSound
    <1> QED BY <1>1, PersistInvInit, PersistInvNext, PTL DEF Spec

----------------------------------------------------------------------------
(* A session whose turns no command and no follow-up meddles with: the invariant. *)

\* Behind the first k rows every tool result directly follows its request, and every request but
\* one at the end has its result.
LegalFrom(s, k) ==
    \A i \in (k + 1)..Len(s) :
        /\ IsTool(s[i]) => i > k + 1 /\ Answers(s[i], s[i - 1])
        /\ s[i].role = "calls" => i = Len(s) \/ Answers(s[i + 1], s[i])
OpenCall(s) == EndsWith(s, "calls")

\* No two rows are alike or have a user message in common.
Unalike(s) == \A i, j \in DOMAIN s : i # j => s[i] # s[j] /\ s[i].of \cap s[j].of = {}

\* Rows that a session may hold, of messages of M: whole exchanges, each row once.
Sound(s, M) ==
    /\ LegalFrom(s, 0) /\ ~OpenCall(s) /\ Unalike(s)
    /\ \A i \in DOMAIN s : Plain(s[i]) /\ s[i].of \subseteq M

\* The session is sound, and a message at its end waits for a turn to close it; what a turn is
\* about to answer is not in it.
QuietRows ==
    /\ again = {} /\ Sound(rows, taken)
    /\ EndsWith(rows, "user") => pending
    /\ phase = "recovered" =>
          ~pending /\ \E m \in taken : cur = {m} /\ \A i \in DOMAIN rows : m \notin rows[i].of

\* A checkpoint is sound by itself: a reply, or a request with its result.
QuietCheckpoint == Sound(ckpt, {}) /\ ~EndsWith(ckpt, "user")

\* A message list.  Up to skip it is the prompt, whose user messages are saved; beyond it is what
\* the turn made.
QuietList(s) ==
    /\ skip <= Len(s)
    /\ \A i \in 1..skip : /\ s[i].turn < turn \/ s[i].role = "notice"
                          /\ s[i].role = "user" => s[i].of \subseteq Origins(rows)
    /\ \A i \in (skip + 1)..Len(s) : s[i].turn = turn /\ s[i].of = {} /\ Plain(s[i])
    /\ LegalFrom(s, skip)
    /\ \A i, j \in (skip + 1)..Len(s) : i # j => s[i] # s[j]
    /\ Len(s) = skip /\ EndsWith(rows, "user") => EndsWith(s, "user")

\* What the present call may have put into it.
QuietCall ==
    /\ phase = "model" => ~OpenCall(msgs) /\ \A i \in (skip + 1)..Len(msgs) : msgs[i].n < iter
    /\ phase = "tools" => /\ Len(msgs) > skip /\ msgs[Len(msgs)] = Made("calls")
                          /\ \A i \in (skip + 1)..Len(msgs) : msgs[i].n = iter => i = Len(msgs)
    /\ phase = "exhausted" =>
          ~OpenCall(msgs) /\ \A i \in (skip + 1)..Len(msgs) : msgs[i].n = iter => msgs[i].role # "notice"
    /\ phase = "final" => ~OpenCall(msgs) /\ ~EndsWith(msgs, "user")

QuietInv == QuietRows /\ QuietCheckpoint /\ (phase \in Running => QuietList(msgs) /\ QuietCall)

----------------------------------------------------------------------------
(* What the operators make of plain rows. *)

\* A history ends as the session does, or is empty.
LEMMA HistoryEnds ==
    ASSUME NEW D, NEW s \in Seq(D), \A i \in DOMAIN s : Plain(s[i]), NEW role, EndsWith(History(s), role)
    PROVE  EndsWith(s, role)
    <1> DEFINE users == {i \in 1..Len(s) : IsUser(s[i])}
               t == IF users = {} THEN s ELSE SubSeq(s, Earliest(users), Len(s))
               Starts == {i \in 1..(Len(t) + 1) : \A k \in i..Len(t) :
                             IsTool(t[k]) => \E c \in i..(k - 1) : Answers(t[k], t[c])}
               EndOf(v, w) == /\ w \in Seq(D) /\ \A i \in DOMAIN w : Plain(w[i])
                              /\ w # <<>> => v # <<>> /\ w[Len(w)] = v[Len(v)]
    <1>0. ASSUME NEW v \in Seq(D), \A i \in DOMAIN v : Plain(v[i]), NEW m \in 1..(Len(v) + 1)
          PROVE  EndOf(v, SubSeq(v, m, Len(v)))
        <2> DEFINE w == SubSeq(v, m, Len(v))
        <2>1. Len(v) \in Nat /\ Len(v) \in 0..Len(v) /\ DOMAIN v = 1..Len(v) OBVIOUS
        <2>2. /\ w \in Seq(D) /\ Len(w) = IF Len(v) < m THEN 0 ELSE Len(v) - m + 1
              /\ \A i \in 1..Len(w) : w[i] = v[m + i - 1]
            BY <2>1, SubSeqIs
        <2> HIDE DEF w
        <2>3. DOMAIN w = 1..Len(w) BY <2>2
        <2>4. \A i \in 1..Len(w) : m + i - 1 \in DOMAIN v BY <2>1, <2>2
        <2>5. \A i \in DOMAIN w : Plain(w[i]) BY <1>0, <2>2, <2>3, <2>4
        <2>6. w # <<>> => v # <<>> /\ w[Len(w)] = v[Len(v)]
            <3> SUFFICES ASSUME w # <<>> PROVE v # <<>> /\ w[Len(w)] = v[Len(v)] OBVIOUS
            <3>1. Len(w) # 0 BY <2>2
            <3>2. Len(w) \in 1..Len(w) /\ m + Len(w) - 1 = Len(v) /\ Len(v) # 0 BY <2>1, <2>2, <3>1
            <3>3. w[Len(w)] = v[m + Len(w) - 1] BY <2>2, <3>2
            <3> QED BY <3>2, <3>3
        <2>7. w \in Seq(D) BY <2>2
        <2> QED BY <2>5, <2>6, <2>7 DEF w
    <1>1. EndOf(s, t)
        <2>1. CASE users = {} BY <2>1
        <2>2. CASE users # {}
            <3>1. users \in SUBSET Nat OBVIOUS
            <3>2. t = SubSeq(s, Earliest(users), Len(s)) BY <2>2
            <3> HIDE DEF users, t
            <3>3. Earliest(users) \in users BY <2>2, <3>1, EarliestIs
            <3>4. Earliest(users) \in 1..(Len(s) + 1) BY <3>3 DEF users
            <3> HIDE DEF EndOf
            <3> QED BY <1>0, <3>2, <3>4
        <2> QED BY <2>1, <2>2
    <1> DEFINE w == SubSeq(t, LegalStart(t), Len(t))
    <1>2. History(s) = PlainRows(w) BY DEF History
    <1> HIDE DEF t
    <1>3. t \in Seq(D) /\ \A i \in DOMAIN t : Plain(t[i]) BY <1>1
    <1>4. LegalStart(t) \in 1..(Len(t) + 1)
        <2>1. Len(t) \in Nat BY <1>3
        <2>2. Starts \in SUBSET Nat OBVIOUS
        <2>3. Len(t) + 1 \in Starts BY <2>1
        <2>4. LegalStart(t) = Earliest(Starts) BY DEF LegalStart
        <2>5. Starts \subseteq 1..(Len(t) + 1) OBVIOUS
        <2> HIDE DEF Starts
        <2>6. Earliest(Starts) \in Starts BY <2>2, <2>3, EarliestIs
        <2> QED BY <2>4, <2>5, <2>6
    <1>5. EndOf(t, w)
        <2> HIDE DEF EndOf
        <2> QED BY <1>0, <1>3, <1>4
    <1> HIDE DEF w
    <1>6. PlainRows(w) = w BY <1>5, PlainRowsAll
    <1>7. w # <<>> /\ w[Len(w)].role = role BY <1>2, <1>6 DEF EndsWith, LastRow
    <1> QED BY <1>1, <1>5, <1>7 DEF EndsWith, LastRow

\* Rows of an earlier turn are none of the checkpoint's: all of it is folded in.
LEMMA RestoredWhole ==
    ASSUME NEW D, NEW s \in Seq(D), NEW c \in Seq(D), Len(c) <= 2, NEW t \in Nat,
           \A i \in DOMAIN s : s[i].turn # t, \A i \in DOMAIN c : c[i].turn = t
    PROVE  Restored(s, c) = s \o c
    <1> DEFINE shorter == IF Len(s) < Len(c) THEN Len(s) ELSE Len(c)
               Same == {k \in 0..shorter : SubSeq(s, Len(s) - k + 1, Len(s)) = SubSeq(c, 1, k)}
    <1>1. shorter \in Nat /\ shorter <= Len(c) /\ shorter <= Len(s) /\ Len(s) \in Nat /\ Len(c) \in Nat OBVIOUS
    <1>2. 0 \in Same
        <2>1. SubSeq(s, Len(s) + 1, Len(s)) = <<>> /\ SubSeq(c, 1, 0) = <<>> OBVIOUS
        <2>2. Len(s) - 0 + 1 = Len(s) + 1 OBVIOUS
        <2> QED BY <1>1, <2>1, <2>2
    <1>3. ASSUME NEW k \in Same PROVE k = 0
        <2> SUFFICES ASSUME k # 0 PROVE FALSE OBVIOUS
        <2>1. k \in 0..shorter /\ SubSeq(s, Len(s) - k + 1, Len(s)) = SubSeq(c, 1, k) OBVIOUS
        <2> HIDE DEF shorter, Same
        <2>2. /\ k \in 1..Len(c) /\ k \in 1..Len(s) /\ Len(s) - k + 1 \in 1..(Len(s) + 1)
              /\ Len(s) \in 0..Len(s) /\ 1 \in 1..(Len(c) + 1) /\ k \in 0..Len(c)
            BY <1>1, <2>1
        <2> DEFINE m == Len(s) - k + 1
        <2>3. Len(s) - m + 1 = k /\ ~(Len(s) < m) /\ m + k - 1 = Len(s) BY <1>1, <2>2
        <2> HIDE DEF m
        <2>4. m \in 1..(Len(s) + 1) BY <2>2 DEF m
        <2>5. Len(SubSeq(s, m, Len(s))) = k /\ SubSeq(s, m, Len(s))[k] = s[Len(s)]
            <3>1. /\ Len(SubSeq(s, m, Len(s))) = IF Len(s) < m THEN 0 ELSE Len(s) - m + 1
                  /\ \A i \in 1..Len(SubSeq(s, m, Len(s))) : SubSeq(s, m, Len(s))[i] = s[m + i - 1]
                BY <2>2, <2>4, SubSeqIs
            <3>2. Len(SubSeq(s, m, Len(s))) = k BY <2>3, <3>1
            <3>3. k \in 1..k BY <2>2
            <3> QED BY <2>3, <3>1, <3>2, <3>3
        <2>6. SubSeq(c, 1, k)[k] = c[k]
            <3>1. /\ Len(SubSeq(c, 1, k)) = IF k < 1 THEN 0 ELSE k - 1 + 1
                  /\ \A i \in 1..Len(SubSeq(c, 1, k)) : SubSeq(c, 1, k)[i] = c[1 + i - 1]
                BY <2>2, SubSeqIs
            <3>2. k \in 1..Len(SubSeq(c, 1, k)) /\ 1 + k - 1 = k BY <2>2, <3>1
            <3> QED BY <3>1, <3>2
        <2>7. s[Len(s)] = c[k] BY <2>1, <2>5, <2>6 DEF m
        <2>8. Len(s) \in DOMAIN s /\ k \in DOMAIN c BY <2>2
        <2> QED BY <2>7, <2>8
    <1>4. Restored(s, c) = s \o SubSeq(c, Latest(Same) + 1, Len(c)) BY DEF Restored
    <1>5. Same = {0} BY <1>2, <1>3
    <1> HIDE DEF Same, shorter
    <1>6. Latest(Same) = 0
        <2>0. 0 \in Nat /\ Same \in SUBSET (0..0) /\ Same # {} BY <1>5
        <2>1. Latest(Same) \in Same BY <2>0, LatestIs
        <2> QED BY <1>5, <2>1
    <1>7. SubSeq(c, 0 + 1, Len(c)) = c OBVIOUS
    <1> QED BY <1>4, <1>6, <1>7

\* Sound rows followed by sound rows that share nothing with them.
LEMMA SoundJoined ==
    ASSUME NEW D, NEW s \in Seq(D), NEW w \in Seq(D), NEW M, NEW P, Sound(s, M), Sound(w, P),
           \A i \in DOMAIN s, j \in DOMAIN w : s[i] # w[j] /\ s[i].of \cap w[j].of = {}
    PROVE  /\ Sound(s \o w, M \cup P)
           /\ \A role : EndsWith(s \o w, role) => EndsWith(w, role) \/ (w = <<>> /\ EndsWith(s, role))
           /\ \A i \in DOMAIN (s \o w) : (\E j \in DOMAIN s : (s \o w)[i] = s[j]) \/ (\E j \in DOMAIN w : (s \o w)[i] = w[j])
    <1> DEFINE b == s \o w
               m == Len(s)
               n == Len(w)
    <1>1. b \in Seq(D) /\ m \in Nat /\ n \in Nat /\ Len(b) = m + n OBVIOUS
    <1>2. DOMAIN s = 1..m /\ DOMAIN w = 1..n /\ DOMAIN b = 1..(m + n) OBVIOUS
    <1>3. \A i \in 1..(m + n) : b[i] = IF i <= m THEN s[i] ELSE w[i - m] OBVIOUS
    <1>4. (w = <<>> <=> n = 0) /\ (s = <<>> <=> m = 0) /\ (b = <<>> <=> m + n = 0) OBVIOUS
    <1> HIDE DEF b, m, n
    <1>5. \A i \in 1..m : i \in DOMAIN b /\ b[i] = s[i] BY <1>1, <1>2, <1>3
    <1>6. \A i \in 1..n : m + i \in DOMAIN b /\ b[m + i] = w[i] BY <1>1, <1>2, <1>3
    <1>7. ASSUME NEW i \in DOMAIN b
          PROVE  (i \in 1..m /\ b[i] = s[i]) \/ (i - m \in 1..n /\ i > m /\ b[i] = w[i - m])
        BY <1>1, <1>2, <1>3
    <1>8. \A role : EndsWith(b, role) => EndsWith(w, role) \/ (w = <<>> /\ EndsWith(s, role))
        <2> SUFFICES ASSUME NEW role, EndsWith(b, role) PROVE EndsWith(w, role) \/ (w = <<>> /\ EndsWith(s, role))
            OBVIOUS
        <2>1. b # <<>> /\ b[m + n].role = role BY <1>1 DEF EndsWith, LastRow
        <2>2. CASE n = 0
            <3>1. m # 0 /\ m + n = m /\ m \in 1..m BY <1>1, <1>4, <2>1, <2>2
            <3>2. b[m] = s[m] BY <1>5, <3>1
            <3> QED BY <1>4, <2>1, <2>2, <3>1, <3>2 DEF EndsWith, LastRow, m
        <2>3. CASE n # 0
            <3>1. n \in 1..n BY <1>1, <2>3
            <3>2. b[m + n] = w[n] BY <1>6, <3>1
            <3> QED BY <1>4, <2>1, <2>3, <3>2 DEF EndsWith, LastRow, n
        <2> QED BY <2>2, <2>3
    <1>9. ~OpenCall(b) BY <1>8 DEF Sound, OpenCall
    <1>10. LegalFrom(b, 0)
        <2> SUFFICES ASSUME NEW i \in (0 + 1)..Len(b)
                     PROVE  /\ IsTool(b[i]) => i > 0 + 1 /\ Answers(b[i], b[i - 1])
                            /\ b[i].role = "calls" => i = Len(b) \/ Answers(b[i + 1], b[i])
            BY DEF LegalFrom
        <2>0. i \in 1..(m + n) /\ i \in DOMAIN b /\ (i > 0 + 1 <=> i > 1) BY <1>1, <1>2
        <2>1. CASE i \in 1..m
            <3>1. b[i] = s[i] BY <1>5, <2>1
            <3>2. /\ IsTool(s[i]) => i > 1 /\ Answers(s[i], s[i - 1])
                  /\ s[i].role = "calls" => i = m \/ Answers(s[i + 1], s[i])
                BY <1>1, <2>1 DEF Sound, LegalFrom, m
            <3>3. ASSUME i > 1 PROVE b[i - 1] = s[i - 1]
                <4>1. i - 1 \in 1..m BY <1>1, <2>1, <3>3
                <4> QED BY <1>5, <4>1
            <3>4. ASSUME i # m PROVE b[i + 1] = s[i + 1]
                <4>1. i + 1 \in 1..m BY <1>1, <2>1, <3>4
                <4> QED BY <1>5, <4>1
            <3>5. s[i].role = "calls" => i # m
                <4> SUFFICES ASSUME s[i].role = "calls", i = m PROVE FALSE OBVIOUS
                <4>1. s # <<>> /\ LastRow(s).role = "calls" BY <1>1, <1>4, <2>1 DEF LastRow, m
                <4> QED BY <4>1 DEF Sound, OpenCall, EndsWith
            <3> QED BY <2>0, <3>1, <3>2, <3>3, <3>4, <3>5
        <2>2. CASE i \notin 1..m
            <3> DEFINE k == i - m
            <3>1. k \in 1..n /\ i = m + k /\ b[i] = w[k] BY <1>7, <2>0, <2>2, <1>1
            <3> HIDE DEF k
            <3>2. /\ IsTool(w[k]) => k > 1 /\ Answers(w[k], w[k - 1])
                  /\ w[k].role = "calls" => k = n \/ Answers(w[k + 1], w[k])
                BY <1>1, <3>1 DEF Sound, LegalFrom, n
            <3>3. ASSUME k > 1 PROVE b[i - 1] = w[k - 1] /\ i > 1
                <4>1. k - 1 \in 1..n /\ i - 1 = m + (k - 1) /\ i > 1 BY <1>1, <3>1, <3>3
                <4> QED BY <1>6, <4>1
            <3>4. ASSUME k # n PROVE b[i + 1] = w[k + 1]
                <4>1. k + 1 \in 1..n /\ i + 1 = m + (k + 1) BY <1>1, <3>1, <3>4
                <4> QED BY <1>6, <4>1
            <3>5. k = n => i = Len(b) BY <1>1, <3>1
            <3> QED BY <2>0, <3>1, <3>2, <3>3, <3>4, <3>5
        <2> QED BY <2>1, <2>2
    <1>11. Unalike(b)
        <2> SUFFICES ASSUME NEW i \in DOMAIN b, NEW j \in DOMAIN b, i # j
                     PROVE  b[i] # b[j] /\ b[i].of \cap b[j].of = {}
            BY DEF Unalike
        <2>1. CASE i \in 1..m /\ b[i] = s[i] /\ j \in 1..m /\ b[j] = s[j] BY <1>2, <2>1 DEF Sound, Unalike
        <2>2. CASE i \in 1..m /\ b[i] = s[i] /\ j - m \in 1..n /\ b[j] = w[j - m] BY <1>2, <2>2
        <2>3. CASE j \in 1..m /\ b[j] = s[j] /\ i - m \in 1..n /\ b[i] = w[i - m] BY <1>2, <2>3
        <2>4. CASE i - m \in 1..n /\ b[i] = w[i - m] /\ j - m \in 1..n /\ b[j] = w[j - m]
            <3>1. i - m # j - m BY <1>1, <1>2
            <3> QED BY <1>2, <2>4, <3>1 DEF Sound, Unalike
        <2> QED BY <1>7, <2>1, <2>2, <2>3, <2>4
    <1>12. \A i \in DOMAIN b : (\E j \in DOMAIN s : b[i] = s[j]) \/ (\E j \in DOMAIN w : b[i] = w[j])
        BY <1>2, <1>7
    <1>13. \A i \in DOMAIN b : Plain(b[i]) /\ b[i].of \subseteq M \cup P BY <1>12 DEF Sound
    <1> QED BY <1>8, <1>9, <1>10, <1>11, <1>12, <1>13 DEF Sound, b

\* A row that is neither a request nor a result is sound by itself.
LEMMA SoundRow ==
    ASSUME NEW D, NEW r \in D, Plain(r), ~IsTool(r), r.role # "calls"
    PROVE  Sound(<<r>>, r.of) /\ \A role : EndsWith(<<r>>, role) => r.role = role
    <1>1. Len(<<r>>) = 1 /\ DOMAIN <<r>> = {1} /\ <<r>>[1] = r OBVIOUS
    <1>2. \A role : EndsWith(<<r>>, role) => r.role = role BY <1>1 DEF EndsWith, LastRow
    <1>3. LegalFrom(<<r>>, 0)
        <2>1. \A i \in (0 + 1)..Len(<<r>>) : i = 1 BY <1>1
        <2> QED BY <1>1, <2>1 DEF LegalFrom
    <1> QED BY <1>1, <1>2, <1>3 DEF Sound, OpenCall, Unalike

----------------------------------------------------------------------------
(* The message list of such a turn. *)

\* What is beyond skip in a list that ends with the result of its request, or has none open, is
\* sound, and it is all that the turn made.
Beyond(s) == SubSeq(s, skip + 1, Len(s))

LEMMA BeyondIs ==
    ASSUME NEW D, NEW s \in Seq(D), skip \in Nat, QuietList(s)
    PROVE  /\ Beyond(s) \in Seq(D) /\ Len(Beyond(s)) = Len(s) - skip
           /\ \A i \in DOMAIN Beyond(s) : skip + i \in (skip + 1)..Len(s) /\ Beyond(s)[i] = s[skip + i]
           /\ \A j \in (skip + 1)..Len(s) : j - skip \in DOMAIN Beyond(s) /\ Beyond(s)[j - skip] = s[j]
    <1>1. Len(s) \in Nat /\ skip <= Len(s) BY DEF QuietList
    <1>2. skip + 1 \in 1..(Len(s) + 1) /\ Len(s) \in 0..Len(s) BY <1>1
    <1> DEFINE w == Beyond(s)
    <1>3. /\ w \in Seq(D) /\ Len(w) = IF Len(s) < skip + 1 THEN 0 ELSE Len(s) - (skip + 1) + 1
          /\ \A i \in 1..Len(w) : w[i] = s[skip + 1 + i - 1]
        BY <1>2, SubSeqIs DEF Beyond
    <1> HIDE DEF w
    <1>4. Len(w) = Len(s) - skip BY <1>1, <1>3
    <1>5. DOMAIN w = 1..Len(w) BY <1>3
    <1>6. \A i \in DOMAIN w : skip + i \in (skip + 1)..Len(s) /\ w[i] = s[skip + i]
        <2>1. \A i \in 1..Len(w) : skip + 1 + i - 1 = skip + i BY <1>1
        <2> QED BY <1>1, <1>3, <1>4, <1>5, <2>1
    <1>7. \A j \in (skip + 1)..Len(s) : j - skip \in DOMAIN w /\ w[j - skip] = s[j]
        <2> SUFFICES ASSUME NEW j \in (skip + 1)..Len(s) PROVE j - skip \in DOMAIN w /\ w[j - skip] = s[j] OBVIOUS
        <2>1. j - skip \in DOMAIN w /\ skip + (j - skip) = j BY <1>1, <1>4, <1>5
        <2> QED BY <1>6, <2>1
    <1> QED BY <1>3, <1>4, <1>6, <1>7 DEF w

\* A list with no open request has sound rows beyond skip, and they end as it does.
LEMMA BeyondSound ==
    ASSUME NEW D, NEW s \in Seq(D), skip \in Nat, QuietList(s), ~OpenCall(s)
    PROVE  /\ Sound(Beyond(s), {})
           /\ \A role : EndsWith(Beyond(s), role) => EndsWith(s, role)
    <1> DEFINE w == Beyond(s)
    <1>1. /\ w \in Seq(D) /\ Len(w) = Len(s) - skip
          /\ \A i \in DOMAIN w : skip + i \in (skip + 1)..Len(s) /\ w[i] = s[skip + i]
        BY BeyondIs
    <1>2. Len(s) \in Nat /\ skip <= Len(s) /\ LegalFrom(s, skip) BY DEF QuietList
    <1> HIDE DEF w
    <1>3. DOMAIN w = 1..Len(w) BY <1>1
    <1>4. \A role : EndsWith(w, role) => EndsWith(s, role)
        <2> SUFFICES ASSUME NEW role, EndsWith(w, role) PROVE EndsWith(s, role) OBVIOUS
        <2>1. w # <<>> /\ w[Len(w)].role = role BY DEF EndsWith, LastRow
        <2>2. Len(w) \in DOMAIN w BY <1>1, <2>1
        <2>3. w[Len(w)] = s[skip + Len(w)] BY <1>1, <2>2
        <2>4. skip + Len(w) = Len(s) /\ s # <<>> BY <1>1, <1>2, <1>3, <2>2
        <2> QED BY <2>1, <2>3, <2>4 DEF EndsWith, LastRow
    <1>5. ~OpenCall(w) BY <1>4 DEF OpenCall
    <1>6. LegalFrom(w, 0)
        <2> SUFFICES ASSUME NEW i \in (0 + 1)..Len(w)
                     PROVE  /\ IsTool(w[i]) => i > 0 + 1 /\ Answers(w[i], w[i - 1])
                            /\ w[i].role = "calls" => i = Len(w) \/ Answers(w[i + 1], w[i])
            BY DEF LegalFrom
        <2>1. i \in DOMAIN w BY <1>1, <1>3
        <2>2. skip + i \in (skip + 1)..Len(s) /\ w[i] = s[skip + i] BY <1>1, <2>1
        <2>3. /\ IsTool(s[skip + i]) => skip + i > skip + 1 /\ Answers(s[skip + i], s[skip + i - 1])
              /\ s[skip + i].role = "calls" => skip + i = Len(s) \/ Answers(s[skip + i + 1], s[skip + i])
            BY <1>2, <2>2 DEF LegalFrom
        <2>4. ASSUME i > 1 PROVE w[i - 1] = s[skip + i - 1]
            <3>1. i - 1 \in DOMAIN w /\ skip + (i - 1) = skip + i - 1 BY <1>2, <1>3, <2>1, <2>4
            <3> QED BY <1>1, <3>1
        <2>5. ASSUME i # Len(w) PROVE w[i + 1] = s[skip + i + 1]
            <3>1. i + 1 \in DOMAIN w /\ skip + (i + 1) = skip + i + 1 BY <1>1, <1>2, <1>3, <2>1, <2>5
            <3> QED BY SMTT(30), <1>1, <3>1
        <2>6. (skip + i > skip + 1 <=> i > 1) /\ (i > 0 + 1 <=> i > 1) BY <1>2, <1>3, <2>1
        <2>7. skip + i = Len(s) <=> i = Len(w) BY <1>1, <1>2, <1>3, <2>1
        <2> QED BY <2>2, <2>3, <2>4, <2>5, <2>6, <2>7
    <1>7. \A i \in DOMAIN w : w[i].of = {} /\ Plain(w[i]) BY <1>1 DEF QuietList
    <1>8. Unalike(w)
        <2> SUFFICES ASSUME NEW i \in DOMAIN w, NEW j \in DOMAIN w, i # j
                     PROVE  w[i] # w[j] /\ w[i].of \cap w[j].of = {}
            BY DEF Unalike
        <2>1. skip + i # skip + j BY <1>2, <1>3
        <2>2. w[i] # w[j] BY SMTT(30), <1>1, <2>1 DEF QuietList
        <2> QED BY <1>7, <2>2
    <1> QED BY <1>4, <1>5, <1>6, <1>7, <1>8 DEF Sound, w

\* A row the turn makes may come last.
LEMMA ListMore ==
    ASSUME NEW D, NEW s \in Seq(D), skip \in Nat, QuietList(s), NEW r \in D,
           r.turn = turn, r.of = {}, Plain(r),
           IsTool(r) => Len(s) > skip /\ Answers(r, s[Len(s)]),
           OpenCall(s) => Answers(r, s[Len(s)]),
           \A i \in (skip + 1)..Len(s) : s[i] # r
    PROVE  /\ QuietList(Append(s, r)) /\ Append(s, r) \in Seq(D) /\ Len(Append(s, r)) = Len(s) + 1
           /\ Append(s, r)[Len(s) + 1] = r /\ \A i \in 1..Len(s) : Append(s, r)[i] = s[i]
           /\ \A role : EndsWith(Append(s, r), role) <=> r.role = role
    <1> DEFINE w == Append(s, r)
               n == Len(s)
    <1>1. w \in Seq(D) /\ n \in Nat /\ Len(w) = n + 1 OBVIOUS
    <1>2. w[n + 1] = r /\ (\A i \in 1..n : w[i] = s[i]) /\ w # <<>> OBVIOUS
    <1>3. skip <= n BY DEF QuietList
    <1>4. s # <<>> <=> n # 0 OBVIOUS
    <1> HIDE DEF w, n
    <1>5. \A role : EndsWith(w, role) <=> r.role = role BY <1>1, <1>2 DEF EndsWith, LastRow
    <1>6. \A i \in 1..skip : i \in 1..n /\ w[i] = s[i] BY <1>1, <1>2, <1>3
    <1>7. \A i \in (skip + 1)..(n + 1) : i = n + 1 \/ (i \in (skip + 1)..n /\ i \in 1..n /\ w[i] = s[i])
        BY <1>1, <1>2, <1>3
    <1>8. \A i \in 1..skip : /\ w[i].turn < turn \/ w[i].role = "notice"
                             /\ w[i].role = "user" => w[i].of \subseteq Origins(rows)
        BY <1>6 DEF QuietList
    <1>9. \A i \in (skip + 1)..(n + 1) : w[i].turn = turn /\ w[i].of = {} /\ Plain(w[i])
        BY <1>2, <1>7 DEF QuietList, n
    <1>10. LegalFrom(w, skip)
        <2> SUFFICES ASSUME NEW i \in (skip + 1)..(n + 1)
                     PROVE  /\ IsTool(w[i]) => i > skip + 1 /\ Answers(w[i], w[i - 1])
                            /\ w[i].role = "calls" => i = n + 1 \/ Answers(w[i + 1], w[i])
            BY <1>1 DEF LegalFrom
        <2>1. CASE i = n + 1
            <3>1. IsTool(r) => n > skip /\ Answers(r, s[n]) BY DEF n
            <3>2. n > skip => i > skip + 1 /\ i - 1 = n /\ w[n] = s[n] BY <1>1, <1>2, <1>3, <2>1
            <3> QED BY <1>2, <2>1, <3>1, <3>2
        <2>2. CASE i # n + 1
            <3>1. i \in (skip + 1)..n /\ i \in 1..n /\ w[i] = s[i] BY <1>7, <2>2
            <3>2. /\ IsTool(s[i]) => i > skip + 1 /\ Answers(s[i], s[i - 1])
                  /\ s[i].role = "calls" => i = n \/ Answers(s[i + 1], s[i])
                BY <3>1 DEF QuietList, LegalFrom, n
            <3>3. i > skip + 1 => i - 1 \in 1..n /\ w[i - 1] = s[i - 1] BY <1>1, <1>2, <3>1
            <3>4. i # n => i + 1 \in 1..n /\ w[i + 1] = s[i + 1] BY <1>1, <1>2, <3>1
            <3>5. s[i].role = "calls" /\ i = n => Answers(w[i + 1], w[i])
                <4> SUFFICES ASSUME s[i].role = "calls", i = n PROVE Answers(w[i + 1], w[i]) OBVIOUS
                <4>1. OpenCall(s) BY <1>1, <1>4, <3>1 DEF OpenCall, EndsWith, LastRow, n
                <4>2. Answers(r, s[n]) BY <4>1 DEF n
                <4> QED BY <1>2, <3>1, <4>2
            <3> QED BY <3>1, <3>2, <3>3, <3>4, <3>5
        <2> QED BY <2>1, <2>2
    <1>11. \A i, j \in (skip + 1)..(n + 1) : i # j => w[i] # w[j]
        <2> SUFFICES ASSUME NEW i \in (skip + 1)..(n + 1), NEW j \in (skip + 1)..(n + 1), i # j PROVE w[i] # w[j]
            OBVIOUS
        <2>1. CASE i = n + 1 BY <1>2, <1>7, <2>1 DEF n
        <2>2. CASE j = n + 1 BY <1>2, <1>7, <2>2 DEF n
        <2>3. CASE i # n + 1 /\ j # n + 1 BY <1>7, <2>3 DEF QuietList, n
        <2> QED BY <2>1, <2>2, <2>3
    <1>12. Len(w) # skip /\ skip <= Len(w) BY <1>1, <1>3
    <1>13. QuietList(w) BY <1>1, <1>8, <1>9, <1>10, <1>11, <1>12 DEF QuietList
    <1> QED BY <1>1, <1>2, <1>5, <1>13 DEF w, n

\* The last words of the turn: they replace a text at the end, or come after it.
LEMMA ListFinal ==
    ASSUME NEW D, NEW s \in Seq(D), skip \in Nat, QuietList(s), ~OpenCall(s), Made("notice") \in D,
           \A i \in (skip + 1)..Len(s) : s[i] # Made("notice")
    PROVE  LET f == AddFinal(s, Made("notice"))
           IN  QuietList(f) /\ ~OpenCall(f) /\ ~EndsWith(f, "user") /\ EndsWithText(f)
    <1> DEFINE r == Made("notice")
               n == Len(s)
    <1>1. r.role = "notice" /\ r.turn = turn /\ r.of = {} /\ Plain(r) /\ ~IsTool(r)
        BY DEF Made, Plain, IsTool
    <1> HIDE DEF r
    <1>2. CASE ~EndsWithText(s)
        <2>1. AddFinal(s, r) = Append(s, r) BY <1>2 DEF AddFinal
        <2>2. r \in D /\ \A i \in (skip + 1)..Len(s) : s[i] # r BY DEF r
        <2>3. QuietList(Append(s, r)) /\ \A role : EndsWith(Append(s, r), role) <=> r.role = role
            BY <1>1, <2>2, ListMore
        <2> QED BY <1>1, <2>1, <2>3 DEF OpenCall, EndsWithText, r
    <1>3. CASE EndsWithText(s)
        <2> DEFINE w == [s EXCEPT ![n] = r]
        <2>1. AddFinal(s, r) = w BY <1>3 DEF AddFinal
        <2>2. s # <<>> /\ s[n].role \in {"assistant", "notice"} BY <1>3 DEF EndsWithText, EndsWith, LastRow
        <2>3. n \in 1..n /\ n \in Nat /\ r \in D BY <2>2 DEF r
        <2>4. w \in Seq(D) /\ Len(w) = n /\ w[n] = r /\ w # <<>> /\ \A i \in 1..n : i # n => w[i] = s[i]
            BY <2>3
        <2>5. skip <= n BY DEF QuietList
        <2>6. \A i \in (skip + 1)..n : s[i] # r BY DEF r
        <2> HIDE DEF w, n
        <2>7. \A role : EndsWith(w, role) <=> r.role = role BY <2>4 DEF EndsWith, LastRow
        <2>8. \A i \in 1..skip : i \in 1..n BY <2>3, <2>5
        <2>9. \A i \in 1..skip : /\ w[i].turn < turn \/ w[i].role = "notice"
                                 /\ w[i].role = "user" => w[i].of \subseteq Origins(rows)
            <3> SUFFICES ASSUME NEW i \in 1..skip
                         PROVE  /\ w[i].turn < turn \/ w[i].role = "notice"
                                /\ w[i].role = "user" => w[i].of \subseteq Origins(rows)
                OBVIOUS
            <3>1. CASE i = n BY <1>1, <2>4, <3>1
            <3>2. CASE i # n BY <2>4, <2>8, <3>2 DEF QuietList
            <3> QED BY <3>1, <3>2
        <2>10. \A i \in (skip + 1)..n : i \in 1..n BY <2>3, <2>5
        <2>11. \A i \in (skip + 1)..n : w[i].turn = turn /\ w[i].of = {} /\ Plain(w[i])
            <3> SUFFICES ASSUME NEW i \in (skip + 1)..n PROVE w[i].turn = turn /\ w[i].of = {} /\ Plain(w[i])
                OBVIOUS
            <3>1. CASE i = n BY <1>1, <2>4, <3>1
            <3>2. CASE i # n BY <2>4, <2>10, <3>2 DEF QuietList, n
            <3> QED BY <3>1, <3>2
        <2>12. LegalFrom(w, skip)
            <3> SUFFICES ASSUME NEW i \in (skip + 1)..n
                         PROVE  /\ IsTool(w[i]) => i > skip + 1 /\ Answers(w[i], w[i - 1])
                                /\ w[i].role = "calls" => i = n \/ Answers(w[i + 1], w[i])
                BY <2>4 DEF LegalFrom
            <3>1. CASE i = n BY <1>1, <2>4, <3>1
            <3>2. CASE i # n
                <4>1. w[i] = s[i] /\ i < n BY <2>3, <2>4, <2>10, <3>2
                <4>2. /\ IsTool(s[i]) => i > skip + 1 /\ Answers(s[i], s[i - 1])
                      /\ s[i].role = "calls" => i = n \/ Answers(s[i + 1], s[i])
                    BY DEF QuietList, LegalFrom, n
                <4>3. i > skip + 1 => w[i - 1] = s[i - 1]
                    <5>1. i > skip + 1 => i - 1 \in 1..n /\ i - 1 # n BY <2>3, <2>5, <4>1
                    <5> QED BY <2>4, <5>1
                <4>4. ~(i + 1 = n /\ s[i].role = "calls") BY <2>2, <3>2, <4>2 DEF Answers, IsTool
                <4>5. i + 1 # n => w[i + 1] = s[i + 1]
                    <5>1. i + 1 \in 1..n BY <2>3, <2>10, <4>1
                    <5> QED BY <2>4, <5>1
                <4> QED BY <3>2, <4>1, <4>2, <4>3, <4>4, <4>5
            <3> QED BY <3>1, <3>2
        <2>13. \A i, j \in (skip + 1)..n : i # j => w[i] # w[j]
            <3> SUFFICES ASSUME NEW i \in (skip + 1)..n, NEW j \in (skip + 1)..n, i # j PROVE w[i] # w[j]
                OBVIOUS
            <3>1. CASE i = n BY <2>4, <2>6, <2>10, <3>1
            <3>2. CASE j = n BY <2>4, <2>6, <2>10, <3>2
            <3>3. CASE i # n /\ j # n BY <2>4, <2>10, <3>3 DEF QuietList, n
            <3> QED BY <3>1, <3>2, <3>3
        <2>14. ~(Len(w) = skip /\ EndsWith(rows, "user"))
            <3> SUFFICES ASSUME n = skip, EndsWith(rows, "user") PROVE FALSE BY <2>4
            <3>1. EndsWith(s, "user") BY DEF QuietList, n
            <3> QED BY <2>2, <3>1 DEF EndsWith, LastRow, n
        <2>15. QuietList(w) BY <2>4, <2>5, <2>9, <2>11, <2>12, <2>13, <2>14 DEF QuietList
        <2>16. ~OpenCall(w) /\ ~EndsWith(w, "user") /\ EndsWithText(w) BY <1>1, <2>7 DEF OpenCall, EndsWithText
        <2> QED BY <2>1, <2>15, <2>16 DEF r
    <1> QED BY <1>2, <1>3

----------------------------------------------------------------------------
(* The steps of the runner in such a turn. *)

\* What the runner makes.
LEMMA MadeHas ==
    ASSUME NEW role
    PROVE  /\ Made(role).role = role /\ Made(role).of = {} /\ Made(role).turn = turn /\ Made(role).n = iter
           /\ IsTool(Made(role)) <=> role \in {"tool", "interrupted"}
           /\ role \notin {"cmdUser", "cmdReply"} => Plain(Made(role))
    BY DEF Made, IsTool, Plain

\* Nothing is sound.
LEMMA SoundNone == ASSUME NEW M PROVE Sound(<<>>, M) /\ \A role : ~EndsWith(<<>>, role)
    BY DEF Sound, LegalFrom, OpenCall, EndsWith, Unalike

\* What is saved while the tools run, and when they are done.
LEMMA ExchangeSound ==
    ASSUME NEW role \in {"tool", "interrupted"}
    PROVE  /\ Sound(<<Made("calls"), Made(role)>>, {})
           /\ ~EndsWith(<<Made("calls"), Made(role)>>, "user")
    <1> DEFINE a == Made("calls")
               b == Made(role)
               s == <<a, b>>
    <1>1. /\ a.role = "calls" /\ b.role = role /\ a.of = {} /\ b.of = {} /\ Plain(a) /\ Plain(b)
          /\ IsTool(b) /\ ~IsTool(a) /\ a.turn = b.turn /\ a.n = b.n
        BY MadeHas
    <1> HIDE DEF a, b
    <1>2. Len(s) = 2 /\ DOMAIN s = {1, 2} /\ s[1] = a /\ s[2] = b /\ s # <<>> OBVIOUS
    <1> HIDE DEF s
    <1>3. \A r : EndsWith(s, r) => r = role BY <1>1, <1>2 DEF EndsWith, LastRow
    <1>4. Answers(b, a) BY <1>1 DEF Answers
    <1>5. LegalFrom(s, 0)
        <2>1. \A i \in (0 + 1)..Len(s) : i = 1 \/ i = 2 BY <1>2
        <2>2. IsTool(s[2]) => Answers(s[2], s[2 - 1]) BY <1>2, <1>4
        <2>3. Answers(s[1 + 1], s[1]) BY <1>2, <1>4
        <2>4. ~IsTool(s[1]) /\ s[2].role # "calls" BY <1>1, <1>2
        <2> QED BY <2>1, <2>2, <2>3, <2>4 DEF LegalFrom
    <1>6. Unalike(s)
        <2>1. a # b BY <1>1
        <2> QED BY <1>1, <1>2, <2>1 DEF Unalike
    <1>7. \A i \in DOMAIN s : Plain(s[i]) /\ s[i].of \subseteq {} BY <1>1, <1>2
    <1>8. ~OpenCall(s) /\ ~EndsWith(s, "user") BY <1>3 DEF OpenCall
    <1> QED BY <1>5, <1>6, <1>7, <1>8 DEF Sound, s, a, b

\* What was taken stays taken: nothing is injected.
LEMMA NothingInjected == ASSUME taken' = taken, NEW f \in Injectable, taken' = taken \cup f PROVE FALSE
    BY DEF Injectable

\* A step that leaves the session alone, but for the checkpoint.
LEMMA QuietRunStep ==
    ASSUME QuietInv, phase' \in Running, UNCHANGED <<rows, pending, cur, skip, turn, taken, again>>,
           UNCHANGED ckpt \/ (Sound(ckpt', {}) /\ ~EndsWith(ckpt', "user")),
           QuietList(msgs'), QuietCall'
    PROVE  QuietInv'
    <1>1. QuietRows' BY DEF QuietInv, QuietRows, Sound, LegalFrom, OpenCall, EndsWith, Unalike, LastRow, Running
    <1>2. QuietCheckpoint'
        <2>1. CASE UNCHANGED ckpt
            BY <2>1 DEF QuietInv, QuietCheckpoint, Sound, LegalFrom, OpenCall, EndsWith, Unalike, LastRow
        <2>2. CASE Sound(ckpt', {}) /\ ~EndsWith(ckpt', "user")
            BY <2>2 DEF QuietCheckpoint, Sound, LegalFrom, OpenCall, EndsWith, Unalike, LastRow
        <2> QED BY <2>1, <2>2
    <1>3. QuietList(msgs)'
        BY DEF QuietList, LegalFrom, EndsWith, LastRow, Origins, RowsOf
    <1> QED BY <1>1, <1>2, <1>3 DEF QuietInv

\* What the list of a running turn is known to be.
LEMMA QuietKnows ==
    ASSUME PersistInv, QuietInv, phase \in Running
    PROVE  /\ Typed /\ skip \in Nat /\ turn \in Nat /\ turn > 0 /\ iter \in Nat /\ iter > 0
           /\ msgs \in Seq(RowOf(turn)) /\ QuietList(msgs) /\ QuietCall
           /\ \A i \in (skip + 1)..Len(msgs) : msgs[i].n \in Nat /\ msgs[i].n <= iter
           /\ \A role \in {"calls", "interrupted", "tool", "assistant", "notice", "user"} : Made(role) \in RowOf(turn)
    <1>1. /\ Typed /\ skip \in Nat /\ turn \in Nat /\ turn > 0 /\ iter \in Nat /\ iter > 0
          /\ msgs \in Seq(RowOf(turn)) /\ MadeBeyond(msgs, skip, turn, iter)
        BY DEF PersistInv, Typed, SavedAtEnd, RunInOrder
    <1>2. QuietList(msgs) /\ QuietCall BY DEF QuietInv
    <1>3. ASSUME NEW i \in (skip + 1)..Len(msgs) PROVE msgs[i].n \in Nat /\ msgs[i].n <= iter
        <2>1. i \in DOMAIN msgs /\ i > skip BY <1>1
        <2>2. msgs[i] \in RowOf(turn) BY <1>1, <2>1
        <2>3. msgs[i].n \in 0..N /\ N \in Nat BY <2>2, PersistenceAssumption DEF RowOf, N
        <2>4. msgs[i].turn = turn BY <1>2 DEF QuietList
        <2>5. msgs[i].turn = 0 \/ (msgs[i].turn = turn /\ msgs[i].n <= iter) BY <1>1, <2>1 DEF MadeBeyond
        <2> QED BY <1>1, <2>3, <2>4, <2>5
    <1>4. \A role \in {"calls", "interrupted", "tool", "assistant", "notice", "user"} : Made(role) \in RowOf(turn)
        BY <1>1, MadeIs DEF Roles
    <1> QED BY <1>1, <1>2, <1>3, <1>4

\* A list of rows of calls so far, none open, is one to go on with.
LEMMA QuietGoOn ==
    ASSUME skip \in Nat, iter \in Nat, NEW s, msgs' = s, skip' = skip, turn' = turn, ~OpenCall(s), GoOn,
           \A i \in (skip + 1)..Len(s) : s[i].n \in Nat /\ s[i].n <= iter,
           \A i \in (skip + 1)..Len(s) : s[i].n = iter => s[i].role # "notice"
    PROVE  QuietCall' /\ phase' \in Running
    <1>1. CASE iter' = iter + 1 /\ phase' = "model"
        <2>1. \A i \in (skip' + 1)..Len(msgs') : msgs'[i].n < iter' BY <1>1
        <2>2. ~OpenCall(msgs)' BY DEF OpenCall, EndsWith, LastRow
        <2> QED BY <1>1, <2>1, <2>2 DEF QuietCall, Running
    <1>2. CASE iter' = iter /\ phase' = "exhausted"
        <2>2. ~OpenCall(msgs)' BY DEF OpenCall, EndsWith, LastRow
        <2> QED BY <1>2, <2>2 DEF QuietCall, Running
    <1> QED BY <1>1, <1>2 DEF GoOn

\* A list that ends with an answer is one to end with.
LEMMA QuietOver ==
    ASSUME NEW s, msgs' = s, phase' = "final", ~OpenCall(s), ~EndsWith(s, "user")
    PROVE  QuietCall' /\ phase' \in Running
    <1>1. ~OpenCall(msgs)' /\ ~EndsWith(msgs, "user")' BY DEF OpenCall, EndsWith, LastRow
    <1> QED BY <1>1 DEF QuietCall, Running

\* A request follows, and the checkpoint has its results as interrupted.
LEMMA QuietCallTools == ASSUME PersistInv, QuietInv, CallTools PROVE QuietInv'
    <1> DEFINE r == Made("calls")
               w == Append(msgs, r)
    <1>1. /\ phase = "model" /\ phase' = "tools" /\ msgs' = w /\ ckpt' = <<Made("calls"), Made("interrupted")>>
          /\ UNCHANGED <<rows, pending, cur, skip, turn, iter, taken, again>>
        BY DEF CallTools
    <1>2. /\ skip \in Nat /\ iter \in Nat /\ msgs \in Seq(RowOf(turn)) /\ QuietList(msgs) /\ r \in RowOf(turn)
          /\ ~OpenCall(msgs) /\ \A i \in (skip + 1)..Len(msgs) : msgs[i].n \in Nat /\ msgs[i].n < iter
        BY <1>1, QuietKnows DEF Running, QuietCall
    <1>3. /\ r.role = "calls" /\ r.of = {} /\ r.turn = turn /\ r.n = iter /\ ~IsTool(r) /\ Plain(r) BY MadeHas
    <1>4. Len(msgs) \in Nat /\ skip <= Len(msgs) BY <1>2 DEF QuietList
    <1> HIDE DEF r
    <1>5. \A i \in (skip + 1)..Len(msgs) : msgs[i] # r BY <1>2, <1>3
    <1>6. /\ QuietList(w) /\ Len(w) = Len(msgs) + 1 /\ w[Len(msgs) + 1] = r
          /\ \A i \in 1..Len(msgs) : w[i] = msgs[i]
        BY <1>2, <1>3, <1>5, ListMore
    <1> HIDE DEF w
    <1>7. \A i \in (skip + 1)..Len(w) : w[i].n = iter => i = Len(w)
        <2> SUFFICES ASSUME NEW i \in (skip + 1)..Len(w), i # Len(w) PROVE w[i].n # iter OBVIOUS
        <2>1. i \in (skip + 1)..Len(msgs) /\ i \in 1..Len(msgs) BY <1>2, <1>4, <1>6
        <2> QED BY <1>2, <1>6, <2>1
    <1>8. Made("calls")' = r BY <1>1 DEF Made, r
    <1>9. QuietCall'
        <2>1. Len(w) > skip /\ w[Len(w)] = r BY <1>2, <1>4, <1>6
        <2> QED BY <1>1, <1>7, <1>8, <2>1 DEF QuietCall
    <1>10. phase' \in Running BY <1>1 DEF Running
    <1>11. Sound(ckpt', {}) /\ ~EndsWith(ckpt', "user") BY <1>1, ExchangeSound
    <1> QED BY <1>1, <1>6, <1>9, <1>10, <1>11, QuietRunStep

\* The results behind their request.
LEMMA QuietResults ==
    ASSUME PersistInv, QuietInv, phase = "tools"
    PROVE  LET w == Append(msgs, Made("tool"))
           IN  /\ QuietList(w) /\ ~OpenCall(w) /\ w \in Seq(RowOf(turn))
               /\ \A i \in (skip + 1)..Len(w) : w[i].n \in Nat /\ w[i].n <= iter
               /\ \A i \in (skip + 1)..Len(w) : w[i].n = iter => w[i].role # "notice"
    <1> DEFINE r == Made("tool")
               w == Append(msgs, r)
    <1>1. /\ skip \in Nat /\ iter \in Nat /\ msgs \in Seq(RowOf(turn)) /\ QuietList(msgs) /\ r \in RowOf(turn)
          /\ Len(msgs) > skip /\ msgs[Len(msgs)] = Made("calls")
          /\ \A i \in (skip + 1)..Len(msgs) : msgs[i].n = iter => i = Len(msgs)
          /\ \A i \in (skip + 1)..Len(msgs) : msgs[i].n \in Nat /\ msgs[i].n <= iter
        BY QuietKnows DEF Running, QuietCall
    <1>2. r.role = "tool" /\ r.of = {} /\ r.turn = turn /\ r.n = iter /\ IsTool(r) /\ Plain(r) BY MadeHas
    <1>3. Answers(r, msgs[Len(msgs)]) BY <1>1, <1>2, MadeHas DEF Answers
    <1>4. Made("calls").role = "calls" BY MadeHas
    <1> HIDE DEF r
    <1>5. \A i \in (skip + 1)..Len(msgs) : msgs[i] # r BY <1>1, <1>2, <1>4
    <1>6. /\ QuietList(w) /\ Len(w) = Len(msgs) + 1 /\ w[Len(msgs) + 1] = r /\ w \in Seq(RowOf(turn))
          /\ \A i \in 1..Len(msgs) : w[i] = msgs[i]
          /\ \A role : EndsWith(w, role) <=> r.role = role
        BY <1>1, <1>2, <1>3, <1>5, ListMore
    <1>7. Len(msgs) \in Nat BY <1>1
    <1> HIDE DEF w
    <1>8. ~OpenCall(w) BY <1>2, <1>6 DEF OpenCall
    <1>9. \A i \in (skip + 1)..Len(w) : i = Len(msgs) + 1 \/ (i \in (skip + 1)..Len(msgs) /\ w[i] = msgs[i])
        <2> SUFFICES ASSUME NEW i \in (skip + 1)..Len(w), i # Len(msgs) + 1
                     PROVE  i \in (skip + 1)..Len(msgs) /\ w[i] = msgs[i]
            OBVIOUS
        <2>1. i \in (skip + 1)..Len(msgs) /\ i \in 1..Len(msgs) BY <1>1, <1>6, <1>7
        <2> QED BY <1>6, <2>1
    <1>10. \A i \in (skip + 1)..Len(w) : w[i].n \in Nat /\ w[i].n <= iter BY <1>1, <1>2, <1>6, <1>9
    <1>11. \A i \in (skip + 1)..Len(w) : w[i].n = iter => w[i].role # "notice"
        BY <1>1, <1>2, <1>4, <1>6, <1>9
    <1> QED BY <1>6, <1>8, <1>10, <1>11 DEF w, r

\* The results follow their request, and the checkpoint has them.
LEMMA QuietToolsDone == ASSUME PersistInv, QuietInv, ToolsDone, taken' = taken PROVE QuietInv'
    <1> DEFINE w == Append(msgs, Made("tool"))
    <1>1. /\ phase = "tools" /\ ckpt' = <<Made("calls"), Made("tool")>> /\ Continue(w)
          /\ UNCHANGED <<rows, pending, cur, skip, turn, taken, again>>
        BY DEF ToolsDone
    <1>2. skip \in Nat /\ iter \in Nat BY <1>1, QuietKnows DEF Running
    <1>3. /\ QuietList(w) /\ ~OpenCall(w)
          /\ \A i \in (skip + 1)..Len(w) : w[i].n \in Nat /\ w[i].n <= iter
          /\ \A i \in (skip + 1)..Len(w) : w[i].n = iter => w[i].role # "notice"
        BY <1>1, QuietResults
    <1> HIDE DEF w
    <1>4. msgs' = w /\ GoOn BY <1>1, NothingInjected DEF Continue
    <1>5. QuietCall' /\ phase' \in Running BY <1>1, <1>2, <1>3, <1>4, QuietGoOn
    <1>6. Sound(ckpt', {}) /\ ~EndsWith(ckpt', "user") BY <1>1, ExchangeSound
    <1> QED BY <1>1, <1>3, <1>4, <1>5, <1>6, QuietRunStep

\* Nothing is injected where the turn could stop: it does.
LEMMA QuietFinish == ASSUME taken' = taken, NEW s, FinishOr(s) PROVE msgs' = s /\ phase' = "final" /\ iter' = iter
    BY NothingInjected DEF FinishOr
LEMMA QuietFails == ASSUME taken' = taken, NEW s, Fails(s) PROVE msgs' = s /\ phase' = "final" /\ iter' = iter
    BY NothingInjected, QuietFinish DEF Fails

\* The results are followed by the error that ends the turn.
LEMMA QuietToolsFatal == ASSUME PersistInv, QuietInv, ToolsFatal, taken' = taken PROVE QuietInv'
    <1> DEFINE w == Append(msgs, Made("tool"))
               f == AddFinal(w, Made("notice"))
    <1>1. phase = "tools" /\ FinishOr(f) /\ UNCHANGED <<rows, pending, ckpt, cur, skip, turn, taken, again>>
        BY DEF ToolsFatal, saved
    <1>2. skip \in Nat /\ Made("notice") \in RowOf(turn) BY <1>1, QuietKnows DEF Running
    <1>3. /\ QuietList(w) /\ ~OpenCall(w) /\ w \in Seq(RowOf(turn))
          /\ \A i \in (skip + 1)..Len(w) : w[i].n = iter => w[i].role # "notice"
        BY <1>1, QuietResults
    <1>4. \A i \in (skip + 1)..Len(w) : w[i] # Made("notice")
        <2> HIDE DEF w
        <2>1. Made("notice").n = iter /\ Made("notice").role = "notice" BY MadeHas
        <2> QED BY <1>3, <2>1
    <1> HIDE DEF w
    <1>5. QuietList(f) /\ ~OpenCall(f) /\ ~EndsWith(f, "user") BY <1>2, <1>3, <1>4, ListFinal
    <1> HIDE DEF f
    <1>6. msgs' = f /\ phase' = "final" BY <1>1, QuietFinish
    <1>7. QuietCall' /\ phase' \in Running BY <1>5, <1>6, QuietOver
    <1> QED BY <1>1, <1>5, <1>6, <1>7, QuietRunStep

\* The reply follows, and is the checkpoint.
LEMMA QuietReply == ASSUME PersistInv, QuietInv, Reply, taken' = taken PROVE QuietInv'
    <1> DEFINE r == Made("assistant")
               w == Append(msgs, r)
    <1>1. /\ phase = "model" /\ ckpt' = <<r>> /\ FinishOr(w)
          /\ UNCHANGED <<rows, pending, cur, skip, turn, taken, again>>
        BY DEF Reply
    <1>2. /\ skip \in Nat /\ iter \in Nat /\ msgs \in Seq(RowOf(turn)) /\ QuietList(msgs) /\ r \in RowOf(turn)
          /\ ~OpenCall(msgs) /\ \A i \in (skip + 1)..Len(msgs) : msgs[i].n \in Nat /\ msgs[i].n < iter
        BY <1>1, QuietKnows DEF Running, QuietCall
    <1>3. /\ r.role = "assistant" /\ r.of = {} /\ r.turn = turn /\ r.n = iter /\ ~IsTool(r) /\ Plain(r) BY MadeHas
    <1> HIDE DEF r
    <1>4. \A i \in (skip + 1)..Len(msgs) : msgs[i] # r BY <1>2, <1>3
    <1>5. QuietList(w) /\ \A role : EndsWith(w, role) <=> r.role = role BY <1>2, <1>3, <1>4, ListMore
    <1> HIDE DEF w
    <1>6. msgs' = w /\ phase' = "final" BY <1>1, QuietFinish
    <1>7. QuietCall' /\ phase' \in Running BY <1>3, <1>5, <1>6, QuietOver DEF OpenCall
    <1>8. Sound(ckpt', {}) /\ ~EndsWith(ckpt', "user") BY <1>1, <1>2, <1>3, SoundRow
    <1> QED BY <1>1, <1>5, <1>6, <1>7, <1>8, QuietRunStep

\* Half a reply follows, and the request to go on with it.
LEMMA QuietTruncated == ASSUME PersistInv, QuietInv, Truncated, taken' = taken PROVE QuietInv'
    <1> DEFINE a == Made("assistant")
               b == Nudge
               v == Append(msgs, a)
               w == Append(v, b)
    <1>1. /\ phase = "model" /\ msgs' = msgs \o <<a, b>> /\ GoOn
          /\ UNCHANGED <<rows, pending, ckpt, cur, skip, turn, taken, again>>
        BY DEF Truncated, saved
    <1>2. /\ skip \in Nat /\ iter \in Nat /\ msgs \in Seq(RowOf(turn)) /\ QuietList(msgs)
          /\ a \in RowOf(turn) /\ b \in RowOf(turn)
          /\ ~OpenCall(msgs) /\ \A i \in (skip + 1)..Len(msgs) : msgs[i].n \in Nat /\ msgs[i].n < iter
        BY <1>1, QuietKnows DEF Running, QuietCall, Nudge
    <1>3. /\ a.role = "assistant" /\ a.of = {} /\ a.turn = turn /\ a.n = iter /\ ~IsTool(a) /\ Plain(a)
          /\ b.role = "user" /\ b.of = {} /\ b.turn = turn /\ b.n = iter /\ ~IsTool(b) /\ Plain(b)
        BY MadeHas DEF Nudge
    <1>4. Len(msgs) \in Nat /\ skip <= Len(msgs) BY <1>2 DEF QuietList
    <1>5. msgs \o <<a, b>> = w BY <1>2
    <1> HIDE DEF a, b
    <1>6. \A i \in (skip + 1)..Len(msgs) : msgs[i] # a BY <1>2, <1>3
    <1>7. /\ QuietList(v) /\ v \in Seq(RowOf(turn)) /\ Len(v) = Len(msgs) + 1 /\ v[Len(msgs) + 1] = a
          /\ \A i \in 1..Len(msgs) : v[i] = msgs[i]
          /\ \A role : EndsWith(v, role) <=> a.role = role
        BY <1>2, <1>3, <1>6, ListMore
    <1> HIDE DEF v
    <1>8. \A i \in (skip + 1)..Len(v) :
              i = Len(msgs) + 1 \/ (i \in (skip + 1)..Len(msgs) /\ i \in 1..Len(msgs) /\ v[i] = msgs[i])
        BY <1>2, <1>4, <1>7
    <1>9. \A i \in (skip + 1)..Len(v) : v[i].n \in Nat /\ v[i].n <= iter /\ (v[i].n = iter => v[i] = a)
        BY <1>2, <1>3, <1>7, <1>8
    <1>10. \A i \in (skip + 1)..Len(v) : v[i] # b BY <1>3, <1>9
    <1>11. ~OpenCall(v) BY <1>3, <1>7 DEF OpenCall
    <1>12. /\ QuietList(w) /\ Len(w) = Len(v) + 1 /\ w[Len(v) + 1] = b
           /\ \A i \in 1..Len(v) : w[i] = v[i]
           /\ \A role : EndsWith(w, role) <=> b.role = role
        BY <1>2, <1>3, <1>7, <1>10, <1>11, ListMore
    <1>13. Len(v) \in Nat BY <1>4, <1>7
    <1> HIDE DEF w
    <1>14. \A i \in (skip + 1)..Len(w) :
              i = Len(v) + 1 \/ (i \in (skip + 1)..Len(v) /\ i \in 1..Len(v) /\ w[i] = v[i])
        BY <1>2, <1>12, <1>13
    <1>15. \A i \in (skip + 1)..Len(w) : w[i].n \in Nat /\ w[i].n <= iter BY <1>2, <1>3, <1>9, <1>12, <1>14
    <1>16. \A i \in (skip + 1)..Len(w) : w[i].n = iter => w[i].role # "notice" BY <1>3, <1>9, <1>12, <1>14
    <1>17. ~OpenCall(w) BY <1>3, <1>12 DEF OpenCall
    <1>18. msgs' = w BY <1>1, <1>5
    <1>19. QuietCall' /\ phase' \in Running BY <1>1, <1>2, <1>15, <1>16, <1>17, <1>18, QuietGoOn
    <1> QED BY <1>1, <1>12, <1>18, <1>19, QuietRunStep

\* The program's own last words, where none were said in this call.
LEMMA QuietWords ==
    ASSUME PersistInv, QuietInv, phase \in {"model", "exhausted"}, taken' = taken, phase' = "final",
           msgs' = AddFinal(msgs, Made("notice")) \/ msgs' = AddPlaceholder(msgs, Made("notice")),
           UNCHANGED <<rows, pending, ckpt, cur, skip, turn, again>>
    PROVE  QuietInv'
    <1> DEFINE f == AddFinal(msgs, Made("notice"))
    <1>1. /\ skip \in Nat /\ iter \in Nat /\ msgs \in Seq(RowOf(turn)) /\ QuietList(msgs)
          /\ Made("notice") \in RowOf(turn) /\ ~OpenCall(msgs)
          /\ \A i \in (skip + 1)..Len(msgs) : msgs[i].n \in Nat
          /\ \A i \in (skip + 1)..Len(msgs) : msgs[i].n < iter \/ (msgs[i].n = iter => msgs[i].role # "notice")
        BY QuietKnows DEF Running, QuietCall
    <1>2. Made("notice").n = iter /\ Made("notice").role = "notice" BY MadeHas
    <1>3. \A i \in (skip + 1)..Len(msgs) : msgs[i] # Made("notice") BY <1>1, <1>2
    <1>4. QuietList(f) /\ ~OpenCall(f) /\ ~EndsWith(f, "user") BY <1>1, <1>3, ListFinal
    <1>5. QuietList(msgs') /\ ~OpenCall(msgs') /\ ~EndsWith(msgs', "user")
        <2>1. CASE msgs' = f
            <3> HIDE DEF f
            <3> QED BY <1>4, <2>1
        <2>2. CASE msgs' = AddPlaceholder(msgs, Made("notice")) /\ EndsWithText(msgs)
            <3>1. msgs' = msgs BY <2>2 DEF AddPlaceholder
            <3>2. ~EndsWith(msgs, "user") BY <2>2 DEF EndsWithText, EndsWith
            <3> QED BY <1>1, <3>1, <3>2
        <2>3. CASE msgs' = AddPlaceholder(msgs, Made("notice")) /\ ~EndsWithText(msgs)
            <3>1. msgs' = f BY <2>3 DEF AddPlaceholder, AddFinal
            <3> HIDE DEF f
            <3> QED BY <1>4, <3>1
        <2> QED BY <2>1, <2>2, <2>3
    <1>6. QuietCall' /\ phase' \in Running BY <1>5, QuietOver
    <1> QED BY <1>5, <1>6, QuietRunStep

\* Every step of the runner.
LEMMA QuietRunner ==
    ASSUME PersistInv, QuietInv, taken' = taken,
           \/ CallTools \/ ToolsDone \/ ToolsFatal \/ Reply \/ Truncated
           \/ ModelError \/ BlankAnswer \/ Exhausted
    PROVE  QuietInv'
    <1>1. CASE ModelError
        <2>1. /\ phase = "model" /\ Fails(AddPlaceholder(msgs, Made("notice")))
              /\ UNCHANGED <<rows, pending, ckpt, cur, skip, turn, again>>
            BY <1>1 DEF ModelError, saved
        <2> QED BY <2>1, QuietFails, QuietWords
    <1>2. CASE BlankAnswer
        <2>1. /\ phase = "model" /\ Fails(AddFinal(msgs, Made("notice")))
              /\ UNCHANGED <<rows, pending, ckpt, cur, skip, turn, again>>
            BY <1>2 DEF BlankAnswer, saved
        <2> QED BY <2>1, QuietFails, QuietWords
    <1>3. CASE Exhausted
        <2>1. /\ phase = "exhausted" /\ phase' = "final"
              /\ UNCHANGED <<rows, pending, ckpt, cur, skip, turn, again>>
            BY <1>3 DEF Exhausted, saved
        <2>2. msgs' = AddFinal(msgs, Made("notice")) BY <1>3, NothingInjected DEF Exhausted
        <2> QED BY <2>1, <2>2, QuietWords
    <1> QED BY <1>1, <1>2, <1>3, QuietCallTools, QuietToolsDone, QuietToolsFatal, QuietReply, QuietTruncated

----------------------------------------------------------------------------
(* The start and the end of such a turn. *)

\* Sound rows stay sound when more messages are taken.
LEMMA SoundMore == ASSUME NEW s, NEW M, NEW P, Sound(s, M), M \subseteq P PROVE Sound(s, P)
    BY DEF Sound

\* The invariant of a session whose turn does not run.
LEMMA QuietRest ==
    ASSUME again' = {}, Sound(rows', taken'), EndsWith(rows', "user") => pending',
           Sound(ckpt', {}), ~EndsWith(ckpt', "user"), phase' \notin Running,
           phase' = "recovered" =>
              ~pending' /\ \E m \in taken' : cur' = {m} /\ \A i \in DOMAIN rows' : m \notin rows'[i].of
    PROVE  QuietInv'
    <1>1. QuietRows' BY DEF QuietRows, Sound, LegalFrom, OpenCall, EndsWith, Unalike, LastRow
    <1>2. QuietCheckpoint' BY DEF QuietCheckpoint, Sound, LegalFrom, OpenCall, EndsWith, Unalike, LastRow
    <1> QED BY <1>1, <1>2 DEF QuietInv, Running

\* What a recovered session is: nothing in it is saved twice, and nothing waits at its end.
LEMMA QuietRecovered ==
    ASSUME PersistInv, QuietInv PROVE Sound(Recovered, taken) /\ ~EndsWith(Recovered, "user")
    <1>1. /\ turn \in Nat /\ rows \in Seq(RowOf(turn)) /\ ckpt \in Seq(RowOf(turn)) /\ Len(ckpt) <= 2
          /\ \A i \in DOMAIN ckpt : ckpt[i].turn = turn
          /\ pending \/ ckpt # <<>> => \A i \in DOMAIN rows : rows[i].turn < turn
        BY DEF PersistInv, Typed, OneCheckpoint, CheckpointCurrent, SavedAtEnd, NoneSaved
    <1>2. /\ Sound(rows, taken) /\ Sound(ckpt, {}) /\ ~EndsWith(ckpt, "user")
          /\ EndsWith(rows, "user") => pending
        BY DEF QuietInv, QuietRows, QuietCheckpoint
    <1>3. \A i \in DOMAIN rows : rows[i].turn \in Nat
        <2>1. \A i \in DOMAIN rows : rows[i] \in RowOf(turn) BY <1>1
        <2> QED BY <1>1, <2>1 DEF RowOf
    <1>4. CASE ckpt # <<>>
        <2>1. \A i \in DOMAIN rows : rows[i].turn # turn BY <1>1, <1>3, <1>4
        <2>2. Recovered = rows \o ckpt
            <3>1. Restored(rows, ckpt) = rows \o ckpt BY <1>1, <2>1, RestoredWhole
            <3> QED BY <1>4, <3>1 DEF Recovered
        <2>3. \A i \in DOMAIN rows, j \in DOMAIN ckpt : rows[i] # ckpt[j] /\ rows[i].of \cap ckpt[j].of = {}
            <3>1. \A j \in DOMAIN ckpt : ckpt[j].of = {} BY <1>2 DEF Sound
            <3> QED BY <1>1, <2>1, <3>1
        <2>4. ~EndsWith(rows \o ckpt, "user") /\ Sound(rows \o ckpt, taken \cup {})
            <3>1. rows \in Seq(RowOf(turn)) /\ ckpt \in Seq(RowOf(turn)) BY <1>1
            <3>2. Sound(rows, taken) /\ Sound(ckpt, {}) BY <1>2
            <3>3. /\ Sound(rows \o ckpt, taken \cup {})
                  /\ \A role : EndsWith(rows \o ckpt, role) =>
                         EndsWith(ckpt, role) \/ (ckpt = <<>> /\ EndsWith(rows, role))
                BY <2>3, <3>1, <3>2, SoundJoined
            <3> QED BY <1>2, <1>4, <3>3
        <2>5. taken \cup {} = taken OBVIOUS
        <2> QED BY <2>2, <2>4, <2>5
    <1>5. CASE ckpt = <<>> /\ pending /\ rows # <<>> /\ IsUser(LastRow(rows))
        <2>1. Recovered = Append(rows, Closing) BY <1>5 DEF Recovered
        <2>2. /\ Closing.role = "notice" /\ Closing.of = {} /\ Closing.turn = turn
              /\ Plain(Closing) /\ ~IsTool(Closing)
            BY DEF Closing, Plain, IsTool
        <2>3. Closing \in RowOf(turn) BY <1>1, PersistenceAssumption DEF Closing, RowOf, Roles, N
        <2> DEFINE r == Closing
                   w == <<r>>
        <2> HIDE DEF r
        <2>4. r \in RowOf(turn) /\ Plain(r) /\ ~IsTool(r) /\ r.role = "notice" /\ r.of = {} /\ r.turn = turn
            BY <2>2, <2>3 DEF r
        <2>5. Sound(w, {}) /\ \A role : EndsWith(w, role) => r.role = role BY <2>4, SoundRow
        <2>6. w \in Seq(RowOf(turn)) /\ DOMAIN w = {1} /\ w[1] = r /\ w # <<>> BY <2>4
        <2>7. Append(rows, r) = rows \o w BY <1>1, <2>4
        <2> HIDE DEF w
        <2>8. \A i \in DOMAIN rows, j \in DOMAIN w : rows[i] # w[j] /\ rows[i].of \cap w[j].of = {}
            <3>1. \A i \in DOMAIN rows : rows[i].turn # turn BY <1>1, <1>3, <1>5
            <3> QED BY <2>4, <2>6, <3>1
        <2>9. /\ Sound(rows \o w, taken \cup {})
              /\ EndsWith(rows \o w, "user") => EndsWith(w, "user") \/ (w = <<>> /\ EndsWith(rows, "user"))
            <3>1. rows \in Seq(RowOf(turn)) /\ w \in Seq(RowOf(turn)) BY <1>1, <2>6
            <3>2. Sound(rows, taken) /\ Sound(w, {}) BY <1>2, <2>5
            <3> QED BY <2>8, <3>1, <3>2, SoundJoined
        <2>10. ~EndsWith(rows \o w, "user") BY <2>4, <2>5, <2>6, <2>9
        <2>11. taken \cup {} = taken OBVIOUS
        <2> QED BY <2>1, <2>7, <2>9, <2>10, <2>11 DEF r
    <1>6. CASE ckpt = <<>> /\ ~(pending /\ rows # <<>> /\ IsUser(LastRow(rows)))
        <2>1. Recovered = rows BY <1>6 DEF Recovered
        <2>2. ~EndsWith(rows, "user") BY <1>2, <1>6 DEF EndsWith, IsUser
        <2> QED BY <1>2, <2>1, <2>2
    <1> QED BY <1>4, <1>5, <1>6

\* The message that is taken next is not in the recovered session.
LEMMA QuietRecover == ASSUME PersistInv, QuietInv, NEW of, Recover(of) PROVE QuietInv'
    <1>1. /\ rows' = Recovered /\ pending' = FALSE /\ ckpt' = <<>> /\ phase' = "recovered" /\ cur' = of
          /\ taken' = taken \cup of
        BY DEF Recover
    <1>2. again = {} BY DEF QuietInv, QuietRows
    <1>3. again' = {} /\ \E m : m \notin taken /\ of = {m} BY <1>2 DEF Recover
    <1>4. PICK m : m \notin taken /\ of = {m} BY <1>3
    <1>5. Sound(Recovered, taken) /\ ~EndsWith(Recovered, "user") BY QuietRecovered
    <1>6. Sound(rows', taken') BY <1>1, <1>5, SoundMore
    <1>7. \A i \in DOMAIN rows' : m \notin rows'[i].of BY <1>1, <1>4, <1>5 DEF Sound
    <1>8. m \in taken' /\ cur' = {m} BY <1>1, <1>4
    <1>9. Sound(ckpt', {}) /\ ~EndsWith(ckpt', "user") BY <1>1, SoundNone
    <1>10. phase' \notin Running BY <1>1 DEF Running
    <1> QED BY <1>1, <1>3, <1>5, <1>6, <1>7, <1>8, <1>9, <1>10, QuietRest

\* A turn begins with a prompt of saved rows, all of it counted.
LEMMA QuietBegin ==
    ASSUME PersistInv', phase' = "model", again' = {}, ckpt' = <<>>, Sound(rows', taken'),
           EndsWith(rows', "user") => pending' /\ EndsWith(msgs', "user"),
           msgs' \in Seq(RowsOf(rows')), skip' = Len(msgs'), ~EndsWith(msgs', "calls")
    PROVE  QuietInv'
    <1>1. QuietRows'
        BY DEF QuietRows, Sound, LegalFrom, OpenCall, EndsWith, Unalike, LastRow
    <1>2. Sound(<<>>, {}) /\ ~EndsWith(<<>>, "user") BY SoundNone
    <1>3. QuietCheckpoint' BY <1>2 DEF QuietCheckpoint, Sound, LegalFrom, OpenCall, EndsWith, Unalike, LastRow
    <1>4. \A i \in DOMAIN rows' : rows'[i].turn < turn' BY DEF PersistInv, SavedAtEnd, NoneSaved, Running
    <1>5. skip' \in Nat /\ \A i \in 1..skip' : msgs'[i] \in RowsOf(rows') OBVIOUS
    <1>6. \A i \in 1..skip' : /\ msgs'[i].turn < turn'
                              /\ msgs'[i].role = "user" => msgs'[i].of \subseteq Origins(rows')
        BY <1>4, <1>5 DEF RowsOf, Origins
    <1>7. \A i \in (skip' + 1)..Len(msgs') : FALSE BY <1>5
    <1>8. skip' <= Len(msgs') BY <1>5
    <1>9. QuietList(msgs)' BY <1>6, <1>7, <1>8 DEF QuietList, LegalFrom, EndsWith, LastRow, Origins, RowsOf
    <1>10. QuietCall' BY <1>7 DEF QuietCall, OpenCall, EndsWith, LastRow
    <1> QED BY <1>1, <1>3, <1>9, <1>10 DEF QuietInv

\* A row like none of the session's is added to it.
LEMMA SoundAdded ==
    ASSUME NEW D, NEW s \in Seq(D), NEW M, Sound(s, M), NEW r \in D, Plain(r), ~IsTool(r), r.role # "calls",
           r.of \subseteq M, r.of # {}, \A i \in DOMAIN s : r.of \cap s[i].of = {}
    PROVE  /\ Sound(Append(s, r), M) /\ Append(s, r) \in Seq(D)
           /\ \A role : EndsWith(Append(s, r), role) <=> r.role = role
           /\ r \in RowsOf(Append(s, r)) /\ RowsOf(s) \subseteq RowsOf(Append(s, r))
    <1> DEFINE w == <<r>>
    <1>1. Sound(w, r.of) BY SoundRow
    <1>2. w \in Seq(D) /\ DOMAIN w = {1} /\ w[1] = r OBVIOUS
    <1>3. Append(s, r) = s \o w OBVIOUS
    <1> HIDE DEF w
    <1>4. \A i \in DOMAIN s, j \in DOMAIN w : s[i] # w[j] /\ s[i].of \cap w[j].of = {} BY <1>2
    <1>5. Sound(s \o w, M \cup r.of) BY <1>1, <1>2, <1>4, SoundJoined
    <1>6. M \cup r.of = M OBVIOUS
    <1> DEFINE b == Append(s, r)
    <1>7. /\ b \in Seq(D) /\ Len(b) = Len(s) + 1 /\ b[Len(s) + 1] = r /\ Len(s) \in Nat
          /\ \A i \in 1..Len(s) : b[i] = s[i]
        OBVIOUS
    <1>8. Sound(b, M) BY <1>3, <1>5, <1>6
    <1> HIDE DEF b
    <1>9. DOMAIN b = 1..(Len(s) + 1) /\ DOMAIN s = 1..Len(s) /\ b # <<>> BY <1>7
    <1>10. \A role : EndsWith(b, role) <=> r.role = role BY <1>7, <1>9 DEF EndsWith, LastRow
    <1>11. \A i \in DOMAIN s : i \in DOMAIN b BY <1>7, <1>9
    <1>12. RowsOf(s) \subseteq RowsOf(b) BY <1>7, <1>9, <1>11 DEF RowsOf
    <1>13. Len(s) + 1 \in DOMAIN b BY <1>7, <1>9
    <1>14. r \in RowsOf(b) BY <1>7, <1>13 DEF RowsOf
    <1> QED BY <1>7, <1>8, <1>10, <1>12, <1>14 DEF b

\* What a recovered session is known to be, and the message it waits for.
LEMMA QuietWaits ==
    ASSUME PersistInv, QuietInv, phase = "recovered"
    PROVE  /\ turn \in Nat /\ rows \in Seq(RowOf(turn)) /\ again = {} /\ ckpt = <<>> /\ Sound(rows, taken)
           /\ ~pending /\ ~EndsWith(rows, "user") /\ rows \in Seq(RowsOf(rows))
           /\ cur \subseteq taken /\ cur # {} /\ \A i \in DOMAIN rows : cur \cap rows[i].of = {}
    <1>1. turn \in Nat /\ rows \in Seq(RowOf(turn)) /\ ckpt = <<>> BY DEF PersistInv, Typed, Recovered0
    <1>2. /\ again = {} /\ Sound(rows, taken)
          /\ EndsWith(rows, "user") => pending
          /\ ~pending
          /\ \E m \in taken : cur = {m} /\ \A i \in DOMAIN rows : m \notin rows[i].of
        BY DEF QuietInv, QuietRows
    <1>3. rows \in Seq(RowsOf(rows)) BY <1>1 DEF RowsOf
    <1>4. cur \subseteq taken /\ cur # {} /\ \A i \in DOMAIN rows : cur \cap rows[i].of = {} BY <1>2
    <1>5. ~EndsWith(rows, "user") BY <1>2
    <1> QED BY <1>1, <1>2, <1>3, <1>4, <1>5

\* The message of a user comes last in the prompt and in the session: none is merged into another.
LEMMA QuietBeginUser == ASSUME PersistInv, QuietInv, BeginUserTurn PROVE QuietInv'
    <1>1. /\ phase = "recovered" /\ cur \cap Subs = {} /\ phase' = "model"
          /\ msgs' = AddUser(History(rows), UserRow(cur)) /\ skip' = Len(History(rows)) + 1
          /\ rows' = Append(rows, UserRow(cur)) /\ pending' = TRUE
          /\ UNCHANGED <<ckpt, cur, taken, again>>
        BY DEF BeginUserTurn
    <1>2. /\ turn \in Nat /\ rows \in Seq(RowOf(turn)) /\ again = {} /\ ckpt = <<>> /\ Sound(rows, taken)
          /\ ~EndsWith(rows, "user") /\ rows \in Seq(RowsOf(rows))
          /\ cur \subseteq taken /\ cur # {} /\ \A i \in DOMAIN rows : cur \cap rows[i].of = {}
        BY <1>1, QuietWaits
    <1>3. cur \in SUBSET Msgs BY <1>1 DEF PersistInv, Typed
    <1> DEFINE r == UserRow(cur)
               h == History(rows)
    <1>4. r \in RowOf(turn) /\ r.of = cur /\ r.role = "user" BY <1>2, <1>3, UserRowIs
    <1>5. Plain(r) /\ ~IsTool(r) BY <1>4 DEF Plain, IsTool
    <1>6. ~EndsWith(h, "user")
        <2>1. \A i \in DOMAIN rows : Plain(rows[i]) BY <1>2 DEF Sound
        <2> QED BY <1>2, <2>1, HistoryEnds
    <1>7. h \in Seq(RowsOf(rows)) BY <1>2, HistoryType
    <1> HIDE DEF r, h
    <1>8. /\ Sound(Append(rows, r), taken) /\ Append(rows, r) \in Seq(RowOf(turn))
          /\ \A role : EndsWith(Append(rows, r), role) <=> r.role = role
          /\ r \in RowsOf(Append(rows, r)) /\ RowsOf(rows) \subseteq RowsOf(Append(rows, r))
        BY <1>2, <1>4, <1>5, SoundAdded
    <1>9. rows' = Append(rows, r) /\ msgs' = Append(h, r) /\ skip' = Len(h) + 1
        BY <1>1, <1>6 DEF AddUser, r, h
    <1>10. Sound(rows', taken') BY <1>1, <1>8, <1>9
    <1>11. msgs' \in Seq(RowsOf(rows')) /\ skip' = Len(msgs') /\ msgs' # <<>> /\ msgs'[Len(msgs')] = r
        <2> DEFINE S == RowsOf(Append(rows, r))
        <2>1. r \in S /\ RowsOf(rows) \subseteq S BY <1>8
        <2>2. RowsOf(rows') = S BY <1>9
        <2> HIDE DEF S
        <2>3. h \in Seq(S) BY <1>7, <2>1
        <2>4. Append(h, r) \in Seq(S) /\ Len(Append(h, r)) = Len(h) + 1 /\ Append(h, r)[Len(h) + 1] = r
              /\ Append(h, r) # <<>>
            BY <2>1, <2>3
        <2> QED BY <1>9, <2>2, <2>4
    <1>12. EndsWith(msgs', "user") /\ ~EndsWith(msgs', "calls") BY <1>4, <1>11 DEF EndsWith, LastRow
    <1>13. PersistInv' BY BeginUserKeeps
    <1> QED BY <1>1, <1>2, <1>10, <1>11, <1>12, <1>13, QuietBegin

\* A subagent's result comes last in both likewise.
LEMMA QuietBeginSub == ASSUME PersistInv, QuietInv, BeginSubTurn PROVE QuietInv'
    <1>1. PICK s \in Subs : /\ phase = "recovered" /\ cur = {s} /\ phase' = "model"
                            /\ rows' = Append(rows, SubRow(s))
                            /\ msgs' = History(rows') /\ skip' = Len(History(rows'))
                            /\ UNCHANGED <<pending, ckpt, cur, taken, again>>
        BY DEF BeginSubTurn
    <1>2. /\ turn \in Nat /\ rows \in Seq(RowOf(turn)) /\ again = {} /\ ckpt = <<>> /\ Sound(rows, taken)
          /\ cur \subseteq taken /\ cur # {} /\ \A i \in DOMAIN rows : cur \cap rows[i].of = {}
        BY <1>1, QuietWaits
    <1> DEFINE r == SubRow(s)
    <1>3. r \in RowOf(turn) BY <1>2, PersistenceAssumption DEF SubRow, RowOf, Roles, N
    <1>4. r.of = cur /\ r.role = "assistant" BY <1>1 DEF SubRow
    <1>5. Plain(r) /\ ~IsTool(r) BY <1>4 DEF Plain, IsTool
    <1> HIDE DEF r
    <1>6. /\ Sound(Append(rows, r), taken) /\ Append(rows, r) \in Seq(RowOf(turn))
          /\ \A role : EndsWith(Append(rows, r), role) <=> r.role = role
        BY <1>2, <1>3, <1>4, <1>5, SoundAdded
    <1>7. rows' = Append(rows, r) BY <1>1 DEF r
    <1>8. /\ Sound(rows', taken') /\ rows' \in Seq(RowOf(turn))
          /\ ~EndsWith(rows', "user") /\ ~EndsWith(rows', "calls")
        BY <1>1, <1>4, <1>6, <1>7
    <1>9. rows' \in Seq(RowsOf(rows')) BY <1>8 DEF RowsOf
    <1>10. msgs' \in Seq(RowsOf(rows')) BY <1>1, <1>9, HistoryType
    <1>11. skip' = Len(msgs') BY <1>1
    <1>12. ~EndsWith(msgs', "calls")
        <2>1. \A i \in DOMAIN rows' : Plain(rows'[i]) BY <1>8 DEF Sound
        <2> QED BY <1>1, <1>8, <2>1, HistoryEnds
    <1>13. PersistInv' BY BeginSubKeeps
    <1> QED BY <1>1, <1>2, <1>8, <1>10, <1>11, <1>12, <1>13, QuietBegin

\* What a turn that ends has made is beyond skip, and its prompt is in the session.
LEMMA QuietEnding ==
    ASSUME PersistInv, QuietInv, EndTurn
    PROVE  /\ Sound(rows', taken) /\ ~EndsWith(rows', "user")
           /\ MadeBy(msgs, turn) \subseteq RowsOf(rows')
           /\ Origins(msgs) \subseteq Origins(rows')
    <1>1. phase = "final" /\ rows' = rows \o SubSeq(msgs, skip + 1, Len(msgs)) BY DEF EndTurn
    <1>2. /\ skip \in Nat /\ turn \in Nat /\ msgs \in Seq(RowOf(turn)) /\ QuietList(msgs)
          /\ ~OpenCall(msgs) /\ ~EndsWith(msgs, "user")
        BY <1>1, QuietKnows DEF Running, QuietCall
    <1>3. /\ rows \in Seq(RowOf(turn)) /\ Sound(rows, taken) /\ \A i \in DOMAIN rows : rows[i].turn < turn
        BY <1>1 DEF PersistInv, Typed, SavedAtEnd, NoneSaved, Running, QuietInv, QuietRows
    <1> DEFINE w == Beyond(msgs)
    <1>4. rows' = rows \o w BY <1>1 DEF Beyond
    <1>5. /\ w \in Seq(RowOf(turn)) /\ Len(w) = Len(msgs) - skip
          /\ \A i \in DOMAIN w : skip + i \in (skip + 1)..Len(msgs) /\ w[i] = msgs[skip + i]
          /\ \A j \in (skip + 1)..Len(msgs) : j - skip \in DOMAIN w /\ w[j - skip] = msgs[j]
        BY <1>2, BeyondIs
    <1>6. Sound(w, {}) /\ \A role : EndsWith(w, role) => EndsWith(msgs, role) BY <1>2, BeyondSound
    <1> HIDE DEF w
    <1>7. \A j \in DOMAIN w : w[j].turn = turn /\ w[j].of = {} BY SMTT(30), <1>2, <1>5 DEF QuietList
    <1>8. \A i \in DOMAIN rows, j \in DOMAIN w : rows[i] # w[j] /\ rows[i].of \cap w[j].of = {}
        <2>1. \A i \in DOMAIN rows : rows[i].turn # turn
            <3>1. \A i \in DOMAIN rows : rows[i] \in RowOf(turn) BY <1>3
            <3> QED BY <1>2, <1>3, <3>1 DEF RowOf
        <2> QED BY <1>7, <2>1
    <1>9. /\ Sound(rows \o w, taken \cup {})
          /\ EndsWith(rows \o w, "user") => EndsWith(w, "user") \/ (w = <<>> /\ EndsWith(rows, "user"))
        BY <1>3, <1>5, <1>6, <1>8, SoundJoined
    <1>10. taken \cup {} = taken OBVIOUS
    <1>11. w = <<>> => Len(msgs) = skip
        <2>1. w = <<>> => Len(w) = 0 OBVIOUS
        <2>2. Len(msgs) \in Nat BY <1>2
        <2> QED BY <1>2, <1>5, <2>1, <2>2
    <1>12. ~EndsWith(rows \o w, "user") BY <1>2, <1>6, <1>9, <1>11 DEF QuietList
    <1> DEFINE b == rows \o w
    <1>13. /\ DOMAIN rows = 1..Len(rows) /\ DOMAIN w = 1..Len(w) /\ Len(rows) \in Nat /\ Len(w) \in Nat
           /\ DOMAIN b = 1..(Len(rows) + Len(w))
           /\ \A i \in 1..(Len(rows) + Len(w)) : b[i] = IF i <= Len(rows) THEN rows[i] ELSE w[i - Len(rows)]
        <2>1. rows \in Seq(RowOf(turn)) /\ w \in Seq(RowOf(turn)) BY <1>3, <1>5
        <2> QED BY <2>1
    <1> HIDE DEF b
    <1>14. RowsOf(rows) \subseteq RowsOf(b)
        <2>1. \A i \in DOMAIN rows : i \in DOMAIN b /\ b[i] = rows[i] BY <1>13
        <2> QED BY <2>1 DEF RowsOf
    <1>15. RowsOf(w) \subseteq RowsOf(b)
        <2>1. \A i \in DOMAIN w : Len(rows) + i \in DOMAIN b /\ b[Len(rows) + i] = w[i] BY <1>13
        <2> QED BY <2>1 DEF RowsOf
    <1>16. Origins(rows) \subseteq Origins(b) BY <1>14 DEF Origins
    <1>17. Len(msgs) \in Nat /\ DOMAIN msgs = 1..Len(msgs) /\ skip <= Len(msgs) BY <1>2 DEF QuietList
    <1>18. \A i \in DOMAIN msgs : i \in 1..skip \/ i \in (skip + 1)..Len(msgs) BY <1>2, <1>17
    <1>19. MadeBy(msgs, turn) \subseteq RowsOf(b)
        <2> SUFFICES ASSUME NEW i \in DOMAIN msgs, msgs[i].turn = turn, msgs[i].role \in {"assistant", "calls", "tool"}
                     PROVE  msgs[i] \in RowsOf(b)
            BY DEF MadeBy, RowsOf
        <2>1. CASE i \in 1..skip
            <3>1. ~(msgs[i].turn < turn) BY <1>2
            <3> QED BY <1>2, <2>1, <3>1 DEF QuietList
        <2>2. CASE i \in (skip + 1)..Len(msgs)
            <3>1. msgs[i] \in RowsOf(w) BY <1>5, <2>2 DEF RowsOf
            <3> QED BY <1>15, <3>1
        <2> QED BY <1>18, <2>1, <2>2
    <1>20. Origins(msgs) \subseteq Origins(b)
        <2> SUFFICES ASSUME NEW i \in DOMAIN msgs, msgs[i].role = "user" PROVE msgs[i].of \subseteq Origins(b)
            BY DEF Origins, RowsOf
        <2>1. CASE i \in 1..skip BY <1>2, <1>16, <2>1 DEF QuietList
        <2>2. CASE i \in (skip + 1)..Len(msgs) BY <1>2, <2>2 DEF QuietList
        <2> QED BY <1>18, <2>1, <2>2
    <1> QED BY <1>4, <1>9, <1>10, <1>12, <1>19, <1>20 DEF b

\* What the turn made is saved once, and its last row closes the session.
LEMMA QuietEndTurn == ASSUME PersistInv, QuietInv, EndTurn PROVE QuietInv'
    <1>1. /\ pending' = FALSE /\ ckpt' = <<>> /\ phase' = "idle" /\ UNCHANGED <<taken, again>> BY DEF EndTurn, Idle
    <1>2. again' = {} BY <1>1 DEF QuietInv, QuietRows
    <1>3. Sound(rows', taken') /\ ~EndsWith(rows', "user") BY <1>1, QuietEnding
    <1>4. Sound(ckpt', {}) /\ ~EndsWith(ckpt', "user") BY <1>1, SoundNone
    <1>5. phase' \notin Running /\ phase' # "recovered" BY <1>1 DEF Running
    <1> QED BY <1>2, <1>3, <1>4, <1>5, QuietRest

\* What an interruption leaves is what was saved.
LEMMA QuietInterrupt == ASSUME PersistInv, QuietInv, Interrupt PROVE QuietInv'
    <1>1. /\ phase' = "idle" /\ UNCHANGED <<rows, pending, ckpt, taken, again>> BY DEF Interrupt, Idle, saved
    <1>2. /\ again' = {} /\ Sound(rows', taken')
          /\ EndsWith(rows', "user") => pending'
          /\ Sound(ckpt', {}) /\ ~EndsWith(ckpt', "user")
        BY <1>1 DEF QuietInv, QuietRows, QuietCheckpoint
    <1>3. phase' \notin Running /\ phase' # "recovered" BY <1>1 DEF Running
    <1> QED BY <1>2, <1>3, QuietRest

----------------------------------------------------------------------------
(* Such a session at every step. *)

\* A step of the turns is none of the commands, and injects nothing while a turn runs.
LEMMA QuietNext ==
    ASSUME PersistInv, QuietInv, Next, commands' = 0, phase = "idle" \/ taken' = taken
    PROVE  QuietInv'
    <1>1. ASSUME NEW of \in SUBSET (Msgs \cup Subs), Recover(of) PROVE QuietInv' BY <1>1, QuietRecover
    <1>2. CASE BeginUserTurn BY <1>2, QuietBeginUser
    <1>3. CASE BeginSubTurn BY <1>3, QuietBeginSub
    <1>4. CASE \/ CallTools \/ ToolsDone \/ ToolsFatal \/ Reply \/ Truncated
               \/ ModelError \/ BlankAnswer \/ Exhausted
        <2>1. phase # "idle"
            BY <1>4 DEF CallTools, ToolsDone, ToolsFatal, Reply, Truncated, ModelError, BlankAnswer, Exhausted
        <2> QED BY <1>4, <2>1, QuietRunner
    <1>5. CASE EndTurn BY <1>5, QuietEndTurn
    <1>6. CASE Interrupt BY <1>6, QuietInterrupt
    <1>7. CASE Stop \/ InlineCommand \/ CommandTurn \/ New \/ Regenerate
        <2>1. \E c \in CommandNames : Command(c)
            BY <1>7 DEF Stop, InlineCommand, CommandTurn, New, Regenerate, CommandNames
        <2>2. commands' = commands + 1 BY <2>1 DEF Command
        <2>3. commands \in Nat BY PersistenceAssumption DEF PersistInv, Typed
        <2> QED BY <2>2, <2>3
    <1> QED BY <1>1, <1>2, <1>3, <1>4, <1>5, <1>6, <1>7 DEF Next

\* The invariant of both kinds of behaviour.
QuietTurns == PersistInv /\ (part = "turns" => QuietInv)

\* It holds at the start.
LEMMA QuietStart == ASSUME MCInit PROVE QuietTurns
    <1>1. PersistInv BY PersistInvInit DEF MCInit
    <1>2. /\ rows = <<>> /\ pending = FALSE /\ ckpt = <<>> /\ phase = "idle" /\ again = {}
        BY DEF MCInit, Init
    <1>3. QuietRows BY <1>2, SoundNone DEF QuietRows
    <1>4. QuietCheckpoint BY <1>2, SoundNone DEF QuietCheckpoint
    <1> QED BY <1>1, <1>2, <1>3, <1>4 DEF QuietTurns, QuietInv, Running

\* Every step keeps it.
LEMMA QuietStep == ASSUME QuietTurns, [MCNext]_<<vars, part>> PROVE QuietTurns'
    <1>1. PersistInv /\ [Next]_vars BY DEF QuietTurns, MCNext
    <1>2. PersistInv' BY <1>1, PersistInvNext
    <1>3. ASSUME part' = "turns" PROVE QuietInv'
        <2>1. CASE MCNext
            <3>1. part = "turns" /\ Next /\ TurnsOnly BY <1>3, <2>1 DEF MCNext
            <3> QED BY <3>1, QuietNext DEF QuietTurns, TurnsOnly
        <2>2. CASE UNCHANGED <<vars, part>>
            <3>1. QuietInv BY <1>3, <2>2 DEF QuietTurns
            <3> QED BY <2>2, <3>1 DEF vars, saved, volatile, QuietInv, QuietRows, QuietCheckpoint, QuietList, QuietCall,
                       Sound, LegalFrom, OpenCall, EndsWith, Unalike, LastRow, Origins, RowsOf, Made
        <2> QED BY <2>1, <2>2
    <1> QED BY <1>2, <1>3 DEF QuietTurns

\* It always holds.
LEMMA QuietAlways == MCSpec => []QuietTurns
    BY QuietStart, QuietStep, PTL DEF MCSpec

\* Where nothing but interruptions disturbs its turns, a session never holds half a tool exchange:
\* every result is right behind its request and every request has its result, whatever crash,
\* failure or recovery wrote them (save_turn, _restore_runtime_checkpoint).
THEOREM LegalKept == MCSpec => []TurnsLegal
    <1>1. QuietTurns => TurnsLegal
        <2> SUFFICES ASSUME QuietTurns, part = "turns", NEW i \in DOMAIN rows
                     PROVE  /\ IsTool(rows[i]) => i > 1 /\ Answers(rows[i], rows[i - 1])
                            /\ rows[i].role = "calls" => i < Len(rows) /\ Answers(rows[i + 1], rows[i])
            BY DEF TurnsLegal, LegalHistory
        <2>1. rows \in Seq(RowOf(turn)) /\ LegalFrom(rows, 0) /\ ~OpenCall(rows)
            BY DEF QuietTurns, PersistInv, Typed, QuietInv, QuietRows, Sound
        <2>2. i \in 1..Len(rows) /\ i \in (0 + 1)..Len(rows) /\ Len(rows) \in Nat /\ rows # <<>> BY <2>1
        <2>3. /\ IsTool(rows[i]) => i > 0 + 1 /\ Answers(rows[i], rows[i - 1])
              /\ rows[i].role = "calls" => i = Len(rows) \/ Answers(rows[i + 1], rows[i])
            BY <2>1, <2>2 DEF LegalFrom
        <2>4. rows[i].role = "calls" => i # Len(rows) BY <2>1, <2>2 DEF OpenCall, EndsWith, LastRow
        <2> QED BY <2>2, <2>3, <2>4
    <1> QED BY <1>1, QuietAlways, PTL

\* There a message that no turn answered is closed before the next one is taken: the history a
\* prompt is built from does not end with a user row (_restore_pending_user_turn).
THEOREM ClosedKept == MCSpec => []TurnsClosed
    <1>1. QuietTurns => TurnsClosed
        <2> SUFFICES ASSUME QuietTurns, part = "turns", ~pending, EndsWith(History(rows), "user")
                     PROVE  FALSE
            BY DEF TurnsClosed, HistoryClosed
        <2>1. rows \in Seq(RowOf(turn)) /\ QuietRows BY DEF QuietTurns, PersistInv, Typed, QuietInv
        <2>2. \A i \in DOMAIN rows : Plain(rows[i]) BY <2>1 DEF QuietRows, Sound
        <2>3. EndsWith(rows, "user") BY <2>1, <2>2, HistoryEnds
        <2> QED BY <2>1, <2>3 DEF QuietRows
    <1> QED BY <1>1, QuietAlways, PTL

\* There no message and no row of a turn is saved twice, however often turns are cut short and
\* their checkpoints folded in (_restore_runtime_checkpoint, save_turn with save_skip).
THEOREM OnceKept == MCSpec => []TurnsSavedOnce
    <1>1. QuietTurns => TurnsSavedOnce
        BY DEF QuietTurns, QuietInv, QuietRows, Sound, Unalike, TurnsSavedOnce, NoDuplicateRows
    <1> QED BY <1>1, QuietAlways, PTL

\* There a turn that ends loses nothing: what it made and the messages of its prompt are in the
\* session (save_turn with save_skip).
THEOREM WholeKept == MCSpec => TurnsSavedWhole
    <1>1. QuietTurns /\ [MCNext]_<<vars, part>> =>
             [part = "turns" /\ EndTurn => /\ MadeBy(msgs, turn) \subseteq RowsOf(rows')
                                           /\ Origins(msgs) \subseteq Origins(rows')]_vars
        BY QuietEnding DEF QuietTurns
    <1> QED BY <1>1, QuietAlways, PTL DEF MCSpec, TurnsSavedWhole
================================================================================
