----------------------------- MODULE ServiceProofs -----------------------------
(* Proofs about the services beside the turns.  For each: the inductive invariant, one lemma  *)
(* per conjunct or action, and the theorem that the specification keeps what the component    *)
(* promises, for every number of senders, processes, calls and sessions.                      *)
EXTENDS PairingStore, BrowserSessions, ExecSessions, MemoryHistory, Subagents, SessionMemory, FiniteSetTheorems, LoopLemmas, TLAPS

----------------------------------------------------------------------------
(* The pairing store: the file against what two processes have read of it. *)

\* What a process may write was approved at some time.
OkInv == approved \subseteq ever /\ \A p \in PairProcs : work[p].ok \subseteq ever

\* Who is not behind has read what the file says, unless the read failed.
FreshOk ==
    \/ raced \/ misread
    \/ /\ approved = granted
       /\ \A p \in PairProcs : work[p] # NoWork /\ work[p].fresh => work[p].ok = approved

\* The codes of the file, of what was read of it and of those spent were drawn; a code that is
\* about to be issued is in none of them, and is issued by one process.
IssueInv ==
    /\ DOMAIN pending \subseteq drawn /\ spent \subseteq drawn
    /\ \A p \in PairProcs : DOMAIN work[p].codes \subseteq drawn
    /\ \A p \in PairProcs : work[p].op = "issue" =>
          /\ work[p].arg[1] \in drawn /\ work[p].arg[1] \notin DOMAIN pending
          /\ work[p].arg[1] \notin spent
          /\ \A q \in PairProcs :
                /\ work[p].arg[1] \notin DOMAIN work[q].codes
                /\ work[q].op = "issue" /\ q # p => work[q].arg[1] # work[p].arg[1]

\* No code of the file was redeemed or denied before, nor of what a process that is not behind
\* has read; and an approval sees no code that had expired when it read.
CodeInv ==
    \/ raced
    \/ /\ wrong = {} /\ DOMAIN pending \cap spent = {}
       /\ \A p \in PairProcs : work[p] # NoWork /\ work[p].fresh =>
             /\ DOMAIN work[p].codes \cap spent = {}
             /\ work[p].op # "revoke" => DOMAIN work[p].codes \cap work[p].dead = {}

\* An idle process has read nothing; what any process holds is a piece of work.
WorkInv ==
    /\ DOMAIN work = PairProcs /\ raced \in BOOLEAN /\ misread \in BOOLEAN
    /\ \A p \in PairProcs :
          /\ work[p] = NoWork \/ work[p].op \in {"issue", "approve", "deny", "revoke"}
          /\ work[p].fresh \in BOOLEAN
          /\ work[p] = [op |-> work[p].op, arg |-> work[p].arg, ok |-> work[p].ok,
                        codes |-> work[p].codes, dead |-> work[p].dead, fresh |-> work[p].fresh]

PairInv == WorkInv /\ OkInv /\ FreshOk /\ IssueInv /\ CodeInv

\* A process with something under way saves or refuses: the four ends of an operation.
Ends(p) == Issue(p) \/ Approve(p) \/ Deny(p) \/ Revoke(p)

\* What a command asks for.
Asks(p) ==
    \/ \E s \in Senders : Unknown(p, s) \/ PairCommand(p, "revoke", s)
    \/ \E c \in drawn, op \in {"approve", "deny"} : PairCommand(p, op, c)

\* The fields of an idle process.
LEMMA NoWorkFields ==
    /\ NoWork.op = "none" /\ NoWork.arg = "none" /\ NoWork.ok = {} /\ DOMAIN NoWork.codes = {}
    /\ NoWork.dead = {} /\ NoWork.fresh = TRUE
    /\ NoWork = [op |-> NoWork.op, arg |-> NoWork.arg, ok |-> NoWork.ok, codes |-> NoWork.codes,
                 dead |-> NoWork.dead, fresh |-> NoWork.fresh]
    BY DEF NoWork, NoCodes

\* The empty file satisfies the invariant.
LEMMA PairInitially == PairInit => PairInv
    <1> SUFFICES ASSUME PairInit PROVE PairInv OBVIOUS
    <1>1. \A p \in PairProcs : work[p] = NoWork BY DEF PairInit
    <1>2. DOMAIN pending = {} BY DEF PairInit, NoCodes
    <1> QED
        BY <1>1, <1>2, NoWorkFields DEF PairInit, PairInv, WorkInv, OkInv, FreshOk, IssueInv, CodeInv

\* A load: whose, what of, and that the process holds nothing else.
Loaded(p, w) ==
    /\ work[p] = NoWork /\ work' = [work EXCEPT ![p] = w]
    /\ w.op \in {"issue", "approve", "deny", "revoke"} /\ w.fresh = TRUE
    /\ w = [op |-> w.op, arg |-> w.arg, ok |-> w.ok, codes |-> w.codes, dead |-> w.dead, fresh |-> w.fresh]
    /\ \/ /\ w.ok = approved /\ DOMAIN w.codes \subseteq DOMAIN pending /\ w.dead = expired
          /\ w.op # "revoke" => DOMAIN w.codes \cap w.dead = {}
          /\ misread' = misread
       \/ w.ok = {} /\ DOMAIN w.codes = {} /\ w.dead = {} /\ misread'

\* Reading the file gives its approvals and codes, or nothing and a failed read.
LEMMA LoadGives ==
    ASSUME NEW p, NEW op \in {"issue", "approve", "deny", "revoke"}, NEW arg, Load(p, op, arg)
    PROVE  \E w : Loaded(p, w) /\ w.op = op /\ w.arg = arg
    <1>1. CASE /\ work' = [work EXCEPT ![p] = [op |-> op, arg |-> arg, ok |-> approved, dead |-> expired,
                          codes |-> IF op = "revoke" THEN pending ELSE LiveCodes(pending), fresh |-> TRUE]]
               /\ UNCHANGED misread
        <2> DEFINE w == [op |-> op, arg |-> arg, ok |-> approved, dead |-> expired,
                         codes |-> IF op = "revoke" THEN pending ELSE LiveCodes(pending), fresh |-> TRUE]
        <2>1. DOMAIN w.codes \subseteq DOMAIN pending
              /\ (op # "revoke" => DOMAIN w.codes \cap expired = {})
            BY DEF LiveCodes, Restrict
        <2>2. Loaded(p, w) BY <1>1, <2>1 DEF Loaded, Load
        <2> QED BY <2>2
    <1>2. CASE /\ misread' = TRUE
               /\ work' = [work EXCEPT ![p] = [op |-> op, arg |-> arg, ok |-> {}, dead |-> {}, codes |-> NoCodes,
                                               fresh |-> TRUE]]
        <2> DEFINE w == [op |-> op, arg |-> arg, ok |-> {}, dead |-> {}, codes |-> NoCodes, fresh |-> TRUE]
        <2>1. DOMAIN w.codes = {} BY DEF NoCodes
        <2>2. Loaded(p, w) BY <1>2, <2>1 DEF Loaded, Load
        <2> QED BY <2>2
    <1> QED BY <1>1, <1>2 DEF Load

\* A load keeps what holds of the approvals: it reads them.
LEMMA LoadKeepsOk ==
    ASSUME NEW p \in PairProcs, NEW w, WorkInv, OkInv, FreshOk, Loaded(p, w),
           UNCHANGED <<approved, granted, ever, raced>>
    PROVE  OkInv' /\ FreshOk'
    <1>1. OkInv' BY DEF WorkInv, OkInv, Loaded
    <1>2. FreshOk' BY NoWorkFields DEF WorkInv, FreshOk, Loaded
    <1> QED BY <1>1, <1>2

\* A load keeps what holds of the codes.
LEMMA LoadKeepsCodes ==
    ASSUME NEW p \in PairProcs, NEW w, WorkInv, IssueInv, CodeInv, Loaded(p, w),
           UNCHANGED <<pending, spent, wrong, raced>>, drawn \subseteq drawn',
           w.op = "issue" => w.arg[1] \in drawn' \ drawn
    PROVE  IssueInv' /\ CodeInv'
    <1>1. work'[p] = w /\ \A q \in PairProcs : q # p => work'[q] = work[q]
        BY DEF WorkInv, Loaded
    <1>2. DOMAIN w.codes \subseteq DOMAIN pending BY DEF Loaded
    <1>3. DOMAIN pending' \subseteq drawn' /\ spent' \subseteq drawn'
          /\ \A q \in PairProcs : DOMAIN work'[q].codes \subseteq drawn'
        BY <1>1, <1>2 DEF IssueInv
    <1>4. ASSUME NEW q \in PairProcs, work'[q].op = "issue"
          PROVE  /\ work'[q].arg[1] \in drawn' /\ work'[q].arg[1] \notin DOMAIN pending'
                 /\ work'[q].arg[1] \notin spent'
                 /\ \A r \in PairProcs :
                      /\ work'[q].arg[1] \notin DOMAIN work'[r].codes
                      /\ work'[r].op = "issue" /\ r # q => work'[r].arg[1] # work'[q].arg[1]
        <2>1. CASE q = p
            BY <1>1, <1>2, <1>4, <2>1 DEF IssueInv
        <2>2. CASE q # p
            BY <1>1, <1>2, <1>4, <2>2 DEF IssueInv
        <2> QED BY <2>1, <2>2
    <1>5. IssueInv' BY <1>3, <1>4 DEF IssueInv
    <1>6. CodeInv' BY <1>1, <1>2 DEF CodeInv, Loaded
    <1> QED BY <1>5, <1>6

\* A load keeps the shape of what processes hold.
LEMMA LoadKeepsWork ==
    ASSUME NEW p \in PairProcs, NEW w, WorkInv, Loaded(p, w), UNCHANGED raced
    PROVE  WorkInv'
    <1>1. work'[p] = w /\ \A q \in PairProcs : q # p => work'[q] = work[q]
        BY DEF WorkInv, Loaded
    <1> QED BY <1>1 DEF WorkInv, Loaded

\* What a process asks for keeps the invariant.
LEMMA AsksKeep ==
    ASSUME PairInv, NEW p \in PairProcs, Asks(p)
    PROVE  PairInv'
    <1>1. CASE \E s \in Senders : Unknown(p, s)
        <2>1. PICK s \in Senders : Unknown(p, s) BY <1>1
        <2>2. PICK c \in Codes \ drawn : drawn' = drawn \cup {c} /\ Load(p, "issue", <<c, s>>)
            BY <2>1 DEF Unknown
        <2>3. PICK w : Loaded(p, w) /\ w.op = "issue" /\ w.arg = <<c, s>> BY <2>2, LoadGives
        <2>4. w.arg[1] \in drawn' \ drawn BY <2>2, <2>3
        <2>5. UNCHANGED <<approved, pending, granted, ever, wrong, spent, raced>> BY <2>1 DEF Unknown
        <2>6. OkInv' /\ FreshOk' BY <2>3, <2>5, LoadKeepsOk DEF PairInv
        <2>7. IssueInv' /\ CodeInv' BY <2>2, <2>3, <2>4, <2>5, LoadKeepsCodes DEF PairInv
        <2>8. WorkInv' BY <2>3, <2>5, LoadKeepsWork DEF PairInv
        <2> QED BY <2>6, <2>7, <2>8 DEF PairInv
    <1>2. ASSUME NEW op \in {"revoke", "approve", "deny"}, NEW arg, PairCommand(p, op, arg)
          PROVE  PairInv'
        <2>1. Load(p, op, arg) /\ UNCHANGED <<approved, pending, drawn, granted, ever, wrong, spent, raced>>
            BY <1>2 DEF PairCommand
        <2>3. PICK w : Loaded(p, w) /\ w.op = op /\ w.arg = arg BY <2>1, LoadGives
        <2>4. w.op # "issue" BY <2>3
        <2>6. OkInv' /\ FreshOk' BY <2>1, <2>3, LoadKeepsOk DEF PairInv
        <2>7. IssueInv' /\ CodeInv' BY <2>1, <2>3, <2>4, LoadKeepsCodes DEF PairInv
        <2>8. WorkInv' BY <2>1, <2>3, LoadKeepsWork DEF PairInv
        <2> QED BY <2>6, <2>7, <2>8 DEF PairInv
    <1> QED BY <1>1, <1>2 DEF Asks

\* After a save nobody who had read the file before is up to date; what they hold is the same.
LEMMA SaveBehind ==
    ASSUME WorkInv, NEW p \in PairProcs, NEW ok, NEW codes, SaveFile(p, ok, codes)
    PROVE  /\ DOMAIN work' = PairProcs /\ work'[p] = NoWork
           /\ raced' \in BOOLEAN /\ (raced' <=> raced \/ ~work[p].fresh)
           /\ \A q \in PairProcs : work'[q] = NoWork \/
                 /\ work'[q].op \in {"issue", "approve", "deny", "revoke"}
                 /\ work'[q].fresh = FALSE /\ q # p
                 /\ work'[q].op = work[q].op /\ work'[q].arg = work[q].arg
                 /\ work'[q].ok = work[q].ok /\ work'[q].codes = work[q].codes
                 /\ work'[q] = [op |-> work'[q].op, arg |-> work'[q].arg, ok |-> work'[q].ok,
                                codes |-> work'[q].codes, dead |-> work'[q].dead, fresh |-> work'[q].fresh]
    <1>1. work' = [q \in PairProcs |-> IF q = p \/ work[q] = NoWork THEN NoWork
                                       ELSE [work[q] EXCEPT !.fresh = FALSE]]
        BY DEF SaveFile
    <1>2. DOMAIN work' = PairProcs /\ work'[p] = NoWork BY <1>1
    <1>3. raced' \in BOOLEAN /\ (raced' <=> raced \/ ~work[p].fresh) BY DEF SaveFile, WorkInv
    <1>4. ASSUME NEW q \in PairProcs, q # p, work[q] # NoWork
          PROVE  /\ work'[q].op \in {"issue", "approve", "deny", "revoke"}
                 /\ work'[q].fresh = FALSE
                 /\ work'[q].op = work[q].op /\ work'[q].arg = work[q].arg
                 /\ work'[q].ok = work[q].ok /\ work'[q].codes = work[q].codes
                 /\ work'[q] = [op |-> work'[q].op, arg |-> work'[q].arg, ok |-> work'[q].ok,
                                codes |-> work'[q].codes, dead |-> work'[q].dead, fresh |-> work'[q].fresh]
        <2>1. work'[q] = [work[q] EXCEPT !.fresh = FALSE] BY <1>1, <1>4
        <2>2. work[q] = [op |-> work[q].op, arg |-> work[q].arg, ok |-> work[q].ok, codes |-> work[q].codes,
                         dead |-> work[q].dead, fresh |-> work[q].fresh]
              /\ work[q].op \in {"issue", "approve", "deny", "revoke"}
            BY <1>4 DEF WorkInv
        <2>3. work'[q] = [op |-> work[q].op, arg |-> work[q].arg, ok |-> work[q].ok, codes |-> work[q].codes,
                         dead |-> work[q].dead, fresh |-> FALSE]
            BY <2>1, <2>2
        <2> QED BY <2>2, <2>3
    <1> QED BY <1>1, <1>2, <1>3, <1>4

\* A save keeps the invariant when what it writes, and what it says of that, is as follows.
LEMMA SaveKeeps ==
    ASSUME PairInv, NEW p \in PairProcs, NEW ok, NEW codes, SaveFile(p, ok, codes),
           UNCHANGED <<drawn, misread>>, ever \subseteq ever', spent' \subseteq drawn,
           ok \subseteq ever', DOMAIN codes \subseteq drawn,
           work[p].fresh /\ ~raced => /\ wrong' = {} /\ DOMAIN codes \cap spent' = {}
                                      /\ misread \/ ok = granted',
           \A q \in PairProcs : work[q].op = "issue" /\ q # p =>
               work[q].arg[1] \notin DOMAIN codes /\ work[q].arg[1] \notin spent'
    PROVE  PairInv'
    <1>1. approved' = ok /\ pending' = codes BY DEF SaveFile
    <1>2. WorkInv'
        <2>1. WorkInv BY DEF PairInv
        <2>2. DOMAIN work' = PairProcs /\ raced' \in BOOLEAN BY <2>1, SaveBehind
        <2>3. misread' \in BOOLEAN BY <2>1 DEF WorkInv
        <2>4. ASSUME NEW q \in PairProcs
              PROVE  /\ work'[q] = NoWork \/ work'[q].op \in {"issue", "approve", "deny", "revoke"}
                     /\ work'[q].fresh \in BOOLEAN
                     /\ work'[q] = [op |-> work'[q].op, arg |-> work'[q].arg, ok |-> work'[q].ok,
                                    codes |-> work'[q].codes, dead |-> work'[q].dead,
                                    fresh |-> work'[q].fresh]
            <3>1. CASE work'[q] = NoWork BY <3>1, NoWorkFields
            <3>2. CASE work'[q] # NoWork BY <2>1, <3>2, SaveBehind
            <3> QED BY <3>1, <3>2
        <2> QED BY <2>2, <2>3, <2>4 DEF WorkInv
    <1>3. \A q \in PairProcs : work'[q] # NoWork =>
              /\ work'[q].fresh = FALSE /\ q # p
              /\ work'[q].op = work[q].op /\ work'[q].arg = work[q].arg
              /\ work'[q].ok = work[q].ok /\ work'[q].codes = work[q].codes
        BY SaveBehind DEF PairInv
    <1>4. OkInv' BY <1>1, <1>3, NoWorkFields DEF PairInv, OkInv
    <1>5. raced' <=> raced \/ ~work[p].fresh BY SaveBehind DEF PairInv
    <1>6. FreshOk' BY <1>1, <1>3, <1>5 DEF PairInv, FreshOk
    <1>7. CodeInv' BY <1>1, <1>3, <1>5 DEF PairInv, CodeInv
    <1>8. IssueInv' BY <1>1, <1>3, NoWorkFields DEF PairInv, IssueInv
    <1> QED BY <1>2, <1>4, <1>6, <1>7, <1>8 DEF PairInv

\* What a save relies on: what the process holds, and that it holds it up to date.
LEMMA HeldWork ==
    ASSUME PairInv, NEW p \in PairProcs, work[p].op # "none"
    PROVE  /\ work[p].ok \subseteq ever /\ DOMAIN work[p].codes \subseteq drawn
           /\ work[p].fresh /\ ~raced =>
                 /\ wrong = {} /\ DOMAIN work[p].codes \cap spent = {}
                 /\ work[p].op # "revoke" => DOMAIN work[p].codes \cap work[p].dead = {}
                 /\ misread \/ work[p].ok = granted
           /\ \A q \in PairProcs : work[q].op = "issue" =>
                 work[q].arg[1] \notin DOMAIN work[p].codes /\ work[q].arg[1] \notin spent
    <1>1. work[p] # NoWork BY NoWorkFields
    <1>2. work[p].ok \subseteq ever BY DEF PairInv, OkInv
    <1>3. DOMAIN work[p].codes \subseteq drawn BY DEF PairInv, IssueInv
    <1>4. work[p].fresh /\ ~raced =>
                 /\ wrong = {} /\ DOMAIN work[p].codes \cap spent = {}
                 /\ work[p].op # "revoke" => DOMAIN work[p].codes \cap work[p].dead = {}
        BY <1>1 DEF PairInv, CodeInv
    <1>5. work[p].fresh /\ ~raced => misread \/ work[p].ok = granted BY <1>1 DEF PairInv, FreshOk
    <1>6. \A q \in PairProcs : work[q].op = "issue" =>
                 work[q].arg[1] \notin DOMAIN work[p].codes /\ work[q].arg[1] \notin spent
        BY DEF PairInv, IssueInv
    <1> QED BY <1>2, <1>3, <1>4, <1>5, <1>6

\* Nothing to change: the process is idle again, the rest is as it was.
LEMMA RefuseKeeps ==
    ASSUME PairInv, NEW p \in PairProcs, Refuse(p), UNCHANGED <<drawn, misread>>
    PROVE  PairInv'
    <1>1. work'[p] = NoWork /\ DOMAIN work' = PairProcs /\ \A q \in PairProcs : q # p => work'[q] = work[q]
        BY DEF PairInv, WorkInv, Refuse
    <1>2. UNCHANGED <<approved, pending, raced, granted, ever, wrong, spent, drawn, misread>>
        BY DEF Refuse
    <1>3. WorkInv' BY ZenonT(60), <1>1, <1>2, NoWorkFields DEF PairInv, WorkInv
    <1>4. OkInv' BY <1>1, <1>2, NoWorkFields DEF PairInv, OkInv
    <1>5. FreshOk' BY <1>1, <1>2 DEF PairInv, FreshOk
    <1>6. IssueInv' BY <1>1, <1>2, NoWorkFields DEF PairInv, IssueInv
    <1>7. CodeInv' BY <1>1, <1>2 DEF PairInv, CodeInv
    <1> QED BY <1>3, <1>4, <1>5, <1>6, <1>7 DEF PairInv

\* The end of an operation keeps the invariant.
LEMMA EndsKeep ==
    ASSUME PairInv, NEW p \in PairProcs, Ends(p)
    PROVE  PairInv'
    <1> DEFINE w == work[p]
               left == DOMAIN w.codes \ {w.arg}
    <1>0. \A q \in PairProcs : w.arg \in DOMAIN w.codes /\ work[q].op = "issue" => work[q].arg[1] # w.arg
        BY DEF PairInv, IssueInv
    <1>1. CASE Issue(p)
        <2>1. w.op = "issue" /\ SaveFile(p, w.ok, Entered(w.codes, w.arg))
              /\ UNCHANGED <<drawn, granted, ever, wrong, spent, misread>>
            BY <1>1 DEF Issue
        <2>2. DOMAIN Entered(w.codes, w.arg) = DOMAIN w.codes \cup {w.arg[1]} BY DEF Entered
        <2>3. /\ w.arg[1] \in drawn /\ w.arg[1] \notin spent /\ spent \subseteq drawn
              /\ \A q \in PairProcs : work[q].op = "issue" /\ q # p => work[q].arg[1] # w.arg[1]
            BY <2>1 DEF PairInv, IssueInv
        <2>4. /\ w.ok \subseteq ever' /\ DOMAIN Entered(w.codes, w.arg) \subseteq drawn /\ spent' \subseteq drawn
              /\ ever \subseteq ever'
            BY <2>1, <2>2, <2>3, HeldWork
        <2>5. w.fresh /\ ~raced => /\ wrong' = {} /\ DOMAIN Entered(w.codes, w.arg) \cap spent' = {}
                                   /\ misread \/ w.ok = granted'
            BY <2>1, <2>2, <2>3, HeldWork
        <2>6. \A q \in PairProcs : work[q].op = "issue" /\ q # p =>
                  work[q].arg[1] \notin DOMAIN Entered(w.codes, w.arg) /\ work[q].arg[1] \notin spent'
            BY <2>1, <2>2, <2>3, HeldWork
        <2> QED BY <2>1, <2>4, <2>5, <2>6, SaveKeeps
    <1>2. CASE Approve(p)
        <2>1. w.op = "approve" /\ UNCHANGED <<drawn, misread>> BY <1>2 DEF Approve
        <2>2. CASE w.arg \notin DOMAIN w.codes
            BY <1>2, <2>1, <2>2, RefuseKeeps DEF Approve
        <2>3. CASE w.arg \in DOMAIN w.codes
            <3>1. /\ SaveFile(p, w.ok \cup {w.codes[w.arg]}, Restrict(w.codes, left))
                  /\ granted' = granted \cup {w.codes[w.arg]} /\ ever' = ever \cup {w.codes[w.arg]}
                  /\ wrong' = wrong \cup ({w.arg} \cap (spent \cup w.dead)) /\ spent' = spent \cup {w.arg}
                BY <1>2, <2>3 DEF Approve, Owner
            <3>2. DOMAIN Restrict(w.codes, left) = left BY DEF Restrict
            <3>3. spent \subseteq drawn BY DEF PairInv, IssueInv
            <3>4. ever \subseteq ever' /\ spent' \subseteq drawn /\ w.ok \cup {w.codes[w.arg]} \subseteq ever'
                  /\ left \subseteq drawn
                BY <2>1, <2>3, <3>1, <3>3, HeldWork
            <3>5. w.fresh /\ ~raced => /\ wrong' = {} /\ left \cap spent' = {}
                                       /\ misread \/ w.ok \cup {w.codes[w.arg]} = granted'
                BY <2>1, <2>3, <3>1, HeldWork
            <3>6. \A q \in PairProcs : work[q].op = "issue" /\ q # p =>
                      work[q].arg[1] \notin left /\ work[q].arg[1] \notin spent'
                BY <1>0, <2>1, <2>3, <3>1, HeldWork
            <3> QED BY <2>1, <3>1, <3>2, <3>4, <3>5, <3>6, SaveKeeps
        <2> QED BY <2>2, <2>3
    <1>3. CASE Deny(p)
        <2>1. w.op = "deny" /\ UNCHANGED <<drawn, misread>> BY <1>3 DEF Deny
        <2>2. CASE w.arg \notin DOMAIN w.codes
            BY <1>3, <2>1, <2>2, RefuseKeeps DEF Deny
        <2>3. CASE w.arg \in DOMAIN w.codes
            <3>1. /\ SaveFile(p, w.ok, Restrict(w.codes, left))
                  /\ spent' = spent \cup {w.arg} /\ UNCHANGED <<granted, ever, wrong>>
                BY <1>3, <2>3 DEF Deny
            <3>2. DOMAIN Restrict(w.codes, left) = left BY DEF Restrict
            <3>3. spent \subseteq drawn BY DEF PairInv, IssueInv
            <3>4. spent' \subseteq drawn /\ left \subseteq drawn BY <2>1, <2>3, <3>1, <3>3, HeldWork
            <3>5. w.fresh /\ ~raced => wrong' = {} /\ left \cap spent' = {} /\ (misread \/ w.ok = granted')
                BY <2>1, <3>1, HeldWork
            <3>6. \A q \in PairProcs : work[q].op = "issue" /\ q # p =>
                      work[q].arg[1] \notin left /\ work[q].arg[1] \notin spent'
                BY <1>0, <2>1, <2>3, <3>1, HeldWork
            <3> QED BY <2>1, <3>1, <3>2, <3>4, <3>5, <3>6, HeldWork, SaveKeeps
        <2> QED BY <2>2, <2>3
    <1>4. CASE Revoke(p)
        <2>1. w.op = "revoke" /\ UNCHANGED <<drawn, misread>> BY <1>4 DEF Revoke
        <2>2. CASE w.arg \notin w.ok
            BY <1>4, <2>1, <2>2, RefuseKeeps DEF Revoke
        <2>3. CASE w.arg \in w.ok
            <3>1. /\ SaveFile(p, w.ok \ {w.arg}, w.codes)
                  /\ granted' = granted \ {w.arg} /\ UNCHANGED <<ever, wrong, spent>>
                BY <1>4, <2>3 DEF Revoke
            <3>2. spent \subseteq drawn BY DEF PairInv, IssueInv
            <3>3. w.fresh /\ ~raced => wrong' = {} /\ DOMAIN w.codes \cap spent' = {}
                                       /\ (misread \/ w.ok \ {w.arg} = granted')
                BY <2>1, <3>1, HeldWork
            <3> QED BY <2>1, <3>1, <3>2, <3>3, HeldWork, SaveKeeps
        <2> QED BY <2>2, <2>3
    <1> QED BY <1>1, <1>2, <1>3, <1>4 DEF Ends

\* Nobody is approved unasked, the file says who is approved unless two processes raced or a
\* read failed, and a code counts once unless they raced: whatever the numbers of senders, of
\* codes and of processes that share the file.
THEOREM PairingKept == PairSpec => []PairingSound
    <1>1. PairInit => PairInv BY PairInitially
    <1>2. ASSUME PairInv, [PairNext]_pairVars PROVE PairInv'
        <2>1. ASSUME NEW c \in Codes, ExpireCode(c) PROVE PairInv'
            BY <1>2, <2>1 DEF ExpireCode, PairInv, WorkInv, OkInv, FreshOk, IssueInv, CodeInv
        <2>2. ASSUME NEW p \in PairProcs, Ends(p) PROVE PairInv' BY <1>2, <2>2, EndsKeep
        <2>3. ASSUME NEW p \in PairProcs, Asks(p) PROVE PairInv' BY <1>2, <2>3, AsksKeep
        <2>4. CASE UNCHANGED pairVars
            BY <1>2, <2>4 DEF pairVars, PairInv, WorkInv, OkInv, FreshOk, IssueInv, CodeInv
        <2> QED BY <1>2, <2>1, <2>2, <2>3, <2>4 DEF PairNext, Ends, Asks
    <1>3. PairInv => PairingSound
        BY DEF PairInv, OkInv, FreshOk, CodeInv, PairingSound, NeverUnasked, FileIsTrue, CodeOnce
    <1> QED BY <1>1, <1>2, <1>3, PTL DEF PairSpec

----------------------------------------------------------------------------
(* The browser sessions: one lock for the launch, one for the installation, and the notice of *)
(* a lost context on its way to the session.                                                  *)

\* Where an actor is, and what it carries.
ActorTypes ==
    [pc : {"idle", "act", "ensure", "launch", "missing", "install", "context", "save", "quit"},
     try : {0, 1}, got : Nat, carry : BOOLEAN]

ActorsTyped == actor \in [Actors -> ActorTypes]
StatesTyped == DOMAIN states \subseteq Chats /\ states \in [DOMAIN states -> [dead : BOOLEAN, notice : BOOLEAN]]

\* What the variables hold.
BrowserTypes ==
    /\ browser \in 0..MaxBrowser /\ launched \in 0..MaxBrowser /\ running \subseteq 1..launched
    /\ todo \subseteq Chats /\ crossed \in BOOLEAN /\ noticeOnce \in BOOLEAN
    /\ ActorsTyped /\ StatesTyped

\* Who launches holds the one lock, and finds no browser for as long as that takes; who
\* installs holds the other; the eviction has a list while it saves.
LocksInv ==
    /\ \A k \in Chats : /\ connector = k <=> At(k, "launch")
                        /\ At(k, "launch") => browser = NoBrowser
                        /\ installer = k <=> At(k, "install")
    /\ todo # {} => At(Evictor, "save")

\* Unless a browser was forgotten: what runs is the browser the manager knows, and a context
\* that lives is a context of it.
KnownInv == crossed \/ (running \subseteq {browser} /\ \A k \in Chats : Usable(k) => browser # NoBrowser)

\* A session under way to its next context has none.
Making(k) == actor[k].pc \in {"ensure", "launch", "missing", "install", "context"}

\* A session that lost its context finds the notice: at what is left of the context, or in
\* the hands of the call that makes the next one.
TellInv ==
    /\ silent = {}
    /\ \A k \in Chats :
          /\ k \in DOMAIN states => ~Making(k) /\ (states[k].dead \/ k \in owed => states[k].notice)
          /\ k \in owed /\ k \notin DOMAIN states => Making(k) /\ actor[k].carry

BrowserInv == BrowserTypes /\ LocksInv /\ KnownInv /\ TellInv

\* The step of an actor leaves it with a place and what it carries.
LEMMA ActorKept ==
    ASSUME ActorsTyped, NEW a \in Actors, NEW g \in Nat,
           NEW pc \in {"idle", "act", "ensure", "launch", "missing", "install", "context", "save", "quit"},
           \/ actor' = [actor EXCEPT ![a].pc = pc]
           \/ actor' = [actor EXCEPT ![a].pc = pc, ![a].got = g]
           \/ actor' = [actor EXCEPT ![a].pc = pc, ![a].try = 1]
           \/ actor' = [actor EXCEPT ![a] = Rest]
    PROVE  ActorsTyped'
    <1>1. CASE actor' = [actor EXCEPT ![a].pc = pc] BY <1>1 DEF ActorsTyped, ActorTypes
    <1>2. CASE actor' = [actor EXCEPT ![a].pc = pc, ![a].got = g]
        <2>1. \A r \in ActorTypes : [r EXCEPT !.pc = pc, !.got = g] \in ActorTypes BY DEF ActorTypes
        <2> QED BY <1>2, <2>1 DEF ActorsTyped
    <1>3. CASE actor' = [actor EXCEPT ![a].pc = pc, ![a].try = 1]
        <2>1. \A r \in ActorTypes : [r EXCEPT !.pc = pc, !.try = 1] \in ActorTypes BY DEF ActorTypes
        <2> QED BY <1>3, <2>1 DEF ActorsTyped
    <1>4. CASE actor' = [actor EXCEPT ![a] = Rest]
        BY <1>4 DEF ActorsTyped, ActorTypes, Rest, NoBrowser
    <1> QED BY <1>1, <1>2, <1>3, <1>4

\* acquire: the context is used, or the way to the next one begins, with the notice of the last.
LEMMA Acquiring ==
    ASSUME BrowserTypes, NEW k \in Chats, AcquireContext(k)
    PROVE  \/ Usable(k) /\ Moves(k, "act") /\ states' = states
           \/ \E r \in ActorTypes :
                 /\ ~Usable(k) /\ (r.carry <=> k \in DOMAIN states /\ states[k].notice)
                 /\ r.pc = "ensure" /\ actor' = [actor EXCEPT ![k] = r]
                 /\ states' = [x \in DOMAIN states \ {k} |-> states[x]]
    <1>1. CASE Usable(k) BY <1>1 DEF AcquireContext
    <1>2. CASE ~Usable(k)
        <2> DEFINE c == k \in DOMAIN states /\ states[k].notice
                   r == [Rest EXCEPT !.pc = "ensure", !.carry = c]
        <2>1. c \in BOOLEAN BY DEF BrowserTypes, StatesTyped
        <2>2. states' = [x \in DOMAIN states \ {k} |-> states[x]] BY <1>2 DEF AcquireContext, Dropped, Restrict
        <2>3. actor' = [actor EXCEPT ![k] = r] BY <1>2 DEF AcquireContext
        <2>4. ASSUME NEW b \in BOOLEAN, NEW q, q = [Rest EXCEPT !.pc = "ensure", !.carry = b]
              PROVE  q \in ActorTypes /\ q.pc = "ensure" /\ (q.carry <=> b)
            BY <2>4 DEF Rest, NoBrowser, ActorTypes
        <2>5. r \in ActorTypes /\ r.pc = "ensure" /\ (r.carry <=> c) BY <2>1, <2>4
        <2> QED BY <1>2, <2>2, <2>3, <2>5
    <1> QED BY <1>1, <1>2

\* The context that is made: it lives, and carries the notice of the last or of an installation.
LEMMA Opening ==
    ASSUME BrowserTypes, NEW k \in Chats, OpenContext(k), actor[k].got \in running
    PROVE  \E new \in [dead : BOOLEAN, notice : BOOLEAN] :
              /\ ~new.dead /\ (new.notice <=> actor[k].carry \/ noticeOnce)
              /\ states' = [x \in DOMAIN states \cup {k} |-> IF x = k THEN new ELSE states[x]]
    <1> DEFINE n == actor[k].carry \/ noticeOnce
    <1>1. n \in BOOLEAN BY DEF BrowserTypes, ActorsTyped, ActorTypes, Actors
    <1>2. states' = [x \in DOMAIN states \cup {k} |-> IF x = k THEN [dead |-> FALSE, notice |-> n] ELSE states[x]]
        BY DEF OpenContext, WithContext
    <1>3. ASSUME NEW b \in BOOLEAN, NEW q, q = [dead |-> FALSE, notice |-> b]
          PROVE  q \in [dead : BOOLEAN, notice : BOOLEAN] /\ ~q.dead /\ (q.notice <=> b)
        BY <1>3
    <1> DEFINE new == [dead |-> FALSE, notice |-> n]
    <1>4. new \in [dead : BOOLEAN, notice : BOOLEAN] /\ ~new.dead /\ (new.notice <=> n) BY <1>1, <1>3
    <1> QED BY <1>2, <1>4

\* Every step keeps where the actors are and what they carry.
LEMMA ActorsNext ==
    ASSUME BrowserTypes, [BrowserNext]_browserVars PROVE ActorsTyped'
    <1>0. ActorsTyped /\ browser \in Nat /\ launched \in Nat /\ Chats \subseteq Actors /\ Evictor \in Actors
        BY BrowserAssumption DEF BrowserTypes, Actors
    <1>1. ASSUME NEW k \in Chats, AcquireContext(k) PROVE ActorsTyped'
        BY ZenonT(60), <1>0, <1>1, Acquiring, ActorKept DEF Moves, ActorsTyped
    <1>2. ASSUME NEW k \in Chats, Ensure(k) PROVE ActorsTyped'
        BY <1>0, <1>2, ActorKept DEF Ensure, Moves
    <1>3. ASSUME NEW k \in Chats, Launch(k) PROVE ActorsTyped'
        <2>1. launched + 1 \in Nat BY <1>0
        <2>2. \/ actor' = [actor EXCEPT ![k].pc = "context", ![k].got = launched + 1]
              \/ actor' = [actor EXCEPT ![k] = Rest] \/ actor' = [actor EXCEPT ![k].pc = "missing"]
            BY <1>3 DEF Launch, Moves, Rests
        <2> QED BY <1>0, <2>1, <2>2, ActorKept
    <1>4. ASSUME NEW k \in Chats, Provision(k) PROVE ActorsTyped'
        BY <1>0, <1>4, ActorKept DEF Provision, Moves
    <1>5. ASSUME NEW k \in Chats, Provisioned(k) PROVE ActorsTyped'
        BY <1>0, <1>5, ActorKept DEF Provisioned, Rests
    <1>6. ASSUME NEW k \in Chats, OpenContext(k) PROVE ActorsTyped'
        BY <1>0, <1>6, ActorKept DEF OpenContext, Moves, Rests
    <1>7. ASSUME NEW k \in Chats, Act(k) \/ StopActor(k) PROVE ActorsTyped'
        BY <1>0, <1>7, ActorKept DEF Act, StopActor, Rests
    <1>8. ASSUME NEW k \in Chats, CloseSession(k) PROVE ActorsTyped'
        BY <1>0, <1>8, ActorKept DEF CloseSession, Moves
    <1>9. CASE EvictIdle BY <1>0, <1>9, ActorKept DEF EvictIdle, Moves
    <1>10. CASE EvictNext BY <1>0, <1>10 DEF EvictNext, ActorsTyped
    <1>11. ASSUME NEW a \in Actors, Saved(a) \/ Quit(a) PROVE ActorsTyped'
        BY <1>0, <1>11, ActorKept DEF Saved, Quit, Rests
    <1>12. ASSUME NEW b \in 1..MaxBrowser, Disconnected(b) PROVE ActorsTyped'
        BY <1>0, <1>12 DEF Disconnected, ActorsTyped
    <1>13. CASE UNCHANGED browserVars BY <1>0, <1>13 DEF browserVars, ActorsTyped
    <1> QED
        BY <1>1, <1>2, <1>3, <1>4, <1>5, <1>6, <1>7, <1>8, <1>9, <1>10, <1>11, <1>12, <1>13 DEF BrowserNext

\* Every step keeps the contexts those of sessions.
LEMMA StatesNext ==
    ASSUME BrowserTypes, [BrowserNext]_browserVars PROVE StatesTyped'
    <1> USE DEF StatesTyped
    <1>0. StatesTyped BY DEF BrowserTypes
    <1>1. ASSUME NEW k \in Chats, AcquireContext(k) PROVE StatesTyped' BY ZenonT(60), <1>0, <1>1, Acquiring
    <1>2. ASSUME NEW k \in Chats, OpenContext(k) PROVE StatesTyped'
        <2>1. CASE actor[k].got \in running BY ZenonT(60), <1>0, <1>2, <2>1, Opening
        <2>2. CASE actor[k].got \notin running BY <1>0, <1>2, <2>2 DEF OpenContext
        <2> QED BY <2>1, <2>2
    <1>3. ASSUME NEW k \in Chats, Act(k) PROVE StatesTyped'
        <2>1. ASSUME Usable(k), NEW r \in [dead : BOOLEAN, notice : BOOLEAN]
              PROVE  [r EXCEPT !.notice = FALSE] \in [dead : BOOLEAN, notice : BOOLEAN]
            OBVIOUS
        <2> QED BY <1>0, <1>3, <2>1 DEF Act, Usable
    <1>4. ASSUME NEW k \in Chats, CloseSession(k) PROVE StatesTyped'
        BY <1>0, <1>4 DEF CloseSession, Dropped, Restrict
    <1>5. CASE EvictIdle \/ EvictNext
        BY <1>0, <1>5 DEF EvictIdle, EvictNext, Dropped, Restrict
    <1>6. ASSUME NEW b \in 1..MaxBrowser, Disconnected(b) PROVE StatesTyped'
        BY <1>0, <1>6 DEF Disconnected
    <1>7. ASSUME states' = states PROVE StatesTyped' BY <1>0, <1>7
    <1>8. ASSUME NEW k \in Chats, Ensure(k) \/ Launch(k) \/ Provision(k) \/ Provisioned(k) \/ StopActor(k)
          PROVE  states' = states
        BY <1>8 DEF Ensure, Launch, Provision, Provisioned, StopActor
    <1>9. ASSUME NEW a \in Actors, Saved(a) \/ Quit(a) PROVE states' = states BY <1>9 DEF Saved, Quit
    <1>10. CASE UNCHANGED browserVars BY <1>7, <1>10 DEF browserVars
    <1> QED BY <1>1, <1>2, <1>3, <1>4, <1>5, <1>6, <1>7, <1>8, <1>9, <1>10 DEF BrowserNext

\* Every step keeps what the variables hold.
LEMMA BrowserTypesNext ==
    ASSUME BrowserTypes, [BrowserNext]_browserVars PROVE BrowserTypes'
    <1>0. ActorsTyped' /\ StatesTyped' BY ActorsNext, StatesNext
    <1>1. ASSUME NEW k \in Chats, AcquireContext(k) \/ Ensure(k) \/ Provision(k) \/ Act(k) \/ StopActor(k) \/ CloseSession(k)
          PROVE  UNCHANGED <<browser, launched, running, todo, crossed, noticeOnce>>
        BY <1>1 DEF AcquireContext, Ensure, Provision, Act, StopActor, CloseSession
    <1>2. ASSUME NEW k \in Chats, Launch(k) PROVE BrowserTypes'
        BY <1>0, <1>2, BrowserAssumption DEF Launch, BrowserTypes
    <1>3. ASSUME NEW k \in Chats, Provisioned(k) \/ OpenContext(k) PROVE BrowserTypes'
        BY <1>0, <1>3 DEF Provisioned, OpenContext, BrowserTypes
    <1>4. CASE EvictIdle \/ EvictNext
        BY <1>0, <1>4 DEF EvictIdle, EvictNext, BrowserTypes, StatesTyped
    <1>5. ASSUME NEW a \in Actors, Saved(a) \/ Quit(a) PROVE BrowserTypes'
        <2>1. CASE Saved(a) BY <1>0, <2>1 DEF Saved, BrowserTypes
        <2>2. CASE Quit(a) BY <1>0, <2>2, BrowserAssumption DEF Quit, BrowserTypes, NoBrowser
        <2> QED BY <1>5, <2>1, <2>2
    <1>6. ASSUME NEW b \in 1..MaxBrowser, Disconnected(b) PROVE BrowserTypes'
        BY <1>0, <1>6, BrowserAssumption DEF Disconnected, BrowserTypes, NoBrowser
    <1>7. CASE UNCHANGED browserVars BY <1>0, <1>7 DEF browserVars, BrowserTypes
    <1>8. ASSUME UNCHANGED <<browser, launched, running, todo, crossed, noticeOnce>> PROVE BrowserTypes'
        BY <1>0, <1>8 DEF BrowserTypes
    <1> QED BY <1>1, <1>2, <1>3, <1>4, <1>5, <1>6, <1>7, <1>8 DEF BrowserNext

\* Every step keeps the locks with their holders.
LEMMA LocksNext ==
    ASSUME BrowserTypes, LocksInv, [BrowserNext]_browserVars
    PROVE  LocksInv'
    <1>1. ASSUME NEW k \in Chats, AcquireContext(k) PROVE LocksInv'
        <2>1. At(k, "idle") /\ UNCHANGED <<browser, running, launched, installed, noticeOnce, connector, installer, todo,
              owed, silent, crossed>>
            BY <1>1 DEF AcquireContext
        <2>2. CASE Usable(k) /\ Moves(k, "act") /\ states' = states
            BY <2>1, <2>2, BrowserAssumption DEF BrowserTypes, ActorsTyped, StatesTyped, ActorTypes, LocksInv, Actors, Evictor, NoBrowser,
                At, Moves, Rests, Rest, Usable
        <2>3. ASSUME NEW r \in ActorTypes, ~Usable(k), r.carry <=> k \in DOMAIN states /\ states[k].notice,
                     r.pc = "ensure", actor' = [actor EXCEPT ![k] = r],
                     states' = [x \in DOMAIN states \ {k} |-> states[x]]
              PROVE  LocksInv'
            BY <2>1, <2>3, BrowserAssumption DEF BrowserTypes, ActorsTyped, StatesTyped, ActorTypes, LocksInv, Actors, Evictor, NoBrowser,
                At, Moves, Rests, Rest, Usable
        <2> QED BY <1>1, <2>2, <2>3, Acquiring
    <1> USE DEF BrowserTypes, ActorsTyped, StatesTyped, ActorTypes, LocksInv, Actors, Evictor, NoBrowser,
                At, Moves, Rests, Rest
    <1>2. ASSUME NEW k \in Chats, Ensure(k) PROVE LocksInv'
        BY <1>2, BrowserAssumption DEF Ensure
    <1>3. ASSUME NEW k \in Chats, Launch(k) PROVE LocksInv'
        BY <1>3, BrowserAssumption DEF Launch, Unlock
    <1>4. ASSUME NEW k \in Chats, Provision(k) PROVE LocksInv'
        BY <1>4, BrowserAssumption DEF Provision
    <1>5. ASSUME NEW k \in Chats, Provisioned(k) PROVE LocksInv'
        BY <1>5, BrowserAssumption DEF Provisioned
    <1>6. ASSUME NEW k \in Chats, OpenContext(k) PROVE LocksInv'
        BY <1>6, BrowserAssumption DEF OpenContext, WithContext
    <1>7. ASSUME NEW k \in Chats, Act(k) PROVE LocksInv'
        BY <1>7, BrowserAssumption DEF Act, Usable
    <1>8. ASSUME NEW k \in Chats, StopActor(k) PROVE LocksInv'
        BY <1>8, BrowserAssumption DEF StopActor
    <1>9. ASSUME NEW k \in Chats, CloseSession(k) PROVE LocksInv'
        BY <1>9, BrowserAssumption DEF CloseSession, Dropped, Restrict
    <1>10. CASE EvictIdle
        BY <1>10, BrowserAssumption DEF EvictIdle, Dropped, Restrict
    <1>11. CASE EvictNext
        BY <1>11, BrowserAssumption DEF EvictNext, Dropped, Restrict
    <1>12. ASSUME NEW a \in Actors, Saved(a) PROVE LocksInv'
        BY <1>12, BrowserAssumption DEF Saved
    <1>13. ASSUME NEW a \in Actors, Quit(a) PROVE LocksInv'
        BY <1>13, BrowserAssumption DEF Quit
    <1>14. ASSUME NEW b \in 1..MaxBrowser, Disconnected(b) PROVE LocksInv'
        BY <1>14, BrowserAssumption DEF Disconnected
    <1>15. CASE UNCHANGED browserVars
        BY <1>15 DEF Usable, browserVars
    <1> QED BY <1>1, <1>2, <1>3, <1>4, <1>5, <1>6, <1>7, <1>8, <1>9, <1>10, <1>11, <1>12, <1>13, <1>14, <1>15 DEF BrowserNext

\* Every step keeps the one browser known, or forgets it for another.
LEMMA KnownNext ==
    ASSUME BrowserTypes, LocksInv, KnownInv, [BrowserNext]_browserVars
    PROVE  KnownInv'
    <1>1. ASSUME NEW k \in Chats, AcquireContext(k) PROVE KnownInv'
        <2>1. At(k, "idle") /\ UNCHANGED <<browser, running, launched, installed, noticeOnce, connector, installer, todo,
              owed, silent, crossed>>
            BY <1>1 DEF AcquireContext
        <2>2. CASE Usable(k) /\ Moves(k, "act") /\ states' = states
            BY <2>1, <2>2, BrowserAssumption DEF BrowserTypes, ActorsTyped, StatesTyped, ActorTypes, LocksInv, KnownInv,
                NoBrowser, At, Usable
        <2>3. ASSUME NEW r \in ActorTypes, ~Usable(k), r.carry <=> k \in DOMAIN states /\ states[k].notice,
                     r.pc = "ensure", actor' = [actor EXCEPT ![k] = r],
                     states' = [x \in DOMAIN states \ {k} |-> states[x]]
              PROVE  KnownInv'
            BY <2>1, <2>3, BrowserAssumption DEF BrowserTypes, ActorsTyped, StatesTyped, ActorTypes, LocksInv, KnownInv,
                NoBrowser, At, Usable
        <2> QED BY <1>1, <2>2, <2>3, Acquiring
    <1> USE DEF BrowserTypes, ActorsTyped, StatesTyped, ActorTypes, LocksInv, KnownInv,
                NoBrowser, At, Usable
    <1>2. ASSUME NEW k \in Chats, Ensure(k) PROVE KnownInv'
        BY <1>2, BrowserAssumption DEF Ensure
    <1>3. ASSUME NEW k \in Chats, Launch(k) PROVE KnownInv'
        BY <1>3, BrowserAssumption DEF Launch, Unlock
    <1>4. ASSUME NEW k \in Chats, Provision(k) PROVE KnownInv'
        BY <1>4, BrowserAssumption DEF Provision
    <1>5. ASSUME NEW k \in Chats, Provisioned(k) PROVE KnownInv'
        BY <1>5, BrowserAssumption DEF Provisioned
    <1>6. ASSUME NEW k \in Chats, OpenContext(k) PROVE KnownInv'
        BY <1>6, BrowserAssumption DEF OpenContext, WithContext
    <1>7. ASSUME NEW k \in Chats, Act(k) PROVE KnownInv'
        BY <1>7, BrowserAssumption DEF Act
    <1>8. ASSUME NEW k \in Chats, StopActor(k) PROVE KnownInv'
        BY <1>8, BrowserAssumption DEF StopActor
    <1>9. ASSUME NEW k \in Chats, CloseSession(k) PROVE KnownInv'
        BY <1>9, BrowserAssumption DEF CloseSession, Dropped, Restrict
    <1>10. CASE EvictIdle
        BY <1>10, BrowserAssumption DEF EvictIdle, Dropped, Restrict
    <1>11. CASE EvictNext
        BY <1>11, BrowserAssumption DEF EvictNext, Dropped, Restrict
    <1>12. ASSUME NEW a \in Actors, Saved(a) PROVE KnownInv'
        BY <1>12, BrowserAssumption DEF Saved
    <1>13. ASSUME NEW a \in Actors, Quit(a) PROVE KnownInv'
        BY <1>13, BrowserAssumption DEF Quit
    <1>14. ASSUME NEW b \in 1..MaxBrowser, Disconnected(b) PROVE KnownInv'
        BY <1>14, BrowserAssumption DEF Disconnected
    <1>15. CASE UNCHANGED browserVars
        BY <1>15 DEF browserVars
    <1> QED BY <1>1, <1>2, <1>3, <1>4, <1>5, <1>6, <1>7, <1>8, <1>9, <1>10, <1>11, <1>12, <1>13, <1>14, <1>15 DEF BrowserNext

\* Every step keeps the notice of a loss with what is left of the context, or with the call.
LEMMA TellNext ==
    ASSUME BrowserTypes, LocksInv, TellInv, [BrowserNext]_browserVars
    PROVE  TellInv'
    <1>1. ASSUME NEW k \in Chats, AcquireContext(k) PROVE TellInv'
        <2>1. At(k, "idle") /\ UNCHANGED <<browser, running, launched, installed, noticeOnce, connector, installer, todo,
              owed, silent, crossed>>
            BY <1>1 DEF AcquireContext
        <2>2. CASE Usable(k) /\ Moves(k, "act") /\ states' = states
            BY <2>1, <2>2, BrowserAssumption DEF BrowserTypes, ActorsTyped, StatesTyped, ActorTypes, TellInv, Making, Actors, Evictor, NoBrowser,
                At, Moves, Rests, Rest, Usable
        <2>3. ASSUME NEW r \in ActorTypes, ~Usable(k), r.carry <=> k \in DOMAIN states /\ states[k].notice,
                     r.pc = "ensure", actor' = [actor EXCEPT ![k] = r],
                     states' = [x \in DOMAIN states \ {k} |-> states[x]]
              PROVE  TellInv'
            BY <2>1, <2>3, BrowserAssumption DEF BrowserTypes, ActorsTyped, StatesTyped, ActorTypes, TellInv, Making, Actors, Evictor, NoBrowser,
                At, Moves, Rests, Rest, Usable
        <2> QED BY <1>1, <2>2, <2>3, Acquiring
    <1> USE DEF BrowserTypes, ActorsTyped, StatesTyped, ActorTypes, TellInv, Making, Actors, Evictor, NoBrowser,
                At, Moves, Rests, Rest, Usable
    <1>2. ASSUME NEW k \in Chats, Ensure(k) PROVE TellInv'
        BY <1>2, BrowserAssumption DEF Ensure
    <1>3. ASSUME NEW k \in Chats, Launch(k) PROVE TellInv'
        BY <1>3, BrowserAssumption DEF Launch, Unlock
    <1>4. ASSUME NEW k \in Chats, Provision(k) PROVE TellInv'
        BY <1>4, BrowserAssumption DEF Provision
    <1>5. ASSUME NEW k \in Chats, Provisioned(k) PROVE TellInv'
        BY <1>5, BrowserAssumption DEF Provisioned
    <1>6. ASSUME NEW k \in Chats, OpenContext(k) PROVE TellInv'
        BY <1>6, BrowserAssumption DEF OpenContext, WithContext
    <1>7. ASSUME NEW k \in Chats, Act(k) PROVE TellInv'
        BY <1>7, BrowserAssumption DEF Act
    <1>8. ASSUME NEW k \in Chats, StopActor(k) PROVE TellInv'
        BY <1>8, BrowserAssumption DEF StopActor
    <1>9. ASSUME NEW k \in Chats, CloseSession(k) PROVE TellInv'
        BY <1>9, BrowserAssumption DEF CloseSession, Dropped, Restrict
    <1>10. CASE EvictIdle
        BY <1>10, BrowserAssumption DEF EvictIdle, Dropped, Restrict
    <1>11. CASE EvictNext
        BY <1>11, BrowserAssumption DEF EvictNext, Dropped, Restrict
    <1>12. ASSUME NEW a \in Actors, Saved(a) PROVE TellInv'
        BY <1>12, BrowserAssumption DEF Saved
    <1>13. ASSUME NEW a \in Actors, Quit(a) PROVE TellInv'
        BY <1>13, BrowserAssumption DEF Quit
    <1>14. ASSUME NEW b \in 1..MaxBrowser, Disconnected(b) PROVE TellInv'
        BY <1>14, BrowserAssumption DEF Disconnected
    <1>15. CASE UNCHANGED browserVars
        BY <1>15 DEF browserVars
    <1> QED BY <1>1, <1>2, <1>3, <1>4, <1>5, <1>6, <1>7, <1>8, <1>9, <1>10, <1>11, <1>12, <1>13, <1>14, <1>15 DEF BrowserNext

\* No browser, no context: the invariant holds in the beginning.
LEMMA BrowserInitially == BrowserInit => BrowserInv
    <1> SUFFICES ASSUME BrowserInit PROVE BrowserInv OBVIOUS
    <1> USE BrowserAssumption DEF BrowserInit, NoBrowser
    <1>1. ActorsTyped BY DEF ActorsTyped, ActorTypes, Rest
    <1>2. DOMAIN states = {} /\ StatesTyped BY DEF StatesTyped
    <1>3. BrowserTypes
        <2>1. browser \in 0..MaxBrowser /\ launched \in 0..MaxBrowser /\ running \subseteq 1..launched OBVIOUS
        <2>2. todo \subseteq Chats /\ crossed \in BOOLEAN /\ noticeOnce \in BOOLEAN OBVIOUS
        <2> QED BY <1>1, <1>2, <2>1, <2>2 DEF BrowserTypes
    <1>4. \A a \in Actors : actor[a].pc = "idle" BY DEF Rest
    <1>5. LocksInv BY <1>4 DEF LocksInv, At, Actors
    <1>6. KnownInv BY <1>2 DEF KnownInv, Usable
    <1>7. TellInv BY <1>2 DEF TellInv
    <1> QED BY <1>3, <1>5, <1>6, <1>7 DEF BrowserInv

\* There is one browser and the manager knows it, and a session that lost its context is told,
\* whatever launches, closes, evicts, crashes or is cancelled: for every number of sessions.
THEOREM BrowserKept == BrowserSpec => []BrowserSound
    <1>1. BrowserInv /\ [BrowserNext]_browserVars => BrowserInv'
        BY BrowserTypesNext, LocksNext, KnownNext, TellNext DEF BrowserInv
    <1>2. BrowserInv => BrowserSound
        BY DEF BrowserInv, BrowserTypes, StatesTyped, LocksInv, KnownInv, TellInv, BrowserSound, BrowserTypeOK,
               OneBrowser, LossIsTold
    <1> QED BY BrowserInitially, <1>1, <1>2, PTL DEF BrowserSpec
----------------------------------------------------------------------------
(* The exec sessions: the table and its lock, the processes and what was read of them. *)

\* Where a call is, what it wants, and all it is.
ExecPCs == {"new", "over", "lock", "sleep", "killing", "drain", "pop", "feed", "term", "cleanup", "spawn", "run", "runkill"}
ExecOps == {"none", "start", "poll", "chars", "term"}
CallRecords == [pc : ExecPCs, op : ExecOps, ses : 0..MaxProcs, drop : 0..MaxProcs]

ExecTyped ==
    /\ proc \in [Procs -> {"none", "run", "exit"}] /\ written \in [Procs -> 0..MaxOut]
    /\ unread \in [Procs -> Nat] /\ buf \in [Procs -> Nat]
    /\ pipe \in [Procs -> {"open", "closed"}] /\ reader \in [Procs -> {"none", "on", "eof", "cut"}]
    /\ table \in SUBSET Procs /\ owner \in Callers \cup {NoCaller} /\ lockq \in Seq(Callers)
    /\ call \in [Callers -> CallRecords] /\ killed \in SUBSET Procs /\ reported \in SUBSET Procs

\* A process that runs keeps its pipe open; who reads a pipe to its end has read all that was
\* written, and a session whose end was reported has been read to its end, or was cut off.
PipesKept ==
    \A p \in Procs :
        /\ proc[p] = "none" => reader[p] = "none"
        /\ proc[p] = "run" => pipe[p] = "open"
        /\ unread[p] + buf[p] <= written[p]
        /\ reader[p] = "eof" => unread[p] = 0 /\ pipe[p] = "closed"
        /\ p \in table => reader[p] # "none"
        /\ p \in reported => reader[p] \in {"eof", "cut"}
        /\ p \in reported /\ reader[p] = "eof" => buf[p] = 0

\* Where a call is tells what it knows of its session, and who holds the lock.
CallsKnow ==
    \A c \in Callers :
        /\ call[c].pc \in {"sleep", "killing", "drain", "pop", "feed", "term"}
           \/ (call[c].pc \in {"lock", "cleanup"} /\ call[c].op # "start")
               => call[c].ses \in Procs /\ reader[call[c].ses] # "none"
        /\ call[c].pc \in {"run", "runkill"} => call[c].ses \in Procs /\ proc[call[c].ses] # "none"
        /\ call[c].pc \in {"drain", "pop"} => proc[call[c].ses] = "exit"
        /\ owner = c <=> call[c].pc \in {"cleanup", "spawn"}
        /\ call[c].pc = "spawn" => Cardinality(table) < MaxSlots

\* Who waits for the lock waits once.
Among(c, q) == \E i \in DOMAIN q : q[i] = c
Once(q) == \A i, j \in DOMAIN q : q[i] = q[j] => i = j
LockQueued == Once(lockq) /\ \A c \in Callers : Among(c, lockq) <=> call[c].pc \in {"lock", "pop"}

ExecInv == ExecTyped /\ PipesKept /\ CallsKnow /\ LockQueued /\ SlotsKept /\ NoStray

\* No call is NoCaller and no process NoProc.
LEMMA ExecNumbers ==
    /\ NoCaller \notin Callers /\ NoProc \notin Procs
    /\ Procs \subseteq 0..MaxProcs /\ NoProc \in 0..MaxProcs
    /\ NewCall \in CallRecords /\ Over \in CallRecords
    BY ExecAssumption DEF NoCaller, NoProc, Callers, Procs, NewCall, Over, CallRecords, ExecPCs, ExecOps

\* Somebody joins a queue.
LEMMA JoinQueue ==
    ASSUME NEW S, NEW q \in Seq(S), NEW c \in S, ~Among(c, q), Once(q)
    PROVE  /\ Append(q, c) \in Seq(S) /\ Once(Append(q, c))
           /\ \A d : Among(d, Append(q, c)) <=> Among(d, q) \/ d = c
    <1> DEFINE r == Append(q, c)
    <1>1. /\ Len(q) \in Nat /\ DOMAIN q = 1..Len(q) /\ r \in Seq(S) /\ DOMAIN r = 1..Len(q) + 1
          /\ \A i \in 1..Len(q) : r[i] = q[i]
          /\ r[Len(q) + 1] = c
        OBVIOUS
    <1> HIDE DEF r
    <1>2. Once(r) BY <1>1 DEF Once, Among
    <1>3. ASSUME NEW d PROVE Among(d, r) <=> Among(d, q) \/ d = c BY <1>1 DEF Among
    <1> QED BY <1>1, <1>2, <1>3 DEF r

\* The one at the k-th place of a queue leaves it.
LeftBy(q, k, r) == Len(r) = Len(q) - 1 /\ \A i \in DOMAIN r : r[i] = IF i < k THEN q[i] ELSE q[i + 1]
LEMMA LeaveQueue ==
    ASSUME NEW S, NEW q \in Seq(S), NEW k \in DOMAIN q, Once(q), NEW r \in Seq(S), LeftBy(q, k, r)
    PROVE  Once(r) /\ \A d : Among(d, r) <=> Among(d, q) /\ d # q[k]
    <1> USE DEF LeftBy
    <1>1. Len(q) \in Nat /\ Len(r) \in Nat /\ DOMAIN q = 1..Len(q) /\ DOMAIN r = 1..Len(q) - 1 OBVIOUS
    <1>2. Once(r)
        <2> SUFFICES ASSUME NEW i \in DOMAIN r, NEW j \in DOMAIN r, r[i] = r[j] PROVE i = j BY DEF Once
        <2>1. i \in DOMAIN q /\ i + 1 \in DOMAIN q /\ j \in DOMAIN q /\ j + 1 \in DOMAIN q /\ i \in Nat /\ j \in Nat /\ k \in Nat
            BY <1>1
        <2> QED BY <2>1 DEF Once
    <1>3. ASSUME NEW d, Among(d, r) PROVE Among(d, q) /\ d # q[k]
        <2>1. PICK i \in DOMAIN r : r[i] = d BY <1>3 DEF Among
        <2>2. i \in DOMAIN q /\ i + 1 \in DOMAIN q /\ i \in Nat /\ k \in Nat BY <1>1
        <2>3. CASE i < k BY <2>1, <2>2, <2>3 DEF Among, Once
        <2>4. CASE ~(i < k)
            <3>1. d = q[i + 1] /\ i + 1 # k BY <2>1, <2>2, <2>4
            <3> QED BY <2>2, <3>1 DEF Among, Once
        <2> QED BY <2>3, <2>4
    <1>4. ASSUME NEW d, Among(d, q), d # q[k] PROVE Among(d, r)
        <2>1. PICK i \in DOMAIN q : q[i] = d BY <1>4 DEF Among
        <2>2. i # k /\ i \in Nat /\ k \in Nat BY <1>1, <1>4, <2>1
        <2>3. CASE i < k
            <3>1. i \in DOMAIN r BY <1>1, <2>3
            <3> QED BY <2>1, <2>3, <3>1 DEF Among
        <2>4. CASE i > k
            <3>1. i - 1 \in DOMAIN r /\ ~(i - 1 < k) /\ (i - 1) + 1 = i BY <1>1, <2>2, <2>4
            <3> QED BY <2>1, <3>1 DEF Among
        <2> QED BY <2>2, <2>3, <2>4
    <1> QED BY <1>2, <1>3, <1>4

\* The first of a queue leaves it.
LEMMA HeadLeaves ==
    ASSUME NEW S, NEW q \in Seq(S), q # <<>>, Once(q)
    PROVE  /\ Tail(q) \in Seq(S) /\ Once(Tail(q))
           /\ \A d : Among(d, Tail(q)) <=> Among(d, q) /\ d # Head(q)
    <1>1. 1 \in DOMAIN q /\ Head(q) = q[1] /\ Tail(q) \in Seq(S) /\ Len(Tail(q)) = Len(q) - 1 OBVIOUS
    <1>2. \A i \in DOMAIN Tail(q) : Tail(q)[i] = IF i < 1 THEN q[i] ELSE q[i + 1] OBVIOUS
    <1> DEFINE r == Tail(q)
    <1>3. r \in Seq(S) /\ LeftBy(q, 1, r) BY <1>1, <1>2 DEF LeftBy
    <1> HIDE DEF r
    <1>4. Once(r) /\ \A d : Among(d, r) <=> Among(d, q) /\ d # q[1] BY <1>1, <1>3, LeaveQueue
    <1> QED BY <1>1, <1>4 DEF r

\* Somebody gives up waiting.
LEMMA OneLeaves ==
    ASSUME NEW S, NEW q \in Seq(S), NEW k \in DOMAIN q, Once(q)
    PROVE  /\ RemoveAt(q, k) \in Seq(S) /\ Once(RemoveAt(q, k))
           /\ \A d : Among(d, RemoveAt(q, k)) <=> Among(d, q) /\ d # q[k]
    <1> DEFINE a == SubSeq(q, 1, k - 1)
               b == SubSeq(q, k + 1, Len(q))
               r == RemoveAt(q, k)
    <1>1. Len(q) \in Nat /\ k \in 1..Len(q) OBVIOUS
    <1>2. a \in Seq(S) /\ Len(a) = k - 1 /\ \A i \in 1..k - 1 : a[i] = q[i] BY <1>1
    <1>3. b \in Seq(S) /\ Len(b) = Len(q) - k /\ \A i \in 1..Len(q) - k : b[i] = q[k + i] BY <1>1
    <1>4. r = a \o b BY DEF RemoveAt
    <1> HIDE DEF a, b, r
    <1>5. r \in Seq(S) /\ Len(r) = Len(q) - 1 BY <1>1, <1>2, <1>3, <1>4
    <1>6. ASSUME NEW i \in DOMAIN r PROVE r[i] = IF i < k THEN q[i] ELSE q[i + 1]
        <2>1. i \in 1..Len(q) - 1 BY <1>1, <1>5
        <2>2. CASE i < k
            <3>1. i \in 1..k - 1 /\ i \in 1..Len(a) BY <1>1, <1>2, <2>1, <2>2
            <3>2. (a \o b)[i] = a[i] BY <1>2, <1>3, <3>1
            <3> QED BY <1>2, <1>4, <2>2, <3>1, <3>2
        <2>3. CASE ~(i < k)
            <3>1. i - (k - 1) \in 1..Len(q) - k /\ k + (i - (k - 1)) = i + 1 BY <1>1, <2>1, <2>3
            <3>2. (a \o b)[i] = b[i - (k - 1)] BY SMTT(30), <1>1, <1>2, <1>3, <2>1, <2>3
            <3>3. b[i - (k - 1)] = q[i + 1] BY <1>3, <3>1
            <3> QED BY <1>4, <2>3, <3>2, <3>3
        <2> QED BY <2>2, <2>3
    <1>7. LeftBy(q, k, r) BY <1>5, <1>6 DEF LeftBy
    <1>8. Once(r) /\ \A d : Among(d, r) <=> Among(d, q) /\ d # q[k] BY <1>5, <1>7, LeaveQueue
    <1> QED BY <1>5, <1>8 DEF r

\* A call c goes on with what r says.
GoesTo(c, r) == r \in CallRecords /\ call' = [call EXCEPT ![c] = r]
Queueing == {"lock", "pop"}
Holding == {"cleanup", "spawn"}

\* Only that call changes.
LEMMA GoesToIs ==
    ASSUME ExecTyped, NEW c \in Callers, NEW r, GoesTo(c, r)
    PROVE  /\ call'[c] = r /\ \A d \in Callers : d # c => call'[d] = call[d]
           /\ call' \in [Callers -> CallRecords]
    BY DEF ExecTyped, GoesTo

\* How a step of c changes the queue of the lock.
LEMMA QueueJoined ==
    ASSUME ExecTyped, LockQueued, NEW c \in Callers, call[c].pc \notin Queueing, lockq' = Append(lockq, c),
           NEW r, GoesTo(c, r), r.pc \in Queueing
    PROVE  LockQueued' /\ lockq' \in Seq(Callers)
    <1>1. lockq \in Seq(Callers) /\ Once(lockq) /\ ~Among(c, lockq) BY DEF ExecTyped, LockQueued, Queueing
    <1>2. /\ lockq' \in Seq(Callers) /\ Once(lockq')
          /\ \A d : Among(d, lockq') <=> Among(d, lockq) \/ d = c
        BY <1>1, JoinQueue
    <1> QED BY <1>2, GoesToIs DEF LockQueued, Queueing

\* The first of the queue has the lock and goes on.
LEMMA QueuePassed ==
    ASSUME ExecTyped, LockQueued, NEW c \in Callers, lockq # <<>>, Head(lockq) = c, lockq' = Tail(lockq),
           NEW r, GoesTo(c, r), r.pc \notin Queueing
    PROVE  LockQueued' /\ lockq' \in Seq(Callers)
    <1>1. lockq \in Seq(Callers) /\ Once(lockq) BY DEF ExecTyped, LockQueued
    <1>2. /\ lockq' \in Seq(Callers) /\ Once(lockq')
          /\ \A d : Among(d, lockq') <=> Among(d, lockq) /\ d # c
        BY <1>1, HeadLeaves
    <1> QED BY <1>2, GoesToIs DEF LockQueued, Queueing

\* A call that waited, or did not, is over.
LEMMA QueueGivenUp ==
    ASSUME ExecTyped, LockQueued, NEW c \in Callers, StopWaiting(c),
           NEW r, GoesTo(c, r), r.pc \notin Queueing
    PROVE  LockQueued' /\ lockq' \in Seq(Callers)
    <1>1. lockq \in Seq(Callers) /\ Once(lockq) BY DEF ExecTyped, LockQueued
    <1>2. CASE \E k \in DOMAIN lockq : lockq[k] = c /\ lockq' = RemoveAt(lockq, k)
        <2>1. PICK k \in DOMAIN lockq : lockq[k] = c /\ lockq' = RemoveAt(lockq, k) BY <1>2
        <2>2. /\ lockq' \in Seq(Callers) /\ Once(lockq')
              /\ \A d : Among(d, lockq') <=> Among(d, lockq) /\ d # lockq[k]
            BY <1>1, <2>1, OneLeaves
        <2> QED BY <2>1, <2>2, GoesToIs DEF LockQueued, Queueing
    <1>3. CASE (\A i \in DOMAIN lockq : lockq[i] # c) /\ UNCHANGED lockq
        <2>1. ~Among(c, lockq) /\ lockq' = lockq BY <1>3 DEF Among
        <2> QED BY <1>1, <2>1, GoesToIs DEF LockQueued, Queueing
    <1> QED BY <1>2, <1>3 DEF StopWaiting

\* A call outside the queue goes on outside it.
LEMMA QueueStays ==
    ASSUME ExecTyped, LockQueued, NEW c \in Callers, UNCHANGED lockq,
           NEW r, GoesTo(c, r), r.pc \notin Queueing, call[c].pc \notin Queueing
    PROVE  LockQueued' /\ lockq' \in Seq(Callers)
    BY GoesToIs DEF ExecTyped, LockQueued, Queueing

\* Processes and readers never start over, which is all that a call knows of them.
Onward ==
    /\ \A p \in Procs : /\ proc[p] # "none" => proc'[p] # "none"
                        /\ proc[p] = "exit" => proc'[p] = "exit"
                        /\ reader[p] # "none" => reader'[p] # "none"

\* What the call that r stands for knows, as the next state has it.
Knows(c, r) ==
    /\ r.pc \in {"sleep", "killing", "drain", "pop", "feed", "term"} \/ (r.pc \in {"lock", "cleanup"} /\ r.op # "start")
           => r.ses \in Procs /\ reader'[r.ses] # "none"
    /\ r.pc \in {"run", "runkill"} => r.ses \in Procs /\ proc'[r.ses] # "none"
    /\ r.pc \in {"drain", "pop"} => proc'[r.ses] = "exit"
    /\ owner' = c <=> r.pc \in Holding
    /\ r.pc = "spawn" => Cardinality(table') < MaxSlots

\* What the calls know holds on when one of them takes a step and the others keep still.
LEMMA CallsKnowNext ==
    ASSUME ExecTyped, CallsKnow, Onward, NEW c \in Callers, NEW r, GoesTo(c, r), Knows(c, r),
           owner' = owner \/ (owner \in {NoCaller, c} /\ owner' \in {NoCaller, c}),
           table' = table \/ owner \in {NoCaller, c}
    PROVE  CallsKnow'
    <1>1. ASSUME NEW d \in Callers, d # c
          PROVE  /\ call[d].pc = "spawn" => Cardinality(table') < MaxSlots
                 /\ owner' = d <=> call[d].pc \in Holding
        BY <1>1, ExecNumbers DEF CallsKnow, Holding
    <1>2. ASSUME NEW d \in Callers, d # c
          PROVE  /\ call[d].pc \in {"sleep", "killing", "drain", "pop", "feed", "term"}
                    \/ (call[d].pc \in {"lock", "cleanup"} /\ call[d].op # "start")
                       => call[d].ses \in Procs /\ reader'[call[d].ses] # "none"
                 /\ call[d].pc \in {"run", "runkill"} => call[d].ses \in Procs /\ proc'[call[d].ses] # "none"
                 /\ call[d].pc \in {"drain", "pop"} => proc'[call[d].ses] = "exit"
        BY <1>2 DEF CallsKnow, Onward
    <1> QED BY <1>1, <1>2, GoesToIs DEF CallsKnow, Knows, Holding

\* The same of a step of a process.
LEMMA CallsKnowStill ==
    ASSUME CallsKnow, Onward, UNCHANGED <<call, owner, table>> PROVE CallsKnow'
    BY DEF CallsKnow, Onward

\* A process writes, ends, or its child does; a reader reads.
LEMMA ProcsKeep ==
    ASSUME ExecInv, NEW p \in Procs, ProcWrites(p) \/ ProcEnds(p) \/ ChildEnds(p) \/ ReadStream(p)
    PROVE  ExecInv'
    <1> USE DEF ExecInv, ExecTyped
    <1>1. UNCHANGED <<table, owner, lockq, call, reported>>
        BY DEF ProcWrites, ProcEnds, ChildEnds, ReadStream
    <1>2. LockQueued' /\ SlotsKept' BY <1>1 DEF LockQueued, SlotsKept
    <1>3. CASE ProcWrites(p)
        <2>1. ExecTyped' BY <1>1, <1>3, ExecAssumption DEF ProcWrites
        <2>2. PipesKept' BY <1>1, <1>3 DEF ProcWrites, PipesKept
        <2>3. Onward BY <1>3 DEF ProcWrites, Onward
        <2>4. NoStray' BY <1>1, <1>3 DEF ProcWrites, NoStray
        <2> QED BY <1>1, <1>2, <2>1, <2>2, <2>3, <2>4, CallsKnowStill
    <1>4. CASE ProcEnds(p)
        <2>1. PICK end \in {"open", "closed"} : pipe' = [pipe EXCEPT ![p] = end] BY <1>4 DEF ProcEnds
        <2>2. ExecTyped' BY <1>1, <1>4, <2>1 DEF ProcEnds
        <2>3. PipesKept' BY <1>1, <1>4, <2>1 DEF ProcEnds, PipesKept
        <2>4. Onward BY <1>4 DEF ProcEnds, Onward
        <2>5. NoStray' BY <1>1, <1>4 DEF ProcEnds, NoStray
        <2> QED BY <1>1, <1>2, <2>2, <2>3, <2>4, <2>5, CallsKnowStill
    <1>5. CASE ChildEnds(p)
        <2>1. ExecTyped' BY <1>1, <1>5 DEF ChildEnds
        <2>2. PipesKept' BY <1>1, <1>5 DEF ChildEnds, PipesKept
        <2>3. Onward BY <1>5 DEF ChildEnds, Onward
        <2>4. NoStray' BY <1>1, <1>5 DEF ChildEnds, NoStray
        <2> QED BY <1>1, <1>2, <2>1, <2>2, <2>3, <2>4, CallsKnowStill
    <1>6. CASE ReadStream(p)
        <2>1. UNCHANGED <<proc, written, pipe, killed>> /\ reader[p] = "on" BY <1>6 DEF ReadStream
        <2>2. ASSUME buf' = [buf EXCEPT ![p] = @ + unread[p]] /\ unread' = [unread EXCEPT ![p] = 0] /\ UNCHANGED reader
              PROVE  ExecTyped' /\ PipesKept'
            <3>1. ExecTyped' BY <1>1, <2>1, <2>2
            <3>2. PipesKept' BY <1>1, <2>1, <2>2 DEF PipesKept
            <3> QED BY <3>1, <3>2
        <2>3. ASSUME unread[p] = 0, pipe[p] = "closed", reader' = [reader EXCEPT ![p] = "eof"], UNCHANGED <<buf, unread>>
              PROVE  ExecTyped' /\ PipesKept'
            <3>1. ExecTyped' BY <1>1, <2>1, <2>3
            <3>2. PipesKept' BY <1>1, <2>1, <2>3 DEF PipesKept
            <3> QED BY <3>1, <3>2
        <2>4. ExecTyped' /\ PipesKept' BY <1>6, <2>2, <2>3 DEF ReadStream
        <2>5. Onward BY <1>6 DEF ReadStream, Onward
        <2>6. NoStray' BY <1>1, <2>1 DEF NoStray
        <2> QED BY <1>1, <1>2, <2>4, <2>5, <2>6, CallsKnowStill
    <1> QED BY <1>3, <1>4, <1>5, <1>6

\* Where Goto, Return and BeginPoll send a call.
LEMMA GotoIs ==
    ASSUME ExecTyped, NEW c \in Callers, NEW pc \in ExecPCs, Goto(c, pc)
    PROVE  \E r : GoesTo(c, r) /\ r.pc = pc /\ r.ses = call[c].ses /\ r.op = call[c].op
    <1> DEFINE r == [call[c] EXCEPT !.pc = pc]
    <1>1. call[c] \in CallRecords BY DEF ExecTyped
    <1>2. r \in CallRecords /\ r.pc = pc /\ r.ses = call[c].ses /\ r.op = call[c].op BY <1>1 DEF CallRecords
    <1>3. call' = [call EXCEPT ![c] = r] BY DEF Goto
    <1> QED BY <1>2, <1>3 DEF GoesTo

\* A call returns.
LEMMA ReturnIs ==
    ASSUME NEW c \in Callers, Return(c) PROVE GoesTo(c, Over) /\ Over.pc = "over"
    BY ExecNumbers DEF Return, GoesTo, Over, NewCall

\* A poll begins.
LEMMA BeginPollIs ==
    ASSUME ExecTyped, NEW c \in Callers, NEW p \in Procs, BeginPoll(c, p)
    PROVE  \E r : GoesTo(c, r) /\ r.pc = (IF proc[p] = "exit" THEN "drain" ELSE "sleep") /\ r.ses = p
    <1> DEFINE pc == IF proc[p] = "exit" THEN "drain" ELSE "sleep"
               r == [call[c] EXCEPT !.ses = p, !.pc = pc]
    <1>1. call[c] \in CallRecords /\ pc \in ExecPCs BY DEF ExecTyped, ExecPCs
    <1>2. call' = [call EXCEPT ![c] = r] BY DEF BeginPoll
    <1> HIDE DEF pc
    <1>3. r \in CallRecords /\ r.pc = pc /\ r.ses = p BY <1>1, ExecNumbers DEF CallRecords
    <1> QED BY <1>2, <1>3 DEF GoesTo, pc

\* A process that runs stays known, while its call goes on and no session leaves the table.
LEMMA StrayStill ==
    ASSUME ExecTyped, NoStray, NEW c \in Callers, NEW r, GoesTo(c, r), call[c].pc # "run",
           UNCHANGED proc, killed \subseteq killed', table \subseteq table'
    PROVE  NoStray'
    BY GoesToIs DEF NoStray

\* A step of a poll, but for what it reads.
LEMMA PollGoesOn ==
    ASSUME ExecInv, NEW c \in Callers, call[c].pc \in {"sleep", "killing", "drain", "feed", "term"},
           UNCHANGED <<procVars, table, owner>>, killed \subseteq killed', killed' \in SUBSET Procs,
           NEW r, GoesTo(c, r), Knows(c, r),
           Onward, r.pc \in Queueing => lockq' = Append(lockq, c), r.pc \notin Queueing => UNCHANGED lockq
    PROVE  CallsKnow' /\ LockQueued' /\ lockq' \in Seq(Callers) /\ SlotsKept' /\ NoStray'
    <1> USE DEF ExecInv
    <1>1. CallsKnow' BY CallsKnowNext
    <1>2. LockQueued' /\ lockq' \in Seq(Callers)
        <2>1. call[c].pc \notin Queueing BY DEF Queueing
        <2>2. CASE r.pc \in Queueing BY <2>1, <2>2, QueueJoined
        <2>3. CASE r.pc \notin Queueing BY <2>1, <2>3, QueueStays
        <2> QED BY <2>2, <2>3
    <1>3. NoStray' BY StrayStill DEF procVars
    <1>4. SlotsKept' BY DEF SlotsKept
    <1> QED BY <1>1, <1>2, <1>3, <1>4

\* The output is collected.
LEMMA CollectIs ==
    ASSUME ExecTyped, NEW c \in Callers, Collect(c)
    PROVE  \E r : /\ GoesTo(c, r)
                  /\ IF proc[call[c].ses] = "exit"
                     THEN r.pc = "pop" /\ r.ses = call[c].ses /\ lockq' = Append(lockq, c)
                     ELSE r = Over /\ UNCHANGED lockq
    <1>1. CASE proc[call[c].ses] = "exit"
        <2>1. Goto(c, "pop") /\ lockq' = Append(lockq, c) BY <1>1 DEF Collect
        <2>2. "pop" \in ExecPCs BY DEF ExecPCs
        <2> QED BY <1>1, <2>1, <2>2, GotoIs
    <1>2. CASE proc[call[c].ses] # "exit"
        <2>1. Return(c) /\ UNCHANGED lockq BY <1>2 DEF Collect
        <2> QED BY <1>2, <2>1, ReturnIs
    <1> QED BY <1>1, <1>2

\* Collecting keeps the invariant: who reports an end has all the output or a reader that was cut off.
LEMMA CollectKeeps ==
    ASSUME ExecInv, NEW c \in Callers, Collect(c), UNCHANGED <<procVars, table, owner, killed>>,
           \/ call[c].pc \in {"sleep", "killing"} /\ proc[call[c].ses] # "exit" /\ UNCHANGED reader
           \/ call[c].pc = "drain" /\ reader[call[c].ses] = "eof" /\ UNCHANGED reader
           \/ call[c].pc = "drain" /\ reader[call[c].ses] = "on" /\ reader' = [reader EXCEPT ![call[c].ses] = "cut"]
    PROVE  ExecInv'
    <1> DEFINE p == call[c].ses
    <1> USE DEF ExecInv
    <1>1. p \in Procs /\ reader[p] # "none" BY DEF CallsKnow
    <1> HIDE DEF p
    <1>2. /\ reader' = reader \/ (reader[p] = "on" /\ reader' = [reader EXCEPT ![p] = "cut"])
          /\ proc[p] = "exit" => reader'[p] \in {"eof", "cut"}
        BY <1>1 DEF p, ExecTyped
    <1>3. buf' = [buf EXCEPT ![p] = 0] /\ reported' = (IF proc[p] = "exit" THEN reported \cup {p} ELSE reported)
        BY DEF Collect, p
    <1>4. reader' \in [Procs -> {"none", "on", "eof", "cut"}] BY <1>1, <1>2 DEF ExecTyped
    <1>5. Onward
        <2>1. UNCHANGED proc BY DEF procVars
        <2>2. \A q \in Procs : reader[q] # "none" => reader'[q] # "none" BY <1>1, <1>2 DEF ExecTyped
        <2> QED BY <2>1, <2>2 DEF Onward
    <1>6. PICK r : /\ GoesTo(c, r)
                   /\ IF proc[p] = "exit" THEN r.pc = "pop" /\ r.ses = p /\ lockq' = Append(lockq, c)
                                          ELSE r = Over /\ UNCHANGED lockq
        BY CollectIs DEF p
    <1>7. r.pc = "pop" \/ r.pc = "over" BY <1>6 DEF Over, NewCall
    <1>8. Knows(c, r)
        <2>1. owner # c BY DEF CallsKnow
        <2>2. CASE proc[p] = "exit"
            <3>1. proc'[p] = "exit" /\ reader'[p] # "none" BY <1>1, <1>5, <2>2 DEF Onward
            <3> QED BY <1>1, <1>6, <2>1, <2>2, <3>1 DEF Knows, Holding
        <2>3. CASE proc[p] # "exit" BY <1>6, <2>1, <2>3 DEF Knows, Holding, Over, NewCall
        <2> QED BY <2>2, <2>3
    <1>9. /\ r.pc \in Queueing => lockq' = Append(lockq, c)
          /\ r.pc \notin Queueing => UNCHANGED lockq
        BY <1>6 DEF Queueing, Over, NewCall
    <1>10. CallsKnow' /\ LockQueued' /\ lockq' \in Seq(Callers) /\ SlotsKept' /\ NoStray'
        BY <1>5, <1>6, <1>8, <1>9, PollGoesOn DEF ExecTyped
    <1>11. ExecTyped' BY <1>1, <1>3, <1>4, <1>6, <1>10, GoesToIs DEF ExecTyped, procVars
    <1>12. PipesKept' BY <1>1, <1>2, <1>3 DEF PipesKept, ExecTyped, procVars
    <1> QED BY <1>10, <1>11, <1>12

\* A step of a poll that reads nothing, and may kill.
LEMMA QuietPoll ==
    ASSUME ExecInv, NEW c \in Callers, call[c].pc \in {"sleep", "killing", "drain", "feed", "term"},
           UNCHANGED <<procVars, buf, reader, table, owner, lockq, reported>>,
           killed \subseteq killed', killed' \in SUBSET Procs,
           NEW r, GoesTo(c, r), r.pc \in {"over", "drain", "killing", "sleep"},
           r.pc # "over" => r.ses = call[c].ses,
           r.pc = "drain" => proc[call[c].ses] = "exit"
    PROVE  ExecInv'
    <1> USE DEF ExecInv
    <1>1. Onward BY DEF Onward, procVars
    <1>2. call[c].ses \in Procs /\ reader[call[c].ses] # "none" /\ owner # c BY DEF CallsKnow
    <1>3. Knows(c, r) BY <1>2 DEF Knows, Holding, procVars
    <1>4. CallsKnow' /\ LockQueued' /\ lockq' \in Seq(Callers) /\ SlotsKept' /\ NoStray'
        BY <1>1, <1>3, PollGoesOn DEF Queueing
    <1>5. ExecTyped' BY <1>4, GoesToIs DEF ExecTyped, procVars
    <1>6. PipesKept' BY DEF PipesKept, procVars
    <1> QED BY <1>4, <1>5, <1>6

\* Who is killed.
LEMMA KillIs ==
    ASSUME ExecTyped, NEW p \in Procs, Kill(p)
    PROVE  killed \subseteq killed' /\ killed' \in SUBSET Procs /\ (proc[p] = "run" => p \in killed')
    BY DEF ExecTyped, Kill

\* The steps of a poll.
LEMMA PollsKeep ==
    ASSUME ExecInv, NEW c \in Callers, Wake(c) \/ Reaped(c) \/ Drain(c) \/ Fed(c) \/ Terminated(c)
    PROVE  ExecInv'
    <1> DEFINE p == call[c].ses
    <1>1. call[c].pc \in {"sleep", "killing", "drain", "feed", "term"}
        BY DEF Wake, Reaped, Drain, Fed, Terminated
    <1>2. p \in Procs /\ ExecTyped BY <1>1 DEF ExecInv, CallsKnow
    <1>3. ASSUME Goto(c, "drain"), proc[p] = "exit",
                 UNCHANGED <<procVars, buf, reader, table, owner, lockq, reported, killed>>
          PROVE  ExecInv'
        <2>1. PICK r : GoesTo(c, r) /\ r.pc = "drain" /\ r.ses = p BY <1>2, <1>3, GotoIs DEF ExecPCs
        <2> QED BY <1>1, <1>2, <1>3, <2>1, QuietPoll DEF ExecTyped
    <1>4. ASSUME BeginPoll(c, p), UNCHANGED <<procVars, buf, reader, table, owner, lockq, reported, killed>>
          PROVE  ExecInv'
        <2>1. PICK r : GoesTo(c, r) /\ r.pc = (IF proc[p] = "exit" THEN "drain" ELSE "sleep") /\ r.ses = p
            BY <1>2, <1>4, BeginPollIs
        <2>2. killed \subseteq killed' /\ killed' \in SUBSET Procs BY <1>2, <1>4 DEF ExecTyped
        <2>3. r.pc \in {"over", "drain", "killing", "sleep"} /\ (r.pc = "drain" => proc[p] = "exit") BY <2>1
        <2> QED BY <1>1, <1>4, <2>1, <2>2, <2>3, QuietPoll
    <1>5. ASSUME Return(c), UNCHANGED <<procVars, buf, reader, table, owner, lockq, reported, killed>>
          PROVE  ExecInv'
        <2>1. GoesTo(c, Over) /\ Over.pc = "over" BY <1>5, ReturnIs
        <2>2. killed \subseteq killed' /\ killed' \in SUBSET Procs BY <1>2, <1>5 DEF ExecTyped
        <2> QED BY <1>1, <1>5, <2>1, <2>2, QuietPoll
    <1>6. CASE Wake(c)
        <2>1. /\ call[c].pc = "sleep" /\ UNCHANGED <<procVars, reader, table, owner>>
              /\ \/ proc[p] = "exit" /\ Goto(c, "drain") /\ UNCHANGED <<buf, lockq, killed, reported>>
                 \/ proc[p] = "run" /\ Collect(c) /\ UNCHANGED killed
                 \/ proc[p] = "run" /\ Kill(p) /\ Goto(c, "killing") /\ UNCHANGED <<buf, lockq, reported>>
            BY <1>6 DEF Wake
        <2>2. ASSUME Kill(p), Goto(c, "killing"), UNCHANGED <<buf, lockq, reported>> PROVE ExecInv'
            <3>1. PICK r : GoesTo(c, r) /\ r.pc = "killing" /\ r.ses = p BY <1>2, <2>2, GotoIs DEF ExecPCs
            <3>2. killed \subseteq killed' /\ killed' \in SUBSET Procs BY <1>2, <2>2, KillIs
            <3> QED BY <2>1, <2>2, <3>1, <3>2, QuietPoll
        <2>3. ASSUME proc[p] = "run", Collect(c), UNCHANGED killed PROVE ExecInv'
            BY <2>1, <2>3, CollectKeeps
        <2> QED BY <1>3, <2>1, <2>2, <2>3
    <1>7. CASE Reaped(c)
        <2>1. call[c].pc = "killing" /\ UNCHANGED <<procVars, reader, table, owner, killed>> BY <1>7 DEF Reaped
        <2>2. CASE proc[p] = "exit"
            <3>1. Goto(c, "drain") /\ UNCHANGED <<buf, lockq, reported>> BY <1>7, <2>2 DEF Reaped
            <3> QED BY <1>3, <2>1, <2>2, <3>1
        <2>3. CASE proc[p] # "exit"
            <3>1. Collect(c) BY <1>7, <2>3 DEF Reaped
            <3> QED BY <2>1, <2>3, <3>1, CollectKeeps
        <2> QED BY <2>2, <2>3
    <1>8. CASE Drain(c)
        <2>1. call[c].pc = "drain" /\ UNCHANGED <<procVars, table, owner, killed>> BY <1>8 DEF Drain
        <2>2. ASSUME Collect(c), reader[p] = "eof", UNCHANGED reader PROVE ExecInv'
            BY <2>1, <2>2, CollectKeeps
        <2>3. ASSUME Collect(c), reader[p] = "on", reader' = [reader EXCEPT ![p] = "cut"] PROVE ExecInv'
            BY <2>1, <2>3, CollectKeeps
        <2> QED BY <1>5, <1>8, <2>1, <2>2, <2>3 DEF Drain
    <1>9. CASE Fed(c)
        <2>1. UNCHANGED <<procVars, buf, reader, table, owner, lockq, killed, reported>> BY <1>9 DEF Fed
        <2>2. Return(c) \/ BeginPoll(c, p) BY <1>9 DEF Fed
        <2> QED BY <1>4, <1>5, <2>1, <2>2
    <1>10. CASE Terminated(c) BY <1>4, <1>10 DEF Terminated
    <1> QED BY <1>6, <1>7, <1>8, <1>9, <1>10

\* A new call waits for the lock.
LEMMA CallAsks ==
    ASSUME ExecInv, NEW c \in Callers, call[c] = NewCall, NEW r, GoesTo(c, r), r.pc = "lock", Wait(c),
           r.op # "start" => r.ses \in Procs /\ reader[r.ses] # "none",
           UNCHANGED <<procVars, buf, reader, table, owner, killed, reported>>
    PROVE  ExecInv'
    <1> USE DEF ExecInv
    <1>1. call[c].pc = "new" BY DEF NewCall
    <1>2. LockQueued' /\ lockq' \in Seq(Callers) BY <1>1, QueueJoined DEF Queueing, Wait
    <1>3. Onward BY DEF Onward, procVars
    <1>4. owner # c BY <1>1 DEF CallsKnow
    <1>5. Knows(c, r) BY <1>4 DEF Knows, Holding
    <1>6. CallsKnow' BY <1>3, <1>5, CallsKnowNext
    <1>7. ExecTyped' BY <1>2, GoesToIs DEF ExecTyped, procVars
    <1>8. PipesKept' /\ SlotsKept' BY DEF PipesKept, SlotsKept, procVars
    <1>9. NoStray' BY <1>1, StrayStill DEF procVars
    <1> QED BY <1>2, <1>6, <1>7, <1>8, <1>9

\* A session is asked for.
LEMMA StartKeeps == ASSUME ExecInv, NEW c \in Callers, Start(c) PROVE ExecInv'
    <1> DEFINE r == [NewCall EXCEPT !.pc = "lock", !.op = "start"]
    <1>1. r \in CallRecords /\ r.pc = "lock" /\ r.op = "start"
        BY ExecNumbers DEF CallRecords, ExecPCs, ExecOps, NewCall
    <1>2. GoesTo(c, r) BY <1>1 DEF Start, GoesTo
    <1> HIDE DEF r
    <1> QED BY <1>1, <1>2, CallAsks DEF Start, IsNext

\* A session is polled, written to or ended.
LEMMA WriteKeeps ==
    ASSUME ExecInv, NEW c \in Callers, NEW p \in Procs, NEW op \in {"poll", "chars", "term"}, Write(c, p, op)
    PROVE  ExecInv'
    <1> DEFINE r == [NewCall EXCEPT !.pc = "lock", !.op = op, !.ses = p]
    <1>1. r \in CallRecords /\ r.pc = "lock" /\ r.op = op /\ r.ses = p
        BY ExecNumbers DEF CallRecords, ExecPCs, ExecOps, NewCall
    <1>2. GoesTo(c, r) BY <1>1 DEF Write, GoesTo
    <1> HIDE DEF r
    <1> QED BY <1>1, <1>2, CallAsks DEF Write, IsNext

\* A command without a session.
LEMMA RunKeeps == ASSUME ExecInv, NEW c \in Callers, NEW p \in Procs, RunCommand(c, p) PROVE ExecInv'
    <1> DEFINE r == [NewCall EXCEPT !.pc = "run", !.ses = p]
    <1> USE DEF ExecInv
    <1>1. r \in CallRecords /\ r.pc = "run" /\ r.ses = p
        BY ExecNumbers DEF CallRecords, ExecPCs, ExecOps, NewCall
    <1>2. /\ GoesTo(c, r) /\ call[c].pc = "new" /\ proc[p] = "none"
          /\ proc' = [proc EXCEPT ![p] = "run"] /\ pipe' = [pipe EXCEPT ![p] = "open"]
          /\ UNCHANGED <<written, unread, buf, reader, table, owner, lockq, killed, reported>>
        BY <1>1 DEF RunCommand, GoesTo, IsNext, Unused, NewCall
    <1> HIDE DEF r
    <1>3. LockQueued' /\ lockq' \in Seq(Callers) BY <1>1, <1>2, QueueStays DEF Queueing
    <1>4. Onward BY <1>2 DEF Onward, ExecTyped
    <1>5. owner # c BY <1>2 DEF CallsKnow
    <1>6. Knows(c, r) BY <1>1, <1>2, <1>5 DEF Knows, Holding, ExecTyped
    <1>7. CallsKnow' BY <1>2, <1>4, <1>6, CallsKnowNext
    <1>8. ExecTyped' BY <1>2, <1>3, GoesToIs DEF ExecTyped
    <1>9. PipesKept' /\ SlotsKept' BY <1>2 DEF PipesKept, SlotsKept, ExecTyped
    <1>10. NoStray'
        <2>1. call'[c] = r /\ \A d \in Callers : d # c => call'[d] = call[d] BY <1>2, GoesToIs
        <2>2. proc'[p] = "run" /\ \A q \in Procs : q # p => proc'[q] = proc[q] BY <1>2 DEF ExecTyped
        <2> SUFFICES ASSUME NEW q \in Procs, proc'[q] = "run", q \notin killed', q \notin table'
                     PROVE  \E d \in Callers : call'[d].pc = "run" /\ call'[d].ses = q
            BY DEF NoStray
        <2>3. CASE q = p BY <1>1, <2>1, <2>3
        <2>4. CASE q # p
            <3>1. PICK d \in Callers : call[d].pc = "run" /\ call[d].ses = q BY <1>2, <2>2, <2>4 DEF NoStray
            <3> QED BY <1>2, <2>1, <3>1
        <2> QED BY <2>3, <2>4
    <1> QED BY <1>3, <1>7, <1>8, <1>9, <1>10

\* A command ends, is killed or has been.
LEMMA CommandsKeep ==
    ASSUME ExecInv, NEW c \in Callers, CommandEnds(c) \/ CommandKilled(c)
    PROVE  ExecInv'
    <1> DEFINE p == call[c].ses
    <1> USE DEF ExecInv
    <1>1. call[c].pc \in {"run", "runkill"} /\ UNCHANGED <<procVars, buf, reader, table, owner, lockq, reported>>
        BY DEF CommandEnds, CommandKilled
    <1>2. p \in Procs /\ proc[p] # "none" /\ owner # c BY <1>1 DEF CallsKnow
    <1>3. \E r : /\ GoesTo(c, r) /\ r.pc \in {"over", "runkill"} /\ (r.pc = "runkill" => r.ses = p)
                 /\ killed \subseteq killed' /\ killed' \in SUBSET Procs
                 /\ call[c].pc = "run" /\ proc[p] = "run" => p \in killed'
        <2>1. CASE Return(c) /\ UNCHANGED killed /\ (call[c].pc = "run" => proc[p] = "exit")
            <3>1. GoesTo(c, Over) /\ Over.pc = "over" BY <2>1, ReturnIs
            <3>2. killed \subseteq killed' /\ killed' \in SUBSET Procs BY <2>1 DEF ExecTyped
            <3> QED BY <2>1, <3>1, <3>2
        <2>2. CASE Kill(p) /\ Goto(c, "runkill")
            <3>1. \E r : GoesTo(c, r) /\ r.pc = "runkill" /\ r.ses = p BY <2>2, GotoIs DEF ExecPCs
            <3>2. killed \subseteq killed' /\ killed' \in SUBSET Procs /\ (proc[p] = "run" => p \in killed')
                BY <1>2, <2>2, KillIs
            <3> QED BY <3>1, <3>2
        <2> QED BY <2>1, <2>2 DEF CommandEnds, CommandKilled
    <1>4. PICK r : /\ GoesTo(c, r) /\ r.pc \in {"over", "runkill"} /\ (r.pc = "runkill" => r.ses = p)
                   /\ killed \subseteq killed' /\ killed' \in SUBSET Procs
                   /\ call[c].pc = "run" /\ proc[p] = "run" => p \in killed'
        BY <1>3
    <1> HIDE DEF p
    <1>5. LockQueued' /\ lockq' \in Seq(Callers) BY <1>1, <1>4, QueueStays DEF Queueing
    <1>6. Onward BY <1>1 DEF Onward, procVars
    <1>7. Knows(c, r) BY <1>1, <1>2, <1>4 DEF Knows, Holding, procVars
    <1>8. CallsKnow' BY <1>1, <1>4, <1>6, <1>7, CallsKnowNext
    <1>9. ExecTyped' BY <1>1, <1>4, <1>5, GoesToIs DEF ExecTyped, procVars
    <1>10. PipesKept' /\ SlotsKept' BY <1>1 DEF PipesKept, SlotsKept, procVars
    <1>11. NoStray'
        <2>1. call'[c] = r /\ \A d \in Callers : d # c => call'[d] = call[d] BY <1>4, GoesToIs
        <2> SUFFICES ASSUME NEW q \in Procs, proc'[q] = "run", q \notin killed', q \notin table'
                     PROVE  \E d \in Callers : call'[d].pc = "run" /\ call'[d].ses = q
            BY DEF NoStray
        <2>2. proc[q] = "run" /\ q \notin killed /\ q \notin table BY <1>1, <1>4 DEF procVars
        <2>3. PICK d \in Callers : call[d].pc = "run" /\ call[d].ses = q BY <2>2 DEF NoStray
        <2>4. d # c BY <1>4, <2>2, <2>3 DEF p
        <2> QED BY <2>1, <2>3, <2>4
    <1> QED BY <1>5, <1>8, <1>9, <1>10, <1>11

\* The number of sessions is a number, and fewer are no more.
LEMMA TableSize ==
    ASSUME NEW T \in SUBSET Procs, NEW U \in SUBSET T
    PROVE  /\ Cardinality(T) \in Nat /\ Cardinality(U) \in Nat /\ Cardinality(U) <= Cardinality(T)
           /\ \A p \in Procs : Cardinality(T \cup {p}) <= Cardinality(T) + 1
    <1>1. IsFiniteSet(Procs) BY ExecAssumption, FS_Interval DEF Procs
    <1>2. IsFiniteSet(T) BY <1>1, FS_Subset
    <1>3. IsFiniteSet(U) /\ Cardinality(U) <= Cardinality(T) BY <1>2, FS_Subset
    <1>4. Cardinality(T) \in Nat /\ Cardinality(U) \in Nat BY <1>2, <1>3, FS_CardinalityType
    <1>5. \A p : Cardinality(T \cup {p}) = IF p \in T THEN Cardinality(T) ELSE Cardinality(T) + 1 BY <1>2, FS_AddElement
    <1> QED BY <1>3, <1>4, <1>5

\* What serving a call comes to.
LEMMA ServedIs ==
    ASSUME ExecTyped, CallsKnow, NEW c \in Callers, NEW tbl \in SUBSET table, call[c].pc \in {"lock", "cleanup"}, Served(c, tbl)
    PROVE  /\ table' = tbl /\ owner' \in {NoCaller, c}
           /\ killed \subseteq killed' /\ killed' \in SUBSET Procs
           /\ \E r : /\ GoesTo(c, r)
                     /\ \/ r.pc = "over" /\ owner' = NoCaller
                        \/ r.pc = "spawn" /\ owner' = c /\ Cardinality(tbl) < MaxSlots
                        \/ /\ r.pc \in {"sleep", "drain", "feed", "term"} /\ owner' = NoCaller
                           /\ r.ses \in Procs /\ reader[r.ses] # "none"
                           /\ r.pc = "drain" => proc[r.ses] = "exit"
    <1> DEFINE p == call[c].ses
    <1>1. table' = tbl BY DEF Served
    <1>2. killed \subseteq killed /\ killed \in SUBSET Procs BY DEF ExecTyped
    <1>3. call[c].op # "start" => p \in Procs /\ reader[p] # "none" BY DEF CallsKnow
    <1>4. ASSUME Return(c), owner' = NoCaller, UNCHANGED killed
          PROVE  \E r : GoesTo(c, r) /\ r.pc = "over"
        BY <1>4, ReturnIs
    <1>5. ASSUME BeginPoll(c, p), p \in Procs
          PROVE  \E r : GoesTo(c, r) /\ r.pc \in {"sleep", "drain"} /\ r.ses = p /\ (r.pc = "drain" => proc[p] = "exit")
        <2>1. PICK r : GoesTo(c, r) /\ r.pc = (IF proc[p] = "exit" THEN "drain" ELSE "sleep") /\ r.ses = p
            BY <1>5, BeginPollIs
        <2> QED BY <2>1
    <1>6. CASE call[c].op = "start" /\ Cardinality(tbl) < MaxSlots
        <2>1. owner' = c /\ Goto(c, "spawn") /\ UNCHANGED killed BY <1>6 DEF Served
        <2>2. PICK r : GoesTo(c, r) /\ r.pc = "spawn" BY <2>1, GotoIs DEF ExecPCs
        <2> QED BY <1>1, <1>2, <1>6, <2>1, <2>2
    <1>7. CASE call[c].op = "poll" /\ p \in tbl
        <2>1. owner' = NoCaller /\ BeginPoll(c, p) /\ UNCHANGED killed BY <1>7 DEF Served
        <2>2. p \in Procs /\ reader[p] # "none" BY <1>3, <1>7
        <2> QED BY <1>1, <1>2, <1>5, <2>1, <2>2
    <1>8. CASE call[c].op = "chars" /\ p \in tbl /\ proc[p] = "run"
        <2>1. owner' = NoCaller /\ Goto(c, "feed") /\ UNCHANGED killed BY <1>8 DEF Served
        <2>2. PICK r : GoesTo(c, r) /\ r.pc = "feed" /\ r.ses = p BY <2>1, GotoIs DEF ExecPCs
        <2>3. p \in Procs /\ reader[p] # "none" BY <1>3, <1>8
        <2> QED BY <1>1, <1>2, <2>1, <2>2, <2>3
    <1>9. CASE call[c].op = "term" /\ p \in tbl
        <2>1. p \in Procs /\ reader[p] # "none" BY <1>3, <1>9
        <2>2. owner' = NoCaller BY <1>9 DEF Served
        <2>3. CASE proc[p] = "run"
            <3>1. Kill(p) /\ Goto(c, "term") BY <1>9, <2>3 DEF Served
            <3>2. PICK r : GoesTo(c, r) /\ r.pc = "term" /\ r.ses = p BY <3>1, GotoIs DEF ExecPCs
            <3>3. killed \subseteq killed' /\ killed' \in SUBSET Procs BY <2>1, <3>1, KillIs
            <3> QED BY <1>1, <2>1, <2>2, <3>2, <3>3
        <2>4. CASE proc[p] # "run"
            <3>1. BeginPoll(c, p) /\ UNCHANGED killed BY <1>9, <2>4 DEF Served
            <3> QED BY <1>1, <1>2, <1>5, <2>1, <2>2, <3>1
        <2> QED BY <2>3, <2>4
    <1>10. CASE /\ ~(call[c].op = "start" /\ Cardinality(tbl) < MaxSlots) /\ ~(call[c].op = "poll" /\ p \in tbl)
                /\ ~(call[c].op = "chars" /\ p \in tbl /\ proc[p] = "run") /\ ~(call[c].op = "term" /\ p \in tbl)
        <2>1. owner' = NoCaller /\ Return(c) /\ UNCHANGED killed BY <1>10 DEF Served
        <2> QED BY <1>1, <1>2, <1>4, <2>1
    <1> QED BY <1>6, <1>7, <1>8, <1>9, <1>10

\* Serving a call keeps the invariant: no session that runs is dropped.
LEMMA ServedKeeps ==
    ASSUME ExecInv, NEW c \in Callers, NEW tbl \in SUBSET table, call[c].pc \in {"lock", "cleanup"}, Served(c, tbl),
           owner \in {NoCaller, c}, \A p \in table \ tbl : proc[p] # "run",
           UNCHANGED <<procVars, buf, reader, reported>>,
           IF call[c].pc = "lock" THEN lockq # <<>> /\ Head(lockq) = c /\ lockq' = Tail(lockq) ELSE UNCHANGED lockq
    PROVE  ExecInv'
    <1> USE DEF ExecInv
    <1>1. PICK r : /\ GoesTo(c, r)
                   /\ \/ r.pc = "over" /\ owner' = NoCaller
                      \/ r.pc = "spawn" /\ owner' = c /\ Cardinality(tbl) < MaxSlots
                      \/ /\ r.pc \in {"sleep", "drain", "feed", "term"} /\ owner' = NoCaller
                         /\ r.ses \in Procs /\ reader[r.ses] # "none"
                         /\ r.pc = "drain" => proc[r.ses] = "exit"
        BY ServedIs
    <1>2. table' = tbl /\ owner' \in {NoCaller, c} /\ killed \subseteq killed' /\ killed' \in SUBSET Procs
        BY ServedIs
    <1>3. r.pc \notin Queueing BY <1>1 DEF Queueing
    <1>4. LockQueued' /\ lockq' \in Seq(Callers)
        <2>1. CASE call[c].pc = "lock" BY <1>1, <1>3, <2>1, QueuePassed
        <2>2. CASE call[c].pc = "cleanup" BY <1>1, <1>3, <2>2, QueueStays DEF Queueing
        <2> QED BY <2>1, <2>2
    <1>5. Onward BY DEF Onward, procVars
    <1>6. Knows(c, r) BY <1>1, <1>2, ExecNumbers DEF Knows, Holding, procVars
    <1>7. CallsKnow' BY <1>1, <1>2, <1>5, <1>6, CallsKnowNext
    <1>8. ExecTyped' BY <1>1, <1>2, <1>4, GoesToIs DEF ExecTyped, procVars
    <1>9. PipesKept' BY <1>2 DEF PipesKept, procVars
    <1>10. SlotsKept'
        <2>1. table \in SUBSET Procs BY DEF ExecTyped
        <2>2. Cardinality(tbl) \in Nat /\ Cardinality(table) \in Nat /\ Cardinality(tbl) <= Cardinality(table)
            BY <2>1, TableSize
        <2> QED BY <1>2, <2>2, ExecAssumption DEF SlotsKept
    <1>11. NoStray'
        <2>1. \A d \in Callers : d # c => call'[d] = call[d] BY <1>1, GoesToIs
        <2> SUFFICES ASSUME NEW q \in Procs, proc'[q] = "run", q \notin killed', q \notin table'
                     PROVE  \E d \in Callers : call'[d].pc = "run" /\ call'[d].ses = q
            BY DEF NoStray
        <2>2. proc[q] = "run" /\ q \notin killed /\ q \notin table BY <1>2 DEF procVars
        <2>3. PICK d \in Callers : call[d].pc = "run" /\ call[d].ses = q BY <2>2 DEF NoStray
        <2> QED BY <2>1, <2>3
    <1> QED BY <1>4, <1>7, <1>8, <1>9, <1>10, <1>11

\* The lock is taken: idle sessions are dropped, at most one of them with a kill to wait for.
LEMMA AcquireKeeps == ASSUME ExecInv, NEW c \in Callers, Acquire(c) PROVE ExecInv'
    <1>1. /\ owner = NoCaller /\ lockq # <<>> /\ Head(lockq) = c /\ lockq' = Tail(lockq) /\ call[c].pc = "lock"
          /\ UNCHANGED <<procVars, buf, reader, reported>>
        BY DEF Acquire
    <1>2. table \in SUBSET Procs BY DEF ExecInv, ExecTyped
    <1>3. CASE Served(c, table) BY <1>1, <1>3, ServedKeeps
    <1>4. ASSUME NEW p \in Stale, proc[p] = "exit", Served(c, table \ {p}) PROVE ExecInv'
        BY <1>1, <1>4, ServedKeeps
    <1>5. ASSUME NEW p \in Stale, proc[p] = "run", Kill(p), table' = table \ {p}, owner' = c,
                 call' = [call EXCEPT ![c].pc = "cleanup", ![c].drop = p]
          PROVE  ExecInv'
        <2> DEFINE r == [call[c] EXCEPT !.pc = "cleanup", !.drop = p]
        <2> USE DEF ExecInv
        <2>1. p \in table /\ p \in Procs BY <1>2 DEF Stale
        <2>2. call[c] \in CallRecords BY DEF ExecTyped
        <2>3. r \in CallRecords /\ r.pc = "cleanup" /\ r.op = call[c].op /\ r.ses = call[c].ses
            BY <2>1, <2>2, ExecNumbers DEF CallRecords, ExecPCs
        <2>4. GoesTo(c, r) BY <1>5, <2>3 DEF GoesTo
        <2> HIDE DEF r
        <2>5. killed \subseteq killed' /\ killed' \in SUBSET Procs /\ p \in killed' BY <1>5, <2>1, KillIs
        <2>6. LockQueued' /\ lockq' \in Seq(Callers) BY <1>1, <2>3, <2>4, QueuePassed DEF Queueing
        <2>7. Onward BY <1>1 DEF Onward, procVars
        <2>8. call[c].op # "start" => call[c].ses \in Procs /\ reader[call[c].ses] # "none" BY <1>1 DEF CallsKnow
        <2>9. Knows(c, r) BY <1>1, <1>5, <2>3, <2>8 DEF Knows, Holding
        <2>10. CallsKnow' BY <1>1, <1>5, <2>4, <2>7, <2>9, CallsKnowNext
        <2>11. ExecTyped' BY <1>1, <1>5, <2>4, <2>5, <2>6, GoesToIs DEF ExecTyped, procVars
        <2>12. PipesKept' BY <1>1, <1>5 DEF PipesKept, procVars
        <2>13. SlotsKept'
            <3>1. Cardinality(table) \in Nat /\ Cardinality(table \ {p}) \in Nat /\ Cardinality(table \ {p}) <= Cardinality(table)
                BY <1>2, TableSize
            <3> QED BY <1>5, <3>1, ExecAssumption DEF SlotsKept
        <2>14. NoStray'
            <3>1. \A d \in Callers : d # c => call'[d] = call[d] BY <2>4, GoesToIs
            <3> SUFFICES ASSUME NEW q \in Procs, proc'[q] = "run", q \notin killed', q \notin table'
                         PROVE  \E d \in Callers : call'[d].pc = "run" /\ call'[d].ses = q
                BY DEF NoStray
            <3>2. proc[q] = "run" /\ q \notin killed /\ q \notin table BY <1>1, <1>5, <2>5 DEF procVars
            <3>3. PICK d \in Callers : call[d].pc = "run" /\ call[d].ses = q BY <3>2 DEF NoStray
            <3> QED BY <1>1, <3>1, <3>3
        <2> QED BY <2>6, <2>10, <2>11, <2>12, <2>13, <2>14
    <1> QED BY <1>3, <1>4, <1>5 DEF Acquire

\* The idle process has been waited for.
LEMMA CleanedKeeps == ASSUME ExecInv, NEW c \in Callers, Cleaned(c) PROVE ExecInv'
    <1>1. call[c].pc = "cleanup" /\ Served(c, table) /\ UNCHANGED <<procVars, buf, reader, lockq, reported>> BY DEF Cleaned
    <1>2. owner = c BY <1>1 DEF ExecInv, CallsKnow
    <1> QED BY <1>1, <1>2, ServedKeeps

\* The process of a session is made under the lock, so the slot that was free still is.
LEMMA SpawnedKeeps == ASSUME ExecInv, NEW c \in Callers, Spawned(c) PROVE ExecInv'
    <1> USE DEF ExecInv
    <1>1. call[c].pc = "spawn" /\ UNCHANGED <<written, unread, buf, lockq, killed, reported>> BY DEF Spawned
    <1>2. owner = c /\ Cardinality(table) < MaxSlots BY <1>1 DEF CallsKnow
    <1>3. owner' = NoCaller BY <1>2 DEF Spawned
    <1>4. ASSUME NEW p \in Procs, Unused(p), proc' = [proc EXCEPT ![p] = "run"], pipe' = [pipe EXCEPT ![p] = "open"],
                 reader' = [reader EXCEPT ![p] = "on"], table' = table \cup {p},
                 call' = [call EXCEPT ![c].pc = "sleep", ![c].ses = p]
          PROVE  ExecInv'
        <2> DEFINE r == [call[c] EXCEPT !.pc = "sleep", !.ses = p]
        <2>1. call[c] \in CallRecords /\ proc[p] = "none" BY <1>4 DEF ExecTyped, Unused
        <2>2. r \in CallRecords /\ r.pc = "sleep" /\ r.ses = p BY <2>1, ExecNumbers DEF CallRecords, ExecPCs
        <2>3. GoesTo(c, r) BY <1>4, <2>2 DEF GoesTo
        <2> HIDE DEF r
        <2>4. LockQueued' /\ lockq' \in Seq(Callers) BY <1>1, <2>2, <2>3, QueueStays DEF Queueing
        <2>5. Onward BY <1>4, <2>1 DEF Onward, ExecTyped
        <2>6. Knows(c, r) BY <1>3, <1>4, <2>2, ExecNumbers DEF Knows, Holding, ExecTyped
        <2>7. CallsKnow' BY <1>2, <1>3, <2>3, <2>5, <2>6, CallsKnowNext
        <2>8. ExecTyped' BY <1>1, <1>3, <1>4, <2>3, <2>4, GoesToIs DEF ExecTyped
        <2>9. PipesKept' BY <1>1, <1>4, <2>1 DEF PipesKept, ExecTyped
        <2>10. SlotsKept'
            <3>1. table \in SUBSET Procs /\ table \in SUBSET table BY DEF ExecTyped
            <3>2. Cardinality(table) \in Nat BY <3>1, TableSize
            <3>3. Cardinality(table \cup {p}) <= Cardinality(table) + 1 BY <3>1, TableSize
            <3>4. table \cup {p} \in SUBSET Procs BY <3>1
            <3>5. table \cup {p} \in SUBSET (table \cup {p}) OBVIOUS
            <3>6. Cardinality(table \cup {p}) \in Nat BY <3>4, <3>5, TableSize
            <3> QED BY <1>2, <1>4, <3>2, <3>3, <3>6, ExecAssumption DEF SlotsKept
        <2>11. NoStray'
            <3>1. \A d \in Callers : d # c => call'[d] = call[d] BY <2>3, GoesToIs
            <3> SUFFICES ASSUME NEW q \in Procs, proc'[q] = "run", q \notin killed', q \notin table'
                         PROVE  \E d \in Callers : call'[d].pc = "run" /\ call'[d].ses = q
                BY DEF NoStray
            <3>2. q # p /\ proc[q] = "run" /\ q \notin killed /\ q \notin table BY <1>1, <1>4 DEF ExecTyped
            <3>3. PICK d \in Callers : call[d].pc = "run" /\ call[d].ses = q BY <3>2 DEF NoStray
            <3> QED BY <1>1, <3>1, <3>3
        <2> QED BY <2>4, <2>7, <2>8, <2>9, <2>10, <2>11
    <1>5. ASSUME Return(c), UNCHANGED <<proc, pipe, reader, table>> PROVE ExecInv'
        <2>1. GoesTo(c, Over) /\ Over.pc = "over" BY <1>5, ReturnIs
        <2>2. LockQueued' /\ lockq' \in Seq(Callers) BY <1>1, <2>1, QueueStays DEF Queueing
        <2>3. Onward BY <1>5 DEF Onward
        <2>4. Knows(c, Over) BY <1>3, <2>1, ExecNumbers DEF Knows, Holding
        <2>5. CallsKnow' BY <1>2, <1>3, <2>1, <2>3, <2>4, CallsKnowNext
        <2>6. ExecTyped' BY <1>1, <1>3, <1>5, <2>1, <2>2, GoesToIs DEF ExecTyped
        <2>7. PipesKept' /\ SlotsKept' BY <1>1, <1>5 DEF PipesKept, SlotsKept
        <2>8. NoStray' BY <1>1, <1>5, <2>1, StrayStill
        <2> QED BY <2>2, <2>5, <2>6, <2>7, <2>8
    <1> QED BY <1>4, <1>5 DEF Spawned

\* The session of a process that has ended leaves the table.
LEMMA PopKeeps == ASSUME ExecInv, NEW c \in Callers, Pop(c) PROVE ExecInv'
    <1> USE DEF ExecInv
    <1>1. /\ owner = NoCaller /\ lockq # <<>> /\ Head(lockq) = c /\ lockq' = Tail(lockq) /\ call[c].pc = "pop"
          /\ table' = table \ {call[c].ses} /\ UNCHANGED <<procVars, buf, reader, owner, killed, reported>>
        BY DEF Pop
    <1>2. GoesTo(c, Over) /\ Over.pc = "over" BY ReturnIs DEF Pop
    <1>3. call[c].ses \in Procs /\ proc[call[c].ses] = "exit" BY <1>1 DEF CallsKnow
    <1>4. LockQueued' /\ lockq' \in Seq(Callers) BY <1>1, <1>2, QueuePassed DEF Queueing
    <1>5. Onward BY <1>1 DEF Onward, procVars
    <1>6. Knows(c, Over) BY <1>1, <1>2, ExecNumbers DEF Knows, Holding
    <1>7. CallsKnow' BY <1>1, <1>2, <1>5, <1>6, CallsKnowNext
    <1>8. ExecTyped' BY <1>1, <1>2, <1>4, GoesToIs DEF ExecTyped, procVars
    <1>9. PipesKept' BY <1>1 DEF PipesKept, procVars
    <1>10. SlotsKept'
        <2>1. table \in SUBSET Procs /\ table' \in SUBSET table BY <1>1 DEF ExecTyped
        <2>2. Cardinality(table) \in Nat /\ Cardinality(table') \in Nat /\ Cardinality(table') <= Cardinality(table)
            BY <2>1, TableSize
        <2> QED BY <2>2, ExecAssumption DEF SlotsKept
    <1>11. NoStray'
        <2>1. \A d \in Callers : d # c => call'[d] = call[d] BY <1>2, GoesToIs
        <2> SUFFICES ASSUME NEW q \in Procs, proc'[q] = "run", q \notin killed', q \notin table'
                     PROVE  \E d \in Callers : call'[d].pc = "run" /\ call'[d].ses = q
            BY DEF NoStray
        <2>2. proc[q] = "run" /\ q \notin killed /\ q \notin table BY <1>1, <1>3 DEF procVars
        <2>3. PICK d \in Callers : call[d].pc = "run" /\ call[d].ses = q BY <2>2 DEF NoStray
        <2> QED BY <1>1, <2>1, <2>3
    <1> QED BY <1>4, <1>7, <1>8, <1>9, <1>10, <1>11

\* A cancelled call leaves its place in the queue, and its command is killed.
LEMMA CancelledKeeps == ASSUME ExecInv, NEW c \in Callers, Cancelled(c) PROVE ExecInv'
    <1> DEFINE p == call[c].ses
    <1> USE DEF ExecInv
    <1>1. /\ call[c].pc \notin {"new", "over"} /\ StopWaiting(c) /\ UNCHANGED <<procVars, buf, table, reported>>
          /\ owner' = IF owner = c THEN NoCaller ELSE owner
          /\ reader' = IF call[c].pc = "drain" /\ reader[p] = "on" THEN [reader EXCEPT ![p] = "cut"] ELSE reader
        BY DEF Cancelled
    <1>2. \E r : /\ GoesTo(c, r) /\ r.pc \in {"over", "runkill"} /\ (r.pc = "runkill" => call[c].pc = "run" /\ r.ses = p)
                 /\ killed \subseteq killed' /\ killed' \in SUBSET Procs
                 /\ call[c].pc = "run" /\ proc[p] = "run" => p \in killed'
        <2>1. CASE call[c].pc = "run"
            <3>1. p \in Procs BY <2>1 DEF CallsKnow
            <3>2. Kill(p) /\ Goto(c, "runkill") BY <2>1 DEF Cancelled
            <3>3. \E r : GoesTo(c, r) /\ r.pc = "runkill" /\ r.ses = p BY <3>2, GotoIs DEF ExecPCs
            <3>4. killed \subseteq killed' /\ killed' \in SUBSET Procs /\ (proc[p] = "run" => p \in killed')
                BY <3>1, <3>2, KillIs
            <3> QED BY <2>1, <3>3, <3>4
        <2>2. CASE call[c].pc # "run"
            <3>1. Return(c) /\ UNCHANGED killed BY <2>2 DEF Cancelled
            <3>2. GoesTo(c, Over) /\ Over.pc = "over" BY <3>1, ReturnIs
            <3>3. killed \subseteq killed' /\ killed' \in SUBSET Procs BY <3>1 DEF ExecTyped
            <3> QED BY <2>2, <3>2, <3>3
        <2> QED BY <2>1, <2>2
    <1>3. PICK r : /\ GoesTo(c, r) /\ r.pc \in {"over", "runkill"} /\ (r.pc = "runkill" => call[c].pc = "run" /\ r.ses = p)
                   /\ killed \subseteq killed' /\ killed' \in SUBSET Procs
                   /\ call[c].pc = "run" /\ proc[p] = "run" => p \in killed'
        BY <1>2
    <1>4. call[c].pc = "drain" => p \in Procs BY DEF CallsKnow
    <1>5. call[c].pc = "run" => p \in Procs /\ proc[p] # "none" BY DEF CallsKnow
    <1>6. call[c].pc = "run" => owner # c BY DEF CallsKnow
    <1> HIDE DEF p
    <1>7. LockQueued' /\ lockq' \in Seq(Callers) BY <1>1, <1>3, QueueGivenUp DEF Queueing
    <1>8. reader' = reader \/ (p \in Procs /\ reader[p] = "on" /\ reader' = [reader EXCEPT ![p] = "cut"]) BY <1>1, <1>4
    <1>9. Onward
        <2>1. UNCHANGED proc BY <1>1 DEF procVars
        <2>2. \A q \in Procs : reader[q] # "none" => reader'[q] # "none" BY <1>8 DEF ExecTyped
        <2> QED BY <2>1, <2>2 DEF Onward
    <1>10. owner' # c BY <1>1, ExecNumbers
    <1>11. Knows(c, r) BY <1>1, <1>3, <1>5, <1>10 DEF Knows, Holding, procVars
    <1>12. owner' = owner \/ (owner \in {NoCaller, c} /\ owner' \in {NoCaller, c}) BY <1>1
    <1>13. CallsKnow' BY <1>1, <1>3, <1>9, <1>11, <1>12, CallsKnowNext
    <1>14. ExecTyped'
        <2>1. reader' \in [Procs -> {"none", "on", "eof", "cut"}] BY <1>8 DEF ExecTyped
        <2>2. owner' \in Callers \cup {NoCaller} BY <1>1 DEF ExecTyped
        <2> QED BY <1>1, <1>3, <1>7, <2>1, <2>2, GoesToIs DEF ExecTyped, procVars
    <1>15. PipesKept' BY <1>1, <1>8 DEF PipesKept, ExecTyped, procVars
    <1>16. SlotsKept' BY <1>1 DEF SlotsKept
    <1>17. NoStray'
        <2>1. \A d \in Callers : d # c => call'[d] = call[d] BY <1>3, GoesToIs
        <2> SUFFICES ASSUME NEW q \in Procs, proc'[q] = "run", q \notin killed', q \notin table'
                     PROVE  \E d \in Callers : call'[d].pc = "run" /\ call'[d].ses = q
            BY DEF NoStray
        <2>2. proc[q] = "run" /\ q \notin killed /\ q \notin table BY <1>1, <1>3 DEF procVars
        <2>3. PICK d \in Callers : call[d].pc = "run" /\ call[d].ses = q BY <2>2 DEF NoStray
        <2>4. d # c BY <1>3, <2>2, <2>3 DEF p
        <2> QED BY <2>1, <2>3, <2>4
    <1> QED BY <1>7, <1>13, <1>14, <1>15, <1>16, <1>17

\* Sessions stay within their limit, no process runs that nobody lists or waits for, and who is
\* told that a session has ended has all it wrote, unless the reading was cut off.
THEOREM ExecKept == ExecSpec => []ExecSound
    <1>1. ExecInit => ExecInv
        <2> SUFFICES ASSUME ExecInit PROVE ExecInv OBVIOUS
        <2> USE ExecNumbers, ExecAssumption DEF ExecInit
        <2>1. ExecTyped BY DEF ExecTyped
        <2>2. PipesKept BY DEF PipesKept
        <2>3. CallsKnow
            <3>1. \A c \in Callers : call[c].pc = "new" /\ owner # c BY DEF NewCall
            <3> QED BY <3>1 DEF CallsKnow
        <2>4. LockQueued
            <3>1. \A c \in Callers : call[c].pc = "new" BY DEF NewCall
            <3>2. lockq = <<>> /\ DOMAIN <<>> = {} OBVIOUS
            <3> QED BY <3>1, <3>2 DEF LockQueued, Among, Once
        <2>5. SlotsKept BY FS_EmptySet DEF SlotsKept
        <2>6. NoStray BY DEF NoStray
        <2> QED BY <2>1, <2>2, <2>3, <2>4, <2>5, <2>6 DEF ExecInv
    <1>2. ExecInv /\ [ExecNext]_execVars => ExecInv'
        <2> SUFFICES ASSUME ExecInv, [ExecNext]_execVars PROVE ExecInv' OBVIOUS
        <2>1. ASSUME NEW p \in Procs, ProcWrites(p) \/ ProcEnds(p) \/ ChildEnds(p) \/ ReadStream(p) PROVE ExecInv'
            BY <2>1, ProcsKeep
        <2>2. ASSUME NEW c \in Callers, CallStep(c) PROVE ExecInv'
            BY <2>2, AcquireKeeps, CleanedKeeps, SpawnedKeeps, PollsKeep, PopKeeps, CommandsKeep DEF CallStep
        <2>3. ASSUME NEW c \in Callers, Start(c) \/ Fed(c) \/ Cancelled(c) PROVE ExecInv'
            BY <2>3, StartKeeps, PollsKeep, CancelledKeeps
        <2>4. ASSUME NEW c \in Callers, NEW p \in Procs,
                     RunCommand(c, p) \/ \E op \in {"poll", "chars", "term"} : Write(c, p, op)
              PROVE  ExecInv'
            BY <2>4, RunKeeps, WriteKeeps
        <2>5. CASE UNCHANGED execVars
            BY <2>5 DEF execVars, ExecInv, ExecTyped, PipesKept, CallsKnow, LockQueued, Once, Among, SlotsKept, NoStray
        <2> QED BY <2>1, <2>2, <2>3, <2>4, <2>5 DEF ExecNext
    <1>3. ExecInv => ExecSound
        <2> SUFFICES ASSUME ExecInv PROVE ExecSound OBVIOUS
        <2> USE DEF ExecInv
        <2>1. ExecTypeOK
            <3>1. table \subseteq {p \in Procs : reader[p] # "none"} BY DEF PipesKept, ExecTyped
            <3>2. owner # NoCaller => call[owner].pc \in {"cleanup", "spawn"} BY DEF CallsKnow, ExecTyped
            <3>3. \A c \in Callers : (\E i \in DOMAIN lockq : lockq[i] = c) <=> call[c].pc \in {"lock", "pop"}
                BY DEF LockQueued, Among
            <3> QED BY <3>1, <3>2, <3>3 DEF ExecTypeOK, ExecTyped, PipesKept
        <2>2. EndMeansAll BY DEF EndMeansAll, PipesKept, ExecTyped
        <2> QED BY <2>1, <2>2 DEF ExecSound
    <1> QED BY <1>1, <1>2, <1>3, PTL DEF ExecSpec
----------------------------------------------------------------------------
(* The history of memory: what Dream has read and what the file still has.                     *)

\* What the variables are, and that entries, batches and what is read have been recorded.
HistoryTyped ==
    /\ hist \in Seq([c : Nat \ {0}, e : 1..MaxWritten]) /\ \A i \in DOMAIN hist : hist[i].e <= recorded
    /\ counter \in Nat /\ dreamed \in Nat /\ recorded \in 0..MaxWritten /\ read \in SUBSET (1..recorded)
    /\ run \in [Runs -> [phase : {"off", "analyse", "edit"}, batch : SUBSET (1..recorded), end : Nat]]
    /\ \A r \in Runs : (run[r].phase = "off") = (run[r].batch = {})
    /\ halfway \in BOOLEAN /\ overrun \in BOOLEAN

\* Without a kill halfway the file is the end of all that was recorded, under cursors that count it.
Lined ==
    halfway \/ /\ \A i \in DOMAIN hist : hist[i].c = hist[i].e /\ hist[i].e + Len(hist) = recorded + i
               /\ counter \in {0, recorded} /\ (recorded > 0 => hist # <<>>)
               /\ dreamed <= recorded /\ \A r \in Runs : run[r].end <= recorded

\* Up to the cursor that a run will set all is read, or is in its batch.
BatchesCover ==
    halfway \/ overrun \/ \A r \in Runs : run[r].phase # "off" =>
        \A e \in 1..recorded : e <= run[r].end => e \in read \/ e \in run[r].batch

HistoryInv == HistoryTyped /\ Lined /\ BatchesCover /\ NoEntrySkipped

\* What an entry of the file is.
LEMMA EntriesAre ==
    ASSUME HistoryTyped
    PROVE  /\ Len(hist) \in Nat /\ DOMAIN hist = 1..Len(hist) /\ recorded \in Nat /\ MaxWritten \in Nat
           /\ \A i \in DOMAIN hist : /\ i \in Nat /\ hist[i].e \in 1..recorded /\ hist[i].e \in Nat
                                     /\ hist[i].c \in Nat /\ hist[i].c # 0
    <1>1. hist \in Seq([c : Nat \ {0}, e : 1..MaxWritten]) /\ MaxWritten \in Nat /\ recorded \in Nat
        BY HistoryAssumption DEF HistoryTyped
    <1>2. \A i \in DOMAIN hist : hist[i] \in [c : Nat \ {0}, e : 1..MaxWritten]
        <2> DEFINE R == [c : Nat \ {0}, e : 1..MaxWritten]
        <2>1. hist \in Seq(R) BY <1>1
        <2> HIDE DEF R
        <2>2. \A i \in DOMAIN hist : hist[i] \in R BY <2>1
        <2> QED BY <2>2 DEF R
    <1>3. Len(hist) \in Nat /\ DOMAIN hist = 1..Len(hist) BY <1>1
    <1>4. \A i \in DOMAIN hist : i \in Nat BY <1>3
    <1>5. \A i \in DOMAIN hist : hist[i].c \in Nat /\ hist[i].c # 0 /\ hist[i].e \in Nat /\ hist[i].e >= 1
        BY <1>1, <1>2
    <1>6. \A i \in DOMAIN hist : hist[i].e <= recorded BY DEF HistoryTyped
    <1> QED BY <1>1, <1>3, <1>4, <1>5, <1>6

\* The next cursor is a new one; without a kill halfway it counts the entries.
LEMMA NextIs ==
    ASSUME HistoryTyped PROVE NextCursor \in Nat \ {0} /\ (Lined /\ ~halfway => NextCursor = recorded + 1)
    <1>1. CASE counter # 0
        BY <1>1 DEF NextCursor, HistoryTyped, Lined
    <1>2. CASE counter = 0 /\ hist = <<>>
        BY <1>2 DEF NextCursor, HistoryTyped, Lined
    <1>3. CASE counter = 0 /\ hist # <<>>
        <2>1. Len(hist) \in DOMAIN hist /\ Len(hist) \in Nat BY <1>3 DEF HistoryTyped
        <2>2. hist[Len(hist)].c \in Nat \ {0} /\ hist[Len(hist)].e \in Nat /\ recorded \in Nat BY <2>1, EntriesAre
        <2>3. NextCursor = hist[Len(hist)].c + 1 BY <1>3 DEF NextCursor, Last
        <2> QED BY <2>1, <2>2, <2>3 DEF Lined
    <1> QED BY <1>1, <1>2, <1>3

\* An entry at the end of the file.
LEMMA Appended ==
    ASSUME HistoryTyped, recorded < MaxWritten
    PROVE  LET h == Append(hist, Entry) IN
           /\ h \in Seq([c : Nat \ {0}, e : 1..MaxWritten]) /\ \A i \in DOMAIN h : h[i].e <= recorded + 1
           /\ Len(h) = Len(hist) + 1 /\ h[Len(h)] = Entry /\ Len(h) \in DOMAIN h
           /\ \A i \in DOMAIN hist : i \in DOMAIN h /\ h[i] = hist[i]
           /\ DOMAIN h = DOMAIN hist \cup {Len(h)}
    <1> DEFINE h == Append(hist, Entry)
    <1>1. recorded \in Nat /\ recorded + 1 \in 1..MaxWritten /\ MaxWritten \in Nat
        BY HistoryAssumption DEF HistoryTyped
    <1>2. Entry \in [c : Nat \ {0}, e : 1..MaxWritten] /\ Entry.e = recorded + 1 BY <1>1, NextIs DEF Entry
    <1> HIDE DEF Entry
    <1>3. hist \in Seq([c : Nat \ {0}, e : 1..MaxWritten]) BY DEF HistoryTyped
    <1>4. /\ h \in Seq([c : Nat \ {0}, e : 1..MaxWritten]) /\ Len(h) = Len(hist) + 1 /\ Len(hist) \in Nat
          /\ DOMAIN hist = 1..Len(hist) /\ DOMAIN h = 1..Len(hist) + 1 /\ h[Len(hist) + 1] = Entry
          /\ \A i \in 1..Len(hist) : h[i] = hist[i]
        BY <1>2, <1>3
    <1> HIDE DEF h
    <1>5. \A i \in DOMAIN hist : i \in DOMAIN h /\ h[i] = hist[i] BY <1>4
    <1>6. DOMAIN h = DOMAIN hist \cup {Len(h)} BY SMTT(30), <1>4
    <1>7. \A i \in DOMAIN h : h[i].e <= recorded + 1
        <2>1. \A i \in DOMAIN hist : hist[i].e \in Nat /\ hist[i].e <= recorded BY EntriesAre
        <2>2. \A i \in DOMAIN hist : h[i].e <= recorded + 1 BY <1>1, <1>5, <2>1
        <2>3. h[Len(h)].e <= recorded + 1 BY <1>1, <1>2, <1>4
        <2> QED BY <1>6, <2>2, <2>3
    <1> QED BY <1>4, <1>5, <1>6, <1>7 DEF h

\* An entry is recorded, and its number counted or not.
LEMMA AppendsKeep ==
    ASSUME HistoryInv, AppendHistory \/ AppendKilled
    PROVE  HistoryInv'
    <1> DEFINE h == Append(hist, Entry)
    <1>1. /\ recorded < MaxWritten /\ hist' = h /\ recorded' = recorded + 1
          /\ UNCHANGED <<dreamed, read, overrun>> /\ (counter' = Entry.c \/ counter' = counter)
          /\ run' = run \/ run' = [r \in Runs |-> NoRun]
          /\ halfway' = halfway \/ halfway' = (counter # 0)
          /\ ~halfway' => ~halfway /\ (counter' = Entry.c \/ (counter = 0 /\ counter' = 0))
        <2>1. CASE AppendHistory BY <2>1 DEF AppendHistory
        <2>2. CASE AppendKilled
            <3>1. ~halfway /\ halfway' = (counter # 0) /\ counter' = counter BY <2>2 DEF AppendKilled
            <3>2. ~halfway' => counter = 0 BY <3>1
            <3> QED BY <2>2, <3>1, <3>2 DEF AppendKilled
        <2> QED BY <2>1, <2>2
    <1>2. HistoryTyped /\ Lined /\ BatchesCover /\ NoEntrySkipped BY DEF HistoryInv
    <1>3. recorded \in Nat /\ MaxWritten \in Nat BY <1>2, HistoryAssumption DEF HistoryTyped
    <1>4. /\ h \in Seq([c : Nat \ {0}, e : 1..MaxWritten]) /\ \A i \in DOMAIN h : h[i].e <= recorded + 1
          /\ Len(h) = Len(hist) + 1 /\ h[Len(h)] = Entry /\ Len(h) \in DOMAIN h
          /\ \A i \in DOMAIN hist : i \in DOMAIN h /\ h[i] = hist[i]
          /\ DOMAIN h = DOMAIN hist \cup {Len(h)}
        BY <1>1, <1>2, Appended
    <1>5. Entry.e = recorded + 1 /\ Entry.c \in Nat \ {0} /\ (~halfway => Entry.c = recorded + 1)
        BY <1>2, NextIs DEF Entry
    <1>6. Len(hist) \in Nat BY <1>2 DEF HistoryTyped
    <1> HIDE DEF h, Entry
    <1>7. HistoryTyped'
        <2>1. recorded' \in 0..MaxWritten /\ 1..recorded \subseteq 1..recorded' BY <1>1, <1>3
        <2>2. run' \in [Runs -> [phase : {"off", "analyse", "edit"}, batch : SUBSET (1..recorded'), end : Nat]]
            BY <1>1, <1>2, <2>1 DEF HistoryTyped, NoRun
        <2>3. \A r \in Runs : (run'[r].phase = "off") = (run'[r].batch = {}) BY <1>1, <1>2 DEF HistoryTyped, NoRun
        <2>4. read' \in SUBSET (1..recorded') /\ dreamed' \in Nat /\ overrun' \in BOOLEAN BY <1>1, <1>2, <2>1 DEF HistoryTyped
        <2>5. halfway' \in BOOLEAN BY <1>1, <1>2 DEF HistoryTyped
        <2>6. counter' \in Nat BY <1>1, <1>2, <1>5 DEF HistoryTyped
        <2> QED BY <1>1, <1>4, <2>1, <2>2, <2>3, <2>4, <2>5, <2>6 DEF HistoryTyped
    <1>8. Lined'
        <2> SUFFICES ASSUME ~halfway'
                     PROVE  /\ \A i \in DOMAIN h : h[i].c = h[i].e /\ h[i].e + Len(h) = recorded + 1 + i
                            /\ counter' \in {0, recorded + 1} /\ h # <<>>
                            /\ dreamed <= recorded + 1 /\ \A r \in Runs : run'[r].end <= recorded + 1
            BY <1>1 DEF Lined
        <2>1. ~halfway BY <1>1
        <2>2. counter' \in {0, recorded + 1} BY <1>1, <1>5, <2>1
        <2>3. \A i \in DOMAIN hist : hist[i].c = hist[i].e /\ hist[i].e + Len(hist) = recorded + i BY <1>2, <2>1 DEF Lined
        <2>4. \A i \in DOMAIN hist : hist[i].e \in Nat /\ i \in Nat BY <1>2, EntriesAre
        <2>5. ASSUME NEW i \in DOMAIN hist PROVE h[i].c = h[i].e /\ h[i].e + Len(h) = recorded + 1 + i
            <3>1. h[i] = hist[i] /\ Len(h) = Len(hist) + 1 BY <1>4
            <3>2. hist[i].c = hist[i].e /\ hist[i].e + Len(hist) = recorded + i BY <2>3
            <3>3. hist[i].e + (Len(hist) + 1) = recorded + 1 + i BY SMTT(30), <1>3, <1>6, <2>4, <3>2
            <3> QED BY <3>1, <3>2, <3>3
        <2>6. h[Len(h)].c = h[Len(h)].e /\ h[Len(h)].e + Len(h) = recorded + 1 + Len(h) BY <1>4, <1>5, <2>1
        <2>7. h # <<>> BY <1>4
        <2>8. dreamed <= recorded + 1 BY <1>2, <1>3, <2>1 DEF Lined, HistoryTyped
        <2>9. \A r \in Runs : run[r].end <= recorded + 1 BY <1>2, <1>3, <2>1 DEF Lined, HistoryTyped
        <2>10. \A r \in Runs : run'[r].end <= recorded + 1
            BY <1>1, <1>3, <2>9 DEF NoRun
        <2> QED BY <1>4, <2>2, <2>5, <2>6, <2>7, <2>8, <2>10
    <1>9. BatchesCover'
        <2> SUFFICES ASSUME ~halfway', ~overrun', NEW r \in Runs, run'[r].phase # "off", NEW e \in 1..recorded', e <= run'[r].end
                     PROVE  e \in read' \/ e \in run'[r].batch
            BY DEF BatchesCover
        <2>1. run' = run BY <1>1 DEF NoRun
        <2>2. run[r].end <= recorded /\ run[r].end \in Nat BY <1>1, <1>2 DEF Lined, HistoryTyped
        <2>3. e \in 1..recorded BY <1>1, <1>3, <2>1, <2>2
        <2> QED BY <1>1, <1>2, <2>1, <2>3 DEF BatchesCover
    <1>10. NoEntrySkipped'
        <2> SUFFICES ASSUME ~halfway', ~overrun', NEW e \in 1..recorded + 1, e \notin read
                     PROVE  \E i \in DOMAIN h : h[i].e = e /\ h[i].c > dreamed
            BY <1>1 DEF NoEntrySkipped
        <2>1. CASE e = recorded + 1
            <3>1. dreamed <= recorded /\ dreamed \in Nat BY <1>1, <1>2 DEF Lined, HistoryTyped
            <3>2. h[Len(h)].e = e /\ h[Len(h)].c > dreamed BY <1>1, <1>3, <1>4, <1>5, <2>1, <3>1
            <3> QED BY <1>4, <3>2
        <2>2. CASE e # recorded + 1
            <3>1. e \in 1..recorded BY <1>3, <2>2
            <3>2. PICK i \in DOMAIN hist : hist[i].e = e /\ hist[i].c > dreamed BY <1>1, <1>2, <3>1 DEF NoEntrySkipped
            <3> QED BY <1>4, <3>2
        <2> QED BY <2>1, <2>2
    <1> QED BY <1>7, <1>8, <1>9, <1>10 DEF HistoryInv

\* The places of a batch: nobody older is left out, and there are some if anything is unread.
LEMMA OldestAre ==
    ASSUME HistoryTyped, NEW last \in Oldest(Unread(dreamed)), NEW i \in Unread(dreamed), i <= last
    PROVE  i \in Oldest(Unread(dreamed))
    <1> DEFINE U == Unread(dreamed)
               Upto(n) == {j \in U : j <= n}
    <1>1. U \subseteq 1..Len(hist) /\ Len(hist) \in Nat BY SMTT(30) DEF HistoryTyped, Unread
    <1>2. IsFiniteSet(1..Len(hist)) BY <1>1, FS_Interval
    <1>3. last \in U /\ Cardinality(Upto(last)) <= MaxBatch BY DEF Oldest
    <1>4. IsFiniteSet(Upto(last)) BY <1>1, <1>2, FS_Subset
    <1>5. i \in Nat /\ last \in Nat BY <1>1, <1>3
    <1>6. Upto(i) \subseteq Upto(last)
        <2> SUFFICES ASSUME NEW j \in U, j <= i PROVE j <= last OBVIOUS
        <2>1. j \in Nat BY <1>1
        <2> QED BY <1>5, <2>1
    <1>7. IsFiniteSet(Upto(i)) /\ Cardinality(Upto(i)) <= Cardinality(Upto(last)) BY <1>4, <1>6, FS_Subset
    <1>8. Cardinality(Upto(i)) \in Nat /\ Cardinality(Upto(last)) \in Nat BY <1>4, <1>7, FS_CardinalityType
    <1>9. Cardinality(Upto(i)) <= MaxBatch BY <1>3, <1>7, <1>8, HistoryAssumption
    <1> QED BY <1>9 DEF Oldest

\* A run takes its batch: what is older than its end is read or in it.
LEMMA DreamBeginKeeps == ASSUME HistoryInv, NEW r \in Runs, DreamBegin(r) PROVE HistoryInv'
    <1> DEFINE B == Oldest(Unread(dreamed))
    <1>1. PICK last \in B :
             /\ \A i \in B : i <= last
             /\ run' = [run EXCEPT ![r] = [phase |-> "analyse", batch |-> {hist[i].e : i \in B}, end |-> hist[last].c]]
        BY DEF DreamBegin
    <1>2. UNCHANGED <<hist, counter, dreamed, recorded, read, halfway, overrun>> BY DEF DreamBegin
    <1>3. HistoryTyped /\ Lined /\ BatchesCover /\ NoEntrySkipped BY DEF HistoryInv
    <1>4. B \subseteq Unread(dreamed) /\ Unread(dreamed) \subseteq DOMAIN hist BY DEF Oldest, Unread
    <1>5. \A i \in DOMAIN hist : hist[i].e \in 1..recorded /\ hist[i].c \in Nat /\ i \in Nat
        BY <1>3, EntriesAre
    <1>6. last \in DOMAIN hist BY <1>1, <1>4
    <1>7. {hist[i].e : i \in B} \subseteq 1..recorded /\ {hist[i].e : i \in B} # {} BY <1>1, <1>4, <1>5
    <1>8. HistoryTyped'
        <2>1. run' \in [Runs -> [phase : {"off", "analyse", "edit"}, batch : SUBSET (1..recorded), end : Nat]]
            BY <1>1, <1>3, <1>5, <1>6, <1>7 DEF HistoryTyped
        <2>2. \A q \in Runs : (run'[q].phase = "off") = (run'[q].batch = {})
            <3>1. \A q \in Runs : (run[q].phase = "off") = (run[q].batch = {}) BY <1>3 DEF HistoryTyped
            <3>2. run'[r].phase # "off" /\ run'[r].batch # {} BY <1>1, <1>3, <1>7 DEF HistoryTyped
            <3>3. \A q \in Runs : q # r => run'[q] = run[q] BY <1>1, <1>3 DEF HistoryTyped
            <3> QED BY <3>1, <3>2, <3>3
        <2> QED BY <1>2, <1>3, <2>1, <2>2 DEF HistoryTyped
    <1>9. Lined'
        <2>1. CASE halfway BY <1>2, <2>1 DEF Lined
        <2>2. CASE ~halfway
            <3>1. hist[last].c <= recorded BY <1>3, <1>5, <1>6, <2>2 DEF Lined
            <3>2. \A q \in Runs : run'[q].end <= recorded BY <1>1, <1>3, <2>2, <3>1 DEF Lined, HistoryTyped
            <3> QED BY <1>2, <1>3, <2>2, <3>2 DEF Lined
        <2> QED BY <2>1, <2>2
    <1>10. BatchesCover'
        <2> SUFFICES ASSUME ~halfway, ~overrun, NEW q \in Runs, run'[q].phase # "off", NEW e \in 1..recorded, e <= run'[q].end
                     PROVE  e \in read \/ e \in run'[q].batch
            BY <1>2 DEF BatchesCover
        <2>1. CASE q # r
            <3>1. run'[q] = run[q] BY <1>1, <2>1
            <3> QED BY <1>3, <3>1 DEF BatchesCover
        <2>2. CASE q = r
            <3>1. run'[q].end = hist[last].c /\ run'[q].batch = {hist[i].e : i \in B} BY <1>1, <1>3, <2>2 DEF HistoryTyped
            <3> SUFFICES ASSUME e \notin read PROVE e \in {hist[i].e : i \in B} BY <3>1
            <3>2. PICK i \in DOMAIN hist : hist[i].e = e /\ hist[i].c > dreamed BY <1>3 DEF NoEntrySkipped
            <3>3. /\ hist[i].c = hist[i].e /\ hist[i].e + Len(hist) = recorded + i
                  /\ hist[last].c = hist[last].e /\ hist[last].e + Len(hist) = recorded + last
                BY <1>3, <1>6 DEF Lined
            <3>4. recorded \in Nat /\ Len(hist) \in Nat BY <1>3 DEF HistoryTyped
            <3>5. i <= last BY <1>5, <1>6, <3>1, <3>2, <3>3, <3>4
            <3>6. i \in Unread(dreamed) BY <3>2 DEF Unread
            <3>7. i \in B BY <1>1, <1>3, <3>5, <3>6, OldestAre
            <3> QED BY <3>2, <3>7
        <2> QED BY <2>1, <2>2
    <1>11. NoEntrySkipped' BY <1>2, <1>3 DEF NoEntrySkipped
    <1> QED BY <1>8, <1>9, <1>10, <1>11 DEF HistoryInv

\* The analysis is done, or failed.
LEMMA AnalysedKeeps == ASSUME HistoryInv, NEW r \in Runs, Analysed(r) PROVE HistoryInv'
    <1>1. /\ UNCHANGED <<hist, counter, dreamed, recorded, read, halfway, overrun>> /\ run[r].phase = "analyse"
          /\ run' = [run EXCEPT ![r].phase = "edit"] \/ run' = [run EXCEPT ![r] = NoRun]
        BY DEF Analysed
    <1>2. HistoryTyped /\ Lined /\ BatchesCover /\ NoEntrySkipped BY DEF HistoryInv
    <1>3. run \in [Runs -> [phase : {"off", "analyse", "edit"}, batch : SUBSET (1..recorded), end : Nat]] BY <1>2 DEF HistoryTyped
    <1>4. /\ run' \in [Runs -> [phase : {"off", "analyse", "edit"}, batch : SUBSET (1..recorded), end : Nat]]
          /\ \A q \in Runs : (run'[q].phase = "off") = (run'[q].batch = {})
        <2>1. \A q \in Runs : (run[q].phase = "off") = (run[q].batch = {}) BY <1>2 DEF HistoryTyped
        <2>2. CASE run' = [run EXCEPT ![r].phase = "edit"] BY <1>1, <1>3, <2>1, <2>2
        <2>3. CASE run' = [run EXCEPT ![r] = NoRun]
            <3>1. NoRun \in [phase : {"off", "analyse", "edit"}, batch : SUBSET (1..recorded), end : Nat] BY DEF NoRun
            <3>2. NoRun.phase = "off" /\ NoRun.batch = {} BY DEF NoRun
            <3> QED BY <1>3, <2>1, <2>3, <3>1, <3>2
        <2> QED BY <1>1, <2>2, <2>3
    <1>5. \A q \in Runs : run'[q] = run[q] \/ run'[q] = NoRun
                          \/ (run'[q].end = run[q].end /\ run'[q].batch = run[q].batch /\ run[q].phase # "off")
        BY <1>1, <1>2 DEF HistoryTyped
    <1>6. HistoryTyped' BY <1>1, <1>2, <1>4 DEF HistoryTyped
    <1>7. Lined'
        <2>1. 0 <= recorded BY <1>2 DEF HistoryTyped
        <2> QED BY <1>1, <1>2, <1>5, <2>1 DEF Lined, NoRun
    <1>8. BatchesCover' BY <1>1, <1>2, <1>5 DEF BatchesCover, NoRun
    <1>9. NoEntrySkipped' BY SMTT(30), <1>1, <1>2 DEF NoEntrySkipped
    <1> QED BY <1>6, <1>7, <1>8, <1>9 DEF HistoryInv

\* The end of the file that compaction keeps.
LEMMA LastOfIs ==
    ASSUME NEW S, NEW s \in Seq(S), NEW n \in Nat
    PROVE  /\ LastOf(s, n) \in Seq(S) /\ Len(LastOf(s, n)) = (IF Len(s) < n THEN Len(s) ELSE n)
           /\ \A i \in DOMAIN LastOf(s, n) :
                 /\ i + (Len(s) - Len(LastOf(s, n))) \in DOMAIN s
                 /\ LastOf(s, n)[i] = s[i + (Len(s) - Len(LastOf(s, n)))]
    <1> DEFINE k == IF Len(s) < n THEN 0 ELSE Len(s) - n
    <1>1. Len(s) \in Nat /\ DOMAIN s = 1..Len(s) /\ k \in Nat /\ k <= Len(s) OBVIOUS
    <1>2. Len(s) - k = IF Len(s) < n THEN Len(s) ELSE n BY <1>1
    <1>3. LastOf(s, n) = SubSeq(s, k + 1, Len(s)) BY DEF LastOf
    <1> HIDE DEF k
    <1>4. /\ SubSeq(s, k + 1, Len(s)) \in Seq(S) /\ Len(SubSeq(s, k + 1, Len(s))) = Len(s) - k
          /\ \A i \in 1..Len(s) - k : SubSeq(s, k + 1, Len(s))[i] = s[k + i]
        <2> DEFINE b == SubSeq(s, k + 1, Len(s))
        <2>1. k + 1 \in 1..Len(s) + 1 /\ k + 1 \in Int /\ Len(s) \in Int BY <1>1
        <2>2. b \in Seq(S) BY <1>1
        <2>3. Len(b) = Len(s) - k
            <3>1. Len(b) = IF k + 1 <= Len(s) THEN Len(s) - (k + 1) + 1 ELSE 0 BY <1>1
            <3> HIDE DEF b
            <3> DEFINE l == Len(s)
            <3>2. l \in Nat /\ k \in Nat /\ k <= l BY <1>1
            <3>3. Len(b) = IF k + 1 <= l THEN l - (k + 1) + 1 ELSE 0 BY <3>1
            <3> HIDE DEF l
            <3>4. Len(b) = l - k BY <3>2, <3>3
            <3> QED BY <3>4 DEF l
        <2>4. \A i \in 1..Len(s) - k : b[i] = s[k + i] BY <1>1
        <2> QED BY <2>2, <2>3, <2>4
    <1>5. DOMAIN SubSeq(s, k + 1, Len(s)) = 1..Len(s) - k
        <2> DEFINE b == SubSeq(s, k + 1, Len(s))
        <2>1. b \in Seq(S) /\ Len(b) = Len(s) - k BY <1>4
        <2> HIDE DEF b
        <2>2. DOMAIN b = 1..Len(b) BY <2>1
        <2>3. DOMAIN b = 1..Len(s) - k BY <2>1, <2>2
        <2> QED BY <2>3 DEF b
    <1>6. Len(s) - (Len(s) - k) = k BY <1>1
    <1>7. \A i \in 1..Len(s) - k : i + k \in DOMAIN s /\ k + i = i + k BY <1>1
    <1> QED BY <1>1, <1>2, <1>3, <1>4, <1>5, <1>6, <1>7

\* The unread entries from a place on are no more than all unread ones.
LEMMA UnreadFrom ==
    ASSUME HistoryTyped, Lined, ~halfway, NEW since \in Nat, NEW i \in DOMAIN hist, hist[i].c > since
    PROVE  Len(hist) - i + 1 <= Cardinality(Unread(since)) /\ Cardinality(Unread(since)) \in Nat
    <1>1. Len(hist) \in Nat /\ DOMAIN hist = 1..Len(hist) /\ i \in Nat BY EntriesAre
    <1>2. \A j \in DOMAIN hist : hist[j].c \in Nat /\ hist[j].e \in Nat /\ hist[j].c = hist[j].e
                                 /\ hist[j].e + Len(hist) = recorded + j /\ j \in Nat /\ recorded \in Nat
        BY EntriesAre DEF Lined
    <1>3. \A j \in i..Len(hist) : j \in DOMAIN hist /\ hist[j].c > since
        <2> SUFFICES ASSUME NEW j \in i..Len(hist) PROVE j \in DOMAIN hist /\ hist[j].c > since OBVIOUS
        <2>1. j \in DOMAIN hist /\ j >= i BY <1>1
        <2>2. hist[j].c >= hist[i].c BY SMTT(30), <1>1, <1>2, <2>1
        <2> QED BY <1>2, <2>1, <2>2
    <1>4. i..Len(hist) \subseteq Unread(since) BY <1>3 DEF Unread
    <1>5. IsFiniteSet(1..Len(hist)) BY <1>1, FS_Interval
    <1>6. IsFiniteSet(Unread(since)) BY <1>1, <1>5, FS_Subset DEF Unread
    <1>7. Cardinality(i..Len(hist)) <= Cardinality(Unread(since)) BY <1>4, <1>6, FS_Subset
    <1>8. Cardinality(i..Len(hist)) = Len(hist) - i + 1 BY <1>1, FS_Interval
    <1>9. Cardinality(Unread(since)) \in Nat BY <1>6, FS_CardinalityType
    <1> QED BY <1>7, <1>8, <1>9

\* A run ends: its batch is read, the cursor goes to its end, and what is cut off was read.
LEMMA EditedKeeps == ASSUME HistoryInv, NEW r \in Runs, Edited(r) PROVE HistoryInv'
    <1> DEFINE h == LastOf(hist, MaxHistory)
               d == Len(hist) - Len(h)
               end == run[r].end
    <1>1. /\ run[r].phase = "edit" /\ read' = read \cup run[r].batch /\ dreamed' = end /\ hist' = h
          /\ overrun' = (overrun \/ Cardinality(Unread(end)) > MaxHistory) /\ run' = [run EXCEPT ![r] = NoRun]
          /\ UNCHANGED <<counter, recorded, halfway>>
        BY DEF Edited, BatchEnd, Unread
    <1>2. HistoryTyped /\ Lined /\ BatchesCover /\ NoEntrySkipped BY DEF HistoryInv
    <1>3. end \in Nat /\ run[r].batch \in SUBSET (1..recorded) BY <1>2 DEF HistoryTyped
    <1>4. hist \in Seq([c : Nat \ {0}, e : 1..MaxWritten]) /\ MaxHistory \in Nat /\ MaxHistory # 0
        BY <1>2, HistoryAssumption DEF HistoryTyped
    <1>5. Len(hist) \in Nat /\ DOMAIN hist = 1..Len(hist) /\ recorded \in Nat BY <1>2, EntriesAre
    <1>6. /\ h \in Seq([c : Nat \ {0}, e : 1..MaxWritten]) /\ Len(h) = (IF Len(hist) < MaxHistory THEN Len(hist) ELSE MaxHistory)
          /\ \A i \in DOMAIN h : i + d \in DOMAIN hist /\ h[i] = hist[i + d]
        BY <1>4, LastOfIs
    <1>7. Len(h) \in Nat /\ DOMAIN h = 1..Len(h) /\ d \in Nat /\ Len(h) <= Len(hist) /\ Len(hist) = Len(h) + d
        BY <1>4, <1>5, <1>6
    <1> HIDE DEF h, d, end
    <1>8. \A q \in Runs : run'[q] = run[q] \/ (q = r /\ run'[q] = NoRun) BY <1>1, <1>2 DEF HistoryTyped
    <1>9. HistoryTyped'
        <2>1. \A i \in DOMAIN h : h[i].e <= recorded BY <1>2, <1>6 DEF HistoryTyped
        <2>2. NoRun \in [phase : {"off", "analyse", "edit"}, batch : SUBSET (1..recorded), end : Nat] BY DEF NoRun
        <2>3. run' \in [Runs -> [phase : {"off", "analyse", "edit"}, batch : SUBSET (1..recorded), end : Nat]]
            BY <1>1, <1>2, <2>2 DEF HistoryTyped
        <2>4. \A q \in Runs : (run'[q].phase = "off") = (run'[q].batch = {}) BY <1>2, <1>8 DEF HistoryTyped, NoRun
        <2>5. read' \in SUBSET (1..recorded) BY <1>1, <1>2, <1>3 DEF HistoryTyped
        <2>6. overrun' \in BOOLEAN /\ dreamed' \in Nat BY <1>1, <1>2, <1>3 DEF HistoryTyped
        <2> QED BY <1>1, <1>2, <1>6, <2>1, <2>3, <2>4, <2>5, <2>6 DEF HistoryTyped
    <1>10. Lined'
        <2> SUFFICES ASSUME ~halfway
                     PROVE  /\ \A i \in DOMAIN h : h[i].c = h[i].e /\ h[i].e + Len(h) = recorded + i
                            /\ counter \in {0, recorded} /\ (recorded > 0 => h # <<>>)
                            /\ dreamed' <= recorded /\ \A q \in Runs : run'[q].end <= recorded
            BY <1>1 DEF Lined
        <2>1. ASSUME NEW i \in DOMAIN h PROVE h[i].c = h[i].e /\ h[i].e + Len(h) = recorded + i
            <3>1. i + d \in DOMAIN hist /\ h[i] = hist[i + d] /\ i \in Nat BY <1>6, <1>7
            <3>2. hist[i + d].c = hist[i + d].e /\ hist[i + d].e + Len(hist) = recorded + (i + d) /\ hist[i + d].e \in Nat
                BY <1>2, <3>1, EntriesAre DEF Lined
            <3>3. hist[i + d].e + Len(h) = recorded + i
                <4> DEFINE e == hist[i + d].e
                           l == Len(h)
                <4>1. e \in Nat /\ l \in Nat /\ e + (l + d) = recorded + (i + d) BY <1>7, <3>2
                <4> HIDE DEF e, l
                <4>2. e + l = recorded + i BY SMTT(30), <1>5, <1>7, <3>1, <4>1
                <4> QED BY <4>2 DEF e, l
            <3> QED BY <3>1, <3>2, <3>3
        <2>2. counter \in {0, recorded} /\ end <= recorded /\ \A q \in Runs : run[q].end <= recorded BY <1>2 DEF Lined, end
        <2>3. recorded > 0 => h # <<>>
            <3> SUFFICES ASSUME recorded > 0 PROVE h # <<>> OBVIOUS
            <3>1. hist # <<>> BY <1>2 DEF Lined
            <3>2. Len(hist) > 0 BY <1>4, <3>1
            <3>3. Len(h) > 0 BY <1>4, <1>5, <1>6, <3>2
            <3> QED BY <3>3
        <2>4. \A q \in Runs : run'[q].end <= recorded BY <1>5, <1>8, <2>2 DEF NoRun
        <2> QED BY <1>1, <2>1, <2>2, <2>3, <2>4
    <1>11. BatchesCover'
        <2> SUFFICES ASSUME ~halfway, ~overrun', NEW q \in Runs, run'[q].phase # "off", NEW e \in 1..recorded, e <= run'[q].end
                     PROVE  e \in read' \/ e \in run'[q].batch
            BY <1>1 DEF BatchesCover
        <2>1. ~overrun BY <1>1
        <2>2. run'[q] = run[q] BY <1>8 DEF NoRun
        <2> QED BY <1>1, <1>2, <2>1, <2>2 DEF BatchesCover
    <1>12. NoEntrySkipped'
        <2> SUFFICES ASSUME ~halfway, ~overrun', NEW e \in 1..recorded, e \notin read'
                     PROVE  \E i \in DOMAIN h : h[i].e = e /\ h[i].c > end
            BY <1>1 DEF NoEntrySkipped
        <2>1. ~overrun /\ ~(Cardinality(Unread(end)) > MaxHistory) BY <1>1
        <2>2. e \notin read /\ e \notin run[r].batch BY <1>1
        <2>3. PICK i \in DOMAIN hist : hist[i].e = e /\ hist[i].c > dreamed BY <1>2, <2>1, <2>2 DEF NoEntrySkipped
        <2>4. ~(e <= end) BY <1>1, <1>2, <2>1, <2>2 DEF BatchesCover, end
        <2>5. hist[i].c = e /\ hist[i].c > end /\ i \in Nat BY <1>2, <1>3, <2>3, <2>4, EntriesAre DEF Lined
        <2>6. Len(hist) - i + 1 <= Cardinality(Unread(end)) /\ Cardinality(Unread(end)) \in Nat
            BY <1>2, <1>3, <2>5, UnreadFrom
        <2>7. Len(hist) - i + 1 <= MaxHistory BY <1>4, <1>5, <2>1, <2>5, <2>6
        <2>8. i - d \in DOMAIN h /\ (i - d) + d = i
            <3> DEFINE l == Len(h)
                       t == Len(hist)
            <3>1. l \in Nat /\ t \in Nat /\ t = l + d /\ i \in 1..t /\ i \in Nat /\ d \in Nat /\ t - i + 1 <= MaxHistory
                  /\ (l = t \/ l = MaxHistory)
                BY <1>5, <1>6, <1>7, <2>3, <2>5, <2>7
            <3>2. DOMAIN h = 1..l BY <1>7
            <3> HIDE DEF l, t
            <3>3. i <= t /\ 1 <= i /\ (i - d) + d = i /\ i - d <= l BY <3>1
            <3>4. CASE l = t
                <4>1. d = 0 BY <3>1, <3>4
                <4> QED BY <3>1, <3>2, <3>3, <4>1
            <3>5. CASE l = MaxHistory
                <4>1. l + d - i + 1 <= l BY <3>1, <3>5
                <4>2. d + 1 <= i BY <3>1, <4>1
                <4>3. i - d \in 1..l BY <3>1, <3>3, <4>2
                <4> QED BY <3>2, <3>3, <4>3
            <3> QED BY <3>1, <3>4, <3>5
        <2>9. h[i - d] = hist[i] BY <1>6, <2>8
        <2> QED BY <2>3, <2>5, <2>8, <2>9
    <1> QED BY <1>9, <1>10, <1>11, <1>12 DEF HistoryInv

\* A kill while the file is written leaves a part of it, and is remembered.
LEMMA EditedKilledKeeps == ASSUME HistoryInv, NEW r \in Runs, EditedKilled(r) PROVE HistoryInv'
    <1> DEFINE h == LastOf(hist, MaxHistory)
    <1>1. PICK n \in 0..MaxHistory - 1 : hist' = SubSeq(h, 1, n) BY DEF EditedKilled
    <1>2. /\ run[r].phase = "edit" /\ Len(hist) > MaxHistory
          /\ read' = read \cup run[r].batch /\ dreamed' = run[r].end /\ halfway' = TRUE
          /\ run' = [q \in Runs |-> NoRun] /\ UNCHANGED <<counter, recorded, overrun>>
        BY DEF EditedKilled, BatchEnd
    <1>3. HistoryTyped BY DEF HistoryInv
    <1>4. hist \in Seq([c : Nat \ {0}, e : 1..MaxWritten]) /\ MaxHistory \in Nat /\ Len(hist) \in Nat
        BY <1>3, HistoryAssumption DEF HistoryTyped
    <1>5. /\ h \in Seq([c : Nat \ {0}, e : 1..MaxWritten]) /\ Len(h) = MaxHistory
          /\ \A i \in DOMAIN h : i + (Len(hist) - Len(h)) \in DOMAIN hist /\ h[i] = hist[i + (Len(hist) - Len(h))]
        BY <1>2, <1>4, LastOfIs
    <1> HIDE DEF h
    <1>6. hist' \in Seq([c : Nat \ {0}, e : 1..MaxWritten]) /\ \A i \in DOMAIN hist' : i \in DOMAIN h /\ hist'[i] = h[i]
        <2> DEFINE R == [c : Nat \ {0}, e : 1..MaxWritten]
        <2>1. h \in Seq(R) BY <1>5
        <2> HIDE DEF R
        <2>2. n \in Nat /\ n <= Len(h) /\ Len(h) \in Nat BY <1>4, <1>5
        <2>3. SubSeq(h, 1, n) \in Seq(R) /\ \A i \in DOMAIN SubSeq(h, 1, n) : i \in DOMAIN h /\ SubSeq(h, 1, n)[i] = h[i]
            BY <2>1, <2>2
        <2> QED BY <1>1, <2>3 DEF R
    <1>7. \A i \in DOMAIN hist' : hist'[i].e <= recorded BY <1>3, <1>5, <1>6 DEF HistoryTyped
    <1>8. NoRun \in [phase : {"off", "analyse", "edit"}, batch : SUBSET (1..recorded), end : Nat]
          /\ (NoRun.phase = "off") = (NoRun.batch = {})
        BY DEF NoRun
    <1>9. read' \in SUBSET (1..recorded) /\ dreamed' \in Nat BY <1>2, <1>3 DEF HistoryTyped
    <1>10. HistoryTyped' BY <1>2, <1>3, <1>6, <1>7, <1>8, <1>9 DEF HistoryTyped
    <1> QED BY <1>2, <1>10 DEF HistoryInv, Lined, BatchesCover, NoEntrySkipped

\* Dream skips no entry, whichever runs overlap and whatever is compacted away; only a kill halfway
\* or more unread entries than the file may hold lose one.
THEOREM HistoryKept == HistorySpec => []HistorySound
    <1>1. HistoryInit => HistoryInv
        <2> SUFFICES ASSUME HistoryInit PROVE HistoryInv OBVIOUS
        <2>1. Legacy \in Nat /\ Legacy \in 0..MaxWritten /\ MaxWritten \in Nat BY HistoryAssumption
        <2> DEFINE h == [i \in 1..Legacy |-> [c |-> i, e |-> i]]
        <2>2. hist = h /\ counter = Legacy /\ dreamed = Legacy /\ run = [r \in Runs |-> NoRun]
              /\ recorded = Legacy /\ read = 1..Legacy /\ halfway = FALSE /\ overrun = FALSE
            BY DEF HistoryInit
        <2>3. \A i \in 1..Legacy : i \in Nat \ {0} /\ i \in 1..MaxWritten BY <2>1
        <2>4. h \in Seq([c : Nat \ {0}, e : 1..MaxWritten]) /\ Len(h) = Legacy BY <2>1, <2>3
        <2>5. \A i \in DOMAIN h : h[i].e = i /\ h[i].c = i /\ i <= Legacy BY <2>1
        <2>6. Legacy > 0 => h # <<>>
            <3>1. Legacy > 0 => 1 \in DOMAIN h BY <2>1
            <3> QED BY <3>1
        <2> HIDE DEF h
        <2>7. NoRun.phase = "off" /\ NoRun.batch = {} /\ NoRun.end = 0
              /\ NoRun \in [phase : {"off", "analyse", "edit"}, batch : SUBSET (1..recorded), end : Nat]
            BY DEF NoRun
        <2>8. HistoryTyped BY <2>1, <2>2, <2>4, <2>5, <2>7 DEF HistoryTyped
        <2>9. Lined
            <3>1. \A i \in DOMAIN h : i \in Nat BY <2>2, <2>8, EntriesAre
            <3>2. \A i \in DOMAIN hist : hist[i].c = hist[i].e /\ hist[i].e + Len(hist) = recorded + i
                BY <2>1, <2>2, <2>4, <2>5, <3>1
            <3> QED BY <2>1, <2>2, <2>6, <2>7, <3>2 DEF Lined
        <2>10. BatchesCover /\ NoEntrySkipped BY <2>2, <2>7 DEF BatchesCover, NoEntrySkipped
        <2> QED BY <2>8, <2>9, <2>10 DEF HistoryInv
    <1>2. HistoryInv /\ [HistoryNext]_historyVars => HistoryInv'
        <2> SUFFICES ASSUME HistoryInv, [HistoryNext]_historyVars PROVE HistoryInv' OBVIOUS
        <2>1. CASE UNCHANGED historyVars
            BY <2>1 DEF historyVars, HistoryInv, HistoryTyped, Lined, BatchesCover, NoEntrySkipped
        <2> QED BY <2>1, AppendsKeep, DreamBeginKeeps, AnalysedKeeps, EditedKeeps, EditedKilledKeeps DEF HistoryNext
    <1>3. HistoryInv => HistorySound
        <2> SUFFICES ASSUME HistoryInv PROVE HistorySound OBVIOUS
        <2>1. HistoryTyped /\ Lined BY DEF HistoryInv
        <2>2. HistoryTypeOK BY <2>1, HistoryAssumption DEF HistoryTyped, HistoryTypeOK
        <2>3. CursorsGrow
            <3> SUFFICES ASSUME ~halfway, NEW i \in DOMAIN hist, NEW j \in DOMAIN hist, i < j PROVE hist[i].c < hist[j].c
                BY DEF CursorsGrow
            <3>1. /\ hist[i].c = hist[i].e /\ hist[i].e + Len(hist) = recorded + i
                  /\ hist[j].c = hist[j].e /\ hist[j].e + Len(hist) = recorded + j
                BY <2>1 DEF Lined
            <3>2. /\ hist[i].e \in Nat /\ hist[j].e \in Nat /\ i \in Nat /\ j \in Nat
                  /\ recorded \in Nat /\ Len(hist) \in Nat
                BY <2>1, EntriesAre
            <3> QED BY <3>1, <3>2
        <2> QED BY <2>2, <2>3 DEF HistoryInv, HistorySound
    <1> QED BY <1>1, <1>2, <1>3, PTL DEF HistorySpec
----------------------------------------------------------------------------
(* The background agents: their records, their places and what is announced of them. *)

\* The elements of q but some, each as often as there and in their order.
RestOf(out, q, gone, D) ==
    /\ out \in Seq(D)
    /\ \A k \in 1..Len(out) : \E i \in 1..Len(q) : out[k] = q[i] /\ q[i] \notin gone
    /\ \A i \in 1..Len(q) : q[i] \notin gone => \E k \in 1..Len(out) : out[k] = q[i]
    /\ \A k, l \in 1..Len(out) : k < l => \E i, j \in 1..Len(q) : i < j /\ out[k] = q[i] /\ out[l] = q[j]

\* A sequence without some of its elements has the others in their order.
LEMMA WithoutIs ==
    ASSUME NEW D, NEW q \in Seq(D), NEW gone
    PROVE  RestOf(Without(q, gone), q, gone, D)
    <1> DEFINE n == Len(q)
               Step(f, i) == IF i = 0 THEN <<>> ELSE IF q[i] \in gone THEN f[i - 1] ELSE Append(f[i - 1], q[i])
    <1>1. n \in Nat /\ \A i \in 1..n : q[i] \in D OBVIOUS
    <1>2. \E f : f \in [0..n -> Seq(D)] /\ f = [i \in 0..n |-> Step(f, i)]
        <2> DEFINE move == [i \in 1..n |-> [x \in Seq(D) |-> IF q[i] \in gone THEN x ELSE Append(x, q[i])]]
        <2>1. \A i \in 1..n : \A x \in Seq(D) : Append(x, q[i]) \in Seq(D) BY <1>1
        <2>2. move \in [1..n -> [Seq(D) -> Seq(D)]] BY <2>1
        <2>3. \A i \in 1..n : \A x \in Seq(D) : move[i][x] = IF q[i] \in gone THEN x ELSE Append(x, q[i]) OBVIOUS
        <2>4. <<>> \in Seq(D) OBVIOUS
        <2>5. PICK f \in [0..n -> Seq(D)] : f[0] = <<>> /\ \A i \in 1..n : f[i] = move[i][f[i - 1]]
            <3> DEFINE X == Seq(D)
            <3>1. \E e \in X : e = <<>> BY <2>4
            <3>2. PICK e \in X : e = <<>> BY <3>1
            <3>3. move \in [1..n -> [X -> X]] BY <2>2
            <3> HIDE DEF move, n, X
            <3>4. n \in Nat BY <1>1
            <3>5. \E f : LoopOf(f, X, e, n, move) BY <3>3, <3>4, LoopDefined
            <3> QED BY <3>2, <3>5 DEF X, LoopOf
        <2> HIDE DEF move
        <2>6. \A i \in 0..n : f[i] = Step(f, i)
            <3> SUFFICES ASSUME NEW i \in 0..n PROVE f[i] = Step(f, i) OBVIOUS
            <3>1. CASE i = 0 BY <2>5, <3>1
            <3>2. CASE i # 0
                <4>1. i \in 1..n /\ i - 1 \in 0..n BY <1>1, <3>2
                <4>2. f[i - 1] \in Seq(D) BY <4>1
                <4> QED BY <2>3, <2>5, <3>2, <4>1, <4>2
            <3> QED BY <3>1, <3>2
        <2> QED BY <2>6
    <1> DEFINE out == CHOOSE f : f = [i \in 0..n |-> Step(f, i)]
    <1>3. out = [i \in 0..n |-> Step(out, i)] BY <1>2
    <1>4. Without(q, gone) = out[n] BY DEF Without
    <1> HIDE DEF out
    <1>5. \A i \in 0..n : out[i] = Step(out, i) BY <1>3
    <1> DEFINE Good(m) ==
                 /\ out[m] \in Seq(D)
                 /\ \A k \in 1..Len(out[m]) : \E i \in 1..m : out[m][k] = q[i] /\ q[i] \notin gone
                 /\ \A i \in 1..m : q[i] \notin gone => \E k \in 1..Len(out[m]) : out[m][k] = q[i]
                 /\ \A k, l \in 1..Len(out[m]) : k < l => \E i, j \in 1..m : i < j /\ out[m][k] = q[i] /\ out[m][l] = q[j]
               Wrong == {m \in 0..n : ~Good(m)}
    <1>6. Wrong = {}
        <2> SUFFICES ASSUME Wrong # {} PROVE FALSE OBVIOUS
        <2>1. PICK m \in Wrong : \A j \in Wrong : m <= j
            <3>1. Wrong \in SUBSET Nat BY <1>1
            <3> HIDE DEF Wrong
            <3> QED BY <3>1, LeastNumber
        <2>2. m \in 0..n /\ ~Good(m) BY <2>1
        <2>3. CASE m = 0
            <3>1. out[0] = <<>> BY <1>5, <2>2, <2>3
            <3>2. out[0] \in Seq(D) /\ Len(out[0]) = 0 BY <3>1
            <3>3. Good(0) BY <3>2
            <3> HIDE DEF Good
            <3> QED BY <2>2, <2>3, <3>3
        <2>4. CASE m # 0
            <3> DEFINE p == m - 1
            <3>1. p \in 0..n /\ m \in 1..n /\ m = p + 1 /\ p \in Nat BY <1>1, <2>2, <2>4
            <3>2. Good(p)
                <4>1. ~(m <= p) BY <3>1
                <4> HIDE DEF Good, p
                <4> QED BY <2>1, <3>1, <4>1
            <3>3. out[m] = IF q[m] \in gone THEN out[p] ELSE Append(out[p], q[m]) BY <1>5, <2>2, <2>4
            <3> HIDE DEF p
            <3>4. \A i \in 1..m : i \in 1..p \/ i = m BY <3>1
            <3>5. \A i \in 1..p : i \in 1..m BY <3>1
            <3>6. CASE q[m] \in gone
                <4>1. out[m] = out[p] BY <3>3, <3>6
                <4> DEFINE s == out[p]
                           z == Len(s)
                <4>2. /\ s \in Seq(D)
                      /\ \A k \in 1..z : \E i \in 1..p : s[k] = q[i] /\ q[i] \notin gone
                      /\ \A i \in 1..p : q[i] \notin gone => \E k \in 1..z : s[k] = q[i]
                      /\ \A k, l \in 1..z : k < l => \E i, j \in 1..p : i < j /\ s[k] = q[i] /\ s[l] = q[j]
                    BY <3>2
                <4>3. out[m] = s BY <4>1
                <4> HIDE DEF s, z
                <4>4. \A k \in 1..z : \E i \in 1..m : s[k] = q[i] /\ q[i] \notin gone BY <3>5, <4>2
                <4>5. \A i \in 1..m : q[i] \notin gone => \E k \in 1..z : s[k] = q[i] BY <3>4, <3>6, <4>2
                <4>6. ASSUME NEW k \in 1..z, NEW l \in 1..z, k < l
                      PROVE  \E i, j \in 1..m : i < j /\ s[k] = q[i] /\ s[l] = q[j]
                    <5>1. PICK i \in 1..p, j \in 1..p : i < j /\ s[k] = q[i] /\ s[l] = q[j] BY <4>2, <4>6
                    <5> QED BY <3>5, <5>1
                <4>7. Good(m) BY <4>2, <4>3, <4>4, <4>5, <4>6 DEF z
                <4> HIDE DEF Good
                <4> QED BY <2>2, <4>7
            <3>7. CASE q[m] \notin gone
                <4> DEFINE s == out[p]
                           t == out[m]
                <4>1. s \in Seq(D) /\ q[m] \in D BY <1>1, <3>1, <3>2
                <4>2. t = Append(s, q[m]) BY <3>3, <3>7
                <4> DEFINE z == Len(s)
                <4>3. z \in Nat /\ Len(t) = z + 1 /\ t \in Seq(D) /\ t[z + 1] = q[m] /\ \A k \in 1..z : t[k] = s[k]
                    <5> HIDE DEF s, t
                    <5> QED BY <4>1, <4>2
                <4>4. /\ \A k \in 1..z : \E i \in 1..p : s[k] = q[i] /\ q[i] \notin gone
                      /\ \A i \in 1..p : q[i] \notin gone => \E k \in 1..z : s[k] = q[i]
                      /\ \A k, l \in 1..z : k < l => \E i, j \in 1..p : i < j /\ s[k] = q[i] /\ s[l] = q[j]
                    BY <3>2
                <4> HIDE DEF s, t, z
                <4>5. \A k \in 1..(z + 1) : k \in 1..z \/ k = z + 1 BY <4>3
                <4>6. m \in 1..m BY <3>1
                <4>7. ASSUME NEW k \in 1..(z + 1) PROVE \E i \in 1..m : t[k] = q[i] /\ q[i] \notin gone
                    <5>1. CASE k = z + 1 BY <3>7, <4>3, <4>6, <5>1
                    <5>2. CASE k # z + 1
                        <6>1. k \in 1..z BY <4>5, <5>2
                        <6>2. PICK i \in 1..p : s[k] = q[i] /\ q[i] \notin gone BY <4>4, <6>1
                        <6>3. i \in 1..m BY <3>5
                        <6> QED BY <4>3, <6>1, <6>2, <6>3
                    <5> QED BY <5>1, <5>2
                <4>8. ASSUME NEW i \in 1..m, q[i] \notin gone PROVE \E k \in 1..(z + 1) : t[k] = q[i]
                    <5>1. CASE i = m BY <4>3, <5>1
                    <5>2. CASE i # m
                        <6>1. PICK k \in 1..z : s[k] = q[i] BY <3>4, <4>4, <4>8, <5>2
                        <6>2. k \in 1..(z + 1) BY <4>3
                        <6> QED BY <4>3, <6>1, <6>2
                    <5> QED BY <5>1, <5>2
                <4>9. ASSUME NEW k \in 1..(z + 1), NEW l \in 1..(z + 1), k < l
                      PROVE  \E i, j \in 1..m : i < j /\ t[k] = q[i] /\ t[l] = q[j]
                    <5>1. k \in 1..z BY <4>3, <4>9
                    <5>2. CASE l \in 1..z
                        <6>1. PICK i \in 1..p, j \in 1..p : i < j /\ s[k] = q[i] /\ s[l] = q[j]
                            BY <4>4, <4>9, <5>1, <5>2
                        <6>2. i \in 1..m /\ j \in 1..m BY <3>5
                        <6> QED BY <4>3, <5>1, <5>2, <6>1, <6>2
                    <5>3. CASE l = z + 1
                        <6>1. PICK i \in 1..p : s[k] = q[i] BY <4>4, <5>1
                        <6>2. i \in 1..m /\ i < m BY <3>1, <3>5
                        <6> QED BY <4>3, <4>6, <5>1, <5>3, <6>1, <6>2
                    <5> QED BY <4>5, <5>2, <5>3
                <4>10. Good(m) BY <4>3, <4>7, <4>8, <4>9 DEF t
                <4> HIDE DEF Good
                <4> QED BY <2>2, <4>10
            <3> QED BY <3>6, <3>7
        <2> QED BY <2>3, <2>4
    <1>7. n \in 0..n BY <1>1
    <1>8. Good(n)
        <2> HIDE DEF Good
        <2> QED BY <1>6, <1>7
    <1>9. RestOf(out[n], q, gone, D) BY <1>8 DEF RestOf
    <1> QED BY <1>4, <1>9

Records == [id : Subs, status : Terminal \cup {"running"}]
AtWork  == {s \in Subs : sub[s] \in {"work", "unwind"}}

\* A table has one record of each task; it shows a task, and shows it at work.
OneEach(recs)  == \A i, j \in 1..Len(recs) : recs[i].id = recs[j].id => i = j
Shows(recs, s) == \E i \in 1..Len(recs) : recs[i].id = s
ShowsRun(recs, s)  == \E i \in 1..Len(recs) : recs[i].id = s /\ recs[i].status = "running"

SubTyped ==
    /\ sub \in [Subs -> {"unborn", "created", "queued", "work", "unwind", "ended"}]
    /\ tracked \subseteq Subs /\ \A s \in tracked : sub[s] # "unborn"
    /\ waiting \in Seq(Subs)

\* The places that are taken are those of the tasks at work, of which there are finitely many.
SeatsInv ==
    /\ IsFiniteSet(AtWork) /\ slots \in 0..MaxParallel
    /\ MaxParallel # 0 => slots + Cardinality(AtWork) = MaxParallel

\* A record is of a task that was spawned, one of each; what may still work is at work on record.
ListedInv ==
    /\ record \in Seq(Records) /\ OneEach(record)
    /\ \A s \in Subs : Shows(record, s) => sub[s] # "unborn"
    /\ \A s \in Subs : sub[s] \in {"created", "queued", "work"} => s \in tracked /\ ShowsRun(record, s)

\* What was announced has ended; what was stopped has ended or is about to.
ToldOnce ==
    /\ announced \in [Subs -> Nat]
    /\ \A s \in Subs : announced[s] = 0 \/ (announced[s] = 1 /\ sub[s] = "ended" /\ s \notin stopped)
    /\ \A s \in Subs : s \in stopped => sub[s] \in {"unwind", "ended"}

OwnedInv == outputs \subseteq Subs /\ IsFiniteSet(outputs) /\ \A s \in outputs : Shows(record, s)

SubInv == SubTyped /\ SeatsInv /\ ListedInv /\ ToldOnce /\ OwnedInv

\* The status of a task is that of its record.
LEMMA StatusIs ==
    ASSUME record \in Seq(Records), OneEach(record), NEW s
    PROVE  /\ \A i \in 1..Len(record) : record[i].id = s => Status(s) = record[i].status
           /\ ~Shows(record, s) => Status(s) = "none"
           /\ Shows(record, s) => Status(s) # "none"
    <1> DEFINE mine == {i \in DOMAIN record : record[i].id = s}
    <1>1. DOMAIN record = 1..Len(record) /\ \A i \in 1..Len(record) : record[i] \in Records OBVIOUS
    <1>2. Status(s) = IF mine = {} THEN "none" ELSE record[CHOOSE i \in mine : TRUE].status BY DEF Status
    <1>3. ASSUME NEW i \in 1..Len(record), record[i].id = s PROVE Status(s) = record[i].status
        <2>1. i \in mine /\ \A j \in mine : j = i BY <1>1, <1>3 DEF OneEach
        <2>2. (CHOOSE j \in mine : TRUE) = i BY <2>1
        <2> QED BY <1>2, <2>1, <2>2
    <1>4. ~Shows(record, s) => mine = {} BY <1>1 DEF Shows
    <1>5. \A i \in 1..Len(record) : record[i].status # "none" BY <1>1 DEF Records, Terminal
    <1> QED BY <1>2, <1>3, <1>4, <1>5 DEF Shows

\* Only what has ended is trimmed.
LEMMA EvictedEnded ==
    ASSUME NEW recs \in Seq(Records), OneEach(recs), NEW s, ShowsRun(recs, s)
    PROVE  s \notin Evicted(recs)
    <1> SUFFICES ASSUME s \in Evicted(recs) PROVE FALSE OBVIOUS
    <1>1. DOMAIN recs = 1..Len(recs) OBVIOUS
    <1>2. PICK i \in 1..Len(recs) : recs[i].id = s /\ recs[i].status \in Terminal
        BY <1>1 DEF Evicted
    <1>3. PICK j \in 1..Len(recs) : recs[j].id = s /\ recs[j].status = "running" BY DEF ShowsRun
    <1>4. i = j BY <1>2, <1>3 DEF OneEach
    <1> QED BY <1>2, <1>3, <1>4 DEF Terminal

\* What the limit on records leaves.
LEMMA KeepIs ==
    ASSUME NEW recs \in Seq(Records), OneEach(recs), NEW files \in SUBSET Subs, IsFiniteSet(files),
           \A s \in files : Shows(recs, s), Keep(recs, files)
    PROVE  /\ record' \in Seq(Records) /\ OneEach(record')
           /\ \A s : Shows(record', s) => Shows(recs, s)
           /\ \A s : ShowsRun(recs, s) => ShowsRun(record', s)
           /\ outputs' \subseteq files /\ IsFiniteSet(outputs')
           /\ \A s \in outputs' : Shows(record', s)
    <1> DEFINE gone == {r \in ToSet(recs) : r.id \in Evicted(recs)}
               q == Without(recs, gone)
    <1>1. record' = q /\ outputs' = files \ Evicted(recs) BY DEF Keep
    <1>2. DOMAIN recs = 1..Len(recs) /\ \A i \in 1..Len(recs) : recs[i] \in Records /\ recs[i] \in ToSet(recs)
        BY DEF ToSet
    <1>3. \A i \in 1..Len(recs) : recs[i] \in gone <=> recs[i].id \in Evicted(recs) BY <1>2
    <1> HIDE DEF gone, q
    <1>4. /\ q \in Seq(Records)
          /\ \A k \in 1..Len(q) : \E i \in 1..Len(recs) : q[k] = recs[i] /\ recs[i] \notin gone
          /\ \A i \in 1..Len(recs) : recs[i] \notin gone => \E k \in 1..Len(q) : q[k] = recs[i]
          /\ \A k, l \in 1..Len(q) : k < l => \E i, j \in 1..Len(recs) : i < j /\ q[k] = recs[i] /\ q[l] = recs[j]
        <2>1. RestOf(q, recs, gone, Records) BY WithoutIs DEF q
        <2> QED BY <2>1 DEF RestOf
    <1>5. OneEach(q)
        <2>1. Len(q) \in Nat BY <1>4
        <2>2. ASSUME NEW k \in 1..Len(q), NEW l \in 1..Len(q), k < l PROVE q[k].id # q[l].id
            <3>1. PICK i \in 1..Len(recs), j \in 1..Len(recs) : i < j /\ q[k] = recs[i] /\ q[l] = recs[j]
                BY <1>4, <2>2
            <3> QED BY <3>1 DEF OneEach
        <2>3. \A k, l \in 1..Len(q) : k < l \/ l < k \/ k = l BY <2>1
        <2> QED BY <2>2, <2>3 DEF OneEach
    <1>6. ASSUME NEW s, Shows(q, s) PROVE Shows(recs, s)
        <2>1. PICK k \in 1..Len(q) : q[k].id = s BY <1>6 DEF Shows
        <2>2. PICK i \in 1..Len(recs) : q[k] = recs[i] BY <1>4
        <2> QED BY <2>1, <2>2 DEF Shows
    <1>7. ASSUME NEW s, Shows(recs, s), s \notin Evicted(recs) PROVE Shows(q, s)
        <2>1. PICK i \in 1..Len(recs) : recs[i].id = s BY <1>7 DEF Shows
        <2>2. recs[i] \notin gone BY <1>3, <1>7, <2>1
        <2> QED BY <1>4, <2>1, <2>2 DEF Shows
    <1>8. ASSUME NEW s, ShowsRun(recs, s) PROVE ShowsRun(q, s)
        <2>1. PICK i \in 1..Len(recs) : recs[i].id = s /\ recs[i].status = "running" BY <1>8 DEF ShowsRun
        <2>2. recs[i] \notin gone BY <1>3, <1>8, <2>1, EvictedEnded
        <2> QED BY <1>4, <2>1, <2>2 DEF ShowsRun
    <1>9. IsFiniteSet(outputs') BY <1>1, FS_Subset
    <1> QED BY <1>1, <1>4, <1>5, <1>6, <1>7, <1>8, <1>9

\* The status of some tasks changes: the table has the same tasks.
LEMMA SameTasks ==
    ASSUME NEW recs \in Seq(Records), OneEach(recs), NEW now, DOMAIN now = DOMAIN recs, now = [i \in DOMAIN recs |-> now[i]],
           \A i \in DOMAIN recs : now[i] \in Records /\ now[i].id = recs[i].id
    PROVE  now \in Seq(Records) /\ OneEach(now) /\ Len(now) = Len(recs) /\ \A s : Shows(now, s) <=> Shows(recs, s)
    <1>1. Len(recs) \in Nat /\ DOMAIN recs = 1..Len(recs) OBVIOUS
    <1>2. now \in Seq(Records) /\ Len(now) = Len(recs)
        <2>1. now \in [1..Len(recs) -> Records] BY <1>1
        <2> QED BY <1>1, <2>1
    <1> QED BY <1>1, <1>2 DEF OneEach, Shows

LEMMA SeatTaken ==
    ASSUME SeatsInv, NEW s, s \notin AtWork, AtWork' = AtWork \cup {s},
           IF MaxParallel = 0 THEN slots' = slots ELSE slots > 0 /\ slots' = slots - 1
    PROVE  SeatsInv'
    <1>1. IsFiniteSet(AtWork') /\ Cardinality(AtWork') = Cardinality(AtWork) + 1 BY FS_AddElement DEF SeatsInv
    <1>2. Cardinality(AtWork) \in Nat BY FS_CardinalityType DEF SeatsInv
    <1>3. MaxParallel \in Nat BY SubagentAssumption
    <1>4. slots \in 0..MaxParallel /\ (MaxParallel # 0 => slots + Cardinality(AtWork) = MaxParallel) BY DEF SeatsInv
    <1>5. slots' \in 0..MaxParallel /\ (MaxParallel # 0 => slots' + Cardinality(AtWork') = MaxParallel)
        BY <1>1, <1>2, <1>3, <1>4
    <1> QED BY <1>1, <1>5 DEF SeatsInv

LEMMA SeatFreed ==
    ASSUME SeatsInv, NEW s, s \in AtWork, AtWork' = AtWork \ {s}, FreeSlot
    PROVE  SeatsInv'
    <1>1. IsFiniteSet(AtWork') /\ Cardinality(AtWork') = Cardinality(AtWork) - 1 BY FS_RemoveElement DEF SeatsInv
    <1>2. Cardinality(AtWork) \in Nat /\ Cardinality(AtWork') \in Nat BY <1>1, FS_CardinalityType DEF SeatsInv
    <1>3. MaxParallel \in Nat BY SubagentAssumption
    <1>4. slots \in 0..MaxParallel /\ (MaxParallel # 0 => slots + Cardinality(AtWork) = MaxParallel) BY DEF SeatsInv
    <1>5. slots' \in 0..MaxParallel /\ (MaxParallel # 0 => slots' + Cardinality(AtWork') = MaxParallel)
        BY <1>1, <1>2, <1>3, <1>4 DEF FreeSlot
    <1> QED BY <1>1, <1>5 DEF SeatsInv

LEMMA SeatsStay == ASSUME SeatsInv, AtWork' = AtWork, UNCHANGED slots PROVE SeatsInv'
    BY DEF SeatsInv

\* One task moves on; nothing of the records changes.
LEMMA TaskMoves ==
    ASSUME SubInv, NEW s \in Subs, sub[s] # "unborn", NEW spot \in {"created", "queued", "work", "unwind", "ended"},
           sub' = [sub EXCEPT ![s] = spot],
           spot \in {"created", "queued", "work"} => sub[s] \in {"created", "queued", "work"},
           sub[s] # "ended" \/ spot = "ended",
           sub[s] = "unwind" => spot \in {"unwind", "ended"},
           waiting' \in Seq(Subs), SeatsInv',
           UNCHANGED <<tracked, record, outputs, announced, stopped>>
    PROVE  SubInv'
    <1>1. \A t \in Subs : sub'[t] = IF t = s THEN spot ELSE sub[t] BY DEF SubInv, SubTyped
    <1>2. SubTyped'
        <2>1. sub' \in [Subs -> {"unborn", "created", "queued", "work", "unwind", "ended"}] BY DEF SubInv, SubTyped
        <2> QED BY <1>1, <2>1 DEF SubInv, SubTyped
    <1>3. ListedInv'
        <2>1. ListedInv BY DEF SubInv
        <2> QED BY <1>1, <2>1 DEF ListedInv
    <1>4. ToldOnce' BY <1>1 DEF SubInv, ToldOnce
    <1>5. OwnedInv' BY DEF SubInv, OwnedInv
    <1> QED BY <1>2, <1>3, <1>4, <1>5 DEF SubInv

LEMMA SpawnKeeps == ASSUME SubInv, NEW s \in Subs, Spawn(s) PROVE SubInv'
    <1> DEFINE new == [id |-> s, status |-> "running"]
               recs == Append(record, new)
    <1>1. SubTyped /\ SeatsInv /\ ListedInv /\ ToldOnce /\ OwnedInv BY DEF SubInv
    <1>2. sub[s] = "unborn" /\ \A t \in Subs : sub'[t] = IF t = s THEN "created" ELSE sub[t]
        BY <1>1 DEF Spawn, SubTyped
    <1>3. record \in Seq(Records) /\ new \in Records BY <1>1 DEF ListedInv, Records
    <1>4. /\ recs \in Seq(Records) /\ Len(recs) = Len(record) + 1 /\ Len(record) \in Nat
          /\ \A i \in 1..Len(record) : recs[i] = record[i]
          /\ recs[Len(record) + 1].id = s /\ recs[Len(record) + 1].status = "running"
        <2> HIDE DEF Records
        <2>1. recs \in Seq(Records) /\ Len(recs) = Len(record) + 1 /\ Len(record) \in Nat
              /\ (\A i \in 1..Len(record) : recs[i] = record[i]) /\ recs[Len(record) + 1] = new
            <3> HIDE DEF new
            <3> QED BY <1>3
        <2> HIDE DEF recs
        <2> QED BY <2>1
    <1> HIDE DEF recs, new
    <1>5. \A i \in 1..Len(record) : record[i].id # s BY <1>1, <1>2 DEF ListedInv, Shows
    <1>6. \A i \in 1..Len(recs) : i \in 1..Len(record) \/ i = Len(record) + 1 BY <1>4
    <1>7. \A i \in 1..Len(record) : i \in 1..Len(recs) BY <1>4
    <1>8. OneEach(recs) BY <1>1, <1>4, <1>5, <1>6 DEF ListedInv, OneEach
    <1>9. \A t : Shows(record, t) => Shows(recs, t) BY <1>4, <1>7 DEF Shows
    <1>10. \A t : ShowsRun(record, t) => ShowsRun(recs, t) BY <1>4, <1>7 DEF ShowsRun
    <1>11. \A t : Shows(recs, t) => t = s \/ Shows(record, t) BY <1>4, <1>6 DEF Shows
    <1>12. Len(record) + 1 \in 1..Len(recs) BY <1>4
    <1>13. ShowsRun(recs, s) BY <1>4, <1>12 DEF ShowsRun
    <1>14. Keep(recs, outputs) BY DEF Spawn, recs, new
    <1>15. outputs \in SUBSET Subs /\ IsFiniteSet(outputs) /\ \A t \in outputs : Shows(recs, t)
        BY <1>1, <1>9 DEF OwnedInv
    <1>16. /\ record' \in Seq(Records) /\ OneEach(record')
           /\ \A t : Shows(record', t) => Shows(recs, t)
           /\ \A t : ShowsRun(recs, t) => ShowsRun(record', t)
           /\ outputs' \subseteq outputs /\ IsFiniteSet(outputs')
           /\ \A t \in outputs' : Shows(record', t)
        BY <1>4, <1>8, <1>14, <1>15, KeepIs
    <1>17. tracked' = tracked \cup {s} /\ UNCHANGED <<slots, waiting, announced, stopped>> BY DEF Spawn
    <1>18. SubTyped'
        <2>1. sub' \in [Subs -> {"unborn", "created", "queued", "work", "unwind", "ended"}]
            BY <1>1 DEF SubTyped, Spawn
        <2> QED BY <1>1, <1>2, <1>17, <2>1 DEF SubTyped
    <1>19. SeatsInv'
        <2>1. AtWork' = AtWork BY <1>2 DEF AtWork
        <2> QED BY <1>1, <1>17, <2>1, SeatsStay
    <1>20. ListedInv' BY <1>1, <1>2, <1>10, <1>11, <1>13, <1>16, <1>17 DEF ListedInv
    <1>21. ToldOnce' BY <1>1, <1>2, <1>17 DEF ToldOnce
    <1>22. OwnedInv' BY <1>1, <1>16 DEF OwnedInv
    <1> QED BY <1>18, <1>19, <1>20, <1>21, <1>22 DEF SubInv

LEMMA ConcludeKeeps ==
    ASSUME SubInv, NEW s \in Subs, NEW status \in {"completed", "failed"}, Conclude(s, status)
    PROVE  SubInv'
    <1> DEFINE recs == Marked(record, s, status)
               files == IF Status(s) = "none" THEN outputs ELSE outputs \cup {s}
    <1>1. SubTyped /\ SeatsInv /\ ListedInv /\ ToldOnce /\ OwnedInv BY DEF SubInv
    <1>2. sub[s] = "work" /\ \A t \in Subs : sub'[t] = IF t = s THEN "ended" ELSE sub[t]
        BY <1>1 DEF Conclude, SubTyped
    <1>3. record \in Seq(Records) /\ OneEach(record) BY <1>1 DEF ListedInv
    <1>4. DOMAIN record = 1..Len(record) /\ \A i \in 1..Len(record) : record[i] \in Records BY <1>3
    <1>5. /\ DOMAIN recs = DOMAIN record /\ recs = [i \in DOMAIN record |-> recs[i]]
          /\ \A i \in DOMAIN record : recs[i] = IF record[i].id = s THEN [record[i] EXCEPT !.status = status] ELSE record[i]
        BY DEF Marked
    <1>6. \A i \in DOMAIN record : recs[i] \in Records /\ recs[i].id = record[i].id
        BY <1>4, <1>5 DEF Records, Terminal
    <1> HIDE DEF recs
    <1>7. recs \in Seq(Records) /\ OneEach(recs) /\ Len(recs) = Len(record) /\ \A t : Shows(recs, t) <=> Shows(record, t)
        BY <1>3, <1>5, <1>6, SameTasks
    <1>8. ASSUME NEW t, t # s, ShowsRun(record, t) PROVE ShowsRun(recs, t)
        <2>1. PICK i \in 1..Len(record) : record[i].id = t /\ record[i].status = "running" BY <1>8 DEF ShowsRun
        <2>2. recs[i] = record[i] BY <1>4, <1>5, <1>8, <2>1
        <2> QED BY <1>7, <2>1, <2>2 DEF ShowsRun
    <1>9. Keep(recs, files) BY DEF Conclude, recs
    <1>10. files \in SUBSET Subs /\ IsFiniteSet(files) /\ \A t \in files : Shows(recs, t)
        <2>1. IsFiniteSet(outputs) /\ IsFiniteSet(outputs \cup {s}) BY <1>1, FS_AddElement DEF OwnedInv
        <2>2. Status(s) # "none" => Shows(record, s) BY <1>3, StatusIs
        <2> QED BY <1>1, <1>7, <2>1, <2>2 DEF OwnedInv
    <1> HIDE DEF files
    <1>11. /\ record' \in Seq(Records) /\ OneEach(record')
           /\ \A t : Shows(record', t) => Shows(recs, t)
           /\ \A t : ShowsRun(recs, t) => ShowsRun(record', t)
           /\ outputs' \subseteq files /\ IsFiniteSet(outputs')
           /\ \A t \in outputs' : Shows(record', t)
        BY <1>7, <1>9, <1>10, KeepIs
    <1>12. /\ UNCHANGED <<tracked, waiting, stopped>> /\ announced' = [announced EXCEPT ![s] = @ + 1] /\ FreeSlot
        BY DEF Conclude
    <1>13. SubTyped'
        <2>1. sub' \in [Subs -> {"unborn", "created", "queued", "work", "unwind", "ended"}]
            BY <1>1 DEF SubTyped, Conclude
        <2> QED BY <1>1, <1>2, <1>12, <2>1 DEF SubTyped
    <1>14. SeatsInv'
        <2>1. s \in AtWork /\ AtWork' = AtWork \ {s} BY <1>2 DEF AtWork
        <2> QED BY <1>1, <1>12, <2>1, SeatFreed
    <1>15. ListedInv'
        <2>1. \A t \in Subs : Shows(record', t) => sub'[t] # "unborn" BY <1>1, <1>2, <1>7, <1>11 DEF ListedInv
        <2>2. \A t \in Subs : sub'[t] \in {"created", "queued", "work"} => t \in tracked' /\ ShowsRun(record', t)
            BY <1>1, <1>2, <1>8, <1>11, <1>12 DEF ListedInv
        <2> QED BY <1>11, <2>1, <2>2 DEF ListedInv
    <1>16. ToldOnce'
        <2>1. announced[s] = 0 /\ s \notin stopped BY <1>1, <1>2 DEF ToldOnce
        <2>2. announced' \in [Subs -> Nat] /\ \A t \in Subs : announced'[t] = IF t = s THEN 1 ELSE announced[t]
            BY <1>1, <1>12, <2>1 DEF ToldOnce
        <2> QED BY <1>1, <1>2, <1>12, <2>1, <2>2 DEF ToldOnce
    <1>17. OwnedInv' BY <1>10, <1>11 DEF OwnedInv
    <1> QED BY <1>13, <1>14, <1>15, <1>16, <1>17 DEF SubInv

LEMMA CancelKeeps ==
    ASSUME SubInv, NEW S \in SUBSET Killable, CancelThem(S)
    PROVE  SubInv'
    <1> DEFINE recs == MarkCancelled(S)
    <1>1. SubTyped /\ SeatsInv /\ ListedInv /\ ToldOnce /\ OwnedInv BY DEF SubInv
    <1>2. S \subseteq tracked /\ S \subseteq Subs /\ \A t \in S : sub[t] \notin {"ended", "unborn"}
        BY <1>1 DEF Killable, SubTyped
    <1>3. \A t \in Subs : sub'[t] = IF t \notin S THEN sub[t]
                                    ELSE IF sub[t] \in {"created", "queued"} THEN "ended" ELSE "unwind"
        BY DEF CancelThem, SubCancelled
    <1>4. record \in Seq(Records) /\ OneEach(record) BY <1>1 DEF ListedInv
    <1>5. DOMAIN record = 1..Len(record) /\ \A i \in 1..Len(record) : record[i] \in Records BY <1>4
    <1>6. /\ DOMAIN recs = DOMAIN record /\ recs = [i \in DOMAIN record |-> recs[i]]
          /\ \A i \in DOMAIN record : recs[i] =
                IF record[i].id \in S /\ record[i].status \notin Terminal
                THEN [record[i] EXCEPT !.status = "cancelled"] ELSE record[i]
        BY DEF MarkCancelled
    <1>7. \A i \in DOMAIN record : recs[i] \in Records /\ recs[i].id = record[i].id
        BY <1>5, <1>6 DEF Records, Terminal
    <1> HIDE DEF recs
    <1>8. recs \in Seq(Records) /\ OneEach(recs) /\ Len(recs) = Len(record) /\ \A t : Shows(recs, t) <=> Shows(record, t)
        BY <1>4, <1>6, <1>7, SameTasks
    <1>9. ASSUME NEW t, t \notin S, ShowsRun(record, t) PROVE ShowsRun(recs, t)
        <2>1. PICK i \in 1..Len(record) : record[i].id = t /\ record[i].status = "running" BY <1>9 DEF ShowsRun
        <2>2. recs[i] = record[i] BY <1>5, <1>6, <1>9, <2>1
        <2> QED BY <1>8, <2>1, <2>2 DEF ShowsRun
    <1>10. Keep(recs, outputs) /\ waiting' = Without(waiting, S) /\ stopped' = stopped \cup S
           /\ UNCHANGED <<tracked, slots, announced>>
        BY DEF CancelThem, recs
    <1>11. outputs \in SUBSET Subs /\ IsFiniteSet(outputs) /\ \A t \in outputs : Shows(recs, t)
        BY <1>1, <1>8 DEF OwnedInv
    <1>12. /\ record' \in Seq(Records) /\ OneEach(record')
           /\ \A t : Shows(record', t) => Shows(recs, t)
           /\ \A t : ShowsRun(recs, t) => ShowsRun(record', t)
           /\ outputs' \subseteq outputs /\ IsFiniteSet(outputs')
           /\ \A t \in outputs' : Shows(record', t)
        BY <1>8, <1>10, <1>11, KeepIs
    <1>13. SubTyped'
        <2>1. sub' \in [Subs -> {"unborn", "created", "queued", "work", "unwind", "ended"}]
            BY <1>1 DEF SubTyped, CancelThem, SubCancelled
        <2>2. waiting' \in Seq(Subs) BY <1>1, <1>10, WithoutIs DEF SubTyped, RestOf
        <2> QED BY <1>1, <1>3, <1>10, <2>1, <2>2 DEF SubTyped
    <1>14. SeatsInv'
        <2>1. \A t \in Subs : sub[t] \in {"unborn", "created", "queued", "work", "unwind", "ended"} BY <1>1 DEF SubTyped
        <2>2. AtWork' = AtWork BY <1>2, <1>3, <2>1 DEF AtWork
        <2> QED BY <1>1, <1>10, <2>2, SeatsStay
    <1>15. ListedInv'
        <2>1. \A t \in Subs : Shows(record', t) => sub'[t] # "unborn" BY <1>1, <1>3, <1>8, <1>12 DEF ListedInv
        <2>2. \A t \in Subs : sub'[t] \in {"created", "queued", "work"} => t \in tracked' /\ ShowsRun(record', t)
            BY <1>1, <1>3, <1>9, <1>10, <1>12 DEF ListedInv
        <2> QED BY <1>12, <2>1, <2>2 DEF ListedInv
    <1>16. ToldOnce' BY <1>1, <1>2, <1>3, <1>10 DEF ToldOnce
    <1>17. OwnedInv' BY <1>11, <1>12 DEF OwnedInv
    <1> QED BY <1>13, <1>14, <1>15, <1>16, <1>17 DEF SubInv

\* After a restart the records are those of the output files that are left.
LEMMA RestartKeeps == ASSUME SubInv, SubRestart PROVE SubInv'
    <1>1. SubTyped /\ SeatsInv /\ ListedInv /\ ToldOnce /\ OwnedInv BY DEF SubInv
    <1>2. \A t \in Subs : sub'[t] = IF sub[t] = "unborn" THEN "unborn" ELSE "ended" BY DEF SubRestart
    <1>3. tracked' = {} /\ slots' = MaxParallel /\ waiting' = <<>> /\ UNCHANGED <<announced, stopped>> BY DEF SubRestart
    <1>4. PICK order \in SetToSeqs(outputs) :
              Keep([i \in DOMAIN order |-> [id |-> order[i], status |-> "orphaned"]], outputs)
        BY DEF SubRestart
    <1> DEFINE n == Cardinality(outputs)
               recs == [i \in DOMAIN order |-> [id |-> order[i], status |-> "orphaned"]]
    <1>5. n \in Nat /\ outputs \subseteq Subs /\ IsFiniteSet(outputs) BY <1>1, FS_CardinalityType DEF OwnedInv
    <1>6. order \in [1..n -> outputs] /\ \A i, j \in 1..n : i # j => order[i] # order[j] BY DEF SetToSeqs
    <1> HIDE DEF n
    <1>7. \A t \in outputs : \E i \in 1..n : order[i] = t
        <2>1. order \in Injection(1..n, outputs) BY <1>6 DEF Injection, IsInjective
        <2>2. IsFiniteSet(1..n) /\ Cardinality(1..n) = n BY <1>5, FS_Interval
        <2>3. order \in Surjection(1..n, outputs) BY <1>5, <2>1, <2>2, FS_Injection DEF n
        <2> QED BY <2>3 DEF Surjection
    <1>8. DOMAIN order = 1..n BY <1>6
    <1>9. \A i \in 1..n : recs[i] \in Records /\ recs[i].id = order[i] BY <1>5, <1>6, <1>8 DEF Records, Terminal
    <1>10. recs \in Seq(Records) /\ Len(recs) = n
        <2>1. recs \in [1..n -> Records] BY <1>8, <1>9
        <2> HIDE DEF recs
        <2> QED BY <1>5, <2>1
    <1> HIDE DEF recs
    <1>11. OneEach(recs) BY <1>6, <1>9, <1>10 DEF OneEach
    <1>12. \A t \in outputs : Shows(recs, t) BY <1>7, <1>9, <1>10 DEF Shows
    <1>13. \A t : Shows(recs, t) => t \in outputs BY <1>6, <1>9, <1>10 DEF Shows
    <1>14. Keep(recs, outputs) BY <1>4 DEF recs
    <1>15. /\ record' \in Seq(Records) /\ OneEach(record')
           /\ \A t : Shows(record', t) => Shows(recs, t)
           /\ outputs' \subseteq outputs /\ IsFiniteSet(outputs')
           /\ \A t \in outputs' : Shows(record', t)
        BY <1>5, <1>10, <1>11, <1>12, <1>14, KeepIs
    <1>16. SubTyped'
        <2>1. sub' \in [Subs -> {"unborn", "created", "queued", "work", "unwind", "ended"}] BY DEF SubRestart
        <2> QED BY <1>3, <2>1 DEF SubTyped
    <1>17. SeatsInv'
        <2>1. AtWork' = {} BY <1>2 DEF AtWork
        <2>2. IsFiniteSet({}) /\ Cardinality({}) = 0 BY FS_EmptySet
        <2>3. MaxParallel \in Nat BY SubagentAssumption
        <2> QED BY <1>3, <2>1, <2>2, <2>3 DEF SeatsInv
    <1>18. ListedInv'
        <2>1. \A t \in Subs : Shows(record', t) => sub'[t] # "unborn"
            BY <1>1, <1>2, <1>13, <1>15 DEF ListedInv, OwnedInv
        <2>2. \A t \in Subs : sub'[t] \notin {"created", "queued", "work"} BY <1>2
        <2> QED BY <1>15, <2>1, <2>2 DEF ListedInv
    <1>19. ToldOnce' BY <1>1, <1>2, <1>3 DEF ToldOnce
    <1>20. OwnedInv' BY <1>5, <1>15 DEF OwnedInv
    <1> QED BY <1>16, <1>17, <1>18, <1>19, <1>20 DEF SubInv

LEMMA PlacesKeep ==
    ASSUME SubInv, ~CancelLost, NEW s \in Subs, SubStart(s) \/ TakeSlot(s) \/ Unwound(s) \/ Cleanup(s)
    PROVE  SubInv'
    <1>1. SubTyped /\ SeatsInv /\ ListedInv /\ ToldOnce /\ OwnedInv BY DEF SubInv
    <1>2. MaxParallel \in Nat /\ slots \in 0..MaxParallel BY <1>1, SubagentAssumption DEF SeatsInv
    <1>3. ASSUME NEW spot \in {"created", "queued", "work", "unwind", "ended"}, sub' = [sub EXCEPT ![s] = spot]
          PROVE  \A t \in Subs : sub'[t] = IF t = s THEN spot ELSE sub[t]
        BY <1>1, <1>3 DEF SubTyped
    <1>4. ASSUME sub[s] \in {"created", "queued"}, sub' = [sub EXCEPT ![s] = "work"],
                 IF MaxParallel = 0 THEN slots' = slots ELSE slots > 0 /\ slots' = slots - 1,
                 waiting' \in Seq(Subs), UNCHANGED <<tracked, record, outputs, announced, stopped>>
          PROVE  SubInv'
        <2>1. s \notin AtWork /\ AtWork' = AtWork \cup {s} BY <1>3, <1>4 DEF AtWork
        <2>2. SeatsInv' BY <1>1, <1>4, <2>1, SeatTaken
        <2> QED BY <1>4, <2>2, TaskMoves
    <1>5. CASE SubStart(s)
        <2>1. sub[s] = "created" /\ UNCHANGED <<tracked, record, outputs, announced, stopped>> /\ waiting \in Seq(Subs)
            BY <1>1, <1>5 DEF SubStart, SubTyped
        <2>2. CASE sub' = [sub EXCEPT ![s] = "work"] /\ UNCHANGED waiting
                   /\ (IF MaxParallel = 0 THEN slots' = slots ELSE slots > 0 /\ slots' = slots - 1)
            BY <1>4, <2>1, <2>2
        <2>3. CASE sub' = [sub EXCEPT ![s] = "queued"] /\ waiting' = Append(waiting, s) /\ UNCHANGED slots
            <3>1. waiting' \in Seq(Subs) BY <2>1, <2>3
            <3>2. AtWork' = AtWork BY <1>3, <2>1, <2>3 DEF AtWork
            <3>3. SeatsInv' BY <1>1, <2>3, <3>2, SeatsStay
            <3> QED BY <2>1, <2>3, <3>1, <3>3, TaskMoves
        <2> QED BY <1>5, <2>2, <2>3 DEF SubStart
    <1>6. CASE TakeSlot(s)
        <2>1. waiting' \in Seq(Subs)
            <3>1. waiting \in Seq(Subs) /\ waiting' = Tail(waiting) BY <1>1, <1>6 DEF TakeSlot, SubTyped
            <3>2. CASE waiting = <<>>
                <4>1. Tail(waiting) \in Seq(Subs) BY <3>2
                <4> QED BY <3>1, <4>1
            <3>3. CASE waiting # <<>> BY <3>1, <3>3
            <3> QED BY <3>2, <3>3
        <2>2. slots > 0 /\ slots' = slots - 1 /\ MaxParallel # 0 BY <1>2, <1>6 DEF TakeSlot
        <2> QED BY <1>4, <1>6, <2>1, <2>2 DEF TakeSlot
    <1>7. CASE Unwound(s)
        <2>1. sub[s] = "unwind" /\ sub' = [sub EXCEPT ![s] = "ended"] /\ FreeSlot
              /\ UNCHANGED <<tracked, waiting, record, outputs, announced, stopped>>
            BY <1>7 DEF Unwound
        <2>2. s \in AtWork /\ AtWork' = AtWork \ {s} BY <1>3, <2>1 DEF AtWork
        <2>3. SeatsInv' /\ waiting' \in Seq(Subs) BY <1>1, <2>1, <2>2, SeatFreed DEF SubTyped
        <2> QED BY <2>1, <2>3, TaskMoves
    <1>8. CASE Cleanup(s)
        <2>1. sub[s] = "ended" /\ tracked' = tracked \ {s}
              /\ UNCHANGED <<sub, slots, waiting, record, outputs, announced, stopped>>
            BY <1>8 DEF Cleanup
        <2>2. AtWork' = AtWork BY <2>1 DEF AtWork
        <2>3. SeatsInv' BY <1>1, <2>1, <2>2, SeatsStay
        <2>4. SubTyped' BY <1>1, <2>1 DEF SubTyped
        <2>5. ListedInv' BY <1>1, <2>1 DEF ListedInv
        <2>6. ToldOnce' /\ OwnedInv' BY <1>1, <2>1 DEF ToldOnce, OwnedInv
        <2> QED BY <2>3, <2>4, <2>5, <2>6 DEF SubInv
    <1> QED BY <1>5, <1>6, <1>7, <1>8

LEMMA SubStarts == SubInit => SubInv
    <1> SUFFICES ASSUME SubInit PROVE SubInv OBVIOUS
    <1>1. MaxParallel \in Nat BY SubagentAssumption
    <1>2. IsFiniteSet({}) /\ Cardinality({}) = 0 BY FS_EmptySet
    <1>3. AtWork = {} BY DEF SubInit, AtWork
    <1>4. SeatsInv BY <1>1, <1>2, <1>3 DEF SubInit, SeatsInv
    <1>5. SubTyped BY DEF SubInit, SubTyped
    <1>6. record = <<>> /\ Len(<<>>) = 0 /\ record \in Seq(Records) BY DEF SubInit
    <1>7. ListedInv BY <1>6 DEF SubInit, ListedInv, OneEach, Shows
    <1>8. ToldOnce BY DEF SubInit, ToldOnce
    <1>9. OwnedInv BY <1>2 DEF SubInit, OwnedInv
    <1> QED BY <1>4, <1>5, <1>7, <1>8, <1>9 DEF SubInv

\* Whatever ends and is stopped at once, a background agent that may still work has a record
\* that says so, a result is announced once and never after a stop was answered, the semaphore
\* counts the agents at work, and an output file has a record: SubagentManager and TaskStore,
\* provided that a cancellation arrives (asyncio.wait_for from Python 3.12 on).
THEOREM SubagentsKept == ~CancelLost => (SubSpec => []SubagentsSound)
    <1> SUFFICES ASSUME ~CancelLost PROVE SubSpec => []SubagentsSound OBVIOUS
    <1>1. SubInv /\ [SubNext]_subVars => SubInv'
        <2> SUFFICES ASSUME SubInv, [SubNext]_subVars PROVE SubInv' OBVIOUS
        <2>1. CASE UNCHANGED subVars
            <3>1. AtWork' = AtWork BY <2>1 DEF AtWork, subVars
            <3>2. SeatsInv' BY <2>1, <3>1, SeatsStay DEF SubInv, subVars
            <3>3. SubTyped' BY <2>1 DEF SubInv, SubTyped, subVars
            <3>4. ListedInv' BY <2>1 DEF SubInv, ListedInv, subVars
            <3>5. ToldOnce' /\ OwnedInv' BY <2>1 DEF SubInv, ToldOnce, OwnedInv, subVars
            <3> QED BY <3>2, <3>3, <3>4, <3>5 DEF SubInv
        <2>2. ASSUME NEW s \in Subs, StopTask(s) PROVE SubInv'
            <3>1. {s} \in SUBSET Killable /\ CancelThem({s}) BY <2>2 DEF StopTask
            <3> QED BY <3>1, CancelKeeps
        <2>3. ASSUME NEW k \in SubKeys, StopSession(k) PROVE SubInv'
            <3>1. {s \in Killable : KeyOf[s] = k} \in SUBSET Killable /\ CancelThem({s \in Killable : KeyOf[s] = k})
                BY <2>3 DEF StopSession
            <3> QED BY <3>1, CancelKeeps
        <2>4. ASSUME NEW s \in Subs, Spawn(s) \/ \E status \in {"completed", "failed"} : Conclude(s, status) PROVE SubInv'
            BY <2>4, SpawnKeeps, ConcludeKeeps
        <2>5. ASSUME NEW s \in Subs, SubStart(s) \/ TakeSlot(s) \/ Unwound(s) \/ Cleanup(s) PROVE SubInv'
            BY <2>5, PlacesKeep
        <2> QED BY <2>1, <2>2, <2>3, <2>4, <2>5, RestartKeeps DEF SubNext
    <1>2. SubInv => SubagentsSound
        <2> SUFFICES ASSUME SubInv PROVE SubagentsSound OBVIOUS
        <2>0. SubTyped /\ SeatsInv /\ ListedInv /\ ToldOnce /\ OwnedInv BY DEF SubInv
        <2>1. record \in Seq(Records) /\ OneEach(record) BY <2>0 DEF ListedInv
        <2>2. DOMAIN record = 1..Len(record) /\ \A i \in DOMAIN record : record[i] \in Records BY <2>1
        <2>3. SubTypeOK
            <3>1. \A i \in DOMAIN record : record[i].status \in Terminal \cup {"running"} BY <2>2 DEF Records
            <3> QED BY <2>0, <3>1 DEF SubTypeOK, SubTyped, SeatsInv, OwnedInv, AtWork
        <2>4. WorkIsListed
            <3>1. \A s : ShowsRun(record, s) => Status(s) = "running" BY <2>1, StatusIs DEF ShowsRun
            <3> QED BY <2>0, <3>1 DEF WorkIsListed, ListedInv
        <2>5. AnnouncedOnce BY <2>0 DEF AnnouncedOnce, ToldOnce
        <2>6. FilesOwned BY <2>0, <2>1, StatusIs DEF FilesOwned, OwnedInv
        <2> QED BY <2>3, <2>4, <2>5, <2>6 DEF SubagentsSound
    <1> QED BY SubStarts, <1>1, <1>2, PTL DEF SubSpec
----------------------------------------------------------------------------
(* The session in memory and on disk. *)

\* A bounded set of numbers has a greatest one.
LEMMA GreatestNumber ==
    ASSUME NEW n \in Nat, NEW S \in SUBSET (1..n), S # {}
    PROVE  \E i \in S : \A j \in S : j <= i
    <1> DEFINE T == {n - i : i \in S}
    <1>1. T \in SUBSET Nat /\ T # {}
        <2>1. \A i \in S : n - i \in Nat OBVIOUS
        <2> QED BY <2>1
    <1>2. PICK t \in T : \A u \in T : t <= u
        <2> HIDE DEF T
        <2> QED BY <1>1, LeastNumber
    <1>3. PICK i \in S : t = n - i BY <1>2
    <1>4. \A j \in S : n - i <= n - j BY <1>2, <1>3
    <1>5. \A j \in S : j <= i BY <1>4
    <1> QED BY <1>5

Held    == ({cached, turn.obj} \cup {task[w].obj : w \in Workers}) \ {Nobody}
Working == {"estimate", "archive"}
TaskRec == [pc : {"off", "wait", "estimate", "archive"}, obj : Objects \cup {Nobody}, upto : Nat,
            chunk : SUBSET Row, kept : Seq(Row), rounds : Nat]
TurnRec == [pc : {"off", "wait", "run"}, kind : {"bus", "direct"}, obj : Objects \cup {Nobody}]

\* Who works holds an object; the turn waits exactly while its consolidation does.
MemTyped ==
    /\ obj \in [Objects -> SessionRec] /\ disk \in SessionRec /\ cached \in Objects \cup {Nobody}
    /\ turn \in TurnRec /\ (turn.pc # "off" <=> turn.obj # Nobody)
    /\ task \in [Workers -> TaskRec]
    /\ \A w \in Workers : task[w].pc \in Working <=> task[w].obj # Nobody
    /\ turn.pc = "wait" <=> task["turn"].pc # "off"
    /\ made \in 0..MaxRow /\ skewed \in BOOLEAN

\* Who is in the line for the lock, each once, is not off; who works is at its head.
LineInv ==
    /\ queue \in Seq(Workers)
    /\ \A i, j \in 1..Len(queue) : queue[i] = queue[j] => i = j
    /\ \A w \in Workers : task[w].pc # "off" <=> \E i \in 1..Len(queue) : queue[i] = w
    /\ \A w \in Workers : task[w].pc \in Working => queue # <<>> /\ queue[1] = w

LEMMA LineJoined ==
    ASSUME LineInv, NEW w \in Workers, task[w].pc = "off", queue' = Append(queue, w),
           task \in [Workers -> TaskRec], task' = [task EXCEPT ![w] = [Off EXCEPT !.pc = "wait"]]
    PROVE  LineInv'
    <1>1. /\ queue \in Seq(Workers) /\ Len(queue) \in Nat
          /\ \A i, j \in 1..Len(queue) : queue[i] = queue[j] => i = j
          /\ \A v \in Workers : task[v].pc # "off" <=> \E i \in 1..Len(queue) : queue[i] = v
          /\ \A v \in Workers : task[v].pc \in Working => queue # <<>> /\ queue[1] = v
        BY DEF LineInv
    <1> DEFINE n == Len(queue)
    <1>2. queue' \in Seq(Workers) /\ Len(queue') = n + 1 /\ queue'[n + 1] = w /\ \A i \in 1..n : queue'[i] = queue[i]
        <2> HIDE DEF Workers
        <2> QED BY <1>1
    <1>3. n \in Nat /\ \A i \in 1..(n + 1) : i \in 1..n \/ i = n + 1 BY <1>1
    <1>4. \A i \in 1..n : i \in 1..(n + 1) BY <1>3
    <1>5. \A v \in Workers : task'[v].pc = IF v = w THEN "wait" ELSE task[v].pc BY DEF Off
    <1> HIDE DEF n
    <1>6. \A i \in 1..n : queue[i] # w BY <1>1 DEF n
    <1>7. \A i, j \in 1..Len(queue') : queue'[i] = queue'[j] => i = j BY <1>1, <1>2, <1>3, <1>6 DEF n
    <1>8. ASSUME NEW v \in Workers PROVE task'[v].pc # "off" <=> \E i \in 1..Len(queue') : queue'[i] = v
        <2>1. CASE v = w
            <3>1. n + 1 \in 1..Len(queue') BY <1>2, <1>3
            <3> QED BY <1>2, <1>5, <2>1, <3>1
        <2>2. CASE v # w BY <1>1, <1>2, <1>3, <1>4, <1>5, <2>2 DEF n
        <2> QED BY <2>1, <2>2
    <1>9. ASSUME NEW v \in Workers, task'[v].pc \in Working PROVE queue' # <<>> /\ queue'[1] = v
        <2>1. v # w /\ task[v].pc \in Working BY <1>5, <1>9 DEF Working
        <2>2. queue # <<>> /\ queue[1] = v BY <1>1, <2>1
        <2>3. 1 \in 1..n BY <1>1, <2>2 DEF n
        <2> QED BY <1>2, <2>2, <2>3
    <1> QED BY <1>2, <1>7, <1>8, <1>9 DEF LineInv

LEMMA LineLeft ==
    ASSUME LineInv, NEW w \in Workers, queue # <<>>, queue[1] = w, queue' = Tail(queue),
           task \in [Workers -> TaskRec], task' = [task EXCEPT ![w] = Off]
    PROVE  LineInv' /\ Len(queue') = Len(queue) - 1 /\ \A v \in Workers : task'[v].pc \notin Working
    <1>1. /\ queue \in Seq(Workers) /\ Len(queue) \in Nat
          /\ \A i, j \in 1..Len(queue) : queue[i] = queue[j] => i = j
          /\ \A v \in Workers : task[v].pc # "off" <=> \E i \in 1..Len(queue) : queue[i] = v
          /\ \A v \in Workers : task[v].pc \in Working => queue # <<>> /\ queue[1] = v
        BY DEF LineInv
    <1> DEFINE n == Len(queue)
    <1>2. queue' \in Seq(Workers) /\ Len(queue') = n - 1 /\ n >= 1 /\ \A i \in 1..(n - 1) : queue'[i] = queue[i + 1]
        <2> HIDE DEF Workers
        <2> QED BY <1>1
    <1>3. \A i \in 1..(n - 1) : i + 1 \in 1..n BY <1>1
    <1>4. n \in Nat /\ 1 \in 1..n BY <1>1, <1>2
    <1>5. \A v \in Workers : task'[v].pc = IF v = w THEN "off" ELSE task[v].pc BY DEF Off
    <1> HIDE DEF n
    <1>6. \A i, j \in 1..Len(queue') : queue'[i] = queue'[j] => i = j BY <1>1, <1>2, <1>3 DEF n
    <1>7. ASSUME NEW v \in Workers PROVE task'[v].pc # "off" <=> \E i \in 1..Len(queue') : queue'[i] = v
        <2>1. CASE v = w
            <3>1. \A i \in 1..(n - 1) : queue[i + 1] # w
                <4> SUFFICES ASSUME NEW i \in 1..(n - 1), queue[i + 1] = w PROVE FALSE OBVIOUS
                <4>1. i + 1 \in 1..n /\ i + 1 # 1 BY <1>3, <1>4
                <4> QED BY <1>1, <1>4, <4>1 DEF n
            <3> QED BY <1>2, <1>5, <2>1, <3>1
        <2>2. CASE v # w
            <3>1. ASSUME NEW i \in 1..n, queue[i] = v PROVE \E j \in 1..(n - 1) : queue'[j] = v
                <4>1. i # 1 BY <2>2, <3>1
                <4>2. i - 1 \in 1..(n - 1) /\ (i - 1) + 1 = i BY <1>4, <4>1
                <4> QED BY <1>2, <3>1, <4>2
            <3>2. (\E j \in 1..(n - 1) : queue'[j] = v) => \E i \in 1..n : queue[i] = v BY <1>2, <1>3
            <3> QED BY <1>1, <1>2, <1>5, <2>2, <3>1, <3>2 DEF n
        <2> QED BY <2>1, <2>2
    <1>8. \A v \in Workers : task'[v].pc \notin Working BY <1>1, <1>5 DEF Working
    <1> QED BY <1>2, <1>6, <1>7, <1>8 DEF LineInv, n

\* The turn leaves its place in the line, wherever that is.
LEMMA LineTurnGone ==
    ASSUME LineInv, WithoutTurn, task \in [Workers -> TaskRec]
    PROVE  LineInv'
    <1>1. /\ queue \in Seq(Workers) /\ Len(queue) \in Nat
          /\ \A i, j \in 1..Len(queue) : queue[i] = queue[j] => i = j
          /\ \A v \in Workers : task[v].pc # "off" <=> \E i \in 1..Len(queue) : queue[i] = v
          /\ \A v \in Workers : task[v].pc \in Working => queue # <<>> /\ queue[1] = v
        BY DEF LineInv
    <1> DEFINE n == Len(queue)
    <1>2. \A v \in Workers : task'[v].pc = IF v = "turn" THEN "off" ELSE task[v].pc BY DEF Off, WithoutTurn, Workers
    <1>3. CASE (\A i \in DOMAIN queue : queue[i] # "turn") /\ UNCHANGED queue
        <2>1. DOMAIN queue = 1..n BY <1>1
        <2> HIDE DEF n
        <2> QED BY <1>1, <1>2, <1>3, <2>1 DEF LineInv, n, Working
    <1>4. ASSUME NEW p \in DOMAIN queue, queue[p] = "turn", queue' = RemoveAt(queue, p)
          PROVE  LineInv'
        <2>1. /\ queue' \in Seq(Workers) /\ Len(queue') = n - 1 /\ n >= 1 /\ p \in 1..n
              /\ \A i \in 1..(n - 1) : queue'[i] = IF i < p THEN queue[i] ELSE queue[i + 1]
            <3>1. p \in 1..n /\ n \in Nat BY <1>1
            <3>2. SubSeq(queue, 1, p - 1) \in Seq(Workers) /\ SubSeq(queue, p + 1, n) \in Seq(Workers)
                <4> HIDE DEF Workers
                <4> QED BY <1>1, <3>1
            <3>3. Len(SubSeq(queue, 1, p - 1)) = p - 1 /\ Len(SubSeq(queue, p + 1, n)) = n - p
                <4> HIDE DEF Workers
                <4> QED BY <1>1, <3>1
            <3>4. /\ \A i \in 1..(p - 1) : SubSeq(queue, 1, p - 1)[i] = queue[i]
                  /\ \A i \in 1..(n - p) : SubSeq(queue, p + 1, n)[i] = queue[p + i]
                <4> HIDE DEF Workers
                <4> QED BY <1>1, <3>1
            <3> DEFINE a == SubSeq(queue, 1, p - 1)
                       b == SubSeq(queue, p + 1, n)
            <3>5. queue' = a \o b BY <1>4 DEF RemoveAt
            <3>6. /\ a \o b \in Seq(Workers) /\ Len(a \o b) = Len(a) + Len(b)
                  /\ \A i \in 1..Len(a) + Len(b) : (a \o b)[i] = IF i <= Len(a) THEN a[i] ELSE b[i - Len(a)]
                <4>1. a \in Seq(Workers) /\ b \in Seq(Workers) BY <3>2
                <4> HIDE DEF a, b, Workers
                <4> QED BY <4>1
            <3> HIDE DEF a, b, n
            <3>7. Len(a \o b) = n - 1 BY <3>1, <3>3, <3>6 DEF a, b
            <3>8. ASSUME NEW i \in 1..(n - 1) PROVE (a \o b)[i] = IF i < p THEN queue[i] ELSE queue[i + 1]
                <4>1. i \in 1..Len(a) + Len(b) /\ Len(a) = p - 1 BY <3>1, <3>3, <3>8 DEF a, b
                <4>2. (a \o b)[i] = IF i <= p - 1 THEN a[i] ELSE b[i - (p - 1)] BY <3>6, <4>1
                <4>3. CASE i < p
                    <5>1. i \in 1..(p - 1) /\ i <= p - 1 BY <3>1, <3>8, <4>3
                    <5> QED BY <3>4, <4>2, <4>3, <5>1 DEF a
                <4>4. CASE ~(i < p)
                    <5>1. i - (p - 1) \in 1..(n - p) /\ ~(i <= p - 1) /\ p + (i - (p - 1)) = i + 1 BY <3>1, <3>8, <4>4
                    <5> QED BY <3>4, <4>2, <4>4, <5>1 DEF b
                <4> QED BY <4>3, <4>4
            <3> QED BY <3>1, <3>5, <3>6, <3>7, <3>8
        <2>2. n \in Nat BY <1>1
        <2> DEFINE at(i) == IF i < p THEN i ELSE i + 1
        <2>3. \A i \in 1..(n - 1) : at(i) \in 1..n /\ at(i) # p /\ queue'[i] = queue[at(i)] BY <2>1, <2>2
        <2>4. \A i, j \in 1..(n - 1) : at(i) = at(j) => i = j BY <2>1, <2>2
        <2>5. \A k \in 1..n : k # p => \E i \in 1..(n - 1) : at(i) = k
            <3> SUFFICES ASSUME NEW k \in 1..n, k # p PROVE \E i \in 1..(n - 1) : at(i) = k OBVIOUS
            <3>1. CASE k < p
                <4>1. k \in 1..(n - 1) /\ at(k) = k BY <2>1, <2>2, <3>1
                <4> QED BY <4>1
            <3>2. CASE k > p
                <4>1. k - 1 \in 1..(n - 1) /\ at(k - 1) = k BY <2>1, <2>2, <3>2
                <4> QED BY <4>1
            <3> QED BY <2>1, <2>2, <3>1, <3>2
        <2>6. n > 1 /\ p # 1 => 1 \in 1..(n - 1) /\ at(1) = 1 BY <2>1, <2>2
        <2> HIDE DEF at, n
        <2>7. \A i, j \in 1..Len(queue') : queue'[i] = queue'[j] => i = j BY <1>1, <2>1, <2>3, <2>4 DEF n
        <2>8. ASSUME NEW v \in Workers PROVE task'[v].pc # "off" <=> \E i \in 1..Len(queue') : queue'[i] = v
            <3>1. CASE v = "turn"
                <4>1. \A i \in 1..(n - 1) : queue'[i] # "turn" BY <1>1, <1>4, <2>1, <2>3 DEF n
                <4> QED BY <1>2, <2>1, <3>1, <4>1
            <3>2. CASE v # "turn"
                <4>1. ASSUME NEW k \in 1..n, queue[k] = v PROVE \E i \in 1..(n - 1) : queue'[i] = v
                    <5>1. k # p BY <1>4, <3>2, <4>1
                    <5>2. PICK i \in 1..(n - 1) : at(i) = k BY <2>5, <5>1
                    <5> QED BY <2>3, <4>1, <5>2
                <4>2. (\E i \in 1..(n - 1) : queue'[i] = v) => \E k \in 1..n : queue[k] = v BY <2>3
                <4> QED BY <1>1, <1>2, <2>1, <3>2, <4>1, <4>2 DEF n
            <3> QED BY <3>1, <3>2
        <2>9. ASSUME NEW v \in Workers, task'[v].pc \in Working PROVE queue' # <<>> /\ queue'[1] = v
            <3>1. v # "turn" /\ task[v].pc \in Working BY <1>2, <2>9 DEF Working
            <3>2. queue # <<>> /\ queue[1] = v BY <1>1, <3>1
            <3>3. p # 1 /\ n > 1 BY <1>4, <2>1, <2>2, <3>1, <3>2
            <3>4. queue'[1] = v /\ Len(queue') # 0 BY <2>1, <2>2, <2>3, <2>6, <3>2, <3>3
            <3>5. Len(<<>>) = 0 OBVIOUS
            <3> QED BY <3>4, <3>5
        <2> QED BY <2>1, <2>7, <2>8, <2>9 DEF LineInv
    <1> QED BY <1>3, <1>4 DEF WithoutTurn

\* The line stays, and who comes to work is at its head.
LEMMA LineStays ==
    ASSUME LineInv, UNCHANGED queue,
           \A w \in Workers : task'[w].pc = task[w].pc
                              \/ (task[w].pc # "off" /\ task'[w].pc \in Working /\ queue # <<>> /\ queue[1] = w)
    PROVE  LineInv'
    <1>1. \A w \in Workers : task'[w].pc # "off" <=> task[w].pc # "off" BY DEF Working
    <1> QED BY <1>1 DEF LineInv

LEMMA RowsPart ==
    ASSUME NEW D, NEW s \in Seq(D), NEW m \in Nat \ {0}, NEW k \in 0..Len(s)
    PROVE  /\ SubSeq(s, m, k) \in Seq(D)
           /\ Len(SubSeq(s, m, k)) = IF k < m THEN 0 ELSE k - m + 1
           /\ \A i \in 1..Len(SubSeq(s, m, k)) : SubSeq(s, m, k)[i] = s[m + i - 1]
    BY SMTT(30)

\* What a compaction keeps is the end of the rows.
LEMMA SuffixIs ==
    ASSUME NEW rows \in Seq(Row)
    PROVE  /\ Suffix(rows) \in Seq(Row)
           /\ \E d \in 0..Len(rows) : /\ Len(Suffix(rows)) = Len(rows) - d
                                      /\ \A i \in 1..Len(Suffix(rows)) : Suffix(rows)[i] = rows[d + i]
    <1> DEFINE from == Len(rows) - MaxSuffix + 1
               users == {i \in 1..from : rows[i].by = "user"} \cup {1}
    <1>1. MaxSuffix \in Nat \ {0} /\ Len(rows) \in Nat BY SessionAssumption
    <1>2. CASE Len(rows) <= MaxSuffix
        <2>1. Suffix(rows) = rows BY <1>2 DEF Suffix
        <2>2. 0 \in 0..Len(rows) /\ Len(rows) = Len(rows) - 0 BY <1>1
        <2>3. \A i \in 1..Len(rows) : rows[i] = rows[0 + i] OBVIOUS
        <2> QED BY <2>1, <2>2, <2>3
    <1>3. CASE ~(Len(rows) <= MaxSuffix)
        <2>1. from \in 1..Len(rows) BY <1>1, <1>3
        <2>2. users \in SUBSET (1..from) /\ users # {} BY <1>1, <2>1
        <2> HIDE DEF users
        <2>3. \E i \in users : \A j \in users : j <= i
            <3>1. from \in Nat BY <1>1, <2>1
            <3> HIDE DEF from
            <3> QED BY <2>2, <3>1, GreatestNumber
        <2>4. \E i \in users : \A j \in users : i >= j
            <3>1. \A i, j \in users : j <= i => i >= j BY <2>1, <2>2
            <3> QED BY <2>3, <3>1
        <2> DEFINE k == CHOOSE i \in users : \A j \in users : i >= j
        <2>5. k \in users BY <2>4
        <2>6. Suffix(rows) = SubSeq(rows, k, Len(rows)) BY <1>3 DEF Suffix, users
        <2> HIDE DEF k
        <2>7. k \in 1..Len(rows) BY <2>1, <2>2, <2>5
        <2> DEFINE q == SubSeq(rows, k, Len(rows))
        <2>8. q \in Seq(Row) /\ Len(q) = Len(rows) - k + 1 /\ \A i \in 1..Len(q) : q[i] = rows[k + i - 1]
            <3>1. k \in Nat \ {0} /\ Len(rows) \in 0..Len(rows) /\ ~(Len(rows) < k) BY <1>1, <2>7
            <3> HIDE DEF Row
            <3> QED BY <3>1, RowsPart
        <2> HIDE DEF q
        <2>9. k - 1 \in 0..Len(rows) /\ Len(q) = Len(rows) - (k - 1) BY <1>1, <2>7, <2>8
        <2>10. \A i \in 1..Len(q) : k + i - 1 = (k - 1) + i BY <1>1, <2>7
        <2>11. \A i \in 1..Len(q) : q[i] = rows[(k - 1) + i] BY <2>8, <2>10
        <2> QED BY ZenonT(60), <2>6, <2>8, <2>9, <2>11 DEF q
    <1> QED BY <1>2, <1>3

LEMMA RestIs ==
    ASSUME NEW s \in SessionRec, s.lc <= Len(s.rows)
    PROVE  /\ Unconsolidated(s) \in Seq(Row) /\ Len(Unconsolidated(s)) = Len(s.rows) - s.lc
           /\ \A i \in 1..Len(Unconsolidated(s)) : Unconsolidated(s)[i] = s.rows[s.lc + i]
    <1> DEFINE n == Len(s.rows)
               q == SubSeq(s.rows, s.lc + 1, n)
    <1>1. s.rows \in Seq(Row) /\ s.lc \in Nat /\ n \in Nat /\ s.lc + 1 \in Nat \ {0} /\ n \in 0..n BY DEF SessionRec
    <1>2. q \in Seq(Row) /\ Len(q) = (IF n < s.lc + 1 THEN 0 ELSE n - (s.lc + 1) + 1)
          /\ \A i \in 1..Len(q) : q[i] = s.rows[s.lc + 1 + i - 1]
        <2> HIDE DEF Row
        <2> QED BY SMTT(30), <1>1, RowsPart
    <1> HIDE DEF n, q
    <1>3. Len(q) = n - s.lc BY <1>1, <1>2 DEF n
    <1>4. \A i \in 1..Len(q) : s.lc + 1 + i - 1 = s.lc + i BY <1>1
    <1> QED BY <1>2, <1>3, <1>4 DEF n, q, Unconsolidated

\* A chunk ends within the rows.
LEMMA EndIs ==
    ASSUME NEW s \in SessionRec, NEW b \in Boundaries(s), NEW end \in Cap(s, b), end > s.lc
    PROVE  end \in 1..Len(s.rows)
    <1> DEFINE n == Len(s.rows)
               users == {i - 1 : i \in {j \in s.lc + 2..n : UserAt(s, j)}}
               answers == {i - 1 : i \in {j \in s.lc + 2..n : s.rows[j].by # "user"}}
               fits == {i \in s.lc + 1..s.lc + MaxChunk : UserAt(s, i + 1)}
    <1>1. n \in Nat /\ s.lc \in Nat /\ MaxChunk \in Nat BY SessionAssumption DEF SessionRec
    <1>2. users \subseteq 1..n /\ answers \subseteq 1..n BY <1>1
    <1>3. fits \subseteq 1..n BY <1>1 DEF UserAt
    <1>4. answers # {} => (CHOOSE i \in answers : \A j \in answers : i <= j) \in answers
        <2>1. answers \in SUBSET Nat BY <1>2
        <2> HIDE DEF answers
        <2>2. answers # {} => \E i \in answers : \A j \in answers : i <= j BY <2>1, LeastNumber
        <2> QED BY <2>2
    <1>5. fits # {} => (CHOOSE i \in fits : \A j \in fits : i >= j) \in fits
        <2> HIDE DEF fits, n
        <2>1. fits # {} => \E i \in fits : \A j \in fits : j <= i BY <1>1, <1>3, GreatestNumber
        <2>2. \A i, j \in fits : j <= i => i >= j BY <1>1, <1>3
        <2>3. fits # {} => \E i \in fits : \A j \in fits : i >= j BY <2>1, <2>2
        <2> QED BY <2>3
    <1>6. b \in 1..n
        <2> DEFINE first == CHOOSE i \in answers : \A j \in answers : i <= j
        <2>1. Boundaries(s) = CASE s.lc >= n -> {} [] users # {} -> users [] answers # {} -> {first} [] OTHER -> {n}
            BY DEF Boundaries
        <2>0. s.lc >= n => users = {} /\ answers = {} BY <1>1
        <2> HIDE DEF users, answers, n, first
        <2>2. s.lc < n
            <3>1. s.lc >= n => Boundaries(s) = {} BY <2>0, <2>1
            <3> QED BY <1>1, <3>1
        <2>3. b \in users \/ (answers # {} /\ b = first) \/ b = n BY <1>1, <2>1, <2>2
        <2>4. n \in 1..n BY <1>1, <2>2
        <2> QED BY <1>2, <1>4, <2>3, <2>4 DEF first
    <1>7. end = b \/ (fits # {} /\ end = CHOOSE i \in fits : \A j \in fits : i >= j)
        <2> HIDE DEF fits
        <2> QED BY DEF Cap, fits
    <1> HIDE DEF fits
    <1> QED BY <1>3, <1>5, <1>6, <1>7

\* There is an object that nobody holds.
LEMMA FreeObject ==
    ASSUME MemTyped, NEW c \in Objects \cup {Nobody}, c = Nobody \/ c = turn.obj
    PROVE  \E o \in Objects : o \notin {c, turn.obj} \cup {task[w].obj : w \in Workers}
    <1> DEFINE a == turn.obj
               x == task["turn"].obj
               y == task["after"].obj
               z == task["idle"].obj
    <1>1. {c, turn.obj} \cup {task[w].obj : w \in Workers} = {c, a, x, y, z} BY DEF Workers
    <1>2. a \in 0..5 /\ x \in 0..5 /\ y \in 0..5 /\ z \in 0..5
        BY DEF MemTyped, Workers, TaskRec, TurnRec, Objects, Nobody
    <1>3. c = 0 \/ c = a BY DEF Nobody
    <1> HIDE DEF a, x, y, z
    <1>4. \E o \in 1..5 : o # a /\ o # x /\ o # y /\ o # z
        <2> SUFFICES ASSUME \A o \in 1..5 : o = a \/ o = x \/ o = y \/ o = z PROVE FALSE OBVIOUS
        <2>1. 1 = a \/ 1 = x \/ 1 = y \/ 1 = z OBVIOUS
        <2>2. 2 = a \/ 2 = x \/ 2 = y \/ 2 = z OBVIOUS
        <2>3. 3 = a \/ 3 = x \/ 3 = y \/ 3 = z OBVIOUS
        <2>4. 4 = a \/ 4 = x \/ 4 = y \/ 4 = z OBVIOUS
        <2>5. 5 = a \/ 5 = x \/ 5 = y \/ 5 = z OBVIOUS
        <2> QED BY <1>2, <2>1, <2>2, <2>3, <2>4, <2>5
    <1>5. PICK o \in 1..5 : o # a /\ o # x /\ o # y /\ o # z BY <1>4
    <1>6. o \notin {c, a, x, y, z} BY <1>3, <1>5
    <1> QED BY <1>1, <1>6 DEF Objects, a, x, y, z

\* The object of the cache, or one that nobody holds, with the rows of the file.
LEMMA HandleIs ==
    ASSUME MemTyped
    PROVE  /\ Handle \in Objects /\ Found \in SessionRec
           /\ cached # Nobody => Handle = cached /\ Found = obj[cached]
           /\ cached = Nobody => Handle \notin Held /\ Found = disk
    <1>1. CASE cached # Nobody BY <1>1 DEF Handle, Found, MemTyped
    <1>2. CASE cached = Nobody
        <2>1. \E o \in Objects : o \notin {cached, turn.obj} \cup {task[w].obj : w \in Workers}
            BY <1>2, FreeObject
        <2>2. Unheld \in Objects /\ Unheld \notin {cached, turn.obj} \cup {task[w].obj : w \in Workers}
            BY <2>1 DEF Unheld
        <2> QED BY <1>2, <2>2 DEF Handle, Found, MemTyped, Held
    <1> QED BY <1>1, <1>2

\* What last_consolidated hides of a session is archived; what an archive is about to hide is, or is in its chunk.
Hides(s, ar)    == s.lc <= Len(s.rows) /\ \A i \in 1..s.lc : s.rows[i] \in ar
Picks(t, s, ar) == t.upto \in 1..Len(s.rows) /\ \A i \in 1..t.upto : s.rows[i] \in ar \cup t.chunk

HidOk(ob, dk, H, ta, ar) ==
    /\ Hides(dk, ar) /\ \A o \in H : Hides(ob[o], ar)
    /\ \A w \in Workers \ {"idle"} : ta[w].pc = "archive" => Picks(ta[w], ob[ta[w].obj], ar)

MemInv == MemTyped /\ LineInv /\ (skewed \/ HidOk(obj, disk, Held, task, archived))

LEMMA HidesMore ==
    ASSUME NEW s, NEW ar, NEW ar2, ar \subseteq ar2
    PROVE  (Hides(s, ar) => Hides(s, ar2)) /\ \A t : Picks(t, s, ar) => Picks(t, s, ar2)
    BY DEF Hides, Picks

\* An object is replaced by another that hides no more than is archived.
LEMMA HidPut ==
    ASSUME NEW ob \in [Objects -> SessionRec], NEW dk, NEW H, NEW ta, NEW ar, HidOk(ob, dk, H, ta, ar),
           NEW o \in Objects, NEW s, NEW dk2, NEW H2, NEW ta2, NEW ar2, ar \subseteq ar2,
           Hides(s, ar2), dk2 = dk \/ Hides(dk2, ar2), H2 \subseteq (H \cup {o}) \cap Objects,
           \A w \in Workers \ {"idle"} : ta2[w].pc = "archive" =>
               ta2[w] = ta[w] /\ ta[w].obj \in Objects /\ (ta[w].obj = o => Picks(ta[w], s, ar2))
    PROVE  HidOk([ob EXCEPT ![o] = s], dk2, H2, ta2, ar2)
    <1> DEFINE ob2 == [ob EXCEPT ![o] = s]
    <1>1. \A p \in Objects : ob2[p] = IF p = o THEN s ELSE ob[p] OBVIOUS
    <1> HIDE DEF ob2
    <1>2. Hides(dk2, ar2) BY HidesMore DEF HidOk
    <1>3. ASSUME NEW p \in H2 PROVE Hides(ob2[p], ar2)
        <2>1. p \in Objects /\ (p \in H \/ p = o) OBVIOUS
        <2>2. CASE p = o BY <1>1, <2>1, <2>2
        <2>3. CASE p # o
            <3>1. Hides(ob[p], ar) BY <2>1, <2>3 DEF HidOk
            <3>2. Hides(ob[p], ar2) BY <3>1, HidesMore
            <3> QED BY <1>1, <2>1, <2>3, <3>2
        <2> QED BY <2>2, <2>3
    <1>4. ASSUME NEW w \in Workers \ {"idle"}, ta2[w].pc = "archive" PROVE Picks(ta2[w], ob2[ta2[w].obj], ar2)
        <2>1. ta2[w] = ta[w] /\ ta[w].obj \in Objects /\ (ta[w].obj = o => Picks(ta[w], s, ar2)) BY <1>4
        <2>2. CASE ta[w].obj = o BY <1>1, <2>1, <2>2
        <2>3. CASE ta[w].obj # o
            <3>1. Picks(ta[w], ob[ta[w].obj], ar) BY <1>4, <2>1 DEF HidOk
            <3>2. Picks(ta[w], ob[ta[w].obj], ar2) BY <3>1, HidesMore
            <3> QED BY <1>1, <2>1, <2>3, <3>2
        <2> QED BY <2>2, <2>3
    <1> QED BY <1>2, <1>3, <1>4 DEF HidOk, ob2

\* The objects stay.
LEMMA HidStay ==
    ASSUME NEW ob, NEW dk, NEW H, NEW ta, NEW ar, HidOk(ob, dk, H, ta, ar),
           NEW dk2, NEW H2, NEW ta2, NEW ar2, ar \subseteq ar2,
           dk2 = dk \/ Hides(dk2, ar2), H2 \subseteq H,
           \A w \in Workers \ {"idle"} : ta2[w].pc = "archive" => ta2[w] = ta[w]
    PROVE  HidOk(ob, dk2, H2, ta2, ar2)
    <1>1. Hides(dk2, ar2) BY HidesMore DEF HidOk
    <1>2. ASSUME NEW p \in H2 PROVE Hides(ob[p], ar2)
        <2>1. Hides(ob[p], ar) BY DEF HidOk
        <2> QED BY <2>1, HidesMore
    <1>3. ASSUME NEW w \in Workers \ {"idle"}, ta2[w].pc = "archive" PROVE Picks(ta2[w], ob[ta2[w].obj], ar2)
        <2>1. ta2[w] = ta[w] BY <1>3
        <2>2. Picks(ta[w], ob[ta[w].obj], ar) BY <1>3, <2>1 DEF HidOk
        <2> QED BY <2>1, <2>2, HidesMore
    <1> QED BY <1>1, <1>2, <1>3 DEF HidOk

\* A session with one more row at its end.
Grown(t, s, row) ==
    /\ t \in SessionRec /\ t.lc = s.lc /\ Len(t.rows) = Len(s.rows) + 1 /\ Len(s.rows) \in Nat
    /\ \A i \in 1..Len(s.rows) : t.rows[i] = s.rows[i]
    /\ RowsOf(t) = RowsOf(s) \cup {row}

LEMMA WithRowIs ==
    ASSUME NEW s \in SessionRec, made \in 0..MaxRow, CanMake, NEW by \in {"user", "reply", "note"}
    PROVE  /\ NewRow(by) \in Row /\ NewRow(by).by = by
           /\ Grown(WithRow(s, by), s, NewRow(by))
           /\ \A b \in BOOLEAN : Grown([WithRow(s, by) EXCEPT !.pend = b], s, NewRow(by))
    <1> DEFINE new == NewRow(by)
               q == Append(s.rows, new)
               n == Len(s.rows)
    <1>1. new \in Row /\ new.by = by BY SessionAssumption DEF NewRow, Row, CanMake
    <1>2. s.rows \in Seq(Row) /\ n \in Nat BY DEF SessionRec
    <1>3. q \in Seq(Row) /\ Len(q) = n + 1 /\ (\A i \in 1..n : q[i] = s.rows[i]) /\ q[n + 1] = new
        <2> HIDE DEF new, Row
        <2> QED BY <1>1, <1>2
    <1>4. ToSet(q) = ToSet(s.rows) \cup {new}
        <2>1. ToSet(q) = {q[i] : i \in 1..(n + 1)} /\ ToSet(s.rows) = {s.rows[i] : i \in 1..n}
            <3> HIDE DEF q, new, Row
            <3> QED BY <1>2, <1>3 DEF ToSet
        <2> HIDE DEF q, new, n
        <2>2. \A i \in 1..(n + 1) : i \in 1..n \/ i = n + 1 BY <1>2
        <2>3. (\A i \in 1..n : i \in 1..(n + 1)) /\ n + 1 \in 1..(n + 1) BY <1>2
        <2>4. \A x : x \in ToSet(q) => x \in ToSet(s.rows) \cup {new} BY <1>3, <2>1, <2>2
        <2>5. \A x : x \in ToSet(s.rows) \cup {new} => x \in ToSet(q) BY <1>3, <2>1, <2>3
        <2> QED BY <2>4, <2>5
    <1> HIDE DEF new, q
    <1>5. WithRow(s, by) = [s EXCEPT !.rows = q] BY DEF WithRow, q, new
    <1>6. WithRow(s, by) \in SessionRec /\ WithRow(s, by).rows = q /\ WithRow(s, by).lc = s.lc
        BY <1>3, <1>5 DEF SessionRec
    <1>7. ASSUME NEW b \in BOOLEAN
          PROVE  /\ [WithRow(s, by) EXCEPT !.pend = b] \in SessionRec
                 /\ [WithRow(s, by) EXCEPT !.pend = b].rows = q /\ [WithRow(s, by) EXCEPT !.pend = b].lc = s.lc
        BY <1>6 DEF SessionRec
    <1> QED BY <1>1, <1>2, <1>3, <1>4, <1>6, <1>7 DEF Grown, RowsOf, new

LEMMA GrownHides ==
    ASSUME NEW s \in SessionRec, NEW t, NEW row, Grown(t, s, row), NEW ar
    PROVE  (Hides(s, ar) => Hides(t, ar)) /\ \A k : k.upto \in Nat /\ Picks(k, s, ar) => Picks(k, t, ar)
    <1>1. s.lc \in Nat /\ Len(s.rows) \in Nat /\ t.lc = s.lc /\ Len(t.rows) = Len(s.rows) + 1
          /\ \A i \in 1..Len(s.rows) : t.rows[i] = s.rows[i]
        BY DEF Grown, SessionRec
    <1>2. ASSUME Hides(s, ar) PROVE Hides(t, ar)
        <2>1. \A i \in 1..s.lc : i \in 1..Len(s.rows) BY <1>1, <1>2 DEF Hides
        <2>2. s.lc <= Len(t.rows) BY <1>1, <1>2 DEF Hides
        <2> QED BY <1>1, <1>2, <2>1, <2>2 DEF Hides
    <1>3. ASSUME NEW k, k.upto \in Nat, Picks(k, s, ar) PROVE Picks(k, t, ar)
        <2>1. k.upto \in 1..Len(s.rows) /\ \A i \in 1..k.upto : s.rows[i] \in ar \cup k.chunk BY <1>3 DEF Picks
        <2>2. k.upto \in 1..Len(t.rows) /\ \A i \in 1..k.upto : i \in 1..Len(s.rows) BY <1>1, <2>1
        <2> QED BY <1>1, <2>1, <2>2 DEF Picks
    <1> QED BY <1>2, <1>3

LEMMA HeldIs ==
    ASSUME MemTyped
    PROVE  /\ Held \subseteq Objects /\ (cached # Nobody => cached \in Held) /\ (turn.pc # "off" => turn.obj \in Held)
           /\ turn.obj # Nobody => turn.obj \in Held
           /\ \A w \in Workers : task[w].pc \in Working => task[w].obj \in Held
           /\ \A w \in Workers : task[w] \in TaskRec /\ task[w].upto \in Nat
    <1>1. \A w \in Workers : task[w] \in TaskRec BY DEF MemTyped
    <1>2. \A w \in Workers : task[w].obj \in Objects \cup {Nobody} /\ task[w].upto \in Nat BY <1>1 DEF TaskRec
    <1>3. turn.obj \in Objects \cup {Nobody} /\ cached \in Objects \cup {Nobody} BY DEF MemTyped, TurnRec
    <1>4. Held \subseteq Objects BY <1>2, <1>3 DEF Held
    <1>5. (cached # Nobody => cached \in Held) /\ (turn.pc # "off" => turn.obj \in Held)
        BY DEF Held, MemTyped
    <1>6. \A w \in Workers : task[w].pc \in Working => task[w].obj \in Held
        BY DEF Held, MemTyped
    <1> QED BY <1>1, <1>2, <1>4, <1>5, <1>6 DEF Held

\* What a command or a turn finds hides no more than is archived, also once a row is added.
LEMMA FoundHides ==
    ASSUME MemTyped, HidOk(obj, disk, Held, task, archived)
    PROVE  /\ Hides(Found, archived)
           /\ \A w \in Workers \ {"idle"} : task[w].pc = "archive" =>
                  task[w].obj \in Objects /\ (task[w].obj = Handle => Picks(task[w], Found, archived))
    <1>1. CASE cached # Nobody
        <2>1. cached \in Held /\ Handle = cached /\ Found = obj[cached] BY <1>1, HeldIs, HandleIs
        <2> QED BY <2>1, HeldIs DEF HidOk, Working
    <1>2. CASE cached = Nobody
        <2>1. Handle \notin Held /\ Found = disk BY <1>2, HandleIs
        <2> QED BY <2>1, HeldIs DEF HidOk, Working
    <1> QED BY <1>1, <1>2

LEMMA PutFound ==
    ASSUME MemInv, NEW s, s = Found \/ \E row : Grown(s, Found, row), obj' = [obj EXCEPT ![Handle] = s],
           disk' = disk \/ disk' = s, Held' \subseteq Held \cup {Handle}, UNCHANGED <<archived, skewed>>,
           \A w \in Workers \ {"idle"} : task'[w].pc = "archive" => task'[w] = task[w]
    PROVE  skewed' \/ HidOk(obj', disk', Held', task', archived')
    <1> SUFFICES ASSUME ~skewed PROVE HidOk(obj', disk', Held', task', archived') OBVIOUS
    <1>1. MemTyped /\ HidOk(obj, disk, Held, task, archived) BY DEF MemInv
    <1>2. Handle \in Objects /\ Found \in SessionRec /\ obj \in [Objects -> SessionRec] /\ Held \subseteq Objects
        BY <1>1, HandleIs, HeldIs DEF MemTyped
    <1>3. \A w \in Workers : task[w].upto \in Nat BY <1>1, HeldIs
    <1>4. Hides(s, archived) BY <1>1, <1>2, FoundHides, GrownHides
    <1>5. ASSUME NEW w \in Workers \ {"idle"}, task'[w].pc = "archive"
          PROVE  task'[w] = task[w] /\ task[w].obj \in Objects /\ (task[w].obj = Handle => Picks(task[w], s, archived))
        <2>1. task'[w] = task[w] /\ task[w].pc = "archive" BY <1>5
        <2>2. task[w].obj \in Objects /\ (task[w].obj = Handle => Picks(task[w], Found, archived))
            BY <1>1, <2>1, FoundHides
        <2>3. w \in Workers /\ task[w].upto \in Nat BY <1>3
        <2> QED BY <1>2, <2>1, <2>2, <2>3, GrownHides
    <1>6. disk' = disk \/ Hides(disk', archived') BY <1>4
    <1>7. Held' \subseteq (Held \cup {Handle}) \cap Objects BY <1>2
    <1>8. HidOk([obj EXCEPT ![Handle] = s], disk', Held', task', archived')
        BY <1>1, <1>2, <1>4, <1>5, <1>6, <1>7, HidPut
    <1> QED BY <1>8

\* A worker's record, and the turn's.
LEMMA RecordsAre ==
    /\ Off \in TaskRec /\ Off.pc = "off" /\ Off.obj = Nobody
    /\ [Off EXCEPT !.pc = "wait"] \in TaskRec /\ [Off EXCEPT !.pc = "wait"].pc = "wait" /\ [Off EXCEPT !.pc = "wait"].obj = Nobody
    /\ NoTurn \in TurnRec /\ NoTurn.pc = "off" /\ NoTurn.obj = Nobody
    <1>1. <<>> \in Seq(Row) /\ {} \in SUBSET Row /\ 0 \in Nat OBVIOUS
    <1>2. Off \in TaskRec /\ Off.pc = "off" /\ Off.obj = Nobody BY <1>1 DEF Off, TaskRec
    <1>3. /\ [Off EXCEPT !.pc = "wait"] \in TaskRec /\ [Off EXCEPT !.pc = "wait"].pc = "wait"
          /\ [Off EXCEPT !.pc = "wait"].obj = Nobody
        BY <1>2 DEF TaskRec
    <1>4. NoTurn \in TurnRec /\ NoTurn.pc = "off" /\ NoTurn.obj = Nobody BY DEF NoTurn, TurnRec
    <1> QED BY <1>2, <1>3, <1>4

LEMMA TurnBeginKeeps ==
    ASSUME MemInv, NEW kind \in {"bus", "direct"}, TurnBegin(kind)
    PROVE  MemInv'
    <1> DEFINE wait == [Off EXCEPT !.pc = "wait"]
    <1>1. MemTyped /\ LineInv BY DEF MemInv
    <1>2. /\ turn.pc = "off" /\ CanMake /\ queue' = Append(queue, "turn") /\ UNCHANGED <<archived, skewed>>
          /\ turn' = [pc |-> "wait", kind |-> kind, obj |-> Handle] /\ task' = [task EXCEPT !["turn"] = wait]
        BY DEF TurnBegin
    <1>3. /\ Handle \in Objects /\ Found \in SessionRec /\ made \in 0..MaxRow /\ task \in [Workers -> TaskRec]
          /\ "turn" \in Workers
        BY <1>1, HandleIs DEF MemTyped, Workers
    <1>4. wait \in TaskRec /\ wait.pc = "wait" /\ wait.obj = Nobody BY RecordsAre
    <1> HIDE DEF wait
    <1>5. PICK s \in SessionRec : /\ s = Found \/ \E row : Grown(s, Found, row)
                                  /\ obj' = [obj EXCEPT ![Handle] = s] /\ cached' = Handle
                                  /\ disk' = disk \/ disk' = s
                                  /\ made' \in 0..MaxRow
        <2>1. CASE Found.pend
            <3> DEFINE t == [WithRow(Found, "note") EXCEPT !.pend = FALSE]
            <3>1. Grown(t, Found, NewRow("note")) BY <1>2, <1>3, WithRowIs
            <3>2. Save(Handle, t) /\ made' = made + 1 BY <2>1 DEF TurnBegin
            <3>3. made' \in 0..MaxRow BY <1>2, <1>3, <3>2, SessionAssumption DEF CanMake
            <3> HIDE DEF t
            <3>4. t \in SessionRec BY <3>1 DEF Grown
            <3> QED BY <3>1, <3>2, <3>3, <3>4 DEF Save
        <2>2. CASE ~Found.pend
            <3>1. Hold(Handle, Found) /\ UNCHANGED made BY <2>2 DEF TurnBegin
            <3> QED BY <1>3, <3>1 DEF Hold
        <2> QED BY <2>1, <2>2
    <1>6. \A w \in Workers : task'[w] = IF w = "turn" THEN wait ELSE task[w] BY <1>2, <1>3
    <1>7. task["turn"].pc = "off" BY <1>1, <1>2 DEF MemTyped
    <1>8. LineInv' BY <1>1, <1>2, <1>3, <1>7, LineJoined DEF wait
    <1>9. Held' \subseteq Held \cup {Handle} BY <1>2, <1>4, <1>5, <1>6 DEF Held
    <1>10. skewed' \/ HidOk(obj', disk', Held', task', archived')
        BY <1>2, <1>4, <1>5, <1>6, <1>9, PutFound
    <1>11. turn' \in TurnRec /\ turn'.pc = "wait" /\ turn'.obj # Nobody
        BY <1>2, <1>3 DEF TurnRec, Objects, Nobody
    <1>12. task' \in [Workers -> TaskRec] BY <1>2, <1>3, <1>4
    <1>13. \A w \in Workers : task'[w].pc \in Working <=> task'[w].obj # Nobody
        BY <1>1, <1>4, <1>6 DEF MemTyped, Working
    <1>14. task'["turn"].pc # "off" BY <1>3, <1>4, <1>6
    <1>15. obj' \in [Objects -> SessionRec] /\ disk' \in SessionRec /\ cached' \in Objects BY <1>1, <1>3, <1>5 DEF MemTyped
    <1>16. MemTyped' BY <1>1, <1>2, <1>5, <1>11, <1>12, <1>13, <1>14, <1>15 DEF MemTyped
    <1> QED BY <1>8, <1>10, <1>16 DEF MemInv

\* The lock is left by who is at its head: nobody works then.
LEMMA LeaveKeeps ==
    ASSUME MemInv, NEW w \in {"turn", "after"}, NEW store \in BOOLEAN, NEW o \in Objects, NEW s \in SessionRec,
           task[w].pc # "off", queue # <<>>, queue[1] = w, Leave(w, store, o, s),
           archived \subseteq archived', UNCHANGED skewed, ~skewed => Hides(s, archived')
    PROVE  MemInv' /\ Len(queue') = Len(queue) - 1 /\ \A v \in Workers : task'[v].pc \notin Working
    <1>1. MemTyped /\ LineInv BY DEF MemInv
    <1>2. /\ task' = [task EXCEPT ![w] = Off] /\ queue' = Tail(queue) /\ w \in Workers
          /\ task \in [Workers -> TaskRec] /\ obj \in [Objects -> SessionRec]
        BY <1>1 DEF Leave, Release, Workers, MemTyped
    <1>3. LineInv' /\ Len(queue') = Len(queue) - 1 /\ \A v \in Workers : task'[v].pc \notin Working
        BY <1>1, <1>2, LineLeft
    <1>4. \A v \in Workers : task'[v] = IF v = w THEN Off ELSE task[v] BY <1>2
    <1>5. task' \in [Workers -> TaskRec] /\ Off.pc = "off" /\ Off.obj = Nobody BY <1>2, RecordsAre
    <1>6. \A v \in Workers : task'[v].pc \in Working <=> task'[v].obj # Nobody
        BY <1>1, <1>4, <1>5 DEF MemTyped, Working
    <1>7. Held \subseteq Objects BY <1>1, HeldIs
    <1>8. ~skewed => HidOk(obj, disk, Held, task, archived) BY DEF MemInv
    <1>9. \A v \in Workers \ {"idle"} : task'[v].pc # "archive" BY <1>3 DEF Working
    <1>10. CASE w = "after"
        <2>1. /\ obj' = [obj EXCEPT ![o] = s] /\ cached' = o /\ UNCHANGED <<turn, made>>
              /\ disk' = disk \/ disk' = s
            BY <1>10 DEF Leave, Save, Hold
        <2>2. Held' \subseteq (Held \cup {o}) \cap Objects BY <1>4, <1>5, <1>7, <2>1 DEF Held
        <2>3. ~skewed => HidOk([obj EXCEPT ![o] = s], disk', Held', task', archived')
            <3> SUFFICES ASSUME ~skewed PROVE HidOk([obj EXCEPT ![o] = s], disk', Held', task', archived') OBVIOUS
            <3>1. disk' = disk \/ Hides(disk', archived') BY <2>1
            <3> QED BY <1>2, <1>8, <1>9, <2>2, <3>1, HidPut
        <2>4. task'["turn"] = task["turn"] BY <1>4, <1>10 DEF Workers
        <2>5. obj' \in [Objects -> SessionRec] /\ disk' \in SessionRec /\ cached' \in Objects BY <1>1, <2>1 DEF MemTyped
        <2>6. MemTyped' BY <1>1, <1>5, <1>6, <2>1, <2>4, <2>5 DEF MemTyped
        <2> QED BY <1>3, <2>1, <2>3, <2>6 DEF MemInv
    <1>11. CASE w = "turn"
        <2> DEFINE mine == IF turn.obj = o THEN s ELSE obj[turn.obj]
                   t == [WithRow(mine, "user") EXCEPT !.pend = TRUE]
                   ob1 == [obj EXCEPT ![o] = s]
        <2>1. turn.pc = "wait" /\ turn.obj \in Objects /\ turn.obj \in Held /\ made \in 0..MaxRow
            BY <1>1, <1>11, HeldIs DEF MemTyped, TurnRec
        <2>2. /\ CanMake /\ obj' = [ob1 EXCEPT ![turn.obj] = t] /\ cached' = turn.obj /\ disk' = obj'[turn.obj]
              /\ turn' = [turn EXCEPT !.pc = "run"] /\ made' = made + 1
            BY <1>11 DEF Leave
        <2>3. mine \in SessionRec /\ ob1 \in [Objects -> SessionRec] BY <1>2, <2>1
        <2>4. Grown(t, mine, NewRow("user")) BY <2>1, <2>2, <2>3, WithRowIs
        <2>5. ~skewed => Hides(mine, archived')
            <3>1. ~skewed => Hides(obj[turn.obj], archived) BY <1>8, <2>1 DEF HidOk
            <3>2. ~skewed => Hides(obj[turn.obj], archived') BY <3>1, HidesMore
            <3> QED BY <3>2
        <2> HIDE DEF mine, t, ob1
        <2>6. ~skewed => Hides(t, archived') BY <2>3, <2>4, <2>5, GrownHides
        <2>7. t \in SessionRec BY <2>4 DEF Grown
        <2>8. obj' \in [Objects -> SessionRec] /\ disk' = t BY <2>1, <2>2, <2>3, <2>7
        <2>9. turn' \in TurnRec /\ turn'.pc = "run" /\ turn'.obj = turn.obj
            BY <1>1, <2>2 DEF TurnRec, MemTyped
        <2>10. Held' \subseteq (Held \cup {o} \cup {turn.obj}) \cap Objects
            BY <1>4, <1>5, <1>7, <2>1, <2>2, <2>9 DEF Held
        <2>11. ~skewed => HidOk(obj', disk', Held', task', archived')
            <3> SUFFICES ASSUME ~skewed PROVE HidOk(obj', disk', Held', task', archived') OBVIOUS
            <3>1. Held \cup {o} \subseteq (Held \cup {o}) \cap Objects BY <1>7
            <3>2. HidOk([obj EXCEPT ![o] = s], disk, Held \cup {o}, task', archived')
                BY <1>2, <1>8, <1>9, <3>1, HidPut
            <3>3. HidOk(ob1, disk, Held \cup {o}, task', archived') BY <3>2 DEF ob1
            <3>4. disk' = disk \/ Hides(disk', archived') BY <2>6, <2>8
            <3>5. archived' \subseteq archived' OBVIOUS
            <3>6. HidOk([ob1 EXCEPT ![turn.obj] = t], disk', Held', task', archived')
                BY <1>9, <2>1, <2>3, <2>6, <2>10, <3>3, <3>4, <3>5, HidPut
            <3> QED BY <2>2, <3>6
        <2>12. task'["turn"].pc = "off" BY <1>4, <1>5, <1>11 DEF Workers
        <2>13. made' \in 0..MaxRow BY <2>1, <2>2, SessionAssumption DEF CanMake
        <2>14. MemTyped' BY <1>1, <1>5, <1>6, <2>1, <2>2, <2>7, <2>8, <2>9, <2>12, <2>13 DEF MemTyped
        <2> QED BY <1>3, <2>11, <2>14 DEF MemInv
    <1> QED BY <1>10, <1>11

LEMMA EnterKeeps == ASSUME MemInv, NEW w \in Workers, Enter(w) PROVE MemInv'
    <1>1. MemTyped /\ LineInv BY DEF MemInv
    <1>2. /\ w \in {"turn", "after"} /\ queue # <<>> /\ queue[1] = w /\ task[w].pc = "wait" /\ task[w].pc # "off"
          /\ UNCHANGED <<archived, skewed>>
        <2>1. queue \in Seq(Workers) BY <1>1 DEF LineInv
        <2>2. queue # <<>> => Head(queue) = queue[1] BY <2>1
        <2> QED BY <2>2 DEF Enter, Workers
    <1>3. /\ Handle \in Objects /\ Found \in SessionRec /\ task \in [Workers -> TaskRec]
          /\ ~skewed => Hides(Found, archived)
          /\ Handle # Nobody
        BY <1>1, HandleIs, FoundHides DEF MemInv, MemTyped, Objects, Nobody
    <1>4. CASE Found.rows = <<>>
        <2>1. Leave(w, FALSE, Handle, Found) BY <1>4 DEF Enter
        <2>2. archived \subseteq archived' /\ (~skewed => Hides(Found, archived')) BY <1>2, <1>3
        <2> QED BY <1>2, <1>3, <2>1, <2>2, LeaveKeeps
    <1>5. CASE Found.rows # <<>>
        <2> DEFINE r == [task[w] EXCEPT !.pc = "estimate", !.obj = Handle]
        <2>1. Hold(Handle, Found) /\ task' = [task EXCEPT ![w] = r] /\ UNCHANGED <<turn, queue, made>>
            BY <1>5 DEF Enter
        <2>2. r \in TaskRec /\ r.pc = "estimate" /\ r.obj = Handle
            <3>1. task[w] \in TaskRec BY <1>3
            <3> QED BY <1>3, <3>1 DEF TaskRec
        <2> HIDE DEF r
        <2>3. \A v \in Workers : task'[v] = IF v = w THEN r ELSE task[v] BY <1>3, <2>1
        <2>4. LineInv'
            <3>1. \A v \in Workers : task'[v].pc = task[v].pc
                              \/ (task[v].pc # "off" /\ task'[v].pc \in Working /\ queue # <<>> /\ queue[1] = v)
                BY <1>2, <2>2, <2>3 DEF Working
            <3> QED BY <1>1, <2>1, <3>1, LineStays
        <2>5. obj' = [obj EXCEPT ![Handle] = Found] /\ cached' = Handle /\ UNCHANGED disk BY <2>1 DEF Hold
        <2>6. Held' \subseteq Held \cup {Handle} BY <2>1, <2>2, <2>3, <2>5 DEF Held
        <2>7. skewed' \/ HidOk(obj', disk', Held', task', archived')
            <3>1. \A v \in Workers \ {"idle"} : task'[v].pc = "archive" => task'[v] = task[v] BY <2>2, <2>3
            <3> QED BY <1>2, <2>5, <2>6, <3>1, PutFound
        <2>8. task' \in [Workers -> TaskRec] BY <1>3, <2>1, <2>2
        <2>9. \A v \in Workers : task'[v].pc \in Working <=> task'[v].obj # Nobody
            BY <1>1, <1>3, <2>2, <2>3 DEF MemTyped, Working
        <2>10. task'["turn"].pc # "off" <=> task["turn"].pc # "off"
            BY <1>2, <2>2, <2>3 DEF Workers
        <2>11. obj' \in [Objects -> SessionRec] BY <1>1, <1>3, <2>5 DEF MemTyped
        <2>12. MemTyped' BY <1>1, <1>2, <1>3, <2>1, <2>5, <2>8, <2>9, <2>10, <2>11 DEF MemTyped
        <2> QED BY <2>4, <2>7, <2>12 DEF MemInv
    <1> QED BY <1>4, <1>5

LEMMA PickKeeps == ASSUME MemInv, NEW w \in Workers, Pick(w) PROVE MemInv'
    <1>1. MemTyped /\ LineInv BY DEF MemInv
    <1>2. w # "idle" /\ task[w].pc = "estimate" /\ task[w] \in TaskRec /\ task \in [Workers -> TaskRec]
        BY <1>1 DEF Pick, MemTyped
    <1> DEFINE o == task[w].obj
               s == obj[o]
    <1>3. o \in Objects /\ s \in SessionRec /\ o \in Held
        BY <1>1, <1>2, HeldIs DEF Working, MemTyped
    <1>4. PICK b \in Boundaries(s) : \E end \in Cap(s, b) :
             /\ end > s.lc
             /\ task' = [task EXCEPT ![w] = [task[w] EXCEPT !.pc = "archive", !.upto = end,
                                          !.chunk = ToSet(SubSeq(s.rows, s.lc + 1, end)),
                                          !.rounds = task[w].rounds + 1]]
        BY DEF Pick
    <1>5. PICK end \in Cap(s, b) :
             /\ end > s.lc
             /\ task' = [task EXCEPT ![w] = [task[w] EXCEPT !.pc = "archive", !.upto = end,
                                          !.chunk = ToSet(SubSeq(s.rows, s.lc + 1, end)),
                                          !.rounds = task[w].rounds + 1]]
        BY <1>4
    <1>6. UNCHANGED <<obj, cached, disk, saved, turn, queue, archived, skewed, made>> BY DEF Pick, storeVars
    <1> HIDE DEF s
    <1>7. end \in 1..Len(s.rows) BY <1>3, <1>5, EndIs
    <1> DEFINE q == SubSeq(s.rows, s.lc + 1, end)
               r == [task[w] EXCEPT !.pc = "archive", !.upto = end, !.chunk = ToSet(q), !.rounds = task[w].rounds + 1]
    <1>8. s.rows \in Seq(Row) /\ s.lc \in Nat /\ Len(s.rows) \in Nat BY <1>3 DEF SessionRec
    <1>9. q \in Seq(Row) /\ Len(q) = end - s.lc /\ \A i \in 1..Len(q) : q[i] = s.rows[s.lc + i]
        <2>1. s.lc + 1 \in Nat \ {0} /\ end \in 0..Len(s.rows) /\ ~(end < s.lc + 1) /\ end \in Nat
            BY <1>5, <1>7, <1>8
        <2>2. /\ q \in Seq(Row) /\ Len(q) = (IF end < s.lc + 1 THEN 0 ELSE end - (s.lc + 1) + 1)
              /\ \A i \in 1..Len(q) : q[i] = s.rows[s.lc + 1 + i - 1]
            <3> HIDE DEF Row
            <3> QED BY ZenonT(60), <1>8, <2>1, RowsPart
        <2> HIDE DEF q
        <2>3. Len(q) = end - s.lc BY <1>8, <2>1, <2>2
        <2>4. \A i \in 1..Len(q) : s.lc + 1 + i - 1 = s.lc + i BY <1>8
        <2> QED BY <2>2, <2>3, <2>4
    <1>10. ToSet(q) \subseteq Row /\ \A i \in 1..Len(q) : q[i] \in ToSet(q)
        <2> HIDE DEF q, Row
        <2> QED BY <1>9 DEF ToSet
    <1> HIDE DEF q
    <1>11. r \in TaskRec /\ r.pc = "archive" /\ r.obj = o /\ r.upto = end /\ r.chunk = ToSet(q)
        <2>1. end \in Nat /\ ToSet(q) \in SUBSET Row /\ task[w].rounds + 1 \in Nat
            BY <1>2, <1>7, <1>8, <1>10 DEF TaskRec
        <2> HIDE DEF Row, s
        <2> QED BY <1>2, <2>1 DEF TaskRec
    <1>12. task' = [task EXCEPT ![w] = r] BY <1>5 DEF q
    <1> HIDE DEF r
    <1>13. \A v \in Workers : task'[v] = IF v = w THEN r ELSE task[v] BY <1>2, <1>12
    <1>14. LineInv'
        <2>1. queue # <<>> /\ queue[1] = w BY <1>1, <1>2 DEF LineInv, Working
        <2>2. \A v \in Workers : task'[v].pc = task[v].pc
                              \/ (task[v].pc # "off" /\ task'[v].pc \in Working /\ queue # <<>> /\ queue[1] = v)
            BY <1>2, <1>11, <1>13, <2>1 DEF Working
        <2> QED BY <1>1, <1>6, <2>2, LineStays
    <1>15. skewed' \/ HidOk(obj', disk', Held', task', archived')
        <2> SUFFICES ASSUME ~skewed PROVE HidOk(obj, disk, Held', task', archived) BY <1>6
        <2>1. HidOk(obj, disk, Held, task, archived) BY DEF MemInv
        <2>2. Held' \subseteq Held BY <1>3, <1>6, <1>11, <1>13 DEF Held
        <2>3. Picks(r, s, archived)
            <3>1. Hides(s, archived) BY <1>3, <2>1 DEF HidOk, s
            <3>2. \A i \in 1..end : s.rows[i] \in archived \cup ToSet(q)
                <4> SUFFICES ASSUME NEW i \in 1..end PROVE s.rows[i] \in archived \cup ToSet(q) OBVIOUS
                <4>1. CASE i <= s.lc
                    <5>1. i \in 1..s.lc BY <1>7, <1>8, <4>1
                    <5> QED BY <3>1, <5>1 DEF Hides
                <4>2. CASE ~(i <= s.lc)
                    <5>1. i - s.lc \in 1..Len(q) /\ s.lc + (i - s.lc) = i BY <1>7, <1>8, <1>9, <4>2
                    <5> QED BY <1>9, <1>10, <5>1
                <4> QED BY <4>1, <4>2
            <3> QED BY <1>7, <1>11, <3>2 DEF Picks
        <2>4. ASSUME NEW v \in Workers \ {"idle"}, task'[v].pc = "archive" PROVE Picks(task'[v], obj[task'[v].obj], archived)
            <3>1. CASE v = w BY <1>11, <1>13, <2>3, <3>1 DEF s
            <3>2. CASE v # w BY <1>13, <2>1, <2>4, <3>2 DEF HidOk
            <3> QED BY <3>1, <3>2
        <2> QED BY <2>1, <2>2, <2>4 DEF HidOk
    <1>16. task' \in [Workers -> TaskRec] BY <1>2, <1>11, <1>12
    <1>17. \A v \in Workers : task'[v].pc \in Working <=> task'[v].obj # Nobody
        BY <1>1, <1>2, <1>11, <1>13 DEF MemTyped, Working
    <1>18. task'["turn"].pc # "off" <=> task["turn"].pc # "off" BY <1>2, <1>11, <1>13 DEF Workers
    <1>19. MemTyped' BY <1>1, <1>6, <1>16, <1>17, <1>18 DEF MemTyped
    <1> QED BY <1>14, <1>15, <1>19 DEF MemInv

\* A worker that holds its object goes on with it, or leaves.
LEMMA ArchivedKeeps == ASSUME MemInv, NEW w \in Workers, Archived(w) PROVE MemInv'
    <1> DEFINE o == task[w].obj
               s == obj[o]
               done == [s EXCEPT !.lc = task[w].upto]
    <1>1. MemTyped /\ LineInv BY DEF MemInv
    <1>2. /\ w \in {"turn", "after"} /\ task[w].pc = "archive" /\ archived' = archived \cup task[w].chunk
          /\ UNCHANGED skewed /\ task[w] \in TaskRec /\ task \in [Workers -> TaskRec]
        BY <1>1 DEF Archived, Workers, MemTyped
    <1>3. o \in Objects /\ s \in SessionRec /\ o \in Held /\ task[w].upto \in Nat
        BY <1>1, <1>2, HeldIs DEF Working, MemTyped
    <1>4. queue # <<>> /\ queue[1] = w /\ task[w].pc # "off" BY <1>1, <1>2 DEF LineInv, Working
    <1>5. archived \subseteq archived' BY <1>2
    <1>6. ~skewed => Hides(s, archived) /\ Picks(task[w], s, archived)
        BY <1>2, <1>3 DEF MemInv, HidOk
    <1>7. CASE Leave(w, task[w].rounds > 1, o, s)
        <2>1. ~skewed => Hides(s, archived') BY <1>5, <1>6, HidesMore
        <2>2. (task[w].rounds > 1) \in BOOLEAN OBVIOUS
        <2> HIDE DEF o, s
        <2> QED BY <1>2, <1>3, <1>4, <1>5, <1>7, <2>1, <2>2, LeaveKeeps
    <1>8. CASE Save(o, done) /\ task' = [task EXCEPT ![w] = [task[w] EXCEPT !.pc = "estimate", !.chunk = {}]]
               /\ UNCHANGED <<turn, queue, made>>
        <2> DEFINE r == [task[w] EXCEPT !.pc = "estimate", !.chunk = {}]
        <2>1. done \in SessionRec /\ done.rows = s.rows /\ done.lc = task[w].upto BY <1>3 DEF SessionRec
        <2>2. ~skewed => Hides(done, archived')
            <3> HIDE DEF done, s, o
            <3> QED BY <1>2, <1>6, <2>1 DEF Hides, Picks
        <2>3. r \in TaskRec /\ r.pc = "estimate" /\ r.obj = o BY <1>2 DEF TaskRec
        <2>4. task' = [task EXCEPT ![w] = r] BY <1>8
        <2>5. obj' = [obj EXCEPT ![o] = done] /\ cached' = o /\ disk' = done BY <1>8 DEF Save
        <2> HIDE DEF r, done, s
        <2>6. \A v \in Workers : task'[v] = IF v = w THEN r ELSE task[v] BY <1>2, <2>4
        <2>7. LineInv'
            <3>1. \A v \in Workers : task'[v].pc = task[v].pc
                              \/ (task[v].pc # "off" /\ task'[v].pc \in Working /\ queue # <<>> /\ queue[1] = v)
                BY <1>4, <2>3, <2>6 DEF Working
            <3> QED BY <1>1, <1>8, <3>1, LineStays
        <2>8. Held' \subseteq Held \cup {o} BY <1>8, <2>3, <2>5, <2>6 DEF Held
        <2>9. \A v \in Workers \ {"idle"} : task'[v].pc # "archive"
            <3> SUFFICES ASSUME NEW v \in Workers \ {"idle"}, task'[v].pc = "archive" PROVE FALSE OBVIOUS
            <3>1. v # w /\ task[v].pc = "archive" BY <2>3, <2>6
            <3> QED BY <1>1, <1>4, <3>1 DEF LineInv, Working
        <2>10. ~skewed => HidOk(obj', disk', Held', task', archived')
            <3> SUFFICES ASSUME ~skewed PROVE HidOk([obj EXCEPT ![o] = done], disk', Held', task', archived') BY <2>5
            <3>1. Held' \subseteq (Held \cup {o}) \cap Objects BY <1>1, <1>3, <2>8, HeldIs
            <3>2. HidOk(obj, disk, Held, task, archived) /\ obj \in [Objects -> SessionRec] BY <1>1 DEF MemInv, MemTyped
            <3>3. disk' = disk \/ Hides(disk', archived') BY <2>2, <2>5
            <3> QED BY <1>3, <1>5, <2>2, <2>9, <3>1, <3>2, <3>3, HidPut
        <2>11. task' \in [Workers -> TaskRec] BY <1>2, <2>3, <2>4
        <2>12. \A v \in Workers : task'[v].pc \in Working <=> task'[v].obj # Nobody
            BY <1>1, <1>2, <2>3, <2>6 DEF MemTyped, Working
        <2>13. task'["turn"].pc # "off" <=> task["turn"].pc # "off" BY <1>2, <2>3, <2>6 DEF Workers
        <2>14. obj' \in [Objects -> SessionRec] BY <1>1, <1>3, <2>1, <2>5 DEF MemTyped
        <2>15. MemTyped' BY <1>1, <1>2, <1>3, <1>8, <2>1, <2>5, <2>11, <2>12, <2>13, <2>14 DEF MemTyped
        <2> QED BY <1>2, <2>7, <2>10, <2>15 DEF MemInv
    <1> QED BY <1>7, <1>8 DEF Archived

LEMMA FitsKeeps == ASSUME MemInv, NEW w \in Workers, Fits(w) PROVE MemInv'
    <1> DEFINE o == task[w].obj
    <1>1. MemTyped /\ LineInv BY DEF MemInv
    <1>2. /\ w \in {"turn", "after"} /\ task[w].pc = "estimate" /\ UNCHANGED <<archived, skewed>>
        BY DEF Fits, Workers
    <1>3. o \in Objects /\ obj[o] \in SessionRec /\ o \in Held BY <1>1, <1>2, HeldIs DEF Working, MemTyped
    <1>4. queue # <<>> /\ queue[1] = w /\ task[w].pc # "off" BY <1>1, <1>2 DEF LineInv, Working
    <1>5. ~skewed => Hides(obj[o], archived') BY <1>2, <1>3 DEF MemInv, HidOk
    <1>6. Leave(w, task[w].rounds > 0, o, obj[o]) /\ (task[w].rounds > 0) \in BOOLEAN BY DEF Fits
    <1>7. archived \subseteq archived' BY <1>2
    <1> HIDE DEF o
    <1> QED BY <1>2, <1>3, <1>4, <1>5, <1>6, <1>7, LeaveKeeps

LEMMA TurnEndKeeps == ASSUME MemInv, TurnEnd PROVE MemInv'
    <1> DEFINE o == turn.obj
               t == [WithRow(obj[o], "reply") EXCEPT !.pend = FALSE]
    <1>1. MemTyped /\ LineInv BY DEF MemInv
    <1>2. /\ turn.pc = "run" /\ CanMake /\ task["after"].pc = "off" /\ Save(o, t) /\ made' = made + 1
          /\ turn' = NoTurn /\ task' = [task EXCEPT !["after"] = [Off EXCEPT !.pc = "wait"]]
          /\ queue' = Append(queue, "after") /\ UNCHANGED <<archived, skewed>>
        BY DEF TurnEnd
    <1>3. /\ o \in Objects /\ o \in Held /\ obj[o] \in SessionRec /\ made \in 0..MaxRow
          /\ task \in [Workers -> TaskRec] /\ "after" \in Workers /\ obj \in [Objects -> SessionRec]
        BY <1>1, <1>2, HeldIs DEF MemTyped, Workers
    <1>4. Grown(t, obj[o], NewRow("reply")) BY <1>2, <1>3, WithRowIs
    <1> HIDE DEF t, o
    <1>5. t \in SessionRec BY <1>4 DEF Grown
    <1>6. LineInv' BY <1>1, <1>2, <1>3, LineJoined
    <1> DEFINE wait == [Off EXCEPT !.pc = "wait"]
    <1>7. wait \in TaskRec /\ wait.pc = "wait" /\ wait.obj = Nobody BY RecordsAre
    <1>8. \A v \in Workers : task'[v] = IF v = "after" THEN wait ELSE task[v] BY <1>2, <1>3
    <1> HIDE DEF wait
    <1>9. NoTurn \in TurnRec /\ NoTurn.pc = "off" /\ NoTurn.obj = Nobody BY RecordsAre
    <1>10. obj' = [obj EXCEPT ![o] = t] /\ cached' = o /\ disk' = t BY <1>2 DEF Save
    <1>11. Held' \subseteq Held BY <1>2, <1>3, <1>7, <1>8, <1>9, <1>10 DEF Held
    <1>12. ~skewed => HidOk(obj', disk', Held', task', archived')
        <2> SUFFICES ASSUME ~skewed PROVE HidOk([obj EXCEPT ![o] = t], disk', Held', task', archived') BY <1>10
        <2>1. HidOk(obj, disk, Held, task, archived) BY DEF MemInv
        <2>2. Hides(obj[o], archived) BY <1>3, <2>1 DEF HidOk
        <2>3. Hides(t, archived') BY <1>2, <1>3, <1>4, <2>2, GrownHides
        <2>4. archived \subseteq archived' /\ (disk' = disk \/ Hides(disk', archived')) BY <1>2, <1>10, <2>3
        <2>5. Held' \subseteq (Held \cup {o}) \cap Objects BY <1>1, <1>11, HeldIs
        <2>6. ASSUME NEW v \in Workers \ {"idle"}, task'[v].pc = "archive"
              PROVE  task'[v] = task[v] /\ task[v].obj \in Objects /\ (task[v].obj = o => Picks(task[v], t, archived'))
            <3>1. task'[v] = task[v] /\ task[v].pc = "archive" /\ v \in Workers BY <1>7, <1>8, <2>6
            <3>2. task[v].obj \in Objects /\ task[v].upto \in Nat BY <1>1, <3>1, HeldIs DEF Working
            <3>3. Picks(task[v], obj[task[v].obj], archived) BY <2>1, <2>6, <3>1 DEF HidOk
            <3>4. task[v].obj = o => Picks(task[v], t, archived) BY <1>3, <1>4, <3>2, <3>3, GrownHides
            <3> QED BY <1>2, <3>1, <3>2, <3>4
        <2> QED BY <1>3, <2>1, <2>3, <2>4, <2>5, <2>6, HidPut
    <1>13. task' \in [Workers -> TaskRec] BY <1>2, <1>3, <1>7 DEF wait
    <1>14. \A v \in Workers : task'[v].pc \in Working <=> task'[v].obj # Nobody
        BY <1>1, <1>7, <1>8 DEF MemTyped, Working
    <1>15. task'["turn"].pc = "off" BY <1>1, <1>2, <1>8 DEF MemTyped, Workers
    <1>16. made' \in 0..MaxRow BY <1>2, <1>3, SessionAssumption DEF CanMake
    <1>17. obj' \in [Objects -> SessionRec] BY <1>3, <1>5, <1>10
    <1>18. MemTyped' BY <1>1, <1>2, <1>3, <1>5, <1>9, <1>10, <1>13, <1>14, <1>15, <1>16, <1>17 DEF MemTyped
    <1> QED BY <1>2, <1>6, <1>12, <1>18 DEF MemInv

\* The turn is gone, with its place in the line.
LEMMA TurnGone ==
    ASSUME MemTyped, LineInv, WithoutTurn
    PROVE  /\ LineInv' /\ task' \in [Workers -> TaskRec] /\ turn' \in TurnRec /\ turn'.pc = "off" /\ turn'.obj = Nobody
           /\ \A v \in Workers : task'[v] = task[v] \/ (v = "turn" /\ task'[v].pc = "off" /\ task'[v].obj = Nobody)
           /\ \A v \in Workers : task'[v].pc \in Working <=> task'[v].obj # Nobody
           /\ task'["turn"].pc = "off"
           /\ \A c \in {Nobody, cached} \cup Held : (({c, turn'.obj} \cup {task'[v].obj : v \in Workers}) \ {Nobody}) \subseteq Held \cup {c}
    <1>1. task' = [task EXCEPT !["turn"] = Off] /\ turn' = NoTurn /\ task \in [Workers -> TaskRec] BY DEF WithoutTurn, MemTyped
    <1>2. LineInv' BY <1>1, LineTurnGone
    <1>3. \A v \in Workers : task'[v] = IF v = "turn" THEN Off ELSE task[v] BY <1>1
    <1>4. "turn" \in Workers BY DEF Workers
    <1>5. task' \in [Workers -> TaskRec] BY <1>1, RecordsAre
    <1>6. \A v \in Workers : task'[v].pc \in Working <=> task'[v].obj # Nobody BY <1>3, RecordsAre DEF MemTyped, Working
    <1>7. \A v \in Workers : task'[v].obj = task[v].obj \/ task'[v].obj = Nobody BY <1>3, RecordsAre
    <1>8. turn'.obj = Nobody BY <1>1, RecordsAre
    <1>9. ASSUME NEW c PROVE (({c, turn'.obj} \cup {task'[v].obj : v \in Workers}) \ {Nobody}) \subseteq Held \cup {c}
        BY <1>7, <1>8 DEF Held
    <1> QED BY <1>1, <1>2, <1>3, <1>4, <1>5, <1>6, <1>9, RecordsAre

LEMMA TurnFailsKeeps == ASSUME MemInv, TurnFails PROVE MemInv'
    <1>1. MemTyped /\ LineInv BY DEF MemInv
    <1>2. WithoutTurn /\ UNCHANGED <<obj, cached, disk, archived, skewed, made>> BY DEF TurnFails, storeVars
    <1>3. /\ LineInv' /\ task' \in [Workers -> TaskRec] /\ turn' \in TurnRec /\ turn'.pc = "off" /\ turn'.obj = Nobody
          /\ \A v \in Workers : task'[v] = task[v] \/ (v = "turn" /\ task'[v].pc = "off" /\ task'[v].obj = Nobody)
          /\ \A v \in Workers : task'[v].pc \in Working <=> task'[v].obj # Nobody
          /\ task'["turn"].pc = "off"
        BY <1>1, <1>2, TurnGone
    <1>4. Held' \subseteq Held BY <1>2, <1>3 DEF Held
    <1>5. ~skewed => HidOk(obj', disk', Held', task', archived')
        <2>1. \A v \in Workers \ {"idle"} : task'[v].pc = "archive" => task'[v] = task[v] BY <1>3
        <2>2. archived \subseteq archived' /\ disk' = disk /\ obj' = obj BY <1>2
        <2> QED BY <1>4, <2>1, <2>2, HidStay DEF MemInv
    <1>6. MemTyped' BY <1>1, <1>2, <1>3 DEF MemTyped
    <1> QED BY <1>2, <1>3, <1>5, <1>6 DEF MemInv

LEMMA IdleCheckKeeps == ASSUME MemInv, IdleCheck PROVE MemInv'
    <1> DEFINE wait == [Off EXCEPT !.pc = "wait"]
    <1>1. MemTyped /\ LineInv BY DEF MemInv
    <1>2. /\ UNCHANGED <<obj, cached, disk, archived, skewed, made, turn>> /\ task["idle"].pc = "off"
          /\ task' = [task EXCEPT !["idle"] = wait] /\ queue' = Append(queue, "idle")
          /\ task \in [Workers -> TaskRec] /\ "idle" \in Workers
        BY <1>1 DEF IdleCheck, storeVars, MemTyped, Workers
    <1>3. LineInv' BY <1>1, <1>2, LineJoined
    <1>4. wait \in TaskRec /\ wait.pc = "wait" /\ wait.obj = Nobody BY RecordsAre
    <1> HIDE DEF wait
    <1>5. \A v \in Workers : task'[v] = IF v = "idle" THEN wait ELSE task[v] BY <1>2
    <1>6. Held' \subseteq Held BY <1>2, <1>4, <1>5 DEF Held
    <1>7. ~skewed => HidOk(obj', disk', Held', task', archived')
        <2>1. \A v \in Workers \ {"idle"} : task'[v].pc = "archive" => task'[v] = task[v] BY <1>5
        <2>2. archived \subseteq archived' /\ disk' = disk /\ obj' = obj BY <1>2
        <2> QED BY <1>6, <2>1, <2>2, HidStay DEF MemInv
    <1>8. task' \in [Workers -> TaskRec] BY <1>2, <1>4
    <1>9. \A v \in Workers : task'[v].pc \in Working <=> task'[v].obj # Nobody BY <1>1, <1>4, <1>5 DEF MemTyped, Working
    <1>10. task'["turn"] = task["turn"] BY <1>5 DEF Workers
    <1>11. MemTyped' BY <1>1, <1>2, <1>8, <1>9, <1>10 DEF MemTyped
    <1> QED BY <1>2, <1>3, <1>7, <1>11 DEF MemInv

\* A compaction reads the file into an object that nobody holds.
LEMMA IdleEnterKeeps == ASSUME MemInv, IdleEnter PROVE MemInv'
    <1> DEFINE rest == Unconsolidated(disk)
               kept == Suffix(rest)
               o == CHOOSE x \in Objects : x \notin {turn.obj} \cup {task[w].obj : w \in Workers}
               cut == ToSet(SubSeq(rest, 1, Len(rest) - Len(kept)))
               s == IF rest = <<>> THEN disk ELSE [disk EXCEPT !.rows = kept, !.lc = 0]
               r == [task["idle"] EXCEPT !.pc = "archive", !.obj = o, !.kept = kept, !.chunk = cut]
    <1>1. MemTyped /\ LineInv BY DEF MemInv
    <1>2. /\ queue # <<>> /\ Head(queue) = "idle" /\ task["idle"].pc = "wait"
          /\ UNCHANGED <<turn, archived, skewed, made>>
        BY DEF IdleEnter
    <1>3. /\ queue[1] = "idle" /\ "idle" \in Workers /\ task \in [Workers -> TaskRec]
          /\ obj \in [Objects -> SessionRec] /\ disk \in SessionRec
        <2>1. queue \in Seq(Workers) BY <1>1 DEF LineInv
        <2>2. queue # <<>> => Head(queue) = queue[1] BY <2>1
        <2> QED BY <1>1, <1>2, <2>2 DEF Workers, MemTyped
    <1>4. o \in Objects /\ o # Nobody
        <2>1. \E x \in Objects : x \notin {turn.obj} \cup {task[w].obj : w \in Workers}
            <3>1. Nobody \in Objects \cup {Nobody} OBVIOUS
            <3>2. \E x \in Objects : x \notin {Nobody, turn.obj} \cup {task[w].obj : w \in Workers}
                BY <1>1, <3>1, FreeObject
            <3> QED BY <3>2
        <2> QED BY <2>1 DEF Objects, Nobody
    <1>5. rest \in Seq(Row)
        <2> DEFINE n == Len(disk.rows)
        <2>1. disk.rows \in Seq(Row) /\ disk.lc + 1 \in Nat \ {0} /\ n \in 0..n BY <1>3 DEF SessionRec
        <2>2. SubSeq(disk.rows, disk.lc + 1, n) \in Seq(Row)
            <3> HIDE DEF Row, n
            <3> QED BY <2>1, RowsPart DEF n
        <2> QED BY <2>2 DEF Unconsolidated
    <1> HIDE DEF rest, o
    <1>6. kept \in Seq(Row) BY <1>5, SuffixIs
    <1> HIDE DEF kept
    <1>7. ~skewed => HidOk(obj, disk, Held, task, archived) /\ Hides(disk, archived) BY DEF MemInv, HidOk
    <1>8. \A v \in Workers \ {"idle"} : task[v].pc \notin Working BY <1>1, <1>3 DEF LineInv
    <1>9. Held \subseteq Objects BY <1>1, HeldIs
    <1>10. CASE Len(kept) = Len(rest)
        <2>1. Save(o, s) /\ Release("idle") BY <1>10 DEF IdleEnter, rest, kept, o
        <2>2. task' = [task EXCEPT !["idle"] = Off] /\ queue' = Tail(queue) BY <2>1 DEF Release
        <2>3. LineInv' BY <1>1, <1>2, <1>3, <2>2, LineLeft
        <2>4. \A v \in Workers : task'[v] = IF v = "idle" THEN Off ELSE task[v] BY <1>3, <2>2
        <2>5. obj' = [obj EXCEPT ![o] = s] /\ cached' = o /\ disk' = s BY <2>1 DEF Save
        <2>6. s \in SessionRec /\ (s = disk \/ s.lc = 0) BY <1>3, <1>6 DEF SessionRec
        <2> HIDE DEF s
        <2>7. ~skewed => Hides(s, archived)
            <3>1. s.lc = 0 => Hides(s, archived)
                <4>1. s.rows \in Seq(Row) BY <2>6 DEF SessionRec
                <4>2. Len(s.rows) \in Nat
                    <5> HIDE DEF Row
                    <5> QED BY <4>1
                <4>3. s.lc = 0 => 0 <= Len(s.rows) /\ 1..s.lc = {} BY <4>2
                <4> QED BY <4>3 DEF Hides
            <3> QED BY <1>7, <2>6, <3>1
        <2>8. Held' \subseteq (Held \cup {o}) \cap Objects
            BY <1>2, <1>4, <1>9, <2>4, <2>5, RecordsAre DEF Held
        <2>9. \A v \in Workers \ {"idle"} : task'[v].pc # "archive" BY <1>8, <2>4 DEF Working
        <2>10. ~skewed => HidOk([obj EXCEPT ![o] = s], disk', Held', task', archived')
            <3> SUFFICES ASSUME ~skewed PROVE HidOk([obj EXCEPT ![o] = s], disk', Held', task', archived') OBVIOUS
            <3>1. archived \subseteq archived' /\ Hides(s, archived') /\ (disk' = disk \/ Hides(disk', archived'))
                BY <1>2, <2>5, <2>7
            <3> QED BY <1>3, <1>4, <1>7, <2>8, <2>9, <3>1, HidPut
        <2>11. task' \in [Workers -> TaskRec] BY <1>3, <2>2, RecordsAre
        <2>12. \A v \in Workers : task'[v].pc \in Working <=> task'[v].obj # Nobody
            BY <1>1, <2>4, RecordsAre DEF MemTyped, Working
        <2>13. task'["turn"] = task["turn"] BY <2>4 DEF Workers
        <2>14. MemTyped' BY <1>1, <1>2, <1>3, <1>4, <2>5, <2>6, <2>11, <2>12, <2>13 DEF MemTyped
        <2> QED BY <1>2, <2>3, <2>5, <2>10, <2>14 DEF MemInv
    <1>11. CASE Len(kept) # Len(rest)
        <2>1. Hold(o, disk) /\ task' = [task EXCEPT !["idle"] = r] /\ UNCHANGED queue
            BY <1>11 DEF IdleEnter, rest, kept, o
        <2>2. cut \subseteq Row
            <3>1. Len(rest) \in Nat /\ Len(kept) \in Nat /\ 1 \in Nat \ {0} BY <1>5, <1>6
            <3>2. CASE Len(kept) <= Len(rest)
                <4>1. Len(rest) - Len(kept) \in 0..Len(rest) BY <3>1, <3>2
                <4> DEFINE q == SubSeq(rest, 1, Len(rest) - Len(kept))
                <4>2. q \in Seq(Row)
                    <5> HIDE DEF Row
                    <5> QED BY <1>5, <3>1, <4>1, RowsPart
                <4> HIDE DEF q
                <4>3. ToSet(q) \subseteq Row
                    <5> HIDE DEF Row
                    <5> QED BY <4>2 DEF ToSet
                <4> QED BY <4>3 DEF q
            <3>3. Len(kept) <= Len(rest)
                <4> HIDE DEF Row
                <4>1. PICK d \in 0..Len(rest) : Len(Suffix(rest)) = Len(rest) - d BY <1>5, SuffixIs
                <4> QED BY <3>1, <4>1 DEF kept
            <3> QED BY <3>2, <3>3
        <2> HIDE DEF cut
        <2>3. r \in TaskRec /\ r.pc = "archive" /\ r.obj = o
            <3>1. task["idle"] \in TaskRec BY <1>3
            <3> QED BY <1>4, <1>6, <2>2, <3>1 DEF TaskRec
        <2> HIDE DEF r
        <2>4. \A v \in Workers : task'[v] = IF v = "idle" THEN r ELSE task[v] BY <1>3, <2>1
        <2>5. LineInv'
            <3>1. \A v \in Workers : task'[v].pc = task[v].pc
                              \/ (task[v].pc # "off" /\ task'[v].pc \in Working /\ queue # <<>> /\ queue[1] = v)
                BY <1>2, <1>3, <2>3, <2>4 DEF Working
            <3> QED BY <1>1, <2>1, <3>1, LineStays
        <2>6. obj' = [obj EXCEPT ![o] = disk] /\ cached' = o /\ disk' = disk BY <2>1 DEF Hold
        <2>7. Held' \subseteq (Held \cup {o}) \cap Objects
            BY <1>2, <1>4, <1>9, <2>3, <2>4, <2>6 DEF Held
        <2>8. \A v \in Workers \ {"idle"} : task'[v].pc # "archive" BY <1>8, <2>4 DEF Working
        <2>9. ~skewed => HidOk([obj EXCEPT ![o] = disk], disk', Held', task', archived')
            <3> SUFFICES ASSUME ~skewed PROVE HidOk([obj EXCEPT ![o] = disk], disk', Held', task', archived') OBVIOUS
            <3>1. archived \subseteq archived' /\ Hides(disk, archived') /\ disk' = disk BY <1>2, <1>7, <2>6
            <3> QED BY <1>3, <1>4, <1>7, <2>7, <2>8, <3>1, HidPut
        <2>10. task' \in [Workers -> TaskRec] BY <1>3, <2>1, <2>3
        <2>11. \A v \in Workers : task'[v].pc \in Working <=> task'[v].obj # Nobody
            BY <1>1, <1>4, <2>3, <2>4 DEF MemTyped, Working
        <2>12. task'["turn"] = task["turn"] BY <2>4 DEF Workers
        <2>13. MemTyped' BY <1>1, <1>2, <1>3, <1>4, <2>6, <2>10, <2>11, <2>12 DEF MemTyped
        <2> QED BY <1>2, <2>5, <2>6, <2>9, <2>13 DEF MemInv
    <1> QED BY <1>10, <1>11

LEMMA IdleArchivedKeeps == ASSUME MemInv, IdleArchived PROVE MemInv'
    <1> DEFINE o == task["idle"].obj
               s == [obj[o] EXCEPT !.rows = task["idle"].kept, !.lc = 0]
    <1>1. MemTyped /\ LineInv BY DEF MemInv
    <1>2. /\ task["idle"].pc = "archive" /\ archived' = archived \cup task["idle"].chunk /\ Save(o, s)
          /\ queue' = Tail(queue) /\ task' = [task EXCEPT !["idle"] = Off] /\ UNCHANGED <<turn, skewed, made>>
        BY DEF IdleArchived, Release
    <1>3. /\ "idle" \in Workers /\ task \in [Workers -> TaskRec] /\ task["idle"] \in TaskRec
          /\ obj \in [Objects -> SessionRec] /\ Held \subseteq Objects
        BY <1>1, HeldIs DEF Workers, MemTyped
    <1>4. o \in Objects /\ o \in Held /\ queue # <<>> /\ queue[1] = "idle"
        BY <1>1, <1>2, <1>3, HeldIs DEF Working, LineInv
    <1>5. LineInv' /\ \A v \in Workers : task'[v].pc \notin Working BY <1>1, <1>2, <1>3, <1>4, LineLeft
    <1>6. s \in SessionRec /\ s.lc = 0
        <2>1. obj[o] \in SessionRec /\ task["idle"].kept \in Seq(Row) BY <1>3, <1>4 DEF TaskRec
        <2> QED BY <2>1 DEF SessionRec
    <1> HIDE DEF s
    <1>7. Hides(s, archived')
        <2>1. s.rows \in Seq(Row) BY <1>6 DEF SessionRec
        <2>2. Len(s.rows) \in Nat
            <3> HIDE DEF Row
            <3> QED BY <2>1
        <2>3. 0 <= Len(s.rows) /\ 1..s.lc = {} BY <1>6, <2>2
        <2> QED BY <1>6, <2>3 DEF Hides
    <1>8. \A v \in Workers : task'[v] = IF v = "idle" THEN Off ELSE task[v] BY <1>2, <1>3
    <1>9. obj' = [obj EXCEPT ![o] = s] /\ cached' = o /\ disk' = s BY <1>2 DEF Save
    <1> HIDE DEF o
    <1>10. Held' \subseteq (Held \cup {o}) \cap Objects
        BY <1>2, <1>3, <1>4, <1>8, <1>9, RecordsAre DEF Held
    <1>11. ~skewed => HidOk([obj EXCEPT ![o] = s], disk', Held', task', archived')
        <2> SUFFICES ASSUME ~skewed PROVE HidOk([obj EXCEPT ![o] = s], disk', Held', task', archived') OBVIOUS
        <2>1. HidOk(obj, disk, Held, task, archived) BY DEF MemInv
        <2>2. archived \subseteq archived' /\ Hides(disk', archived') BY <1>2, <1>7, <1>9
        <2>3. \A v \in Workers \ {"idle"} : task'[v].pc # "archive" BY <1>5 DEF Working
        <2> QED BY <1>3, <1>4, <1>7, <1>10, <2>1, <2>2, <2>3, HidPut
    <1>12. task' \in [Workers -> TaskRec] BY <1>2, <1>3, RecordsAre
    <1>13. \A v \in Workers : task'[v].pc \in Working <=> task'[v].obj # Nobody
        BY <1>1, <1>8, RecordsAre DEF MemTyped, Working
    <1>14. task'["turn"] = task["turn"] BY <1>8 DEF Workers
    <1>15. MemTyped' BY <1>1, <1>2, <1>3, <1>4, <1>6, <1>9, <1>12, <1>13, <1>14 DEF MemTyped
    <1> QED BY <1>2, <1>5, <1>9, <1>11, <1>15 DEF MemInv

LEMMA CommandRowKeeps == ASSUME MemInv, CommandRow PROVE MemInv'
    <1> DEFINE t == WithRow(Found, "note")
    <1>1. MemTyped /\ LineInv BY DEF MemInv
    <1>2. CanMake /\ Save(Handle, t) /\ made' = made + 1 /\ UNCHANGED <<turn, task, queue, archived, skewed>>
        BY DEF CommandRow
    <1>3. Handle \in Objects /\ Found \in SessionRec /\ made \in 0..MaxRow BY <1>1, HandleIs DEF MemTyped
    <1>4. Grown(t, Found, NewRow("note")) BY <1>2, <1>3, WithRowIs
    <1> HIDE DEF t
    <1>5. t \in SessionRec BY <1>4 DEF Grown
    <1>6. obj' = [obj EXCEPT ![Handle] = t] /\ cached' = Handle /\ disk' = t BY <1>2 DEF Save
    <1>7. Held' \subseteq Held \cup {Handle} BY <1>2, <1>6 DEF Held
    <1>8. skewed' \/ HidOk(obj', disk', Held', task', archived')
        <2>1. \A v \in Workers \ {"idle"} : task'[v].pc = "archive" => task'[v] = task[v] BY <1>2
        <2> QED BY <1>2, <1>4, <1>6, <1>7, <2>1, PutFound
    <1>9. LineInv' BY <1>1, <1>2 DEF LineInv
    <1>10. made' \in 0..MaxRow BY <1>2, <1>3, SessionAssumption DEF CanMake
    <1>11. obj' \in [Objects -> SessionRec] BY <1>1, <1>3, <1>5, <1>6 DEF MemTyped
    <1>12. MemTyped' BY <1>1, <1>2, <1>3, <1>5, <1>6, <1>10, <1>11 DEF MemTyped
    <1> QED BY <1>8, <1>9, <1>12 DEF MemInv

\* A command that cancels the turn leaves it and the line as the end of a turn does.
Calmed ==
    /\ LineInv' /\ task' \in [Workers -> TaskRec] /\ turn' \in TurnRec /\ (turn'.pc # "off" <=> turn'.obj # Nobody)
    /\ \A v \in Workers : task'[v] = task[v] \/ (task'[v].pc = "off" /\ task'[v].obj = Nobody)
    /\ \A v \in Workers : task'[v].pc \in Working <=> task'[v].obj # Nobody
    /\ turn'.pc = "wait" <=> task'["turn"].pc # "off"
    /\ turn'.obj \in {turn.obj, Nobody}

LEMMA CancelCalms == ASSUME MemTyped, LineInv, TurnCancelled PROVE Calmed
    <1>1. CASE WithoutTurn
        <2>1. /\ LineInv' /\ task' \in [Workers -> TaskRec] /\ turn' \in TurnRec /\ turn'.pc = "off" /\ turn'.obj = Nobody
              /\ \A v \in Workers : task'[v] = task[v] \/ (v = "turn" /\ task'[v].pc = "off" /\ task'[v].obj = Nobody)
              /\ \A v \in Workers : task'[v].pc \in Working <=> task'[v].obj # Nobody
              /\ task'["turn"].pc = "off"
            BY <1>1, TurnGone
        <2> QED BY <2>1 DEF Calmed
    <1>2. CASE UNCHANGED <<turn, task, queue>>
        <2>1. LineInv' BY <1>2 DEF LineInv
        <2> QED BY <1>2, <2>1 DEF Calmed, MemTyped
    <1> QED BY <1>1, <1>2 DEF TurnCancelled

\* The summary of a /new in the background, and rows that an archive is about to count.
LEMMA NewKeeps == ASSUME MemInv, New PROVE MemInv'
    <1> DEFINE s == [Found EXCEPT !.rows = <<>>, !.lc = 0]
    <1>1. MemTyped /\ LineInv BY DEF MemInv
    <1>2. /\ TurnCancelled /\ obj' = [obj EXCEPT ![Handle] = s] /\ disk' = obj'[Handle] /\ cached' = Nobody
          /\ skewed' = (skewed \/ Picked(0)) /\ UNCHANGED <<archived, made>>
        BY DEF New
    <1>3. /\ Handle \in Objects /\ Found \in SessionRec /\ obj \in [Objects -> SessionRec] /\ Held \subseteq Objects
          /\ skewed \in BOOLEAN
        BY <1>1, HandleIs, HeldIs DEF MemTyped
    <1>4. s \in SessionRec /\ s.lc = 0 /\ s.rows = <<>>
        <2>1. <<>> \in Seq(Row) /\ 0 \in Nat OBVIOUS
        <2> QED BY <1>3, <2>1 DEF SessionRec
    <1> HIDE DEF s
    <1>5. Hides(s, archived')
        <2>1. Len(s.rows) = 0 /\ 1..s.lc = {} BY <1>4
        <2> QED BY <1>4, <2>1 DEF Hides
    <1>6. disk' = s BY <1>2, <1>3
    <1>7. Calmed BY <1>1, <1>2, CancelCalms
    <1>8. Held' \subseteq Held
        <2>1. \A v \in Workers : task'[v].obj = task[v].obj \/ task'[v].obj = Nobody BY <1>7 DEF Calmed
        <2>2. turn'.obj = turn.obj \/ turn'.obj = Nobody BY <1>7 DEF Calmed
        <2> QED BY <1>2, <2>1, <2>2 DEF Held
    <1>9. skewed' \/ HidOk(obj', disk', Held', task', archived')
        <2> SUFFICES ASSUME ~skewed, ~Picked(0) PROVE HidOk([obj EXCEPT ![Handle] = s], disk', Held', task', archived')
            BY <1>2
        <2>1. HidOk(obj, disk, Held, task, archived) BY DEF MemInv
        <2>2. ASSUME NEW v \in Workers \ {"idle"}, task'[v].pc = "archive" PROVE FALSE
            <3>1. task[v].pc = "archive" BY <1>7, <2>2 DEF Calmed
            <3>2. task[v].upto \in 1..Len(obj[task[v].obj].rows) /\ task[v].upto \in Nat
                BY <1>1, <2>1, <3>1, HeldIs DEF HidOk, Picks
            <3>3. task[v].upto > 0 BY <3>2
            <3> QED BY <3>1, <3>3 DEF Picked
        <2>3. archived \subseteq archived' /\ Hides(disk', archived') BY <1>2, <1>5, <1>6
        <2>4. Held' \subseteq (Held \cup {Handle}) \cap Objects BY <1>3, <1>8
        <2> QED BY <1>3, <1>5, <2>1, <2>2, <2>3, <2>4, HidPut
    <1>10. obj' \in [Objects -> SessionRec] BY <1>2, <1>3, <1>4
    <1>11. skewed' \in BOOLEAN BY <1>2, <1>3 DEF Picked
    <1>12. MemTyped' BY <1>1, <1>2, <1>4, <1>6, <1>7, <1>10, <1>11 DEF MemTyped, Calmed
    <1> QED BY <1>7, <1>9, <1>12 DEF MemInv, Calmed

\* A cut behind last_consolidated, and behind every archive at work, leaves both right.
LEMMA CutHides ==
    ASSUME NEW s \in SessionRec, NEW i \in 1..Len(s.rows), NEW t, t = [s EXCEPT !.rows = SubSeq(s.rows, 1, i)], NEW ar
    PROVE  /\ t \in SessionRec /\ (Hides(s, ar) /\ ~(s.lc > i) => Hides(t, ar))
           /\ \A k : k.upto \in Nat /\ ~(k.upto > i) /\ Picks(k, s, ar) => Picks(k, t, ar)
    <1> DEFINE q == SubSeq(s.rows, 1, i)
    <1>1. s.rows \in Seq(Row) /\ s.lc \in Nat /\ Len(s.rows) \in Nat /\ i \in Nat BY DEF SessionRec
    <1>2. q \in Seq(Row) /\ Len(q) = i /\ \A j \in 1..i : q[j] = s.rows[j]
        <2>1. 1 \in Nat \ {0} /\ i \in 0..Len(s.rows) /\ ~(i < 1) /\ i - 1 + 1 = i BY <1>1
        <2>2. q \in Seq(Row) /\ Len(q) = i /\ \A j \in 1..Len(q) : q[j] = s.rows[1 + j - 1]
            <3> HIDE DEF Row
            <3> QED BY <1>1, <2>1, RowsPart
        <2>3. \A j \in 1..i : 1 + j - 1 = j BY <1>1
        <2> QED BY <2>2, <2>3
    <1> HIDE DEF q
    <1>3. t \in SessionRec /\ t.rows = q /\ t.lc = s.lc BY <1>2 DEF SessionRec, q
    <1>4. ASSUME Hides(s, ar), ~(s.lc > i) PROVE Hides(t, ar)
        <2>1. s.lc <= i /\ \A j \in 1..s.lc : j \in 1..i BY <1>1, <1>4
        <2> QED BY <1>2, <1>3, <1>4, <2>1 DEF Hides
    <1>5. ASSUME NEW k, k.upto \in Nat, ~(k.upto > i), Picks(k, s, ar) PROVE Picks(k, t, ar)
        <2>1. k.upto \in 1..Len(s.rows) /\ \A j \in 1..k.upto : s.rows[j] \in ar \cup k.chunk BY <1>5 DEF Picks
        <2>2. k.upto \in 1..i /\ \A j \in 1..k.upto : j \in 1..i BY <1>1, <1>5, <2>1
        <2> QED BY <1>2, <1>3, <2>1, <2>2 DEF Picks
    <1> QED BY <1>3, <1>4, <1>5

LEMMA CutKeeps == ASSUME MemInv, Cut PROVE MemInv'
    <1>1. MemTyped /\ LineInv BY DEF MemInv
    <1>2. PICK i \in 1..Len(Found.rows) :
             /\ Save(Handle, [Found EXCEPT !.rows = SubSeq(Found.rows, 1, i)])
             /\ skewed' = (skewed \/ Found.lc > i \/ Picked(i))
        BY DEF Cut
    <1>3. TurnCancelled /\ UNCHANGED <<archived, made>> BY DEF Cut
    <1> DEFINE s == [Found EXCEPT !.rows = SubSeq(Found.rows, 1, i)]
    <1>4. /\ Handle \in Objects /\ Found \in SessionRec /\ obj \in [Objects -> SessionRec] /\ Held \subseteq Objects
          /\ skewed \in BOOLEAN
        BY <1>1, HandleIs, HeldIs DEF MemTyped
    <1>5. obj' = [obj EXCEPT ![Handle] = s] /\ cached' = Handle /\ disk' = s BY <1>2 DEF Save
    <1>6. /\ s \in SessionRec /\ (Hides(Found, archived) /\ ~(Found.lc > i) => Hides(s, archived))
          /\ \A k : k.upto \in Nat /\ ~(k.upto > i) /\ Picks(k, Found, archived) => Picks(k, s, archived)
        BY <1>4, CutHides
    <1> HIDE DEF s
    <1>7. Calmed BY <1>1, <1>3, CancelCalms
    <1>8. Held' \subseteq (Held \cup {Handle}) \cap Objects
        <2>1. \A v \in Workers : task'[v].obj = task[v].obj \/ task'[v].obj = Nobody BY <1>7 DEF Calmed
        <2>2. turn'.obj = turn.obj \/ turn'.obj = Nobody BY <1>7 DEF Calmed
        <2> QED BY <1>4, <1>5, <2>1, <2>2 DEF Held
    <1>9. skewed' \/ HidOk(obj', disk', Held', task', archived')
        <2> SUFFICES ASSUME ~skewed, ~(Found.lc > i), ~Picked(i)
                     PROVE  HidOk([obj EXCEPT ![Handle] = s], disk', Held', task', archived')
            BY <1>2, <1>5
        <2>1. HidOk(obj, disk, Held, task, archived) BY DEF MemInv
        <2>2. Hides(s, archived') BY <1>1, <1>3, <1>6, <2>1, FoundHides
        <2>3. ASSUME NEW v \in Workers \ {"idle"}, task'[v].pc = "archive"
              PROVE  task'[v] = task[v] /\ task[v].obj \in Objects /\ (task[v].obj = Handle => Picks(task[v], s, archived'))
            <3>1. task'[v] = task[v] /\ task[v].pc = "archive" BY <1>7, <2>3 DEF Calmed
            <3>2. task[v].obj \in Objects /\ (task[v].obj = Handle => Picks(task[v], Found, archived))
                BY <1>1, <2>1, <3>1, FoundHides
            <3>3. ~(task[v].upto > i) BY <3>1 DEF Picked
            <3>4. task[v].upto \in Nat BY <1>1, HeldIs
            <3> QED BY <1>3, <1>6, <3>1, <3>2, <3>3, <3>4
        <2>4. archived \subseteq archived' /\ Hides(disk', archived') BY <1>3, <1>5, <2>2
        <2> QED BY <1>4, <1>8, <2>1, <2>2, <2>3, <2>4, HidPut
    <1>10. obj' \in [Objects -> SessionRec] BY <1>4, <1>5, <1>6
    <1>11. skewed' \in BOOLEAN BY <1>2, <1>4 DEF Picked
    <1>12. MemTyped' BY <1>1, <1>3, <1>4, <1>5, <1>6, <1>7, <1>10, <1>11 DEF MemTyped, Calmed
    <1> QED BY <1>7, <1>9, <1>12 DEF MemInv, Calmed

\* The archive of a /new, another chat's session in the cache, a deletion: the objects stay.
LEMMA StoreKeeps == ASSUME MemInv, NewArchived \/ Evict \/ Delete PROVE MemInv'
    <1>1. MemTyped /\ LineInv BY DEF MemInv
    <1>2. /\ UNCHANGED <<obj, turn, task, queue, skewed, made>> /\ archived \subseteq archived'
          /\ cached' \in {cached, Nobody} /\ disk' \in {disk, EmptySession}
        BY DEF NewArchived, Evict, Delete, storeVars
    <1>3. EmptySession \in SessionRec /\ EmptySession.lc = 0 /\ EmptySession.rows = <<>>
        <2>1. <<>> \in Seq(Row) /\ 0 \in Nat OBVIOUS
        <2> QED BY <2>1 DEF EmptySession, SessionRec
    <1>4. Hides(EmptySession, archived')
        <2>1. Len(EmptySession.rows) = 0 /\ 1..EmptySession.lc = {} BY <1>3
        <2> QED BY <1>3, <2>1 DEF Hides
    <1>5. Held' \subseteq Held BY <1>2 DEF Held
    <1>6. ~skewed => HidOk(obj, disk', Held', task, archived')
        <2>1. disk' = disk \/ Hides(disk', archived') BY <1>2, <1>4
        <2> QED BY <1>2, <1>5, <2>1, HidStay DEF MemInv
    <1>7. LineInv' BY <1>1, <1>2 DEF LineInv
    <1>8. MemTyped' BY <1>1, <1>2, <1>3 DEF MemTyped
    <1> QED BY <1>2, <1>6, <1>7, <1>8 DEF MemInv

LEMMA MemRestarts == ASSUME MemInv, Crash \/ Shutdown PROVE MemInv'
    <1>1. MemTyped BY DEF MemInv
    <1>2. /\ obj' = [o \in Objects |-> EmptySession] /\ cached' = Nobody /\ turn' = NoTurn
          /\ task' = [w \in Workers |-> Off] /\ queue' = <<>> /\ UNCHANGED <<archived, skewed, made>>
          /\ disk' = disk \/ (cached # Nobody /\ disk' = obj[cached])
        BY DEF Crash, Shutdown, Restart
    <1>3. EmptySession \in SessionRec
        <2>1. <<>> \in Seq(Row) /\ 0 \in Nat OBVIOUS
        <2> QED BY <2>1 DEF EmptySession, SessionRec
    <1>4. disk' \in SessionRec BY <1>1, <1>2 DEF MemTyped
    <1>5. \A w \in Workers : task'[w] = Off BY <1>2
    <1>6. Held' = {} BY <1>2, <1>5, RecordsAre DEF Held
    <1>7. ~skewed => HidOk(obj', disk', Held', task', archived')
        <2> SUFFICES ASSUME ~skewed PROVE HidOk(obj', disk', Held', task', archived') OBVIOUS
        <2>1. HidOk(obj, disk, Held, task, archived) BY DEF MemInv
        <2>2. Hides(disk', archived') BY <1>1, <1>2, <2>1, HeldIs DEF HidOk
        <2>3. \A w \in Workers \ {"idle"} : task'[w].pc # "archive" BY <1>5, RecordsAre
        <2> QED BY <1>6, <2>2, <2>3 DEF HidOk
    <1>8. LineInv'
        <2>1. queue' \in Seq(Workers) /\ Len(queue') = 0 /\ 1..Len(queue') = {} BY <1>2
        <2> QED BY <1>5, <2>1, RecordsAre DEF LineInv, Working
    <1>9. obj' \in [Objects -> SessionRec] /\ task' \in [Workers -> TaskRec] BY <1>2, <1>3, RecordsAre
    <1>10. "turn" \in Workers BY DEF Workers
    <1>11. \A w \in Workers : task'[w].pc \in Working <=> task'[w].obj # Nobody BY <1>5, RecordsAre DEF Working
    <1>12. turn'.pc = "off" /\ turn'.obj = Nobody /\ turn' \in TurnRec /\ task'["turn"].pc = "off"
        BY <1>2, <1>5, <1>10, RecordsAre
    <1>13. MemTyped' BY <1>1, <1>2, <1>4, <1>9, <1>11, <1>12 DEF MemTyped
    <1> QED BY <1>2, <1>7, <1>8, <1>13 DEF MemInv

LEMMA MemStep == ASSUME MemInv, [SessionNext]_sessionVars PROVE MemInv'
    <1>1. CASE UNCHANGED sessionVars
        <2>1. UNCHANGED <<obj, cached, disk, turn, task, queue, archived, skewed, made>> BY <1>1 DEF sessionVars
        <2>2. MemTyped' BY <2>1 DEF MemInv, MemTyped
        <2>3. LineInv' BY <2>1 DEF MemInv, LineInv
        <2>4. Held' = Held BY <2>1 DEF Held
        <2> QED BY <2>1, <2>2, <2>3, <2>4 DEF MemInv
    <1>2. CASE \E kind \in {"bus", "direct"} : TurnBegin(kind) BY <1>2, TurnBeginKeeps
    <1>3. CASE \E w \in Workers : Enter(w) \/ Pick(w) \/ Archived(w) \/ Fits(w)
        BY <1>3, EnterKeeps, PickKeeps, ArchivedKeeps, FitsKeeps
    <1>4. CASE TurnEnd \/ TurnFails BY <1>4, TurnEndKeeps, TurnFailsKeeps
    <1>5. CASE IdleCheck \/ IdleEnter \/ IdleArchived BY <1>5, IdleCheckKeeps, IdleEnterKeeps, IdleArchivedKeeps
    <1>6. CASE CommandRow \/ New \/ NewArchived \/ Cut BY <1>6, CommandRowKeeps, NewKeeps, StoreKeeps, CutKeeps
    <1>7. CASE Evict \/ Delete \/ Crash \/ Shutdown BY <1>7, StoreKeeps, MemRestarts
    <1> QED BY <1>1, <1>2, <1>3, <1>4, <1>5, <1>6, <1>7 DEF SessionNext

LEMMA MemBegins == SessionInit => MemInv
    <1> SUFFICES ASSUME SessionInit PROVE MemInv OBVIOUS
    <1>1. EmptySession \in SessionRec /\ EmptySession.lc = 0 /\ EmptySession.rows = <<>>
        <2>1. <<>> \in Seq(Row) /\ 0 \in Nat OBVIOUS
        <2> QED BY <2>1 DEF EmptySession, SessionRec
    <1>2. \A w \in Workers : task[w] = Off BY DEF SessionInit
    <1>3. Held = {} BY <1>2, RecordsAre DEF SessionInit, Held
    <1>4. Hides(disk, archived)
        <2>1. Len(EmptySession.rows) = 0 /\ 1..EmptySession.lc = {} BY <1>1
        <2> QED BY <1>1, <2>1 DEF Hides, SessionInit
    <1>5. HidOk(obj, disk, Held, task, archived) BY <1>2, <1>3, <1>4, RecordsAre DEF HidOk
    <1>6. LineInv
        <2>1. queue \in Seq(Workers) /\ Len(queue) = 0 /\ 1..Len(queue) = {} BY DEF SessionInit
        <2> QED BY <1>2, <2>1, RecordsAre DEF LineInv, Working
    <1>7. "turn" \in Workers /\ 0 \in 0..MaxRow BY SessionAssumption DEF Workers
    <1>8. \A w \in Workers : task[w].pc \in Working <=> task[w].obj # Nobody BY <1>2, RecordsAre DEF Working
    <1>9. turn.pc = "off" /\ turn.obj = Nobody /\ turn \in TurnRec /\ task["turn"].pc = "off"
        BY <1>2, <1>7, RecordsAre DEF SessionInit
    <1>10. MemTyped BY <1>1, <1>7, <1>8, <1>9, RecordsAre DEF MemTyped, SessionInit
    <1> QED BY <1>5, <1>6, <1>10 DEF MemInv

LEMMA MemHides == ASSUME MemInv PROVE HiddenIsArchived
    <1> SUFFICES ASSUME ~skewed PROVE Consolidated BY DEF HiddenIsArchived
    <1>1. MemTyped /\ HidOk(obj, disk, Held, task, archived) BY DEF MemInv
    <1>2. ASSUME NEW s \in Live PROVE s \in SessionRec /\ Hides(s, archived)
        <2>1. s = disk \/ \E o \in {cached, turn.obj} \ {Nobody} : s = obj[o] BY <1>2 DEF Live
        <2>2. \A o \in {cached, turn.obj} \ {Nobody} : o \in Held /\ o \in Objects BY <1>1, HeldIs
        <2> QED BY <1>1, <2>1, <2>2 DEF HidOk, MemTyped
    <1>3. ASSUME NEW s \in Live PROVE s.lc <= Len(s.rows) /\ ToSet(SubSeq(s.rows, 1, s.lc)) \subseteq archived
        <2> DEFINE q == SubSeq(s.rows, 1, s.lc)
        <2>1. s.rows \in Seq(Row) /\ s.lc \in Nat /\ Len(s.rows) \in Nat BY <1>2 DEF SessionRec
        <2>2. s.lc <= Len(s.rows) /\ \A i \in 1..s.lc : s.rows[i] \in archived BY <1>2 DEF Hides
        <2>3. s.lc \in 0..Len(s.rows) /\ 1 \in Nat \ {0} BY <2>1, <2>2
        <2>4. q \in Seq(Row) /\ Len(q) = (IF s.lc < 1 THEN 0 ELSE s.lc - 1 + 1)
              /\ \A i \in 1..Len(q) : q[i] = s.rows[1 + i - 1]
            <3> HIDE DEF Row
            <3> QED BY <2>1, <2>3, RowsPart
        <2>5. Len(q) = s.lc BY <2>1, <2>4
        <2>6. \A i \in 1..Len(q) : 1 + i - 1 = i BY <2>1, <2>5
        <2> HIDE DEF q
        <2>7. \A i \in 1..Len(q) : q[i] \in archived BY <2>2, <2>4, <2>5, <2>6
        <2>8. ToSet(q) = {q[i] : i \in 1..Len(q)}
            <3> HIDE DEF Row
            <3> QED BY <2>4 DEF ToSet
        <2> QED BY <2>2, <2>7, <2>8 DEF q
    <1> QED BY <1>3 DEF Consolidated

\* What last_consolidated hides from the prompt is in history.jsonl, whatever turns,
\* background archives, compactions, commands, evictions and restarts interleave, until a
\* command cuts rows that are counted or about to be.
THEOREM HiddenKept == SessionSpec => []HiddenIsArchived
    <1> QED BY MemBegins, MemStep, MemHides, PTL DEF SessionSpec
----------------------------------------------------------------------------
(* No row is lost: every object at work, the file and what an idle compaction keeps have  *)
(* every row that was saved, but for notes and what is archived, leaving or dropped.      *)

Gone     == archived \cup leaving \cup dropped
IdleRows == ToSet(task["idle"].kept) \cup task["idle"].chunk
Copies   == {RowsOf(disk)} \cup {RowsOf(obj[o]) : o \in Held}
            \cup (IF task["idle"].pc = "archive" THEN {IdleRows} ELSE {})

\* A turn of the bus waits behind what was in the line before it, and is alone when it runs.
TurnLast ==
    /\ turn.pc # "off" => turn.kind = "bus"
    /\ turn.pc = "wait" => queue # <<>> /\ queue[Len(queue)] = "turn"
    /\ turn.pc = "run" => queue = <<>>

CopiesSaved  == \A x \in Copies : x \subseteq saved
CopiesHaveIt == skewed \/ \A x \in Copies : \A r \in saved : r.by = "note" \/ r \in x \cup Gone

\* What the turn at work answers is in the file, and in what would be written over it.
PromptInv ==
    turn.pc = "run" =>
        \A r \in RowsOf(obj[turn.obj]) : r.by = "user" =>
            \/ r \in archived \cup dropped
            \/ r \in RowsOf(disk) /\ (cached # Nobody => r \in RowsOf(obj[cached]))

RowInv == TurnLast /\ CopiesSaved /\ CopiesHaveIt /\ PromptInv

\* Each copy goes back to one there was, what it lacks is gone, and it has the new rows.
LEMMA CopiesMove ==
    ASSUME CopiesSaved, CopiesHaveIt, skewed => skewed', Gone \subseteq Gone', NEW N,
           \A r \in saved' : r.by = "note" \/ r \in saved \/ r \in N,
           \A x \in Copies' : x \subseteq saved' /\ (skewed' \/ (N \subseteq x /\ \E y \in Copies : y \subseteq x \cup Gone'))
    PROVE  CopiesSaved' /\ CopiesHaveIt'
    <1>1. CopiesSaved' BY DEF CopiesSaved
    <1>2. ASSUME ~skewed', NEW x \in Copies', NEW r \in saved', r.by # "note" PROVE r \in x \cup Gone'
        <2>1. N \subseteq x BY <1>2
        <2>2. PICK y \in Copies : y \subseteq x \cup Gone' BY <1>2
        <2>3. r \in saved => r \in y \cup Gone BY <1>2 DEF CopiesHaveIt
        <2> QED BY <1>2, <2>1, <2>2, <2>3
    <1>3. CopiesHaveIt' BY <1>2 DEF CopiesHaveIt
    <1> QED BY <1>1, <1>3

\* One object is replaced, perhaps with the file.
LEMMA CopiesPut ==
    ASSUME CopiesSaved, CopiesHaveIt, obj \in [Objects -> SessionRec], NEW o \in Objects, NEW s,
           obj' = [obj EXCEPT ![o] = s], disk' = disk \/ disk' = s, Held' \subseteq (Held \cup {o}) \cap Objects,
           \/ task'["idle"] = task["idle"]
           \/ task'["idle"].pc # "archive"
           \/ IdleRows' \subseteq saved' /\ (skewed' \/ \E y \in Copies : y \subseteq IdleRows' \cup Gone'),
           saved \subseteq saved', RowsOf(s) \subseteq saved', \A r \in saved' : r \in saved \/ r.by = "note",
           Gone \subseteq Gone', skewed => skewed', skewed' \/ \E y \in Copies : y \subseteq RowsOf(s) \cup Gone'
    PROVE  CopiesSaved' /\ CopiesHaveIt'
    <1>1. \A p \in Objects : obj'[p] = IF p = o THEN s ELSE obj[p] OBVIOUS
    <1>2. ASSUME NEW x \in Copies' PROVE x \subseteq saved' /\ (skewed' \/ \E y \in Copies : y \subseteq x \cup Gone')
        <2>1. \/ x = RowsOf(disk') \/ \E p \in Held' : x = RowsOf(obj'[p])
              \/ task'["idle"].pc = "archive" /\ x = IdleRows'
            BY <1>2 DEF Copies, RowsOf
        <2>2. CASE x = RowsOf(s) BY <2>2
        <2>3. CASE x \in Copies BY <2>3 DEF CopiesSaved
        <2>4. CASE x = RowsOf(disk')
            <3>1. RowsOf(disk) \in Copies BY DEF Copies
            <3> QED BY <2>2, <2>3, <2>4, <3>1
        <2>5. ASSUME NEW p \in Held', x = RowsOf(obj'[p]) PROVE x = RowsOf(s) \/ x \in Copies
            <3>1. p = o \/ (p \in Held /\ p \in Objects) OBVIOUS
            <3>2. CASE p = o BY <1>1, <2>5, <3>2
            <3>3. CASE p # o BY <1>1, <2>5, <3>1, <3>3 DEF Copies
            <3> QED BY <3>2, <3>3
        <2>6. CASE task'["idle"].pc = "archive" /\ x = IdleRows'
            <3>1. task'["idle"] = task["idle"] => x \in Copies BY <2>6 DEF Copies, IdleRows
            <3> QED BY <2>3, <2>6, <3>1
        <2> QED BY <2>1, <2>2, <2>3, <2>4, <2>5, <2>6
    <1> DEFINE N == {}
    <1>3. \A r \in saved' : r.by = "note" \/ r \in saved \/ r \in N OBVIOUS
    <1>4. \A x \in Copies' : x \subseteq saved' /\ (skewed' \/ (N \subseteq x /\ \E y \in Copies : y \subseteq x \cup Gone')) BY <1>2
    <1> HIDE DEF N
    <1> QED BY <1>3, <1>4, CopiesMove

\* A row of the turn is made when only one object is left, and the file has it.
LEMMA CopiesOne ==
    ASSUME CopiesSaved, CopiesHaveIt, NEW o, NEW s, obj'[o] = s, disk' = s, Held' \subseteq {o},
           task'["idle"].pc # "archive", saved' = saved \cup RowsOf(s),
           NEW y \in Copies, NEW row, RowsOf(s) = y \cup {row}, Gone \subseteq Gone', skewed => skewed'
    PROVE  CopiesSaved' /\ CopiesHaveIt'
    <1>1. ASSUME NEW x \in Copies' PROVE x = RowsOf(s)
        <2>1. \/ x = RowsOf(disk') \/ \E p \in Held' : x = RowsOf(obj'[p])
            BY <1>1 DEF Copies, RowsOf
        <2> QED BY <2>1
    <1>2. y \subseteq saved BY DEF CopiesSaved
    <1>3. \A r \in saved' : r.by = "note" \/ r \in saved \/ r \in {row} BY <1>2
    <1>4. \A x \in Copies' : x \subseteq saved' /\ (skewed' \/ ({row} \subseteq x /\ \E z \in Copies : z \subseteq x \cup Gone'))
        BY <1>1
    <1> QED BY <1>3, <1>4, CopiesMove

LEMMA FoundIsCopy ==
    ASSUME MemTyped
    PROVE  /\ RowsOf(Found) \in Copies /\ RowsOf(disk) \in Copies
           /\ \A o \in Held : RowsOf(obj[o]) \in Copies
    <1>1. CASE cached # Nobody BY <1>1, HandleIs, HeldIs DEF Copies
    <1>2. CASE cached = Nobody BY <1>2, HandleIs DEF Copies
    <1>3. \A o \in Held : RowsOf(obj[o]) \in Copies BY DEF Copies
    <1>4. RowsOf(disk) \in Copies BY DEF Copies
    <1> QED BY <1>1, <1>2, <1>3, <1>4

\* The head of the line leaves it, and was not the turn.
LEMMA TailLast ==
    ASSUME LineInv, TurnLast, queue # <<>>, queue[1] # "turn", queue' = Tail(queue), UNCHANGED turn
    PROVE  TurnLast' /\ turn.pc # "run"
    <1>1. queue \in Seq(Workers) BY DEF LineInv
    <1>2. turn.pc # "run" BY DEF TurnLast
    <1>3. ASSUME turn.pc = "wait" PROVE queue' # <<>> /\ queue'[Len(queue')] = "turn"
        <2>1. queue[Len(queue)] = "turn" BY <1>3 DEF TurnLast
        <2> HIDE DEF Workers
        <2>2. Len(queue) \in Nat /\ Len(queue) # 0 BY <1>1
        <2>3. Len(queue) # 1 BY <2>1
        <2>4. Len(queue') = Len(queue) - 1 /\ \A i \in 1..(Len(queue) - 1) : queue'[i] = queue[i + 1] BY <1>1, <2>2
        <2> DEFINE n == Len(queue)
        <2> HIDE DEF n
        <2>9. n \in Nat /\ n # 0 /\ n # 1 BY <2>2, <2>3 DEF n
        <2>8. n - 1 \in 1..(n - 1) /\ (n - 1) + 1 = n BY <2>9
        <2>5. Len(queue) - 1 \in 1..(Len(queue) - 1) /\ (Len(queue) - 1) + 1 = Len(queue) BY <2>8 DEF n
        <2>6. queue'[Len(queue')] = "turn" BY <2>1, <2>4, <2>5
        <2>7. Len(queue') # 0 BY <2>2, <2>3, <2>4
        <2> QED BY <2>6, <2>7
    <1> QED BY <1>2, <1>3 DEF TurnLast

\* Who is not at work holds nothing.
LEMMA NobodyWorks ==
    ASSUME MemTyped', \A v \in Workers : task'[v].pc \notin Working
    PROVE  Held' \subseteq {cached', turn'.obj} \ {Nobody} /\ task'["idle"].pc # "archive"
    <1>1. \A v \in Workers : task'[v].obj = Nobody BY DEF MemTyped
    <1>2. Held' \subseteq {cached', turn'.obj} \ {Nobody} BY <1>1 DEF Held
    <1>3. "idle" \in Workers BY DEF Workers
    <1> QED BY <1>2, <1>3 DEF Working

\* The rows of a part are those of its places.
LEMMA PartRows ==
    ASSUME NEW D, NEW s \in Seq(D), NEW m \in Nat \ {0}, NEW k \in 0..Len(s)
    PROVE  ToSet(s) = {s[i] : i \in 1..Len(s)} /\ ToSet(SubSeq(s, m, k)) = {s[i] : i \in m..k}
    <1> DEFINE q == SubSeq(s, m, k)
    <1>1. /\ q \in Seq(D) /\ Len(q) = IF k < m THEN 0 ELSE k - m + 1
          /\ \A i \in 1..Len(q) : q[i] = s[m + i - 1]
        BY RowsPart
    <1> HIDE DEF q
    <1>2. ToSet(q) = {q[i] : i \in 1..Len(q)} BY <1>1 DEF ToSet
    <1>3. k \in Nat /\ m \in Nat OBVIOUS
    <1>4. \A i \in 1..Len(q) : m + i - 1 \in m..k BY <1>1, <1>3
    <1>5. \A j \in m..k : j - m + 1 \in 1..Len(q) /\ m + (j - m + 1) - 1 = j BY <1>1, <1>3
    <1>6. {q[i] : i \in 1..Len(q)} = {s[j] : j \in m..k}
        <2>1. ASSUME NEW x \in {q[i] : i \in 1..Len(q)} PROVE x \in {s[j] : j \in m..k} BY <1>1, <1>4
        <2>2. ASSUME NEW j \in m..k PROVE s[j] \in {q[i] : i \in 1..Len(q)} BY <1>1, <1>5
        <2> QED BY <2>1, <2>2
    <1>7. ToSet(s) = {s[i] : i \in 1..Len(s)} BY DEF ToSet
    <1> QED BY <1>2, <1>6, <1>7 DEF q

LEMMA SplitRows ==
    ASSUME NEW rest \in Seq(Row)
    PROVE  /\ ToSet(rest) = ToSet(Suffix(rest)) \cup ToSet(SubSeq(rest, 1, Len(rest) - Len(Suffix(rest))))
           /\ Len(Suffix(rest)) = Len(rest) => ToSet(rest) = ToSet(Suffix(rest))
    <1> DEFINE kept == Suffix(rest)
               n == Len(rest)
    <1>1. kept \in Seq(Row) BY SuffixIs
    <1>2. PICK d \in 0..n : Len(kept) = n - d /\ \A i \in 1..Len(kept) : kept[i] = rest[d + i] BY SuffixIs
    <1> HIDE DEF kept
    <1>3. n \in Nat /\ 1 \in Nat \ {0} OBVIOUS
    <1>4. ToSet(rest) = {rest[i] : i \in 1..n} /\ ToSet(SubSeq(rest, 1, d)) = {rest[i] : i \in 1..d}
        <2> DEFINE one == 1
        <2>1. one \in Nat \ {0} /\ n = Len(rest) OBVIOUS
        <2> HIDE DEF Row, one, n
        <2>2. d \in 0..Len(rest) BY <2>1
        <2>3. ToSet(rest) = {rest[i] : i \in 1..Len(rest)} /\ ToSet(SubSeq(rest, one, d)) = {rest[i] : i \in one..d}
            BY <2>1, <2>2, PartRows
        <2> QED BY <2>1, <2>3 DEF one
    <1>5. ToSet(kept) = {kept[i] : i \in 1..Len(kept)}
        <2> HIDE DEF Row
        <2> QED BY <1>1 DEF ToSet
    <1> HIDE DEF n
    <1>6. \A i \in 1..Len(kept) : d + i \in 1..n BY <1>2, <1>3
    <1>7. \A j \in 1..n : j \in 1..d \/ (j - d \in 1..Len(kept) /\ d + (j - d) = j) BY <1>2, <1>3
    <1>8. (\A j \in 1..d : j \in 1..n) /\ n - Len(kept) = d BY <1>2, <1>3
    <1>9. ToSet(rest) = ToSet(kept) \cup ToSet(SubSeq(rest, 1, d))
        <2>1. ASSUME NEW x \in ToSet(rest) PROVE x \in ToSet(kept) \cup ToSet(SubSeq(rest, 1, d))
            <3>1. PICK j \in 1..n : x = rest[j] BY <1>4, <2>1
            <3>2. CASE j \in 1..d BY <1>4, <3>1, <3>2
            <3>3. CASE j - d \in 1..Len(kept) /\ d + (j - d) = j
                <4>1. kept[j - d] = x BY <1>2, <3>1, <3>3
                <4> QED BY <1>5, <3>3, <4>1
            <3> QED BY <1>7, <3>2, <3>3
        <2>2. ASSUME NEW x \in ToSet(kept) \cup ToSet(SubSeq(rest, 1, d)) PROVE x \in ToSet(rest)
            <3>1. CASE x \in ToSet(kept)
                <4>1. PICK i \in 1..Len(kept) : x = kept[i] BY <1>5, <3>1
                <4>2. x = rest[d + i] /\ d + i \in 1..n BY <1>2, <1>6, <4>1
                <4> QED BY <1>4, <4>2
            <3>2. CASE x \in ToSet(SubSeq(rest, 1, d))
                <4>1. PICK j \in 1..d : x = rest[j] BY <1>4, <3>2
                <4>2. j \in 1..n BY <1>8
                <4> QED BY <1>4, <4>1, <4>2
            <3> QED BY <2>2, <3>1, <3>2
        <2> QED BY <2>1, <2>2
    <1>10. Len(kept) = n => ToSet(SubSeq(rest, 1, d)) = {}
        <2>1. Len(kept) = n => d = 0 BY <1>2, <1>3
        <2>2. d = 0 => 1..d = {} BY <1>3
        <2> QED BY <1>4, <2>1, <2>2
    <1> QED BY <1>8, <1>9, <1>10 DEF kept, n

\* What last_consolidated does not hide, and what it does.
LEMMA RestRows ==
    ASSUME NEW s \in SessionRec
    PROVE  /\ Unconsolidated(s) \in Seq(Row) /\ ToSet(Unconsolidated(s)) \subseteq RowsOf(s)
           /\ \A ar : Hides(s, ar) => RowsOf(s) \subseteq ar \cup ToSet(Unconsolidated(s))
    <1> DEFINE n == Len(s.rows)
    <1>1. s.rows \in Seq(Row) /\ s.lc \in Nat /\ n \in Nat /\ s.lc + 1 \in Nat \ {0} /\ n \in 0..n BY DEF SessionRec
    <1>2. ToSet(s.rows) = {s.rows[i] : i \in 1..n} /\ ToSet(SubSeq(s.rows, s.lc + 1, n)) = {s.rows[i] : i \in s.lc + 1..n}
        <2> HIDE DEF Row
        <2> QED BY SMTT(30), <1>1, PartRows
    <1>3. SubSeq(s.rows, s.lc + 1, n) \in Seq(Row)
        <2> HIDE DEF Row
        <2> QED BY <1>1, RowsPart
    <1>4. RowsOf(s) = {s.rows[i] : i \in 1..n} /\ ToSet(Unconsolidated(s)) = {s.rows[i] : i \in s.lc + 1..n}
        BY <1>2 DEF RowsOf, Unconsolidated
    <1>5. Unconsolidated(s) \in Seq(Row) BY <1>3 DEF Unconsolidated
    <1> HIDE DEF n
    <1>6. \A i \in s.lc + 1..n : i \in 1..n BY <1>1
    <1>7. \A i \in 1..n : i \in 1..s.lc \/ i \in s.lc + 1..n BY <1>1
    <1>8. ToSet(Unconsolidated(s)) \subseteq RowsOf(s) BY <1>4, <1>6
    <1>9. ASSUME NEW ar, Hides(s, ar) PROVE RowsOf(s) \subseteq ar \cup ToSet(Unconsolidated(s))
        <2>1. \A i \in 1..s.lc : s.rows[i] \in ar BY <1>9 DEF Hides
        <2>2. ASSUME NEW i \in 1..n PROVE s.rows[i] \in ar \cup ToSet(Unconsolidated(s)) BY <1>4, <1>7, <2>1
        <2> QED BY <1>4, <2>2
    <1> QED BY <1>5, <1>8, <1>9

\* A cut keeps the first rows.
LEMMA CutRows ==
    ASSUME NEW s \in SessionRec, NEW i \in 1..Len(s.rows), NEW t, t = [s EXCEPT !.rows = SubSeq(s.rows, 1, i)]
    PROVE  /\ RowsOf(t) \subseteq RowsOf(s)
           /\ RowsOf(s) \subseteq RowsOf(t) \cup ToSet(SubSeq(s.rows, i + 1, Len(s.rows)))
    <1> DEFINE n == Len(s.rows)
    <1>1. s.rows \in Seq(Row) /\ n \in Nat /\ i + 1 \in Nat \ {0} /\ n \in 0..n /\ i \in 0..n /\ 1 \in Nat \ {0} BY DEF SessionRec
    <1>2. /\ ToSet(s.rows) = {s.rows[j] : j \in 1..n} /\ ToSet(SubSeq(s.rows, 1, i)) = {s.rows[j] : j \in 1..i}
          /\ ToSet(SubSeq(s.rows, i + 1, n)) = {s.rows[j] : j \in i + 1..n}
        <2> DEFINE q == s.rows
                   D == Row
        <2>1. q \in Seq(D) /\ Len(q) = n BY <1>1
        <2> HIDE DEF q, D, n
        <2>2. i \in 0..Len(q) /\ n \in 0..Len(q) BY <1>1, <2>1
        <2>3. ToSet(q) = {q[j] : j \in 1..Len(q)} /\ ToSet(SubSeq(q, 1, i)) = {q[j] : j \in 1..i}
            <3> DEFINE one == 1
            <3>1. one \in Nat \ {0} OBVIOUS
            <3> HIDE DEF one
            <3>2. ToSet(q) = {q[j] : j \in 1..Len(q)} /\ ToSet(SubSeq(q, one, i)) = {q[j] : j \in one..i}
                BY <2>1, <2>2, <3>1, PartRows
            <3> QED BY <3>2 DEF one
        <2>4. ToSet(SubSeq(q, i + 1, n)) = {q[j] : j \in i + 1..n} BY <1>1, <2>1, <2>2, PartRows
        <2> QED BY <2>1, <2>3, <2>4 DEF q
    <1>3. t.rows = SubSeq(s.rows, 1, i) BY DEF SessionRec
    <1>4. RowsOf(s) = {s.rows[j] : j \in 1..n} /\ RowsOf(t) = {s.rows[j] : j \in 1..i} BY <1>2, <1>3 DEF RowsOf
    <1>5. (\A j \in 1..i : j \in 1..n) /\ \A j \in 1..n : j \in 1..i \/ j \in i + 1..n BY <1>1
    <1> HIDE DEF n
    <1>6. RowsOf(t) \subseteq RowsOf(s) BY <1>4, <1>5
    <1>7. RowsOf(s) \subseteq RowsOf(t) \cup ToSet(SubSeq(s.rows, i + 1, n)) BY <1>2, <1>4, <1>5
    <1> QED BY <1>6, <1>7 DEF n

\* The worker at the head of the line leaves: the turn with its user's row.
LEMMA RowsLeave ==
    ASSUME MemInv, MemInv', RowInv, NEW w \in {"turn", "after"}, NEW store \in BOOLEAN, NEW o \in Objects,
           NEW s \in SessionRec, task[w].pc # "off", queue # <<>>, queue[1] = w, Leave(w, store, o, s),
           Gone \subseteq Gone', UNCHANGED skewed, RowsOf(s) \in Copies
    PROVE  RowInv'
    <1>1. MemTyped /\ LineInv /\ MemTyped' BY DEF MemInv
    <1>2. /\ task' = [task EXCEPT ![w] = Off] /\ queue' = Tail(queue) /\ w \in Workers
          /\ task \in [Workers -> TaskRec] /\ obj \in [Objects -> SessionRec]
        BY <1>1 DEF Leave, Release, Workers, MemTyped
    <1>3. \A v \in Workers : task'[v].pc \notin Working BY <1>1, <1>2, LineLeft
    <1>4. Held' \subseteq {cached', turn'.obj} \ {Nobody} /\ task'["idle"].pc # "archive" BY <1>1, <1>3, NobodyWorks
    <1>5. Held \subseteq Objects /\ (turn.obj # Nobody => turn.obj \in Held) BY <1>1, HeldIs
    <1>6. TurnLast /\ CopiesSaved /\ CopiesHaveIt BY DEF RowInv
    <1>7. RowsOf(s) \subseteq saved BY <1>6 DEF CopiesSaved
    <1>8. CASE w = "after"
        <2>1. /\ obj' = [obj EXCEPT ![o] = s] /\ cached' = o /\ UNCHANGED turn
              /\ disk' = disk \/ disk' = s
              /\ saved' = saved \/ saved' = saved \cup RowsOf(s)
            BY <1>8 DEF Leave, Save, Hold
        <2>2. Held' \subseteq (Held \cup {o}) \cap Objects BY <1>4, <1>5, <2>1
        <2>3. saved \subseteq saved' /\ RowsOf(s) \subseteq saved' /\ \A r \in saved' : r \in saved \/ r.by = "note"
            BY <1>7, <2>1
        <2>4. CopiesSaved' /\ CopiesHaveIt' BY <1>2, <1>4, <1>6, <2>1, <2>2, <2>3, CopiesPut
        <2>5. TurnLast' /\ turn.pc # "run" BY <1>1, <1>2, <1>6, <1>8, <2>1, TailLast
        <2>6. PromptInv' BY <2>1, <2>5 DEF PromptInv
        <2> QED BY <2>4, <2>5, <2>6 DEF RowInv
    <1>9. CASE w = "turn"
        <2> DEFINE mine == IF turn.obj = o THEN s ELSE obj[turn.obj]
                   t == [WithRow(mine, "user") EXCEPT !.pend = TRUE]
        <2>1. turn.pc = "wait" /\ turn.obj \in Objects /\ turn.obj \in Held /\ made \in 0..MaxRow
            BY <1>1, <1>5, <1>9 DEF MemTyped, TurnRec
        <2>2. /\ CanMake /\ obj' = [[obj EXCEPT ![o] = s] EXCEPT ![turn.obj] = t] /\ cached' = turn.obj
              /\ disk' = obj'[turn.obj] /\ saved' = saved \cup RowsOf(disk') /\ turn' = [turn EXCEPT !.pc = "run"]
            BY <1>9 DEF Leave
        <2>3. mine \in SessionRec /\ RowsOf(mine) \in Copies BY <1>2, <2>1 DEF Copies
        <2>4. RowsOf(t) = RowsOf(mine) \cup {NewRow("user")} BY <2>1, <2>2, <2>3, WithRowIs DEF Grown
        <2> HIDE DEF mine, t
        <2>5. turn' \in TurnRec /\ turn'.pc = "run" /\ turn'.obj = turn.obj /\ turn'.kind = turn.kind
            BY <1>1, <2>2 DEF TurnRec, MemTyped
        <2>6. obj'[turn.obj] = t /\ disk' = t BY <1>2, <2>1, <2>2
        <2>7. Held' \subseteq {turn.obj} BY <1>4, <2>2, <2>5
        <2>8. CopiesSaved' /\ CopiesHaveIt'
            <3>1. saved' = saved \cup RowsOf(t) BY <2>2, <2>6
            <3> QED BY <1>4, <1>6, <2>3, <2>4, <2>6, <2>7, <3>1, CopiesOne
        <2>9. queue' = <<>>
            <3>1. queue \in Seq(Workers) /\ queue[Len(queue)] = "turn" /\ Len(queue) \in Nat BY <1>1, <1>6, <2>1 DEF TurnLast, LineInv
            <3>2. Len(queue) # 0
                <4> HIDE DEF Workers
                <4> QED BY <3>1
            <3>3. \A i, j \in 1..Len(queue) : queue[i] = queue[j] => i = j BY <1>1 DEF LineInv
            <3>4. 1 \in 1..Len(queue) /\ Len(queue) \in 1..Len(queue) BY <3>1, <3>2
            <3>5. Len(queue) = 1 BY <1>9, <3>1, <3>3, <3>4
            <3> HIDE DEF Workers
            <3> QED BY <1>2, <3>1, <3>5
        <2>10. TurnLast' BY <1>6, <2>1, <2>5, <2>9 DEF TurnLast
        <2>11. PromptInv' BY <2>2, <2>5, <2>6 DEF PromptInv
        <2> QED BY <2>8, <2>10, <2>11 DEF RowInv
    <1> QED BY <1>8, <1>9

\* What every action but the turn's own leaves of its two.
LEMMA NotAtRun == ASSUME MemTyped, LineInv, TurnLast, NEW w \in Workers, task[w].pc # "off" PROVE turn.pc # "run"
    <1>1. \E i \in 1..Len(queue) : queue[i] = w BY DEF LineInv
    <1>2. Len(<<>>) = 0 /\ 1..0 = {} OBVIOUS
    <1>3. queue # <<>> BY <1>1, <1>2
    <1> QED BY <1>3 DEF TurnLast

LEMMA TurnBeginRows ==
    ASSUME MemInv, RowInv, ~DirectCalls, NEW kind \in {"bus", "direct"}, TurnBegin(kind)
    PROVE  RowInv'
    <1> DEFINE wait == [Off EXCEPT !.pc = "wait"]
    <1>1. MemTyped /\ LineInv /\ CopiesSaved /\ CopiesHaveIt BY DEF MemInv, RowInv
    <1>2. /\ turn.pc = "off" /\ CanMake /\ queue' = Append(queue, "turn") /\ UNCHANGED <<archived, skewed, leaving, dropped>>
          /\ turn' = [pc |-> "wait", kind |-> kind, obj |-> Handle] /\ task' = [task EXCEPT !["turn"] = wait]
          /\ kind = "bus"
        BY DEF TurnBegin
    <1>3. /\ Handle \in Objects /\ Found \in SessionRec /\ made \in 0..MaxRow /\ task \in [Workers -> TaskRec]
          /\ obj \in [Objects -> SessionRec] /\ Held \subseteq Objects /\ RowsOf(Found) \in Copies
        BY <1>1, HandleIs, HeldIs, FoundIsCopy DEF MemTyped
    <1>4. wait.obj = Nobody /\ wait.pc = "wait" BY RecordsAre
    <1> HIDE DEF wait
    <1>5. PICK s : /\ obj' = [obj EXCEPT ![Handle] = s] /\ cached' = Handle
                   /\ disk' = disk \/ disk' = s
                   /\ RowsOf(Found) \subseteq RowsOf(s)
                   /\ saved' = saved \cup RowsOf(s)
                   /\ \A r \in RowsOf(s) : r \in RowsOf(Found) \/ r.by = "note"
        <2>0. RowsOf(Found) \subseteq saved BY <1>1, <1>3 DEF CopiesSaved
        <2>1. CASE Found.pend
            <3> DEFINE t == [WithRow(Found, "note") EXCEPT !.pend = FALSE]
            <3>1. Grown(t, Found, NewRow("note")) /\ NewRow("note").by = "note" BY <1>2, <1>3, WithRowIs
            <3>2. Save(Handle, t) BY <2>1 DEF TurnBegin
            <3> HIDE DEF t
            <3> QED BY <3>1, <3>2 DEF Save, Grown
        <2>2. CASE ~Found.pend
            <3>1. Hold(Handle, Found) BY <2>2 DEF TurnBegin
            <3> QED BY <2>0, <3>1 DEF Hold
        <2> QED BY <2>1, <2>2
    <1>6. \A w \in Workers : task'[w] = IF w = "turn" THEN wait ELSE task[w] BY <1>2, <1>3
    <1>7. Held' \subseteq (Held \cup {Handle}) \cap Objects
        <2>1. turn'.obj = Handle BY <1>2
        <2>2. \A v \in Workers : task'[v].obj = task[v].obj \/ task'[v].obj = Nobody BY <1>4, <1>6
        <2>3. Held' \subseteq Held \cup {Handle} BY <1>5, <2>1, <2>2 DEF Held
        <2> QED BY <1>3, <2>3
    <1>8. CopiesSaved' /\ CopiesHaveIt'
        <2>1. task'["idle"] = task["idle"] BY <1>6 DEF Workers
        <2>2. RowsOf(Found) \subseteq saved BY <1>1, <1>3 DEF CopiesSaved
        <2>3. saved \subseteq saved' /\ RowsOf(s) \subseteq saved' /\ \A r \in saved' : r \in saved \/ r.by = "note"
            BY <1>5, <2>2
        <2>4. Gone \subseteq Gone' /\ (skewed => skewed') BY <1>2 DEF Gone
        <2>5. \E y \in Copies : y \subseteq RowsOf(s) \cup Gone' BY <1>3, <1>5
        <2>6. obj' = [obj EXCEPT ![Handle] = s] /\ (disk' = disk \/ disk' = s) BY <1>5
        <2> QED BY <1>1, <1>3, <1>7, <2>1, <2>3, <2>4, <2>5, <2>6, CopiesPut
    <1>9. TurnLast'
        <2>1. queue \in Seq(Workers) BY <1>1 DEF LineInv
        <2>2. queue' # <<>> /\ queue'[Len(queue')] = "turn"
            <3> HIDE DEF Workers
            <3> QED BY <1>2, <2>1
        <2> QED BY <1>2, <2>2 DEF TurnLast
    <1>10. PromptInv' BY <1>2 DEF PromptInv
    <1> QED BY <1>8, <1>9, <1>10 DEF RowInv

LEMMA EnterRows == ASSUME MemInv, MemInv', RowInv, NEW w \in Workers, Enter(w) PROVE RowInv'
    <1>1. MemTyped /\ LineInv /\ TurnLast /\ CopiesSaved /\ CopiesHaveIt BY DEF MemInv, RowInv
    <1>2. /\ w \in {"turn", "after"} /\ queue # <<>> /\ queue[1] = w /\ task[w].pc = "wait" /\ task[w].pc # "off"
          /\ UNCHANGED <<archived, skewed, leaving, dropped>>
        <2>1. queue \in Seq(Workers) BY <1>1 DEF LineInv
        <2>2. queue # <<>> => Head(queue) = queue[1] BY <2>1
        <2> QED BY <2>2 DEF Enter, Workers
    <1>3. /\ Handle \in Objects /\ Found \in SessionRec /\ task \in [Workers -> TaskRec] /\ RowsOf(Found) \in Copies
          /\ obj \in [Objects -> SessionRec] /\ Held \subseteq Objects /\ Gone \subseteq Gone'
        BY <1>1, <1>2, HandleIs, HeldIs, FoundIsCopy DEF MemTyped, Gone
    <1>4. CASE Found.rows = <<>>
        <2>1. Leave(w, FALSE, Handle, Found) BY <1>4 DEF Enter
        <2> QED BY <1>2, <1>3, <2>1, RowsLeave
    <1>5. CASE Found.rows # <<>>
        <2> DEFINE r == [task[w] EXCEPT !.pc = "estimate", !.obj = Handle]
        <2>1. Hold(Handle, Found) /\ task' = [task EXCEPT ![w] = r] /\ UNCHANGED <<turn, queue>>
            BY <1>5 DEF Enter
        <2>2. r.obj = Handle
            <3>1. task[w] \in TaskRec BY <1>3
            <3> QED BY <1>3, <3>1 DEF TaskRec
        <2> HIDE DEF r
        <2>3. \A v \in Workers : task'[v] = IF v = w THEN r ELSE task[v] BY <1>3, <2>1
        <2>4. obj' = [obj EXCEPT ![Handle] = Found] /\ cached' = Handle /\ UNCHANGED <<disk, saved>> BY <2>1 DEF Hold
        <2>5. Held' \subseteq (Held \cup {Handle}) \cap Objects BY <1>3, <2>1, <2>2, <2>3, <2>4 DEF Held
        <2>6. CopiesSaved' /\ CopiesHaveIt'
            <3>1. task'["idle"] = task["idle"] BY <1>2, <2>3 DEF Workers
            <3>2. RowsOf(Found) \subseteq saved' BY <1>1, <1>3, <2>4 DEF CopiesSaved
            <3> QED BY <1>1, <1>2, <1>3, <2>4, <2>5, <3>1, <3>2, CopiesPut
        <2>7. TurnLast' BY <1>1, <2>1 DEF TurnLast
        <2>8. turn.pc # "run" BY <1>1, <1>2, NotAtRun
        <2>9. PromptInv' BY <2>1, <2>8 DEF PromptInv
        <2> QED BY <2>6, <2>7, <2>9 DEF RowInv
    <1> QED BY <1>4, <1>5

\* No object is replaced that is held afterwards.
LEMMA CopiesStay ==
    ASSUME CopiesSaved, CopiesHaveIt, \A o \in Held' : o \in Held /\ obj'[o] = obj[o],
           disk' = disk \/ (RowsOf(disk') \subseteq saved /\ \E y \in Copies : y \subseteq RowsOf(disk') \cup Gone'),
           task'["idle"] = task["idle"] \/ task'["idle"].pc # "archive",
           UNCHANGED <<saved, skewed>>, Gone \subseteq Gone'
    PROVE  CopiesSaved' /\ CopiesHaveIt'
    <1> DEFINE N == {}
    <1>1. ASSUME NEW x \in Copies' PROVE x \subseteq saved' /\ \E y \in Copies : y \subseteq x \cup Gone'
        <2>1. \/ x = RowsOf(disk') \/ \E p \in Held' : x = RowsOf(obj'[p])
              \/ task'["idle"].pc = "archive" /\ x = IdleRows'
            BY <1>1 DEF Copies, RowsOf
        <2>2. x \in Copies => x \subseteq saved' /\ \E y \in Copies : y \subseteq x \cup Gone' BY DEF CopiesSaved
        <2>3. (\E p \in Held' : x = RowsOf(obj'[p])) => x \in Copies BY DEF Copies
        <2>4. task'["idle"].pc = "archive" /\ x = IdleRows' => x \in Copies BY DEF Copies, IdleRows
        <2>5. RowsOf(disk) \in Copies BY DEF Copies
        <2>6. CASE x = RowsOf(disk') BY <2>2, <2>5, <2>6
        <2> QED BY <2>1, <2>2, <2>3, <2>4, <2>6
    <1>2. \A r \in saved' : r.by = "note" \/ r \in saved \/ r \in N OBVIOUS
    <1>3. \A x \in Copies' : x \subseteq saved' /\ (skewed' \/ (N \subseteq x /\ \E y \in Copies : y \subseteq x \cup Gone')) BY <1>1
    <1>4. skewed => skewed' OBVIOUS
    <1> HIDE DEF N
    <1> QED BY <1>2, <1>3, <1>4, CopiesMove

LEMMA PickRows == ASSUME MemInv, RowInv, NEW w \in Workers, Pick(w) PROVE RowInv'
    <1>1. MemTyped /\ LineInv /\ TurnLast /\ CopiesSaved /\ CopiesHaveIt BY DEF MemInv, RowInv
    <1>2. /\ w # "idle" /\ task[w].pc = "estimate" /\ task[w].pc # "off" /\ task[w] \in TaskRec
          /\ task \in [Workers -> TaskRec]
          /\ UNCHANGED <<obj, cached, disk, saved, turn, queue, leaving, archived, dropped, skewed>>
        BY <1>1 DEF Pick, storeVars, MemTyped
    <1>3. \A v \in Workers : task'[v].obj = task[v].obj /\ (v # w => task'[v] = task[v])
        BY <1>2 DEF Pick, TaskRec
    <1>4. Held' \subseteq Held BY <1>2, <1>3 DEF Held
    <1>5. CopiesSaved' /\ CopiesHaveIt'
        <2>1. task'["idle"] = task["idle"] BY <1>2, <1>3 DEF Workers
        <2>2. Gone \subseteq Gone' BY <1>2 DEF Gone
        <2>3. \A o \in Held' : o \in Held /\ obj'[o] = obj[o] BY <1>2, <1>4
        <2> QED BY <1>1, <1>2, <2>1, <2>2, <2>3, CopiesStay
    <1>6. TurnLast' BY <1>1, <1>2 DEF TurnLast
    <1>7. turn.pc # "run" BY <1>1, <1>2, NotAtRun
    <1>8. PromptInv' BY <1>2, <1>7 DEF PromptInv
    <1> QED BY <1>5, <1>6, <1>8 DEF RowInv

LEMMA ArchivedRows == ASSUME MemInv, MemInv', RowInv, NEW w \in Workers, Archived(w) PROVE RowInv'
    <1> DEFINE o == task[w].obj
               s == obj[o]
               done == [s EXCEPT !.lc = task[w].upto]
    <1>1. MemTyped /\ LineInv /\ TurnLast /\ CopiesSaved /\ CopiesHaveIt BY DEF MemInv, RowInv
    <1>2. /\ w \in {"turn", "after"} /\ task[w].pc = "archive" /\ archived' = archived \cup task[w].chunk
          /\ UNCHANGED <<skewed, leaving, dropped>> /\ task[w] \in TaskRec /\ task \in [Workers -> TaskRec]
          /\ task[w].pc # "off"
        BY <1>1 DEF Archived, Workers, MemTyped
    <1>3. /\ o \in Objects /\ s \in SessionRec /\ o \in Held /\ Held \subseteq Objects /\ RowsOf(s) \in Copies
          /\ obj \in [Objects -> SessionRec]
        BY <1>1, <1>2, HeldIs, FoundIsCopy DEF Working, MemTyped
    <1>4. queue # <<>> /\ queue[1] = w BY <1>1, <1>2 DEF LineInv, Working
    <1>5. Gone \subseteq Gone' BY <1>2 DEF Gone
    <1>6. CASE Leave(w, task[w].rounds > 1, o, s)
        <2>1. (task[w].rounds > 1) \in BOOLEAN OBVIOUS
        <2> HIDE DEF o, s
        <2> QED BY <1>2, <1>3, <1>4, <1>5, <1>6, <2>1, RowsLeave
    <1>7. CASE Save(o, done) /\ task' = [task EXCEPT ![w] = [task[w] EXCEPT !.pc = "estimate", !.chunk = {}]]
               /\ UNCHANGED <<turn, queue, made>>
        <2>1. done.rows = s.rows BY <1>3 DEF SessionRec
        <2>2. RowsOf(done) = RowsOf(s) BY <2>1 DEF RowsOf
        <2>3. obj' = [obj EXCEPT ![o] = done] /\ cached' = o /\ disk' = done /\ saved' = saved \cup RowsOf(done) BY <1>7 DEF Save
        <2>4. \A v \in Workers : task'[v].obj = task[v].obj /\ (v # w => task'[v] = task[v])
            BY <1>2, <1>7 DEF TaskRec
        <2> HIDE DEF done, s, o
        <2>5. Held' \subseteq (Held \cup {o}) \cap Objects BY <1>3, <1>7, <2>3, <2>4 DEF Held
        <2>6. CopiesSaved' /\ CopiesHaveIt'
            <3>1. task'["idle"] = task["idle"] BY <1>2, <2>4 DEF Workers
            <3>2. RowsOf(done) \subseteq saved BY <1>1, <1>3, <2>2 DEF CopiesSaved
            <3>3. saved \subseteq saved' /\ RowsOf(done) \subseteq saved' /\ \A r \in saved' : r \in saved \/ r.by = "note"
                BY <2>3, <3>2
            <3>4. \E y \in Copies : y \subseteq RowsOf(done) \cup Gone' BY <1>3, <2>2
            <3>5. skewed => skewed' BY <1>2
            <3> QED BY <1>1, <1>3, <1>5, <2>3, <2>5, <3>1, <3>3, <3>4, <3>5, CopiesPut
        <2>7. TurnLast' BY <1>1, <1>7 DEF TurnLast
        <2>8. turn.pc # "run" BY <1>1, <1>2, NotAtRun
        <2>9. PromptInv' BY <1>7, <2>8 DEF PromptInv
        <2> QED BY <2>6, <2>7, <2>9 DEF RowInv
    <1> QED BY <1>6, <1>7 DEF Archived

LEMMA FitsRows == ASSUME MemInv, MemInv', RowInv, NEW w \in Workers, Fits(w) PROVE RowInv'
    <1> DEFINE o == task[w].obj
    <1>1. MemTyped /\ LineInv BY DEF MemInv
    <1>2. /\ w \in {"turn", "after"} /\ task[w].pc = "estimate" /\ UNCHANGED <<archived, skewed, leaving, dropped>>
        BY DEF Fits, Workers
    <1>3. o \in Objects /\ obj[o] \in SessionRec /\ RowsOf(obj[o]) \in Copies
        BY <1>1, <1>2, HeldIs, FoundIsCopy DEF Working, MemTyped
    <1>4. queue # <<>> /\ queue[1] = w /\ task[w].pc # "off" BY <1>1, <1>2 DEF LineInv, Working
    <1>5. Leave(w, task[w].rounds > 0, o, obj[o]) /\ (task[w].rounds > 0) \in BOOLEAN BY DEF Fits
    <1>6. Gone \subseteq Gone' BY <1>2 DEF Gone
    <1> HIDE DEF o
    <1> QED BY <1>2, <1>3, <1>4, <1>5, <1>6, RowsLeave

LEMMA TurnEndRows == ASSUME MemInv, MemInv', RowInv, TurnEnd PROVE RowInv'
    <1> DEFINE o == turn.obj
               t == [WithRow(obj[o], "reply") EXCEPT !.pend = FALSE]
    <1>1. MemTyped /\ LineInv /\ TurnLast /\ CopiesSaved /\ CopiesHaveIt /\ MemTyped' BY DEF MemInv, RowInv
    <1>2. /\ turn.pc = "run" /\ CanMake /\ Save(o, t)
          /\ turn' = NoTurn /\ task' = [task EXCEPT !["after"] = [Off EXCEPT !.pc = "wait"]]
          /\ queue' = Append(queue, "after") /\ UNCHANGED <<archived, skewed, leaving, dropped>>
        BY DEF TurnEnd
    <1>3. /\ o \in Objects /\ o \in Held /\ obj[o] \in SessionRec /\ made \in 0..MaxRow
          /\ task \in [Workers -> TaskRec] /\ "after" \in Workers /\ obj \in [Objects -> SessionRec]
          /\ RowsOf(obj[o]) \in Copies
        BY <1>1, <1>2, HeldIs, FoundIsCopy DEF MemTyped, Workers
    <1>4. RowsOf(t) = RowsOf(obj[o]) \cup {NewRow("reply")} BY <1>2, <1>3, WithRowIs DEF Grown
    <1> HIDE DEF t, o
    <1>5. queue = <<>> /\ \A v \in Workers : task[v].pc = "off"
        <2>1. queue = <<>> BY <1>1, <1>2 DEF TurnLast
        <2>2. Len(<<>>) = 0 /\ 1..0 = {} OBVIOUS
        <2> QED BY <1>1, <2>1, <2>2 DEF LineInv
    <1>6. \A v \in Workers : task'[v].pc \notin Working
        <2>1. \A v \in Workers : task'[v] = IF v = "after" THEN [Off EXCEPT !.pc = "wait"] ELSE task[v] BY <1>2, <1>3
        <2> QED BY <1>5, <2>1, RecordsAre DEF Working
    <1>7. Held' \subseteq {cached', turn'.obj} \ {Nobody} /\ task'["idle"].pc # "archive" BY <1>1, <1>6, NobodyWorks
    <1>8. obj' = [obj EXCEPT ![o] = t] /\ cached' = o /\ disk' = t /\ saved' = saved \cup RowsOf(t) BY <1>2 DEF Save
    <1>9. turn'.pc = "off" /\ turn'.obj = Nobody BY <1>2, RecordsAre
    <1>10. CopiesSaved' /\ CopiesHaveIt'
        <2>1. obj'[o] = t /\ Held' \subseteq {o} BY <1>3, <1>7, <1>8, <1>9
        <2>2. Gone \subseteq Gone' /\ (skewed => skewed') BY <1>2 DEF Gone
        <2> QED BY <1>1, <1>3, <1>4, <1>7, <1>8, <2>1, <2>2, CopiesOne
    <1>11. TurnLast' BY <1>9 DEF TurnLast
    <1>12. PromptInv' BY <1>9 DEF PromptInv
    <1> QED BY <1>10, <1>11, <1>12 DEF RowInv

LEMMA TurnFailsRows == ASSUME MemInv, RowInv, TurnFails PROVE RowInv'
    <1>1. MemTyped /\ LineInv /\ CopiesSaved /\ CopiesHaveIt BY DEF MemInv, RowInv
    <1>2. WithoutTurn /\ UNCHANGED <<obj, cached, disk, saved, archived, leaving, dropped, skewed>> BY DEF TurnFails, storeVars
    <1>3. /\ turn'.pc = "off" /\ turn'.obj = Nobody
          /\ \A v \in Workers : task'[v] = task[v] \/ (v = "turn" /\ task'[v].pc = "off" /\ task'[v].obj = Nobody)
        BY <1>1, <1>2, TurnGone
    <1>4. Held' \subseteq Held BY <1>2, <1>3 DEF Held
    <1>5. CopiesSaved' /\ CopiesHaveIt'
        <2>1. task'["idle"] = task["idle"] BY <1>3 DEF Workers
        <2>2. Gone \subseteq Gone' BY <1>2 DEF Gone
        <2>3. \A o \in Held' : o \in Held /\ obj'[o] = obj[o] BY <1>2, <1>4
        <2> QED BY <1>1, <1>2, <2>1, <2>2, <2>3, CopiesStay
    <1> QED BY <1>3, <1>5 DEF RowInv, TurnLast, PromptInv

LEMMA IdleCheckRows == ASSUME MemInv, RowInv, IdleCheck PROVE RowInv'
    <1>1. MemTyped /\ LineInv /\ TurnLast /\ CopiesSaved /\ CopiesHaveIt BY DEF MemInv, RowInv
    <1>2. /\ UNCHANGED <<obj, cached, disk, saved, archived, leaving, dropped, skewed, turn>>
          /\ task' = [task EXCEPT !["idle"] = [Off EXCEPT !.pc = "wait"]]
          /\ task \in [Workers -> TaskRec] /\ "idle" \in Workers /\ turn.pc = "off"
        BY <1>1 DEF IdleCheck, storeVars, MemTyped, Workers, TurnLast
    <1>3. \A v \in Workers : task'[v] = IF v = "idle" THEN [Off EXCEPT !.pc = "wait"] ELSE task[v] BY <1>2
    <1>4. task'["idle"].pc = "wait" /\ task'["idle"].obj = Nobody BY <1>2, <1>3, RecordsAre
    <1>5. Held' \subseteq Held
        <2>1. \A v \in Workers : task'[v].obj = task[v].obj \/ task'[v].obj = Nobody BY <1>3, <1>4
        <2> QED BY <1>2, <2>1 DEF Held
    <1>6. CopiesSaved' /\ CopiesHaveIt'
        <2>1. task'["idle"].pc # "archive" BY <1>4
        <2>2. Gone \subseteq Gone' BY <1>2 DEF Gone
        <2>3. \A o \in Held' : o \in Held /\ obj'[o] = obj[o] BY <1>2, <1>5
        <2> QED BY <1>1, <1>2, <2>1, <2>2, <2>3, CopiesStay
    <1> QED BY <1>2, <1>6 DEF RowInv, TurnLast, PromptInv

\* A compaction splits what the file has in what it keeps and what it archives.
LEMMA IdleEnterRows == ASSUME MemInv, MemInv', RowInv, IdleEnter PROVE RowInv'
    <1> DEFINE rest == Unconsolidated(disk)
               kept == Suffix(rest)
               o == CHOOSE x \in Objects : x \notin {turn.obj} \cup {task[w].obj : w \in Workers}
               cut == ToSet(SubSeq(rest, 1, Len(rest) - Len(kept)))
               s == IF rest = <<>> THEN disk ELSE [disk EXCEPT !.rows = kept, !.lc = 0]
               r == [task["idle"] EXCEPT !.pc = "archive", !.obj = o, !.kept = kept, !.chunk = cut]
    <1>1. MemTyped /\ LineInv /\ TurnLast /\ CopiesSaved /\ CopiesHaveIt /\ MemTyped' BY DEF MemInv, RowInv
    <1>2. /\ queue # <<>> /\ Head(queue) = "idle" /\ task["idle"].pc = "wait" /\ task["idle"].pc # "off"
          /\ UNCHANGED <<turn, archived, skewed, leaving, dropped>>
        BY DEF IdleEnter
    <1>3. /\ queue[1] = "idle" /\ queue[1] # "turn" /\ "idle" \in Workers /\ task \in [Workers -> TaskRec]
          /\ obj \in [Objects -> SessionRec] /\ disk \in SessionRec /\ Held \subseteq Objects
        <2>1. queue \in Seq(Workers) BY <1>1 DEF LineInv
        <2>2. queue # <<>> => Head(queue) = queue[1] BY <2>1
        <2> QED BY <1>1, <1>2, <2>2, HeldIs DEF Workers, MemTyped
    <1>4. o \in Objects
        <2>1. \E x \in Objects : x \notin {turn.obj} \cup {task[w].obj : w \in Workers}
            <3>1. Nobody \in Objects \cup {Nobody} OBVIOUS
            <3>2. \E x \in Objects : x \notin {Nobody, turn.obj} \cup {task[w].obj : w \in Workers}
                BY <1>1, <3>1, FreeObject
            <3> QED BY <3>2
        <2> QED BY <2>1
    <1>5. /\ rest \in Seq(Row) /\ ToSet(rest) \subseteq RowsOf(disk)
          /\ ~skewed => RowsOf(disk) \subseteq archived \cup ToSet(rest)
        BY <1>3, RestRows DEF MemInv, HidOk
    <1> HIDE DEF rest, o
    <1>6. ToSet(rest) = ToSet(kept) \cup cut /\ (Len(kept) = Len(rest) => ToSet(rest) = ToSet(kept))
        BY <1>5, SplitRows
    <1> HIDE DEF kept, cut
    <1>7. RowsOf(disk) \in Copies /\ RowsOf(disk) \subseteq saved /\ archived \subseteq Gone'
        BY <1>1, <1>2, FoundIsCopy DEF CopiesSaved, Gone
    <1>8. Gone \subseteq Gone' /\ (skewed => skewed') BY <1>2 DEF Gone
    <1>9. turn.pc # "run" BY <1>1, <1>2, <1>3, NotAtRun
    <1>10. PromptInv' BY <1>2, <1>9 DEF PromptInv
    <1>11. CASE Len(kept) = Len(rest)
        <2>1. Save(o, s) /\ Release("idle") BY <1>11 DEF IdleEnter, rest, kept, o
        <2>2. task' = [task EXCEPT !["idle"] = Off] /\ queue' = Tail(queue) BY <2>1 DEF Release
        <2>3. \A v \in Workers : task'[v] = IF v = "idle" THEN Off ELSE task[v] BY <1>3, <2>2
        <2>4. obj' = [obj EXCEPT ![o] = s] /\ cached' = o /\ disk' = s /\ saved' = saved \cup RowsOf(s) BY <2>1 DEF Save
        <2>5. RowsOf(s) = RowsOf(disk) \/ RowsOf(s) = ToSet(kept)
            <3>1. [disk EXCEPT !.rows = kept, !.lc = 0].rows = kept BY <1>3 DEF SessionRec
            <3> QED BY <3>1 DEF RowsOf
        <2> HIDE DEF s
        <2>6. RowsOf(s) \subseteq saved BY <1>5, <1>6, <1>7, <1>11, <2>5
        <2>7. skewed' \/ \E y \in Copies : y \subseteq RowsOf(s) \cup Gone'
            BY <1>2, <1>5, <1>6, <1>7, <1>11, <2>5
        <2>8. Held' \subseteq (Held \cup {o}) \cap Objects
            <3>1. \A v \in Workers : task'[v].obj = task[v].obj \/ task'[v].obj = Nobody BY <2>3, RecordsAre
            <3> QED BY <1>2, <1>3, <1>4, <2>4, <3>1 DEF Held
        <2>9. task'["idle"].pc # "archive" BY <1>3, <2>3, RecordsAre
        <2>10. saved \subseteq saved' /\ RowsOf(s) \subseteq saved' /\ \A x \in saved' : x \in saved \/ x.by = "note"
            BY <2>4, <2>6
        <2>11. CopiesSaved' /\ CopiesHaveIt' BY <1>1, <1>3, <1>4, <1>8, <2>4, <2>7, <2>8, <2>9, <2>10, CopiesPut
        <2>12. TurnLast' BY <1>1, <1>2, <1>3, <2>2, TailLast
        <2> QED BY <1>10, <2>11, <2>12 DEF RowInv
    <1>12. CASE Len(kept) # Len(rest)
        <2>1. Hold(o, disk) /\ task' = [task EXCEPT !["idle"] = r] /\ UNCHANGED queue
            BY <1>12 DEF IdleEnter, rest, kept, cut, o
        <2>2. r.kept = kept /\ r.chunk = cut /\ r.obj = o
            <3>1. task["idle"] \in TaskRec BY <1>3
            <3> QED BY <3>1 DEF TaskRec
        <2> HIDE DEF r
        <2>3. \A v \in Workers : task'[v] = IF v = "idle" THEN r ELSE task[v] BY <1>3, <2>1
        <2>4. obj' = [obj EXCEPT ![o] = disk] /\ cached' = o /\ disk' = disk /\ saved' = saved BY <2>1 DEF Hold
        <2>5. Held' \subseteq (Held \cup {o}) \cap Objects
            <3>1. \A v \in Workers : task'[v].obj = task[v].obj \/ task'[v].obj = o BY <2>2, <2>3
            <3> QED BY <1>2, <1>3, <1>4, <2>4, <3>1 DEF Held
        <2>6. IdleRows' = ToSet(rest) BY <1>3, <1>6, <2>2, <2>3 DEF IdleRows
        <2>7. IdleRows' \subseteq saved' /\ (skewed' \/ \E y \in Copies : y \subseteq IdleRows' \cup Gone')
            BY <1>2, <1>5, <1>7, <2>4, <2>6
        <2>8. saved \subseteq saved' /\ RowsOf(disk) \subseteq saved' /\ \A x \in saved' : x \in saved \/ x.by = "note"
            BY <1>7, <2>4
        <2>9. \E y \in Copies : y \subseteq RowsOf(disk) \cup Gone' BY <1>7
        <2>10. CopiesSaved' /\ CopiesHaveIt'
            BY <1>1, <1>3, <1>4, <1>8, <2>4, <2>5, <2>7, <2>8, <2>9, CopiesPut
        <2>11. TurnLast' BY <1>1, <1>2, <2>1 DEF TurnLast
        <2> QED BY <1>10, <2>10, <2>11 DEF RowInv
    <1> QED BY <1>11, <1>12

LEMMA IdleArchivedRows == ASSUME MemInv, MemInv', RowInv, IdleArchived PROVE RowInv'
    <1> DEFINE o == task["idle"].obj
               s == [obj[o] EXCEPT !.rows = task["idle"].kept, !.lc = 0]
    <1>1. MemTyped /\ LineInv /\ TurnLast /\ CopiesSaved /\ CopiesHaveIt BY DEF MemInv, RowInv
    <1>2. /\ task["idle"].pc = "archive" /\ archived' = archived \cup task["idle"].chunk /\ Save(o, s)
          /\ queue' = Tail(queue) /\ task' = [task EXCEPT !["idle"] = Off] /\ UNCHANGED <<turn, skewed, leaving, dropped>>
          /\ task["idle"].pc # "off"
        BY DEF IdleArchived, Release
    <1>3. /\ "idle" \in Workers /\ task \in [Workers -> TaskRec] /\ task["idle"] \in TaskRec
          /\ obj \in [Objects -> SessionRec] /\ Held \subseteq Objects
        BY <1>1, HeldIs DEF Workers, MemTyped
    <1>4. o \in Objects /\ o \in Held /\ queue # <<>> /\ queue[1] = "idle" /\ queue[1] # "turn"
        BY <1>1, <1>2, <1>3, HeldIs DEF Working, LineInv
    <1>5. RowsOf(s) = ToSet(task["idle"].kept)
        <2>1. obj[o] \in SessionRec BY <1>3, <1>4
        <2>2. s.rows = task["idle"].kept BY <2>1 DEF SessionRec
        <2> QED BY <2>2 DEF RowsOf
    <1> HIDE DEF s
    <1>6. IdleRows \in Copies /\ IdleRows = RowsOf(s) \cup task["idle"].chunk BY <1>2, <1>5 DEF Copies, IdleRows
    <1>7. \A v \in Workers : task'[v] = IF v = "idle" THEN Off ELSE task[v] BY <1>2, <1>3
    <1>8. obj' = [obj EXCEPT ![o] = s] /\ cached' = o /\ disk' = s /\ saved' = saved \cup RowsOf(s) BY <1>2 DEF Save
    <1> HIDE DEF o
    <1>9. Held' \subseteq (Held \cup {o}) \cap Objects
        <2>1. \A v \in Workers : task'[v].obj = task[v].obj \/ task'[v].obj = Nobody BY <1>7, RecordsAre
        <2> QED BY <1>2, <1>3, <1>4, <1>8, <2>1 DEF Held
    <1>10. CopiesSaved' /\ CopiesHaveIt'
        <2>1. task'["idle"].pc # "archive" BY <1>3, <1>7, RecordsAre
        <2>2. Gone \subseteq Gone' /\ task["idle"].chunk \subseteq Gone' /\ (skewed => skewed') BY <1>2 DEF Gone
        <2>3. RowsOf(s) \subseteq saved BY <1>1, <1>6 DEF CopiesSaved
        <2>4. saved \subseteq saved' /\ RowsOf(s) \subseteq saved' /\ \A x \in saved' : x \in saved \/ x.by = "note"
            BY <1>8, <2>3
        <2>5. \E y \in Copies : y \subseteq RowsOf(s) \cup Gone' BY <1>6, <2>2
        <2> QED BY <1>1, <1>3, <1>4, <1>8, <1>9, <2>1, <2>2, <2>4, <2>5, CopiesPut
    <1>11. TurnLast' BY <1>1, <1>2, <1>4, TailLast
    <1>12. turn.pc # "run" BY <1>1, <1>2, <1>3, NotAtRun
    <1>13. PromptInv' BY <1>2, <1>12 DEF PromptInv
    <1> QED BY <1>10, <1>11, <1>13 DEF RowInv

\* A command's note goes with the rows the turn at work answers.
LEMMA CommandRowRows == ASSUME MemInv, RowInv, CommandRow PROVE RowInv'
    <1> DEFINE t == WithRow(Found, "note")
    <1>1. MemTyped /\ LineInv /\ TurnLast /\ CopiesSaved /\ CopiesHaveIt BY DEF MemInv, RowInv
    <1>2. CanMake /\ Save(Handle, t) /\ UNCHANGED <<turn, task, queue, archived, skewed, leaving, dropped>>
        BY DEF CommandRow
    <1>3. /\ Handle \in Objects /\ Found \in SessionRec /\ made \in 0..MaxRow /\ RowsOf(Found) \in Copies
          /\ obj \in [Objects -> SessionRec] /\ Held \subseteq Objects
        BY <1>1, HandleIs, HeldIs, FoundIsCopy DEF MemTyped
    <1>4. RowsOf(t) = RowsOf(Found) \cup {NewRow("note")} /\ NewRow("note").by = "note"
        BY <1>2, <1>3, WithRowIs DEF Grown
    <1> HIDE DEF t
    <1>5. obj' = [obj EXCEPT ![Handle] = t] /\ cached' = Handle /\ disk' = t /\ saved' = saved \cup RowsOf(t) BY <1>2 DEF Save
    <1>6. Held' \subseteq (Held \cup {Handle}) \cap Objects BY <1>2, <1>3, <1>5 DEF Held
    <1>7. CopiesSaved' /\ CopiesHaveIt'
        <2>1. RowsOf(Found) \subseteq saved BY <1>1, <1>3 DEF CopiesSaved
        <2>2. saved \subseteq saved' /\ RowsOf(t) \subseteq saved' /\ \A x \in saved' : x \in saved \/ x.by = "note"
            BY <1>4, <1>5, <2>1
        <2>3. Gone \subseteq Gone' /\ (skewed => skewed') BY <1>2 DEF Gone
        <2>4. \E y \in Copies : y \subseteq RowsOf(t) \cup Gone' BY <1>3, <1>4
        <2>5. task'["idle"] = task["idle"] BY <1>2
        <2> QED BY <1>1, <1>3, <1>5, <1>6, <2>2, <2>3, <2>4, <2>5, CopiesPut
    <1>8. TurnLast' BY <1>1, <1>2 DEF TurnLast
    <1>9. ASSUME turn.pc = "run", NEW r \in RowsOf(obj'[turn.obj]), r.by = "user", r \notin archived \cup dropped
          PROVE  r \in RowsOf(t)
        <2>1. turn.obj \in Objects /\ turn.obj \in Held BY <1>1, <1>9, HeldIs
        <2>2. CASE Handle = turn.obj BY <1>3, <1>5, <1>9, <2>2
        <2>3. CASE Handle # turn.obj
            <3>1. r \in RowsOf(obj[turn.obj]) BY <1>3, <1>5, <1>9, <2>1, <2>3
            <3>2. r \in RowsOf(disk) /\ (cached # Nobody => r \in RowsOf(obj[cached])) BY <1>9, <3>1 DEF RowInv, PromptInv
            <3>3. r \in RowsOf(Found) BY <1>1, <3>2, HandleIs
            <3> QED BY <1>4, <3>3
        <2> QED BY <2>2, <2>3
    <1>10. obj'[cached'] = t BY <1>3, <1>5
    <1>11. PromptInv' BY <1>2, <1>5, <1>9, <1>10 DEF PromptInv
    <1> QED BY <1>7, <1>8, <1>11 DEF RowInv

\* /new hands on what was not archived.
LEMMA NewRows == ASSUME MemInv, RowInv, New PROVE RowInv'
    <1> DEFINE s == [Found EXCEPT !.rows = <<>>, !.lc = 0]
    <1>1. MemTyped /\ LineInv /\ TurnLast /\ CopiesSaved /\ CopiesHaveIt BY DEF MemInv, RowInv
    <1>2. /\ TurnCancelled /\ obj' = [obj EXCEPT ![Handle] = s] /\ disk' = obj'[Handle] /\ cached' = Nobody
          /\ skewed' = (skewed \/ Picked(0)) /\ leaving' = leaving \cup ToSet(Unconsolidated(Found))
          /\ UNCHANGED <<archived, saved, dropped>>
        BY DEF New
    <1>3. /\ Handle \in Objects /\ Found \in SessionRec /\ obj \in [Objects -> SessionRec] /\ Held \subseteq Objects
          /\ RowsOf(Found) \in Copies
        BY <1>1, HandleIs, HeldIs, FoundIsCopy DEF MemTyped
    <1>4. RowsOf(s) = {}
        <2>1. s.rows = <<>> BY <1>3 DEF SessionRec
        <2>2. ToSet(<<>>) = {} BY DEF ToSet
        <2> QED BY <2>1, <2>2 DEF RowsOf
    <1> HIDE DEF s
    <1>5. disk' = s BY <1>2, <1>3
    <1>6. Calmed BY <1>1, <1>2, CancelCalms
    <1>7. turn'.pc # "run" /\ TurnLast'
        <2>1. CASE turn.pc # "off"
            <3>1. WithoutTurn BY <1>1, <1>2, <2>1 DEF TurnCancelled, TurnLast
            <3>2. turn'.pc = "off" BY <3>1, RecordsAre DEF WithoutTurn
            <3> QED BY <3>2 DEF TurnLast
        <2>2. CASE turn.pc = "off"
            <3>1. UNCHANGED turn BY <1>2, <2>2 DEF TurnCancelled
            <3> QED BY <2>2, <3>1 DEF TurnLast
        <2> QED BY <2>1, <2>2
    <1>8. Held' \subseteq (Held \cup {Handle}) \cap Objects
        <2>1. \A v \in Workers : task'[v].obj = task[v].obj \/ task'[v].obj = Nobody BY <1>6 DEF Calmed
        <2>2. turn'.obj = turn.obj \/ turn'.obj = Nobody BY <1>6 DEF Calmed
        <2> QED BY <1>2, <1>3, <2>1, <2>2 DEF Held
    <1>9. CopiesSaved' /\ CopiesHaveIt'
        <2>1. task'["idle"] = task["idle"] \/ task'["idle"].pc # "archive" BY <1>6 DEF Calmed, Workers
        <2>2. Gone \subseteq Gone' /\ (skewed => skewed') BY <1>2 DEF Gone
        <2>3. saved \subseteq saved' /\ RowsOf(s) \subseteq saved' /\ \A x \in saved' : x \in saved \/ x.by = "note"
            BY <1>2, <1>4
        <2>4. skewed' \/ \E y \in Copies : y \subseteq RowsOf(s) \cup Gone'
            <3> SUFFICES ASSUME ~skewed PROVE \E y \in Copies : y \subseteq RowsOf(s) \cup Gone' BY <1>2
            <3>1. Hides(Found, archived) BY <1>1, FoundHides DEF MemInv
            <3>2. RowsOf(Found) \subseteq archived \cup ToSet(Unconsolidated(Found)) BY <1>3, <3>1, RestRows
            <3>3. RowsOf(Found) \subseteq Gone' BY <1>2, <3>2 DEF Gone
            <3> QED BY <1>3, <3>3
        <2>5. obj' = [obj EXCEPT ![Handle] = s] /\ (disk' = disk \/ disk' = s) BY <1>2, <1>5
        <2> QED BY <1>1, <1>3, <1>8, <2>1, <2>2, <2>3, <2>4, <2>5, CopiesPut
    <1>10. PromptInv' BY <1>7 DEF PromptInv
    <1> QED BY <1>7, <1>9, <1>10 DEF RowInv

LEMMA CutStepRows == ASSUME MemInv, RowInv, Cut PROVE RowInv'
    <1>1. MemTyped /\ LineInv /\ TurnLast /\ CopiesSaved /\ CopiesHaveIt BY DEF MemInv, RowInv
    <1>2. PICK i \in 1..Len(Found.rows) :
             /\ Save(Handle, [Found EXCEPT !.rows = SubSeq(Found.rows, 1, i)])
             /\ dropped' = dropped \cup ToSet(SubSeq(Found.rows, i + 1, Len(Found.rows)))
             /\ skewed' = (skewed \/ Found.lc > i \/ Picked(i))
        BY DEF Cut
    <1>3. TurnCancelled /\ UNCHANGED <<archived, leaving>> BY DEF Cut
    <1> DEFINE s == [Found EXCEPT !.rows = SubSeq(Found.rows, 1, i)]
    <1>4. /\ Handle \in Objects /\ Found \in SessionRec /\ obj \in [Objects -> SessionRec] /\ Held \subseteq Objects
          /\ RowsOf(Found) \in Copies
        BY <1>1, HandleIs, HeldIs, FoundIsCopy DEF MemTyped
    <1>5. obj' = [obj EXCEPT ![Handle] = s] /\ cached' = Handle /\ disk' = s /\ saved' = saved \cup RowsOf(s) BY <1>2 DEF Save
    <1>6. /\ RowsOf(s) \subseteq RowsOf(Found)
          /\ RowsOf(Found) \subseteq RowsOf(s) \cup ToSet(SubSeq(Found.rows, i + 1, Len(Found.rows)))
        BY <1>4, CutRows
    <1> HIDE DEF s
    <1>7. Calmed BY <1>1, <1>3, CancelCalms
    <1>8. turn'.pc # "run" /\ TurnLast'
        <2>1. CASE turn.pc # "off"
            <3>1. WithoutTurn BY <1>1, <1>3, <2>1 DEF TurnCancelled, TurnLast
            <3>2. turn'.pc = "off" BY <3>1, RecordsAre DEF WithoutTurn
            <3> QED BY <3>2 DEF TurnLast
        <2>2. CASE turn.pc = "off"
            <3>1. UNCHANGED turn BY <1>3, <2>2 DEF TurnCancelled
            <3> QED BY <2>2, <3>1 DEF TurnLast
        <2> QED BY <2>1, <2>2
    <1>9. Held' \subseteq (Held \cup {Handle}) \cap Objects
        <2>1. \A v \in Workers : task'[v].obj = task[v].obj \/ task'[v].obj = Nobody BY <1>7 DEF Calmed
        <2>2. turn'.obj = turn.obj \/ turn'.obj = Nobody BY <1>7 DEF Calmed
        <2> QED BY <1>4, <1>5, <2>1, <2>2 DEF Held
    <1>10. CopiesSaved' /\ CopiesHaveIt'
        <2>1. task'["idle"] = task["idle"] \/ task'["idle"].pc # "archive" BY <1>7 DEF Calmed, Workers
        <2>2. Gone \subseteq Gone' /\ (skewed => skewed') BY <1>2, <1>3 DEF Gone
        <2>3. RowsOf(s) \subseteq saved BY <1>1, <1>4, <1>6 DEF CopiesSaved
        <2>4. saved \subseteq saved' /\ RowsOf(s) \subseteq saved' /\ \A x \in saved' : x \in saved \/ x.by = "note"
            BY <1>5, <2>3
        <2>5. RowsOf(Found) \subseteq RowsOf(s) \cup Gone' BY <1>2, <1>6 DEF Gone
        <2>6. \E y \in Copies : y \subseteq RowsOf(s) \cup Gone' BY <1>4, <2>5
        <2> QED BY <1>1, <1>4, <1>5, <1>9, <2>1, <2>2, <2>4, <2>6, CopiesPut
    <1>11. PromptInv' BY <1>8 DEF PromptInv
    <1> QED BY <1>8, <1>10, <1>11 DEF RowInv

LEMMA StoreRows == ASSUME MemInv, RowInv, NewArchived \/ Evict \/ Delete PROVE RowInv'
    <1>1. MemTyped /\ TurnLast /\ CopiesSaved /\ CopiesHaveIt /\ PromptInv BY DEF MemInv, RowInv
    <1>2. /\ UNCHANGED <<obj, turn, task, queue, skewed, saved>> /\ Gone \subseteq Gone'
          /\ archived \cup dropped \subseteq archived' \cup dropped'
          /\ cached' \in {cached, Nobody}
          /\ disk' = disk \/ (disk' = EmptySession /\ RowsOf(disk) \subseteq dropped' /\ cached' = Nobody)
        BY DEF NewArchived, Evict, Delete, storeVars, Gone
    <1>3. RowsOf(EmptySession) = {}
        <2>1. ToSet(<<>>) = {} BY DEF ToSet
        <2> QED BY <2>1 DEF RowsOf, EmptySession
    <1>4. CopiesSaved' /\ CopiesHaveIt'
        <2>1. \A o \in Held' : o \in Held /\ obj'[o] = obj[o] BY <1>2 DEF Held
        <2>2. RowsOf(disk) \in Copies BY DEF Copies
        <2>3. disk' = disk \/ (RowsOf(disk') \subseteq saved /\ \E y \in Copies : y \subseteq RowsOf(disk') \cup Gone')
            BY <1>2, <1>3, <2>2 DEF Gone
        <2>4. task'["idle"] = task["idle"] BY <1>2
        <2> QED BY <1>1, <1>2, <2>1, <2>3, <2>4, CopiesStay
    <1>5. TurnLast' BY <1>1, <1>2 DEF TurnLast
    <1>6. PromptInv'
        <2> SUFFICES ASSUME turn.pc = "run", NEW x \in RowsOf(obj[turn.obj]), x.by = "user"
                     PROVE  \/ x \in archived' \cup dropped'
                            \/ x \in RowsOf(disk') /\ (cached' # Nobody => x \in RowsOf(obj[cached']))
            BY <1>2 DEF PromptInv
        <2>1. \/ x \in archived \cup dropped
              \/ x \in RowsOf(disk) /\ (cached # Nobody => x \in RowsOf(obj[cached]))
            BY <1>1 DEF PromptInv
        <2> QED BY <1>2, <2>1
    <1> QED BY <1>4, <1>5, <1>6 DEF RowInv

LEMMA RestartRows == ASSUME MemInv, RowInv, Crash \/ Shutdown PROVE RowInv'
    <1>1. MemTyped /\ CopiesSaved /\ CopiesHaveIt BY DEF MemInv, RowInv
    <1>2. /\ cached' = Nobody /\ turn' = NoTurn /\ task' = [w \in Workers |-> Off] /\ queue' = <<>>
          /\ UNCHANGED <<archived, skewed>> /\ dropped' = dropped \cup leaving
          /\ disk' = disk \/ (cached # Nobody /\ disk' = obj[cached])
          /\ saved' = saved \/ saved' = saved \cup RowsOf(disk')
        BY DEF Crash, Shutdown, Restart
    <1>3. \A w \in Workers : task'[w] = Off BY <1>2
    <1>4. Held' = {} /\ task'["idle"].pc # "archive" /\ turn'.pc = "off"
        BY <1>2, <1>3, RecordsAre DEF Held, Workers
    <1>5. RowsOf(disk') \in Copies /\ RowsOf(disk') \subseteq saved
        <2>1. RowsOf(disk') \in Copies BY <1>1, <1>2, FoundIsCopy, HeldIs
        <2> QED BY <1>1, <2>1 DEF CopiesSaved
    <1>6. CopiesSaved' /\ CopiesHaveIt'
        <2>1. saved' = saved /\ Gone \subseteq Gone' BY <1>2, <1>5 DEF Gone
        <2>2. \A o \in Held' : o \in Held /\ obj'[o] = obj[o] BY <1>4
        <2>3. RowsOf(disk') \subseteq saved /\ \E y \in Copies : y \subseteq RowsOf(disk') \cup Gone' BY <1>5
        <2> QED BY <1>1, <1>2, <1>4, <2>1, <2>2, <2>3, CopiesStay
    <1> QED BY <1>4, <1>6 DEF RowInv, TurnLast, PromptInv

LEMMA RowStep == ASSUME MemInv, RowInv, ~DirectCalls, [SessionNext]_sessionVars PROVE RowInv'
    <1>1. MemInv' BY MemStep
    <1>2. CASE UNCHANGED sessionVars
        <2>1. UNCHANGED <<obj, cached, disk, turn, task, queue, leaving, archived, dropped, saved, skewed>>
            BY <1>2 DEF sessionVars
        <2>2. Copies' = Copies /\ Gone' = Gone BY <2>1 DEF Copies, Gone, IdleRows, Held, RowsOf
        <2> QED BY <2>1, <2>2 DEF RowInv, TurnLast, CopiesSaved, CopiesHaveIt, PromptInv, RowsOf
    <1>3. CASE \E kind \in {"bus", "direct"} : TurnBegin(kind) BY <1>3, TurnBeginRows
    <1>4. CASE \E w \in Workers : Enter(w) \/ Pick(w) \/ Archived(w) \/ Fits(w)
        BY <1>1, <1>4, EnterRows, PickRows, ArchivedRows, FitsRows
    <1>5. CASE TurnEnd \/ TurnFails BY <1>1, <1>5, TurnEndRows, TurnFailsRows
    <1>6. CASE IdleCheck \/ IdleEnter \/ IdleArchived BY <1>1, <1>6, IdleCheckRows, IdleEnterRows, IdleArchivedRows
    <1>7. CASE CommandRow \/ New \/ NewArchived \/ Cut BY <1>7, CommandRowRows, NewRows, StoreRows, CutStepRows
    <1>8. CASE Evict \/ Delete \/ Crash \/ Shutdown BY <1>8, StoreRows, RestartRows
    <1> QED BY <1>2, <1>3, <1>4, <1>5, <1>6, <1>7, <1>8 DEF SessionNext

LEMMA RowBegins == SessionInit => RowInv
    <1> SUFFICES ASSUME SessionInit PROVE RowInv OBVIOUS
    <1>1. \A w \in Workers : task[w] = Off BY DEF SessionInit
    <1>2. Held = {} /\ task["idle"].pc # "archive" /\ turn.pc = "off"
        BY <1>1, RecordsAre DEF SessionInit, Held, Workers
    <1>3. RowsOf(disk) = {}
        <2>1. ToSet(<<>>) = {} BY DEF ToSet
        <2> QED BY <2>1 DEF RowsOf, EmptySession, SessionInit
    <1>4. Copies = {{}} BY <1>2, <1>3 DEF Copies
    <1>5. CopiesSaved /\ CopiesHaveIt BY <1>4 DEF CopiesSaved, CopiesHaveIt, SessionInit
    <1> QED BY <1>2, <1>5 DEF RowInv, TurnLast, PromptInv

LEMMA RowsGiveKept == ASSUME MemInv, RowInv PROVE RowsKept
    <1>1. MemTyped /\ LineInv /\ CopiesHaveIt /\ PromptInv BY DEF MemInv, RowInv
    <1>2. queue \in Seq(Workers) /\ DOMAIN queue = 1..Len(queue)
        <2>1. queue \in Seq(Workers) BY <1>1 DEF LineInv
        <2> HIDE DEF Workers
        <2> QED BY <2>1
    <1>3. IsInjective(queue) BY <1>1, <1>2 DEF LineInv, IsInjective
    <1>4. \A w \in Workers : (task[w].pc # "off") = (w \in ToSet(queue))
        <2>1. ToSet(queue) = {queue[i] : i \in 1..Len(queue)} BY <1>2 DEF ToSet
        <2>2. \A w \in Workers : task[w].pc # "off" <=> w \in ToSet(queue) BY <1>1, <2>1 DEF LineInv
        <2> QED BY <2>2
    <1>5. \A w \in Workers : task[w].pc \in {"off", "wait", "estimate", "archive"} BY <1>1 DEF MemTyped, TaskRec
    <1>6. turn.pc \in {"off", "wait", "run"} /\ turn.kind \in {"bus", "direct"} /\ turn.obj \in Objects \cup {Nobody}
        BY <1>1 DEF MemTyped, TurnRec
    <1>7. obj \in [Objects -> SessionRec] /\ disk \in SessionRec /\ cached \in Objects \cup {Nobody} BY <1>1 DEF MemTyped
    <1>8. SessionTypeOK BY <1>2, <1>3, <1>4, <1>5, <1>6, <1>7 DEF SessionTypeOK
    <1>9. NoRowLost
        <2>1. RowsOf(disk) \in Copies BY DEF Copies
        <2> QED BY <1>1, <2>1 DEF NoRowLost, CopiesHaveIt, Gone
    <1>10. PromptStaysSaved BY <1>1 DEF PromptStaysSaved, PromptInv
    <1> QED BY <1>8, <1>9, <1>10 DEF RowsKept

\* Where turns come through the bus, no consolidation, compaction, eviction or /new takes
\* away a row of the user or the agent, nor from the file what the turn at work answers;
\* rows until a command cuts what is counted or about to be, the prompt always.
THEOREM RowsStay == ~DirectCalls => (SessionSpec => []RowsKept)
    <1> SUFFICES ASSUME ~DirectCalls PROVE SessionSpec => []RowsKept OBVIOUS
    <1> DEFINE I == MemInv /\ RowInv
    <1>1. SessionInit => I BY MemBegins, RowBegins
    <1>2. I /\ [SessionNext]_sessionVars => I' BY MemStep, RowStep
    <1>3. I => RowsKept BY RowsGiveKept
    <1> HIDE DEF I
    <1> QED BY <1>1, <1>2, <1>3, PTL DEF SessionSpec
================================================================================
