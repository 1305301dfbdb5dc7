------------------------------- MODULE PairingStore -------------------------------
(* Who may talk to the assistant: a sender that is unknown gets a code, the owner approves *)
(* or denies it, and may revoke the sender.  The store is one file, read, changed and      *)
(* replaced under a lock of the process; the gateway and the terminal UI are two of them.  *)
EXTENDS Naturals, FiniteSets, Functions

CONSTANTS
    Senders,   \* senders of direct messages
    MaxCode,   \* bound: codes drawn, numbered in that order
    PairProcs, \* processes that use the store
    MaxOps,    \* bound: operations on the store
    Misreads   \* a read of the file can fail: it then counts as empty

ASSUME PairingAssumption == MaxCode \in Nat /\ MaxOps \in Nat /\ Misreads \in BOOLEAN

Codes == 1..MaxCode

VARIABLES
    approved,  \* the file: approved senders
    pending,   \* the file: codes and whose they are
    expired,   \* codes whose time has passed
    drawn,     \* codes drawn
    ops,       \* how many operations began
    work,      \* what each process has read and is about to write
    granted,   \* history: senders with an approval, not revoked since
    ever,      \* history: senders that were approved at some time
    wrong,     \* history: codes approved when they had been redeemed, denied or expired
    spent,     \* history: codes redeemed or denied
    raced,     \* history: a write replaced one that its process had not read
    misread    \* history: a read failed

pairVars == <<approved, pending, expired, drawn, ops, work, granted, ever, wrong, spent, raced,
              misread>>

NoCodes == [c \in {} |-> "none"]
NoWork == [op |-> "none", arg |-> "none", ok |-> {}, codes |-> NoCodes, dead |-> {}, fresh |-> TRUE]

PairInit ==
    /\ approved = {} /\ pending = NoCodes /\ expired = {} /\ drawn = {} /\ ops = 0
    /\ work = [p \in PairProcs |-> NoWork]
    /\ granted = {} /\ ever = {} /\ wrong = {} /\ spent = {} /\ raced = FALSE /\ misread = FALSE

ExpireCode(c) ==
    /\ c \in drawn \ expired /\ expired' = expired \cup {c}
    /\ UNCHANGED <<approved, pending, drawn, ops, work, granted, ever, wrong, spent, raced, misread>>

----------------------------------------------------------------------------
(* An operation loads, then saves what it made of that.  Nothing else of its process runs *)
(* in between, something of another process may.                                          *)

\* _gc_pending
LiveCodes(codes) == Restrict(codes, DOMAIN codes \ expired)

\* _load
Load(p, op, arg) ==
    /\ work[p] = NoWork /\ ops < MaxOps /\ ops' = ops + 1
    /\ \/ /\ work' = [work EXCEPT ![p] = [op |-> op, arg |-> arg, ok |-> approved, dead |-> expired,
                          codes |-> IF op = "revoke" THEN pending ELSE LiveCodes(pending), fresh |-> TRUE]]
          /\ UNCHANGED misread
       \/ /\ Misreads /\ misread' = TRUE
          /\ work' = [work EXCEPT ![p] = [op |-> op, arg |-> arg, ok |-> {}, dead |-> {}, codes |-> NoCodes,
                                            fresh |-> TRUE]]

\* The direct message of somebody who is not approved draws a code.
Unknown(p, s) ==
    /\ s \notin approved
    /\ \E c \in Codes \ drawn : c - 1 \in drawn \cup {0} /\ drawn' = drawn \cup {c} /\ Load(p, "issue", <<c, s>>)
    /\ UNCHANGED <<approved, pending, expired, granted, ever, wrong, spent, raced>>

\* The /pairing command.
PairCommand(p, op, arg) ==
    /\ Load(p, op, arg)
    /\ UNCHANGED <<approved, pending, expired, drawn, granted, ever, wrong, spent, raced>>

\* _save: the file is replaced; who had read it before is behind.
SaveFile(p, ok, codes) ==
    /\ approved' = ok /\ pending' = codes
    /\ raced' = (raced \/ ~work[p].fresh)
    /\ work' = [q \in PairProcs |-> IF q = p \/ work[q] = NoWork THEN NoWork ELSE [work[q] EXCEPT !.fresh = FALSE]]

\* Nothing to change, nothing is written.
Refuse(p) ==
    /\ work' = [work EXCEPT ![p] = NoWork]
    /\ UNCHANGED <<approved, pending, raced, granted, ever, wrong, spent>>

\* The code of the work is entered with its sender.
Entered(codes, code) ==
    [c \in DOMAIN codes \cup {code[1]} |-> IF c = code[1] THEN code[2] ELSE codes[c]]

\* Mutant: the file is written without what it held.
IssueOver(p) ==
    LET w == work[p] IN
    /\ w.op = "issue" /\ SaveFile(p, {}, Entered(NoCodes, w.arg))
    /\ UNCHANGED <<expired, drawn, ops, granted, ever, wrong, spent, misread>>

Issue(p) ==
    LET w == work[p] IN
    /\ w.op = "issue" /\ SaveFile(p, w.ok, Entered(w.codes, w.arg))
    /\ UNCHANGED <<expired, drawn, ops, granted, ever, wrong, spent, misread>>

Owner(w) == w.codes[w.arg]

Approve(p) ==
    LET w == work[p] IN
    /\ w.op = "approve"
    /\ IF w.arg \notin DOMAIN w.codes THEN Refuse(p)
       ELSE /\ SaveFile(p, w.ok \cup {Owner(w)}, Restrict(w.codes, DOMAIN w.codes \ {w.arg}))
            /\ granted' = granted \cup {w.codes[w.arg]} /\ ever' = ever \cup {w.codes[w.arg]}
            /\ wrong' = wrong \cup ({w.arg} \cap (spent \cup w.dead)) /\ spent' = spent \cup {w.arg}
    /\ UNCHANGED <<expired, drawn, ops, misread>>

Deny(p) ==
    LET w == work[p] IN
    /\ w.op = "deny"
    /\ IF w.arg \notin DOMAIN w.codes THEN Refuse(p)
       ELSE /\ SaveFile(p, w.ok, Restrict(w.codes, DOMAIN w.codes \ {w.arg}))
            /\ spent' = spent \cup {w.arg} /\ UNCHANGED <<granted, ever, wrong>>
    /\ UNCHANGED <<expired, drawn, ops, misread>>

Revoke(p) ==
    LET w == work[p] IN
    /\ w.op = "revoke"
    /\ IF w.arg \notin w.ok THEN Refuse(p)
       ELSE /\ SaveFile(p, w.ok \ {w.arg}, w.codes)
            /\ granted' = granted \ {w.arg} /\ UNCHANGED <<ever, wrong, spent>>
    /\ UNCHANGED <<expired, drawn, ops, misread>>

PairNext ==
    \/ \E c \in Codes : ExpireCode(c)
    \/ \E p \in PairProcs :
          \/ Issue(p) \/ Approve(p) \/ Deny(p) \/ Revoke(p)
          \/ \E s \in Senders : Unknown(p, s) \/ PairCommand(p, "revoke", s)
          \/ \E c \in drawn, op \in {"approve", "deny"} : PairCommand(p, op, c)

PairSpec == PairInit /\ [][PairNext]_pairVars

----------------------------------------------------------------------------
(* Properties. *)

\* Nobody gets in but by the approval of a code of their own, whatever two processes write
\* over each other and whichever read fails.
NeverUnasked == approved \subseteq ever

\* The file says who is approved, no less and no more: unless two processes changed it at
\* once, or a read failed and its empty answer was written back.
FileIsTrue == raced \/ misread \/ approved = granted

\* A code counts once, and not after it was denied or its time was over (unless a process
\* wrote an older file over it).
CodeOnce == raced \/ wrong = {}

\* What two processes leave of the pairing file.
PairingSound == NeverUnasked /\ FileIsTrue /\ CodeOnce
================================================================================
