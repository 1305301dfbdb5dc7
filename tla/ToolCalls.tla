------------------------------- MODULE ToolCalls -------------------------------
(* The tools a turn calls (agent/runner.py _execute_tools, _run_tool) and the one door they  *)
(* all pass (runtime/egress.py, policy.py, context.py): the calls of an answer are divided   *)
(* into batches, those of a batch run side by side; the policy lets a call through or denies *)
(* it; the subagents a turn begins carry its trace and its budget on, also past its end.     *)
EXTENDS Naturals, Sequences, FiniteSets, SequencesExt

CONSTANTS
    ToolKinds,         \* kinds of tools that answers ask for
    AgentLists,     \* the tools the allow-list of the agent may hold
    MaxToolCalls,   \* max_tool_calls_per_turn, 0 when there is no limit
    MaxDepth,       \* max_subagent_recursion_depth
    SameLookup,     \* _MAX_REPEAT_EXTERNAL_LOOKUPS
    BlockedTurns,   \* turns that blocked senders ask for
    LastTurn,       \* bound: turns of the loop
    Spawned,        \* bound: subagents
    MaxCalls,       \* bound: calls of an answer
    MaxAnswers      \* bound: answers of an agent

ASSUME CallsAssumption ==
    /\ ToolKinds \subseteq {"read", "search", "edit", "alone", "spawn", "missing"}
    /\ MaxToolCalls \in Nat /\ MaxDepth \in Nat /\ SameLookup \in Nat \ {0}
    /\ LastTurn \in Nat \ {0} /\ Spawned \in Nat /\ MaxCalls \in Nat \ {0} /\ MaxAnswers \in Nat \ {0}

Loop == 0
Callers == 0..Spawned
LoopTurns == 1..LastTurn
\* Budgets: one for every turn.
Purses == 0..LastTurn

VARIABLES
    allowList,  \* the allow-list of the agent (policy._allowed_tools)
    caller,     \* agent: "none", "asks", "calls" or "done"
    context,    \* agent: RequestContext, [trace, depth, budget]
    spent,      \* budget: tool_calls_used
    late,       \* budgets whose wall clock has run out
    lookups,    \* agent: searches of the run so far, all for the same
    queued,     \* agent: the calls [at, kind] of the answer that are in no batch yet
    waiting,    \* agent: the calls of this batch still to begin
    flying,     \* agent: the calls under way
    broken,     \* agents a failed call ends (fail_on_tool_error)
    asked,      \* agent: its answers so far
    executed    \* history: trace: the calls let through to the registry

callVars == <<allowList, caller, context, spent, late, lookups, queued, waiting, flying, broken,
              asked, executed>>
quiet == <<allowList, late>>

NoContext == [trace |-> 0, depth |-> 0, budget |-> 0]

CallsInit ==
    /\ allowList \in AgentLists
    /\ caller = [a \in Callers |-> "none"] /\ context = [a \in Callers |-> NoContext]
    /\ spent = [b \in Purses |-> 0] /\ late = {} /\ lookups = [a \in Callers |-> 0]
    /\ queued = [a \in Callers |-> <<>>] /\ waiting = [a \in Callers |-> <<>>]
    /\ flying = [a \in Callers |-> {}] /\ broken = {} /\ asked = [a \in Callers |-> 0]
    /\ executed = [t \in 0..LastTurn |-> 0]

----------------------------------------------------------------------------
(* Contexts and batches. *)

\* normalize_context: a trace and a budget of the turn's own.
TurnContext(t) == [trace |-> t, depth |-> 0, budget |-> t]

\* Mutant: a subagent begins with a budget of its own.
ChildCopies(parent) == [parent EXCEPT !.depth = @ + 1, !.budget = 0]

\* child_for_subagent: the same trace and the same counters, one deeper.
ChildContext(parent) == [parent EXCEPT !.depth = @ + 1]

ReadOnly == {"read", "search", "alone"}
Exclusive == {"alone"}

\* concurrency_safe; a tool that is not there is not.
ConcurrencySafe(k) == k \in ReadOnly \ Exclusive

\* _partition_tool_batches of the calls q that are in no batch yet: the next n of them, as many as
\* are safe side by side, or one; a subagent's calls run one by one (concurrent_tools).
IsBatch(a, q, n) ==
    /\ n \in 1..Len(q)
    /\ n > 1 => a = Loop /\ \A i \in 1..n : ConcurrencySafe(q[i].kind)
    /\ n < Len(q) /\ a = Loop /\ ConcurrencySafe(q[1].kind) => ~ConcurrencySafe(q[n + 1].kind)

----------------------------------------------------------------------------
(* The policy. *)

\* tool_name_allowed_by_allowlist: a tool that is not on the list is denied.
OnTheList(k) == k \in allowList \/ "*" \in allowList

\* What comes before the budget: the depth, then the allow-list.  Nothing is debited.
Barred(a, k) == context[a].depth > MaxDepth \/ ~OnTheList(k)

\* debit_tool_call: the call is counted also when it is denied for it.
Debit(b) == IF MaxToolCalls = 0 THEN spent ELSE [spent EXCEPT ![b] = @ + 1]

\* The rest of authorize_tool_call, after the debit.
WithinBudget(b) == (MaxToolCalls > 0 => spent[b] < MaxToolCalls) /\ b \notin late

----------------------------------------------------------------------------
(* The loop's turns. *)

\* authorize_ingress.
IngressAllowed(t) == t \notin BlockedTurns

BeginLoop(t) ==
    /\ caller[Loop] \in {"none", "done"} /\ context[Loop].trace + 1 = t
    /\ caller' = [caller EXCEPT ![Loop] = IF IngressAllowed(t) THEN "asks" ELSE "done"]
    /\ context' = [context EXCEPT ![Loop] = TurnContext(t)]
    /\ lookups' = [lookups EXCEPT ![Loop] = 0] /\ asked' = [asked EXCEPT ![Loop] = 0]
    /\ UNCHANGED <<quiet, spent, queued, waiting, flying, broken, executed>>

\* The registry's definitions: a subagent is offered none to spawn with.
Offered(a) == IF a = Loop THEN ToolKinds ELSE ToolKinds \ {"spawn"}

\* The model asks for tools.
AskTools(a) ==
    /\ caller[a] = "asks" /\ asked[a] < MaxAnswers
    /\ \E kinds \in SeqOf(Offered(a), MaxCalls) \ {<<>>} :
        queued' = [queued EXCEPT ![a] = [i \in DOMAIN kinds |-> [at |-> i, kind |-> kinds[i]]]]
    /\ caller' = [caller EXCEPT ![a] = "calls"] /\ asked' = [asked EXCEPT ![a] = @ + 1]
    /\ UNCHANGED <<quiet, context, spent, lookups, waiting, flying, broken, executed>>

\* Or ends the run with its text.
FinalAnswer(a) ==
    /\ caller[a] = "asks" /\ caller' = [caller EXCEPT ![a] = "done"]
    /\ UNCHANGED <<quiet, context, spent, lookups, queued, waiting, flying, broken, asked, executed>>

NextBatch(a) ==
    /\ caller[a] = "calls" /\ waiting[a] = <<>> /\ flying[a] = {} /\ queued[a] # <<>>
    /\ \E n \in 1..Len(queued[a]) :
          /\ IsBatch(a, queued[a], n)
          /\ waiting' = [waiting EXCEPT ![a] = SubSeq(queued[a], 1, n)]
          /\ queued' = [queued EXCEPT ![a] = SubSeq(@, n + 1, Len(@))]
    /\ UNCHANGED <<quiet, caller, context, spent, lookups, flying, broken, asked, executed>>

\* The end of _run_tool with an error: the run of a subagent ends with it, after the batches.
Failing(a) == IF a = Loop THEN broken ELSE broken \cup {a}

\* A call that _run_tool stops before the gateway: the same lookup once too often.
BlockLookup(a) ==
    /\ waiting[a] # <<>> /\ Head(waiting[a]).kind = "search" /\ lookups[a] >= SameLookup
    /\ waiting' = [waiting EXCEPT ![a] = Tail(@)] /\ lookups' = [lookups EXCEPT ![a] = @ + 1]
    /\ broken' = Failing(a)
    /\ UNCHANGED <<quiet, caller, context, spent, queued, flying, asked, executed>>

CountLookup(a, k) == IF k = "search" THEN [lookups EXCEPT ![a] = @ + 1] ELSE lookups

\* egress.execute, up to the registry or to the denial.
Call(a) ==
    /\ waiting[a] # <<>> /\ waiting' = [waiting EXCEPT ![a] = Tail(@)]
    /\ LET c == Head(waiting[a]) b == context[a].budget IN
        /\ c.kind = "search" => lookups[a] < SameLookup
        /\ lookups' = CountLookup(a, c.kind)
        /\ spent' = IF Barred(a, c.kind) THEN spent ELSE Debit(b)
        /\ \/ /\ Barred(a, c.kind) \/ ~WithinBudget(b)
              /\ broken' = Failing(a) /\ UNCHANGED <<flying, executed>>
           \/ /\ ~Barred(a, c.kind) /\ WithinBudget(b)
              /\ flying' = [flying EXCEPT ![a] = @ \cup {c}]
              /\ executed' = [executed EXCEPT ![context[a].trace] = @ + 1]
              /\ UNCHANGED broken
    /\ UNCHANGED <<quiet, caller, context, queued, asked>>

\* spawn: refused when the subagent would be too deep (Spawned bounds how many begin).
Spawn(a) ==
    \E s \in Callers \ {Loop} :
        /\ caller[s] = "none" /\ \A r \in 1..(s - 1) : caller[r] # "none"
        /\ context[a].depth + 1 <= MaxDepth
        /\ caller' = [caller EXCEPT ![s] = "asks"]
        /\ context' = [context EXCEPT ![s] = ChildContext(context[a])]

\* prepare_call: a name that is not registered has no tool.
ToolFound(c) == c.kind # "missing"

\* The tool answers, or fails: there is none, its arguments are refused, or it raises.
CallEnds(a, c) ==
    /\ c \in flying[a] /\ flying' = [flying EXCEPT ![a] = @ \ {c}]
    /\ \/ ToolFound(c) /\ UNCHANGED broken
       \/ broken' = Failing(a)
    /\ IF c.kind = "spawn" THEN Spawn(a) \/ UNCHANGED <<caller, context>>
                           ELSE UNCHANGED <<caller, context>>
    /\ UNCHANGED <<quiet, spent, lookups, queued, waiting, asked, executed>>

\* All batches are done: the results go back to the model, or the run fails.
ResultsIn(a) ==
    /\ caller[a] = "calls" /\ waiting[a] = <<>> /\ flying[a] = {} /\ queued[a] = <<>>
    /\ caller' = [caller EXCEPT ![a] = IF a \in broken THEN "done" ELSE "asks"]
    /\ UNCHANGED <<quiet, context, spent, lookups, queued, waiting, flying, broken, asked, executed>>

\* /stop: nothing that is under way gives a result.
Cancel(a) ==
    /\ caller[a] \in {"asks", "calls"} /\ caller' = [caller EXCEPT ![a] = "done"]
    /\ queued' = [queued EXCEPT ![a] = <<>>] /\ waiting' = [waiting EXCEPT ![a] = <<>>]
    /\ flying' = [flying EXCEPT ![a] = {}]
    /\ UNCHANGED <<quiet, context, spent, lookups, broken, asked, executed>>

\* The wall clock of a turn runs out.
TimeRunsOut(b) ==
    /\ b \notin late /\ \E a \in Callers : caller[a] \in {"asks", "calls"} /\ context[a].budget = b
    /\ late' = late \cup {b}
    /\ UNCHANGED <<allowList, caller, context, spent, lookups, queued, waiting, flying, broken,
                   asked, executed>>

CallsNext ==
    \/ \E t \in LoopTurns : BeginLoop(t) \/ TimeRunsOut(t)
    \/ \E a \in Callers :
        \/ AskTools(a) \/ FinalAnswer(a) \/ NextBatch(a) \/ BlockLookup(a) \/ Call(a)
        \/ ResultsIn(a) \/ Cancel(a)
        \/ \E c \in flying[a] : CallEnds(a, c)

CallsSpec == CallsInit /\ [][CallsNext]_callVars

----------------------------------------------------------------------------
(* Properties. *)

\* A turn and the subagents it began, those included that outlive it while the next turn runs,
\* together never have more tools executed than a turn may (max_tool_calls_per_turn; "a runaway
\* tree is bounded by the same total tool-call ceiling").
BudgetHolds == MaxToolCalls > 0 => \A t \in LoopTurns : executed[t] <= MaxToolCalls

\* A tool that is not safe beside others never runs beside another call of the same answer, and
\* no call begins before those of the batches before it have ended: what the model asked for
\* after an edit reads the edited file.
RunsAlone ==
    \A a \in Callers : \A c, d \in flying[a] :
        c # d => {c.kind, d.kind} \cap (Exclusive \cup {"edit", "spawn", "missing"}) = {}

\* What concurrent calls of turns and subagents keep to.
CallLimits == BudgetHolds /\ RunsAlone
=============================================================================
