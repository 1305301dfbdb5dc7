----------------------------- MODULE EngineProofs -----------------------------
(* Proofs about what a turn runs on: the MCP servers, the calls to the providers, the tool     *)
(* calls of turns and subagents, the files the tools read and change, and the lists of         *)
(* messages a model is sent; each for every number of tasks, requests, subagents, files and    *)
(* messages.                                                                                   *)
EXTENDS McpServers, ProviderCalls, ToolCalls, FileEdits, ToolStream, MessageShaping, LoopLemmas, TLAPS

----------------------------------------------------------------------------
(* The MCP servers: who holds the sessions that are open. *)

\* A session, and what a task that connects has of them.
Session == Served \X Nat
Trial == [left : Seq(Served), got : SUBSET Session, now : SUBSET Session]

McpTyped ==
    /\ servers \in Configs /\ step \in [Connectors -> {"new", "connecting", "ready", "closing"}]
    /\ trial \in [Connectors -> Trial] /\ sessions \in Nat
    /\ mcpUp \in BOOLEAN /\ mcpTrying \in BOOLEAN /\ resetRace \in BOOLEAN

\* A task that does not connect has nothing, and a reset is all that closes.
IdleInv ==
    /\ \A t \in Connectors : step[t] # "connecting" => trial[t].got = {} /\ trial[t].now = {}
    /\ step["tui"] # "closing" => toClose = {}

\* Until a reset hits an attempt: one task at a time connects, while the loop holds no session;
\* a loop that holds sessions is connected.
OneTries ==
    /\ \A t, u \in Connectors : step[t] = "connecting" /\ step[u] = "connecting" => t = u
    /\ \A t \in Connectors : step[t] = "connecting" => mcpTrying /\ ~mcpUp
    /\ ~mcpUp => stacks = {}
    /\ toClose \subseteq stacks

McpInv == McpTyped /\ IdleInv /\ (~resetRace => OneTries) /\ NoStackLost

\* What tasks that connect have between them.
OnTrial == UNION {trial[t].got \cup trial[t].now : t \in Connectors}

\* The configurations are sequences of servers.
LEMMA ConfigsTyped == ASSUME NEW c \in Configs PROVE c \in Seq(Served)
    BY McpAssumption

\* An attempt that has not begun.
LEMMA EmptyTyped == NoTrial \in Trial
    <1>1. <<>> \in Seq(Served) OBVIOUS
    <1> QED BY <1>1 DEF NoTrial, Trial

\* A task's own part of what is on trial.
LEMMA TrialOf ==
    ASSUME NEW s
    PROVE  s \in OnTrial <=> \E t \in Connectors : s \in trial[t].got \cup trial[t].now
    BY DEF OnTrial

\* A task that connects goes on: what the others have does not change.
LEMMA TrialStep ==
    ASSUME McpInv, NEW t \in Connectors, NEW r \in Trial, step[t] = "connecting", trial' = [trial EXCEPT ![t] = r],
           opened' \subseteq opened \cup r.now,
           trial[t].got \subseteq r.got, (trial[t].now \ (r.now \cup r.got)) \cap opened' = {}, sessions' \in Nat,
           UNCHANGED <<servers, step, stacks, mcpUp, mcpTrying, resetRace, toClose, abandoned>>
    PROVE  McpInv'
    <1>1. trial' \in [Connectors -> Trial] /\ trial'[t] = r /\ \A u \in Connectors : u # t => trial'[u] = trial[u]
        BY DEF McpInv, McpTyped
    <1>2. McpTyped' BY <1>1 DEF McpInv, McpTyped
    <1>3. IdleInv' BY <1>1 DEF McpInv, IdleInv
    <1>4. (~resetRace => OneTries)' BY DEF McpInv, OneTries
    <1>5. ASSUME ~resetRace, NEW s \in opened' PROVE s \in stacks \cup toClose \cup abandoned \cup OnTrial'
        <2>1. s \in r.now => s \in OnTrial' BY <1>1 DEF OnTrial
        <2>2. s \in opened \/ s \in r.now BY <1>5
        <2>3. s \in opened => s \in stacks \cup toClose \cup abandoned \cup OnTrial
            BY <1>5 DEF McpInv, NoStackLost, OnTrial
        <2>4. ASSUME s \in OnTrial PROVE s \in OnTrial'
            <3>1. PICK u \in Connectors : s \in trial[u].got \cup trial[u].now BY <2>4, TrialOf
            <3>2. CASE u # t BY <1>1, <3>1, <3>2 DEF OnTrial
            <3>3. CASE u = t
                <4>1. s \in r.got \cup r.now BY <1>5, <3>1, <3>3
                <4> QED BY <1>1, <4>1 DEF OnTrial
            <3> QED BY <3>2, <3>3
        <2> QED BY <2>1, <2>2, <2>3, <2>4
    <1>6. NoStackLost' BY <1>5 DEF NoStackLost, OnTrial
    <1> QED BY <1>2, <1>3, <1>4, <1>6 DEF McpInv

\* What is open and tracked stays so while nothing of the sessions changes.
LEMMA McpKept ==
    ASSUME McpInv, UNCHANGED <<servers, stacks, mcpUp, mcpTrying, opened, sessions, step, trial, toClose, abandoned, resetRace>>
    PROVE  McpInv'
    <1>1. McpTyped' BY DEF McpInv, McpTyped
    <1>2. IdleInv' BY DEF McpInv, IdleInv
    <1>3. (~resetRace => OneTries)' BY DEF McpInv, OneTries
    <1>4. NoStackLost' BY DEF McpInv, NoStackLost
    <1> QED BY <1>1, <1>2, <1>3, <1>4 DEF McpInv

\* A task finds itself the one to connect, or goes on.
LEMMA ConnectKeeps == ASSUME McpInv, NEW t \in Connectors, Connect(t) PROVE McpInv'
    <1>1. /\ step[t] = "new" /\ trial[t].got = {} /\ trial[t].now = {}
          /\ UNCHANGED <<servers, stacks, mcpUp, opened, sessions, toClose, abandoned, resetRace>>
        BY DEF Connect, outside, McpInv, IdleInv
    <1>2. CASE ShouldConnect /\ servers # <<>>
        <2>1. /\ step' = [step EXCEPT ![t] = "connecting"] /\ mcpTrying' = TRUE
              /\ trial' = [trial EXCEPT ![t] = [NoTrial EXCEPT !.left = servers]] /\ ~mcpUp /\ ~mcpTrying
            BY <1>2 DEF Connect, ShouldConnect
        <2>2. servers \in Seq(Served) BY ConfigsTyped DEF McpInv, McpTyped
        <2>3. [NoTrial EXCEPT !.left = servers] \in {r \in Trial : r.got = {} /\ r.now = {}}
            <3>1. \A r \in Trial : /\ [r EXCEPT !.left = servers] \in Trial
                                  /\ [r EXCEPT !.left = servers].got = r.got
                                  /\ [r EXCEPT !.left = servers].now = r.now
                BY <2>2 DEF Trial
            <3>2. NoTrial.got = {} /\ NoTrial.now = {} BY DEF NoTrial
            <3> QED BY <3>1, <3>2, EmptyTyped
        <2>4. /\ trial' \in [Connectors -> Trial] /\ trial'[t].got = {} /\ trial'[t].now = {}
              /\ \A u \in Connectors : u # t => trial'[u] = trial[u]
            BY <2>1, <2>3 DEF McpInv, McpTyped
        <2>5. /\ step' \in [Connectors -> {"new", "connecting", "ready", "closing"}] /\ step'[t] = "connecting"
              /\ \A u \in Connectors : u # t => step'[u] = step[u]
            BY <2>1 DEF McpInv, McpTyped
        <2>6. McpTyped' BY <1>1, <2>1, <2>4, <2>5 DEF McpInv, McpTyped
        <2>7. IdleInv' BY <1>1, <2>1, <2>4, <2>5 DEF McpInv, IdleInv, Connectors
        <2>8. (~resetRace => OneTries)' BY <1>1, <2>1, <2>5 DEF McpInv, OneTries
        <2>9. OnTrial' = OnTrial BY <1>1, <2>4 DEF OnTrial
        <2>10. NoStackLost' BY <1>1, <2>9 DEF McpInv, NoStackLost, OnTrial
        <2> QED BY <2>6, <2>7, <2>8, <2>10 DEF McpInv
    <1>3. CASE ~(ShouldConnect /\ servers # <<>>)
        <2>1. step' = [step EXCEPT ![t] = "ready"] /\ UNCHANGED <<mcpTrying, trial>> BY <1>3 DEF Connect
        <2>2. /\ step' \in [Connectors -> {"new", "connecting", "ready", "closing"}] /\ step'[t] = "ready"
              /\ \A u \in Connectors : u # t => step'[u] = step[u]
            BY <2>1 DEF McpInv, McpTyped
        <2>3. McpTyped' BY <1>1, <2>1, <2>2 DEF McpInv, McpTyped
        <2>4. IdleInv' BY <1>1, <2>1, <2>2 DEF McpInv, IdleInv
        <2>5. (~resetRace => OneTries)' BY <1>1, <2>1, <2>2 DEF McpInv, OneTries
        <2>6. NoStackLost' BY <1>1, <2>1 DEF McpInv, NoStackLost
        <2> QED BY <2>3, <2>4, <2>5, <2>6 DEF McpInv
    <1> QED BY <1>2, <1>3

\* An attempt ends: its sessions are the loop's, or they are abandoned.
LEMMA AttemptEnds ==
    ASSUME McpInv, NEW t \in Connectors, step[t] = "connecting",
           step' = [step EXCEPT ![t] = "ready"], trial' = [trial EXCEPT ![t] = NoTrial], mcpTrying' = FALSE,
           mcpUp' \in BOOLEAN, ~mcpUp' => stacks' = {} \/ resetRace,
           trial[t].got \cup trial[t].now \cup stacks \subseteq stacks' \cup abandoned' \/ resetRace,
           abandoned \subseteq abandoned',
           UNCHANGED <<servers, opened, sessions, toClose, resetRace>>
    PROVE  McpInv'
    <1>1. /\ trial' \in [Connectors -> Trial] /\ trial'[t] = NoTrial
          /\ \A u \in Connectors : u # t => trial'[u] = trial[u]
        BY EmptyTyped DEF McpInv, McpTyped
    <1>2. /\ step' \in [Connectors -> {"new", "connecting", "ready", "closing"}] /\ step'[t] = "ready"
          /\ \A u \in Connectors : u # t => step'[u] = step[u]
        BY DEF McpInv, McpTyped
    <1>3. McpTyped' BY <1>1, <1>2 DEF McpInv, McpTyped
    <1>4. IdleInv' BY <1>1, <1>2 DEF McpInv, IdleInv, NoTrial
    <1>5. (~resetRace => OneTries)' BY <1>2 DEF McpInv, OneTries
    <1>6. NoStackLost'
        <2> SUFFICES ASSUME ~resetRace, NEW s \in opened
                     PROVE  s \in stacks' \cup toClose \cup abandoned' \cup OnTrial'
            BY DEF NoStackLost, OnTrial
        <2>1. s \in stacks \cup toClose \cup abandoned \cup OnTrial BY DEF McpInv, NoStackLost, OnTrial
        <2>2. ASSUME s \in OnTrial PROVE s \in stacks' \cup abandoned' \cup OnTrial'
            <3>1. PICK u \in Connectors : s \in trial[u].got \cup trial[u].now BY <2>2, TrialOf
            <3>2. CASE u = t BY <3>1, <3>2
            <3>3. CASE u # t BY <1>1, <3>1, <3>3 DEF OnTrial
            <3> QED BY <3>2, <3>3
        <2> QED BY <2>1, <2>2
    <1> QED BY <1>3, <1>4, <1>5, <1>6 DEF McpInv

\* Every step of the tasks keeps what is open with someone who will close it.
LEMMA McpInvNext == ASSUME McpInv, [McpNext]_mcpVars PROVE McpInv'
    <1> USE DEF outside
    <1>1. ASSUME NEW t \in Connectors, Connect(t) PROVE McpInv' BY <1>1, ConnectKeeps
    <1>2. ASSUME NEW t \in Connectors, OpenServer(t) PROVE McpInv'
        <2> DEFINE s == <<Head(trial[t].left), sessions + 1>>
                   r == [trial[t] EXCEPT !.left = Tail(trial[t].left), !.now = {s}]
        <2>1. /\ step[t] = "connecting" /\ trial[t].left # <<>> /\ trial[t].now = {}
              /\ trial' = [trial EXCEPT ![t] = r] /\ opened' = opened \cup {s} /\ sessions' = sessions + 1
            BY <1>2 DEF OpenServer
        <2>2. trial[t] \in Trial /\ trial[t].left \in Seq(Served) /\ sessions \in Nat BY DEF McpInv, McpTyped, Trial
        <2>3. s \in Session /\ Tail(trial[t].left) \in Seq(Served) BY <2>1, <2>2 DEF Session
        <2> HIDE DEF s
        <2>4. r \in Trial /\ r.now = {s} /\ r.got = trial[t].got
            <3>1. \A q \in Trial, l \in Seq(Served) :
                     /\ [q EXCEPT !.left = l, !.now = {s}] \in Trial
                     /\ [q EXCEPT !.left = l, !.now = {s}].now = {s}
                     /\ [q EXCEPT !.left = l, !.now = {s}].got = q.got
                BY <2>3 DEF Trial
            <3> QED BY <2>2, <2>3, <3>1
        <2>5. UNCHANGED <<servers, step, stacks, mcpUp, mcpTrying, resetRace, toClose, abandoned>>
            BY <1>2 DEF OpenServer
        <2>6. sessions' \in Nat BY <2>1, <2>2
        <2> HIDE DEF r
        <2> QED BY <2>1, <2>4, <2>5, <2>6, TrialStep
    <1>3. ASSUME NEW t \in Connectors, ServerReady(t) PROVE McpInv'
        <2> DEFINE r == [trial[t] EXCEPT !.got = trial[t].got \cup trial[t].now, !.now = {}]
        <2>1. trial[t].now # {} /\ trial' = [trial EXCEPT ![t] = r] BY <1>3 DEF ServerReady
        <2>2. step[t] = "connecting" /\ trial[t] \in Trial /\ trial[t].now \in SUBSET Session /\ sessions \in Nat
            BY <2>1 DEF McpInv, McpTyped, IdleInv, Trial
        <2>3. r \in Trial /\ r.now = {} /\ r.got = trial[t].got \cup trial[t].now
            <3>1. \A q \in Trial :
                     /\ [q EXCEPT !.got = q.got \cup q.now, !.now = {}] \in Trial
                     /\ [q EXCEPT !.got = q.got \cup q.now, !.now = {}].now = {}
                     /\ [q EXCEPT !.got = q.got \cup q.now, !.now = {}].got = q.got \cup q.now
                BY DEF Trial
            <3> QED BY <2>2, <3>1
        <2> HIDE DEF r
        <2> QED BY <1>3, <2>1, <2>2, <2>3, TrialStep DEF ServerReady
    <1>4. ASSUME NEW t \in Connectors, ServerFails(t) PROVE McpInv'
        <2>1. step[t] = "connecting" /\ trial[t] \in Trial /\ sessions \in Nat
            BY <1>4 DEF ServerFails, McpInv, McpTyped
        <2>2. CASE /\ trial' = [trial EXCEPT ![t].now = {}] /\ opened' = opened \ trial[t].now
            <3> DEFINE r == [trial[t] EXCEPT !.now = {}]
            <3>1. r \in Trial /\ r.now = {} /\ r.got = trial[t].got BY <2>1 DEF Trial
            <3>2. trial' = [trial EXCEPT ![t] = r] BY <2>2
            <3> HIDE DEF r
            <3> QED BY ZenonT(60), <1>4, <2>1, <2>2, <3>1, <3>2, TrialStep DEF ServerFails
        <2>3. CASE trial[t].left # <<>> /\ UNCHANGED opened /\ trial' = [trial EXCEPT ![t].left = Tail(@)]
            <3> DEFINE r == [trial[t] EXCEPT !.left = Tail(@)]
            <3>1. Tail(trial[t].left) \in Seq(Served) BY <2>1, <2>3 DEF Trial
            <3>2. r \in Trial /\ r.now = trial[t].now /\ r.got = trial[t].got BY <2>1, <3>1 DEF Trial
            <3>3. trial' = [trial EXCEPT ![t] = r] BY <2>3
            <3>4. UNCHANGED <<servers, step, stacks, mcpUp, mcpTrying, resetRace, toClose, abandoned, opened, sessions>>
                BY <1>4, <2>3 DEF ServerFails
            <3> HIDE DEF r
            <3> QED BY <2>1, <3>2, <3>3, <3>4, TrialStep
        <2> QED BY <1>4, <2>2, <2>3 DEF ServerFails
    <1>5. ASSUME NEW t \in Connectors, Connected(t) PROVE McpInv'
        <2>1. /\ step[t] = "connecting" /\ trial[t].now = {} /\ stacks' = trial[t].got
              /\ mcpUp' = (mcpUp \/ trial[t].got # {}) /\ mcpTrying' = FALSE
              /\ step' = [step EXCEPT ![t] = "ready"] /\ trial' = [trial EXCEPT ![t] = NoTrial]
              /\ UNCHANGED <<servers, opened, sessions, toClose, abandoned, resetRace>>
            BY <1>5 DEF Connected
        <2>2. mcpUp' \in BOOLEAN BY <2>1 DEF McpInv, McpTyped
        <2>3. ~mcpUp' => stacks' = {} BY <2>1
        <2>4. stacks = {} \/ resetRace BY <2>1 DEF McpInv, OneTries
        <2> QED BY <2>1, <2>2, <2>3, <2>4, AttemptEnds
    <1>6. ASSUME NEW t \in Connectors, ConnectCancelled(t) PROVE McpInv'
        <2>1. /\ step[t] = "connecting" /\ stacks' = {} /\ mcpTrying' = FALSE
              /\ abandoned' = abandoned \cup trial[t].got \cup trial[t].now \cup stacks
              /\ step' = [step EXCEPT ![t] = "ready"] /\ trial' = [trial EXCEPT ![t] = NoTrial]
              /\ UNCHANGED <<servers, opened, sessions, toClose, mcpUp, resetRace>>
            BY <1>6 DEF ConnectCancelled
        <2>2. mcpUp' \in BOOLEAN BY <2>1 DEF McpInv, McpTyped
        <2> QED BY <2>1, <2>2, AttemptEnds
    <1>7. CASE SyncConfig
        <2>1. /\ step["tui"] \in {"new", "ready"} /\ step' = [step EXCEPT !["tui"] = "closing"] /\ toClose' = stacks
              /\ UNCHANGED <<servers, stacks, mcpUp, mcpTrying, opened, sessions, trial, abandoned, resetRace>>
            BY <1>7 DEF SyncConfig
        <2>2. /\ step' \in [Connectors -> {"new", "connecting", "ready", "closing"}] /\ step'["tui"] = "closing"
              /\ \A u \in Connectors : u # "tui" => step'[u] = step[u]
            BY <2>1 DEF McpInv, McpTyped, Connectors
        <2>3. McpTyped' BY <2>1, <2>2 DEF McpInv, McpTyped
        <2>4. IdleInv' BY <2>1, <2>2 DEF McpInv, IdleInv
        <2>5. (~resetRace => OneTries)' BY <2>1, <2>2 DEF McpInv, OneTries
        <2>6. NoStackLost' BY <2>1 DEF McpInv, NoStackLost, IdleInv
        <2> QED BY <2>3, <2>4, <2>5, <2>6 DEF McpInv
    <1>8. CASE CloseStack
        <2>1. PICK s \in toClose : toClose' = toClose \ {s} /\ opened' = opened \ {s} BY <1>8 DEF CloseStack
        <2>2. /\ step["tui"] = "closing"
              /\ UNCHANGED <<servers, stacks, mcpUp, mcpTrying, sessions, step, trial, abandoned, resetRace>>
            BY <1>8 DEF CloseStack
        <2>3. McpTyped' BY <2>2 DEF McpInv, McpTyped
        <2>4. IdleInv' BY <2>2 DEF McpInv, IdleInv
        <2>5. (~resetRace => OneTries)' BY <2>1, <2>2 DEF McpInv, OneTries
        <2>6. NoStackLost' BY <2>1, <2>2 DEF McpInv, NoStackLost
        <2> QED BY <2>3, <2>4, <2>5, <2>6 DEF McpInv
    <1>13. CASE CloseFails
        <2>1. /\ step["tui"] = "closing" /\ toClose' = {} /\ step' = [step EXCEPT !["tui"] = "new"]
              /\ opened' \subseteq opened
              /\ UNCHANGED <<servers, stacks, mcpUp, mcpTrying, sessions, trial, abandoned, resetRace>>
            BY <1>13 DEF CloseFails, outside
        <2>2. /\ step' \in [Connectors -> {"new", "connecting", "ready", "closing"}] /\ step'["tui"] = "new"
              /\ \A u \in Connectors : u # "tui" => step'[u] = step[u]
            BY <2>1 DEF McpInv, McpTyped, Connectors
        <2>3. McpTyped' BY <2>1, <2>2 DEF McpInv, McpTyped
        <2>4. IdleInv' BY <2>1, <2>2 DEF McpInv, IdleInv
        <2>5. (~resetRace => OneTries)' BY <2>1, <2>2 DEF McpInv, OneTries
        <2>6. NoStackLost' BY <2>1 DEF McpInv, NoStackLost, OneTries
        <2> QED BY <2>3, <2>4, <2>5, <2>6 DEF McpInv
    <1>9. CASE ResetDone
        <2>1. PICK c \in Configs \ {servers} : servers' = c BY <1>9 DEF ResetDone
        <2>2. /\ step["tui"] = "closing" /\ toClose = {} /\ stacks' = {} /\ mcpUp' = FALSE /\ mcpTrying' = FALSE
              /\ abandoned' = abandoned \cup (stacks \cap opened)
              /\ resetRace' = (resetRace \/ \E t \in Connectors : step[t] = "connecting")
              /\ step' = [step EXCEPT !["tui"] = "new"] /\ UNCHANGED <<opened, sessions, trial, toClose>>
            BY <1>9 DEF ResetDone
        <2>3. /\ step' \in [Connectors -> {"new", "connecting", "ready", "closing"}] /\ step'["tui"] = "new"
              /\ \A u \in Connectors : u # "tui" => step'[u] = step[u]
            BY <2>2 DEF McpInv, McpTyped, Connectors
        <2>4. McpTyped' BY <2>1, <2>2, <2>3 DEF McpInv, McpTyped
        <2>5. IdleInv' BY <2>2, <2>3 DEF McpInv, IdleInv
        <2>6. (~resetRace => OneTries)' BY <2>2, <2>3 DEF McpInv, OneTries
        <2>7. NoStackLost' BY <2>2 DEF McpInv, NoStackLost
        <2> QED BY <2>4, <2>5, <2>6, <2>7 DEF McpInv
    <1>10. CASE HandleMessage BY <1>10, McpKept DEF HandleMessage
    <1>11. CASE ToolCall BY <1>11, McpKept DEF ToolCall
    <1>12. CASE UNCHANGED mcpVars BY <1>12, McpKept DEF mcpVars
    <1> QED BY <1>1, <1>2, <1>3, <1>4, <1>5, <1>6, <1>7, <1>8, <1>9, <1>10, <1>11, <1>12, <1>13 DEF McpNext

\* However many tasks race to connect: every session that is open is held by the loop or by the
\* attempt under way, unless an attempt was cancelled or a reset hit one.
THEOREM SessionsHeld == McpSpec => []NoStackLost
    <1>1. McpInit => McpInv
        <2> SUFFICES ASSUME McpInit PROVE McpInv OBVIOUS
        <2>1. \A t \in Connectors : trial[t] = NoTrial /\ step[t] = "new" BY DEF McpInit
        <2>2. McpTyped BY EmptyTyped DEF McpInit, McpTyped
        <2>3. IdleInv /\ OneTries BY <2>1 DEF McpInit, IdleInv, OneTries, NoTrial
        <2>4. NoStackLost BY DEF McpInit, NoStackLost
        <2> QED BY <2>2, <2>3, <2>4 DEF McpInv
    <1>2. McpInv => NoStackLost BY DEF McpInv
    <1> QED BY <1>1, <1>2, McpInvNext, PTL DEF McpSpec

----------------------------------------------------------------------------
(* The calls to the providers: whose text is shown, how many calls there are, and when the    *)
(* breaker opens.                                                                              *)

ProviderTyped ==
    /\ at \in [Reqs -> {"idle", "responses", "chat", "fallback", "waiting", "done", "failed", "timedout"}]
    /\ try \in [Reqs -> Nat] /\ model \in [Reqs -> Nat] /\ queries \in [Reqs -> Nat]
    /\ streamed \in [Reqs -> BOOLEAN] /\ stripping \in [Reqs -> BOOLEAN]
    /\ voices \in [Reqs -> SUBSET (Nat \X Nat)]
    /\ failures \in Nat /\ sinceOk \in Nat

\* Who has shown text of a call is the model that is asked, and a call none has shown text of
\* may go on to the next model.
VoiceInv ==
    \A r \in Reqs :
        /\ \A v, w \in voices[r] : v[1] = w[1] => v[2] = w[2]
        /\ \A v \in voices[r] : v[1] <= queries[r] /\ (v[1] = queries[r] => streamed[r] /\ v[2] = model[r])

\* A request has made one call per attempt, and one more once its images were taken out; it
\* waits for another attempt only while it has one left.
CountInv ==
    \A r \in Reqs \ Persistent :
        /\ queries[r] = try[r] + (IF stripping[r] THEN 1 ELSE 0) /\ try[r] <= Retries + 1
        /\ at[r] = "idle" => try[r] = 0 /\ ~stripping[r]
        /\ at[r] = "waiting" => try[r] <= Retries

\* The breaker counts no more failures than there were.
BreakerInv == failures <= sinceOk /\ (tripped # "no" => sinceOk >= Threshold)

\* A step that may begin a new call of a request, end it, or go on to the next model.
CallStep(r) ==
    /\ \/ UNCHANGED <<streamed, model, queries>>
       \/ streamed' = [streamed EXCEPT ![r] = FALSE] /\ queries' = [queries EXCEPT ![r] = @ + 1]
          /\ \E m \in Nat : model' = [model EXCEPT ![r] = m]
       \/ ~streamed[r] /\ UNCHANGED <<streamed, queries>> /\ \E m \in Nat : model' = [model EXCEPT ![r] = m]
    /\ UNCHANGED voices

\* Such a step keeps the voices apart.
LEMMA CallStepKeeps ==
    ASSUME ProviderTyped, VoiceInv, NEW r \in Reqs, CallStep(r)
    PROVE  /\ model' \in [Reqs -> Nat] /\ queries' \in [Reqs -> Nat] /\ streamed' \in [Reqs -> BOOLEAN]
           /\ voices' \in [Reqs -> SUBSET (Nat \X Nat)] /\ VoiceInv'
    <1>1. CASE UNCHANGED <<streamed, model, queries, voices>> BY <1>1 DEF ProviderTyped, VoiceInv
    <1>2. CASE /\ streamed' = [streamed EXCEPT ![r] = FALSE] /\ queries' = [queries EXCEPT ![r] = @ + 1]
               /\ \E m \in Nat : model' = [model EXCEPT ![r] = m]
        <2>1. PICK m \in Nat : model' = [model EXCEPT ![r] = m] BY <1>2
        <2>2. /\ model' \in [Reqs -> Nat] /\ queries' \in [Reqs -> Nat] /\ streamed' \in [Reqs -> BOOLEAN]
              /\ queries'[r] = queries[r] + 1 /\ queries[r] \in Nat
              /\ \A q \in Reqs : q # r => model'[q] = model[q] /\ queries'[q] = queries[q] /\ (streamed'[q] <=> streamed[q])
            BY <1>2, <2>1 DEF ProviderTyped
        <2>3. voices' = voices /\ \A q \in Reqs : \A v \in voices[q] : v[1] \in Nat /\ v[2] \in Nat
            BY DEF CallStep, ProviderTyped
        <2>4. ASSUME NEW q \in Reqs, NEW v \in voices[q]
              PROVE  v[1] <= queries'[q] /\ (v[1] = queries'[q] => streamed'[q] /\ v[2] = model'[q])
            <3>1. v[1] <= queries[q] /\ (v[1] = queries[q] => streamed[q] /\ v[2] = model[q]) /\ v[1] \in Nat
                BY <2>3 DEF VoiceInv
            <3> QED BY <2>2, <3>1
        <2> QED BY <2>2, <2>3, <2>4 DEF ProviderTyped, VoiceInv
    <1>3. CASE ~streamed[r] /\ UNCHANGED <<streamed, queries>> /\ \E m \in Nat : model' = [model EXCEPT ![r] = m]
        <2>1. PICK m \in Nat : model' = [model EXCEPT ![r] = m] BY <1>3
        <2>2. model' \in [Reqs -> Nat] /\ \A q \in Reqs : q # r => model'[q] = model[q]
            BY <2>1 DEF ProviderTyped
        <2>3. voices' = voices BY DEF CallStep
        <2> QED BY <1>3, <2>2, <2>3 DEF ProviderTyped, VoiceInv
    <1> QED BY <1>1, <1>2, <1>3 DEF CallStep

\* What an error leads to: the answer to it, or the next model.
LEMMA ErrorStep ==
    ASSUME ProviderTyped, NEW r \in Reqs, NEW e, NextModel(r, e) \/ Answer(r, e)
    PROVE  /\ \/ streamed' = [streamed EXCEPT ![r] = FALSE] /\ queries' = [queries EXCEPT ![r] = @ + 1]
                 /\ stripping' = [stripping EXCEPT ![r] = TRUE] /\ ~stripping[r]
                 /\ (\E m \in Nat : model' = [model EXCEPT ![r] = m])
              \/ UNCHANGED <<streamed, queries, stripping>>
                 /\ (model' = model \/ (~streamed[r] /\ \E m \in Nat : model' = [model EXCEPT ![r] = m]))
           /\ \E a \in {"responses", "chat", "fallback", "failed", "waiting"} :
                 /\ at' = [at EXCEPT ![r] = a]
                 /\ a = "waiting" => \E times : ~GivesUp(r, times)
    <1>1. CASE Answer(r, e)
        <2>1. PICK times : times = IF e = lastErr[r] THEN same[r] + 1 ELSE 1 OBVIOUS
        <2>2. CASE stripping[r]
            <3>1. at' = [at EXCEPT ![r] = "failed"] /\ UNCHANGED <<stripping, streamed, model, queries>>
                BY <1>1, <2>2 DEF Answer
            <3> QED BY <3>1
        <2>3. CASE ~stripping[r] /\ Transient(e)
            <3>1. /\ at' = [at EXCEPT ![r] = IF GivesUp(r, times) THEN "failed" ELSE "waiting"]
                  /\ UNCHANGED <<stripping, streamed, model, queries>>
                BY <1>1, <2>1, <2>3 DEF Answer
            <3> QED BY <3>1
        <2>4. CASE ~stripping[r] /\ ~Transient(e) /\ r \in hasImages
            <3>1. stripping' = [stripping EXCEPT ![r] = TRUE] /\ BeginCall(r)
                BY <1>1, <2>4 DEF Answer
            <3> QED BY <2>4, <3>1 DEF BeginCall
        <2>5. CASE ~stripping[r] /\ ~Transient(e) /\ r \notin hasImages
            <3>1. at' = [at EXCEPT ![r] = "failed"] /\ UNCHANGED <<stripping, streamed, model, queries>>
                BY <1>1, <2>5 DEF Answer
            <3> QED BY <3>1
        <2> QED BY <2>2, <2>3, <2>4, <2>5
    <1>2. CASE NextModel(r, e) /\ ~Answer(r, e)
        <2>1. /\ ~streamed[r] /\ at' = [at EXCEPT ![r] = "fallback"] /\ model' = [model EXCEPT ![r] = @ + 1]
              /\ UNCHANGED <<stripping, streamed, queries>>
            BY <1>2 DEF NextModel
        <2>2. model' = [model EXCEPT ![r] = model[r] + 1] /\ model[r] + 1 \in Nat BY <2>1 DEF ProviderTyped
        <2> QED BY <2>1, <2>2
    <1> QED BY <1>1, <1>2

ProviderInv == ProviderTyped /\ VoiceInv /\ CountInv /\ BreakerInv

\* A request moves on without a new call: nothing is counted.
LEMMA MoveKeeps ==
    ASSUME ProviderInv, NEW r \in Reqs, NEW a \in {"responses", "chat", "fallback", "done", "failed", "timedout"},
           at' = [at EXCEPT ![r] = a], at[r] # "idle",
           UNCHANGED <<try, model, streamed, stripping, queries, voices>>,
           failures' \in Nat, sinceOk' \in Nat, BreakerInv'
    PROVE  ProviderInv'
    <1>1. ProviderTyped' BY DEF ProviderInv, ProviderTyped
    <1>2. VoiceInv' BY DEF ProviderInv, VoiceInv
    <1>3. CountInv' BY DEF ProviderInv, ProviderTyped, CountInv
    <1> QED BY <1>1, <1>2, <1>3 DEF ProviderInv

\* An attempt begins: one call more.
LEMMA AttemptKeeps ==
    ASSUME ProviderInv, NEW r \in Reqs, BeginCall(r), at[r] \in {"idle", "waiting"},
           at[r] = "idle" => try' = [try EXCEPT ![r] = 1],
           at[r] = "waiting" => try' = [try EXCEPT ![r] = IF @ <= Retries THEN @ + 1 ELSE @],
           UNCHANGED <<stripping, voices, failures, sinceOk, tripped>>
    PROVE  ProviderInv'
    <1>1. /\ streamed' = [streamed EXCEPT ![r] = FALSE] /\ queries' = [queries EXCEPT ![r] = @ + 1]
          /\ \E m \in Nat : model' = [model EXCEPT ![r] = m]
        BY DEF BeginCall
    <1>2. PICK a \in {"responses", "chat", "fallback"} : at' = [at EXCEPT ![r] = a] BY DEF BeginCall
    <1>3. /\ model' \in [Reqs -> Nat] /\ queries' \in [Reqs -> Nat] /\ streamed' \in [Reqs -> BOOLEAN]
          /\ voices' \in [Reqs -> SUBSET (Nat \X Nat)] /\ VoiceInv'
        BY <1>1, CallStepKeeps DEF CallStep, ProviderInv
    <1>4. /\ try' \in [Reqs -> Nat] /\ \A q \in Reqs : q # r => try'[q] = try[q] /\ queries'[q] = queries[q]
          /\ queries'[r] = queries[r] + 1 /\ queries[r] \in Nat /\ try[r] \in Nat
          /\ at[r] = "idle" => try'[r] = 1
          /\ at[r] = "waiting" => try'[r] = (IF try[r] <= Retries THEN try[r] + 1 ELSE try[r])
        BY <1>1, ProviderAssumption DEF ProviderInv, ProviderTyped
    <1>5. ProviderTyped' BY <1>2, <1>3, <1>4 DEF ProviderInv, ProviderTyped
    <1>6. ASSUME NEW q \in Reqs \ Persistent
          PROVE  /\ queries'[q] = try'[q] + (IF stripping'[q] THEN 1 ELSE 0) /\ try'[q] <= Retries + 1
                 /\ at'[q] = "idle" => try'[q] = 0 /\ ~stripping'[q]
                 /\ at'[q] = "waiting" => try'[q] <= Retries
        <2>1. CASE q # r BY <1>2, <1>4, <2>1 DEF ProviderInv, ProviderTyped, CountInv
        <2>2. CASE q = r
            <3>1. /\ queries[r] = try[r] + (IF stripping[r] THEN 1 ELSE 0) /\ try[r] <= Retries + 1
                  /\ at[r] = "idle" => try[r] = 0 /\ ~stripping[r]
                  /\ at[r] = "waiting" => try[r] <= Retries
                BY <2>2 DEF ProviderInv, CountInv
            <3>2. at'[r] = a BY <1>2 DEF ProviderInv, ProviderTyped
            <3>3. stripping' = stripping /\ Retries \in Nat BY ProviderAssumption
            <3>4. CASE at[r] = "idle" BY <1>4, <2>2, <3>1, <3>2, <3>3, <3>4
            <3>5. CASE at[r] = "waiting" BY <1>4, <2>2, <3>1, <3>2, <3>3, <3>5
            <3> QED BY <3>4, <3>5
        <2> QED BY <2>1, <2>2
    <1>7. CountInv' BY <1>6 DEF CountInv
    <1>8. BreakerInv' BY DEF ProviderInv, BreakerInv
    <1> QED BY <1>3, <1>5, <1>7, <1>8 DEF ProviderInv

\* An error leads to another call, another model, another attempt, or the end.
LEMMA ErrorKeeps ==
    ASSUME ProviderInv, NEW r \in Reqs, NEW e, NextModel(r, e) \/ Answer(r, e), at[r] # "idle",
           UNCHANGED <<try, voices>>, failures' \in Nat, sinceOk' \in Nat, BreakerInv'
    PROVE  ProviderInv'
    <1>0. ProviderTyped BY DEF ProviderInv
    <1>1. /\ \/ streamed' = [streamed EXCEPT ![r] = FALSE] /\ queries' = [queries EXCEPT ![r] = @ + 1]
                /\ stripping' = [stripping EXCEPT ![r] = TRUE] /\ ~stripping[r]
                /\ (\E m \in Nat : model' = [model EXCEPT ![r] = m])
             \/ UNCHANGED <<streamed, queries, stripping>>
                /\ (model' = model \/ (~streamed[r] /\ \E m \in Nat : model' = [model EXCEPT ![r] = m]))
        BY <1>0, ErrorStep
    <1>2. PICK a \in {"responses", "chat", "fallback", "failed", "waiting"} :
             at' = [at EXCEPT ![r] = a] /\ (a = "waiting" => \E times : ~GivesUp(r, times))
        BY <1>0, ErrorStep
    <1>3. CallStep(r) BY <1>1 DEF CallStep
    <1>4. /\ model' \in [Reqs -> Nat] /\ queries' \in [Reqs -> Nat] /\ streamed' \in [Reqs -> BOOLEAN]
          /\ voices' \in [Reqs -> SUBSET (Nat \X Nat)] /\ VoiceInv'
        BY <1>0, <1>3, CallStepKeeps DEF ProviderInv
    <1>5. at' \in [Reqs -> {"idle", "responses", "chat", "fallback", "waiting", "done", "failed", "timedout"}]
          /\ at'[r] = a /\ \A q \in Reqs : q # r => at'[q] = at[q]
        BY <1>0, <1>2 DEF ProviderTyped
    <1>6. stripping' \in [Reqs -> BOOLEAN] BY <1>0, <1>1 DEF ProviderTyped
    <1>7. ProviderTyped' BY <1>0, <1>4, <1>5, <1>6 DEF ProviderTyped
    <1>8. ASSUME NEW q \in Reqs \ Persistent
          PROVE  /\ queries'[q] = try[q] + (IF stripping'[q] THEN 1 ELSE 0) /\ try[q] <= Retries + 1
                 /\ at'[q] = "idle" => try[q] = 0 /\ ~stripping'[q]
                 /\ at'[q] = "waiting" => try[q] <= Retries
        <2>1. /\ queries[q] = try[q] + (IF stripping[q] THEN 1 ELSE 0) /\ try[q] <= Retries + 1
              /\ at[q] = "idle" => try[q] = 0 /\ ~stripping[q]
              /\ at[q] = "waiting" => try[q] <= Retries
            BY DEF ProviderInv, CountInv
        <2>2. try[q] \in Nat /\ queries[q] \in Nat BY <1>0 DEF ProviderTyped
        <2>3. queries'[q] = try[q] + (IF stripping'[q] THEN 1 ELSE 0)
            <3>1. CASE UNCHANGED <<queries, stripping>> BY <2>1, <3>1
            <3>2. CASE /\ queries' = [queries EXCEPT ![r] = @ + 1]
                       /\ stripping' = [stripping EXCEPT ![r] = TRUE] /\ ~stripping[r]
                <4>1. CASE q = r
                    <5>1. queries'[q] = queries[q] + 1 BY <1>0, <3>2, <4>1 DEF ProviderTyped
                    <5>2. stripping'[q] /\ ~stripping[q] BY <1>0, <3>2, <4>1 DEF ProviderTyped
                    <5> QED BY <2>1, <2>2, <5>1, <5>2
                <4>2. CASE q # r
                    <5>1. queries'[q] = queries[q] BY <1>0, <3>2, <4>2 DEF ProviderTyped
                    <5>2. stripping'[q] = stripping[q] BY <1>0, <3>2, <4>2 DEF ProviderTyped
                    <5> QED BY <2>1, <2>2, <5>1, <5>2
                <4> QED BY <4>1, <4>2
            <3> QED BY <1>1, <3>1, <3>2
        <2>4. at'[q] = "idle" => q # r /\ at[q] = "idle" BY <1>5
        <2>5. q # r => (stripping'[q] <=> stripping[q]) BY <1>0, <1>1 DEF ProviderTyped
        <2>6. at'[q] = "waiting" => try[q] <= Retries
            <3>1. CASE q # r BY <1>5, <2>1, <3>1
            <3>2. CASE q = r
                <4>1. \A times : GivesUp(r, times) <=> try[r] > Retries BY <3>2 DEF GivesUp
                <4>2. a = "waiting" => ~(try[r] > Retries) BY <1>2, <4>1
                <4> QED BY <1>5, <2>2, <3>2, <4>2, ProviderAssumption
            <3> QED BY <3>1, <3>2
        <2> QED BY <2>1, <2>3, <2>4, <2>5, <2>6
    <1>9. CountInv' BY <1>8 DEF CountInv
    <1> QED BY <1>4, <1>7, <1>9 DEF ProviderInv

\* Every step of the requests keeps the voices apart, the calls counted and the breaker honest.
LEMMA ProviderInvNext == ASSUME ProviderInv, [ProviderNext]_providerVars PROVE ProviderInv'
    <1> USE DEF breakers
    <1>a. failures \in Nat /\ sinceOk \in Nat /\ Threshold \in Nat \ {0} BY ProviderAssumption DEF ProviderInv, ProviderTyped
    <1>b. UNCHANGED <<failures, sinceOk, tripped>> => failures' \in Nat /\ sinceOk' \in Nat /\ BreakerInv'
        BY <1>a DEF ProviderInv, BreakerInv
    <1>1. ASSUME NEW r \in Reqs, Ask(r) PROVE ProviderInv'
        <2>1. BeginCall(r) /\ at[r] = "idle" /\ try' = [try EXCEPT ![r] = 1] BY <1>1 DEF Ask, WithRetry
        <2>2. UNCHANGED <<stripping, voices, failures, sinceOk, tripped>> BY <1>1 DEF Ask
        <2> QED BY <2>1, <2>2, AttemptKeeps
    <1>2. ASSUME NEW r \in Reqs, TryAgain(r) PROVE ProviderInv'
        BY <1>2, AttemptKeeps DEF TryAgain
    <1>3. ASSUME NEW r \in Reqs, Delta(r) PROVE ProviderInv'
        <2>1. /\ streamed' = [streamed EXCEPT ![r] = TRUE] /\ Active(r)
              /\ voices' = [voices EXCEPT ![r] = @ \cup {<<queries[r], model[r]>>}]
              /\ UNCHANGED <<at, try, model, stripping, queries, failures, sinceOk, tripped>>
            BY <1>3 DEF Delta
        <2>2. <<queries[r], model[r]>> \in Nat \X Nat BY DEF ProviderInv, ProviderTyped
        <2>3. /\ voices' \in [Reqs -> SUBSET (Nat \X Nat)] /\ voices'[r] = voices[r] \cup {<<queries[r], model[r]>>}
              /\ \A q \in Reqs : q # r => voices'[q] = voices[q]
            BY <2>1, <2>2 DEF ProviderInv, ProviderTyped
        <2>4. streamed' \in [Reqs -> BOOLEAN] /\ streamed'[r] /\ \A q \in Reqs : streamed[q] => streamed'[q]
            BY <2>1 DEF ProviderInv, ProviderTyped
        <2>5. ProviderTyped' BY <2>1, <2>3, <2>4 DEF ProviderInv, ProviderTyped
        <2>6. queries[r] \in Nat /\ queries' = queries /\ model' = model BY <2>1 DEF ProviderInv, ProviderTyped
        <2>7. VoiceInv' BY <2>3, <2>4, <2>6 DEF ProviderInv, VoiceInv
        <2>8. CountInv' BY <2>1 DEF ProviderInv, CountInv
        <2> QED BY <1>b, <2>1, <2>5, <2>7, <2>8 DEF ProviderInv
    <1>4. ASSUME NEW r \in Reqs, Succeed(r) PROVE ProviderInv'
        <2>1. /\ at' = [at EXCEPT ![r] = "done"] /\ at[r] # "idle"
              /\ UNCHANGED <<try, model, streamed, stripping, queries, voices>>
              /\ (failures' = 0 /\ tripped' = "no" /\ sinceOk' = 0) \/ UNCHANGED <<failures, tripped, sinceOk>>
            BY <1>4 DEF Succeed, Active
        <2>2. failures' \in Nat /\ sinceOk' \in Nat /\ BreakerInv' BY <1>b, <2>1 DEF BreakerInv
        <2> QED BY <2>1, <2>2, MoveKeeps
    <1>5. ASSUME NEW r \in Reqs, ApiMisfit(r) PROVE ProviderInv'
        BY <1>5, <1>b, MoveKeeps DEF ApiMisfit
    <1>6. ASSUME NEW r \in Reqs, NotBuilt(r) PROVE ProviderInv'
        <2>1. PICK e \in {"none"} \cup Errors : NextModel(r, e) BY <1>6 DEF NotBuilt
        <2>2. at[r] # "idle" /\ UNCHANGED <<try, voices, failures, sinceOk, tripped>> BY <1>6 DEF NotBuilt
        <2> QED BY <1>b, <2>1, <2>2, ErrorKeeps
    <1>7. ASSUME NEW r \in Reqs, TimeOut(r) PROVE ProviderInv'
        BY <1>7, <1>b, MoveKeeps DEF TimeOut, Active
    <1>8. ASSUME NEW r \in Reqs, NEW e \in Errors, Fail(r, e) PROVE ProviderInv'
        <2>1. at[r] # "idle" /\ UNCHANGED <<try, voices>> BY <1>8 DEF Fail, Active
        <2>2. CASE NextModel(r, e) \/ Answer(r, e)
            <3>1. \/ UNCHANGED <<failures, tripped, sinceOk>>
                  \/ /\ failures' = (IF failures < Threshold THEN failures + 1 ELSE failures)
                     /\ tripped' = (IF failures' >= Threshold THEN "recent" ELSE tripped)
                     /\ sinceOk' = sinceOk + 1
                BY <1>8 DEF Fail, PrimaryError
            <3>2. failures' \in Nat /\ sinceOk' \in Nat /\ BreakerInv'
                BY <1>a, <1>b, <3>1 DEF ProviderInv, BreakerInv
            <3> QED BY <2>1, <2>2, <3>2, ErrorKeeps
        <2> QED BY <1>8, <2>2 DEF Fail, PrimaryError
    <1>9. CASE CoolDown
        <2>1. UNCHANGED <<at, try, model, streamed, stripping, failures, queries, voices, sinceOk>>
            BY <1>9 DEF CoolDown
        <2>2. BreakerInv' BY <1>9, <2>1 DEF CoolDown, ProviderInv, BreakerInv
        <2> QED BY <2>1, <2>2 DEF ProviderInv, ProviderTyped, VoiceInv, CountInv
    <1>10. CASE UNCHANGED providerVars
        BY <1>10 DEF providerVars, ProviderInv, ProviderTyped, VoiceInv, CountInv, BreakerInv
    <1> QED BY <1>1, <1>2, <1>3, <1>4, <1>5, <1>6, <1>7, <1>8, <1>9, <1>10 DEF ProviderNext

\* Of the models one call goes through at most one shows text; a request makes no more calls than
\* its attempts and one without its images; the breaker opens only after enough failures in a
\* row: for every number of requests, of fallback models and of failures.
THEOREM OneVoiceHeard == ProviderSpec => []OneVoice
    <1>1. ProviderInit => ProviderInv
        <2> SUFFICES ASSUME ProviderInit PROVE ProviderInv OBVIOUS
        <2>1. ProviderTyped /\ VoiceInv /\ BreakerInv
            BY ProviderAssumption DEF ProviderInit, ProviderTyped, VoiceInv, BreakerInv
        <2>2. CountInv BY ProviderAssumption DEF ProviderInit, CountInv
        <2> QED BY <2>1, <2>2 DEF ProviderInv
    <1>2. ProviderInv => OneVoice
        <2> SUFFICES ASSUME ProviderInv PROVE OneVoice OBVIOUS
        <2>1. ASSUME NEW r \in Reqs \ Persistent PROVE queries[r] <= Retries + 2
            <3>1. try[r] \in Nat /\ queries[r] \in Nat /\ Retries \in Nat
                BY ProviderAssumption DEF ProviderInv, ProviderTyped
            <3> QED BY <3>1 DEF ProviderInv, CountInv
        <2> QED BY <2>1 DEF ProviderInv, VoiceInv, BreakerInv, OneVoice
    <1> QED BY <1>1, <1>2, ProviderInvNext, PTL DEF ProviderSpec

----------------------------------------------------------------------------
(* The tool calls of turns and subagents: their budget, and which of them run side by side. *)

ToolCallSet == [at : Nat, kind : ToolKinds]

CallsTyped ==
    /\ context \in [Callers -> [trace : 0..LastTurn, depth : Nat, budget : 0..LastTurn]]
    /\ spent \in [Purses -> Nat] /\ executed \in [0..LastTurn -> Nat]
    /\ queued \in [Callers -> Seq(ToolCallSet)] /\ waiting \in [Callers -> Seq(ToolCallSet)]
    /\ flying \in [Callers -> SUBSET ToolCallSet]

\* Whoever calls spends the budget of its trace, and no trace had more tools executed than its
\* budget has been debited and the limit allows.
BudgetInv ==
    /\ \A a \in Callers : context[a].budget = context[a].trace
    /\ MaxToolCalls > 0 => \A t \in 0..LastTurn : executed[t] <= spent[t] /\ executed[t] <= MaxToolCalls

\* The calls of the batch under way, begun or not: one, or calls that are safe side by side.
UnderWay(a) == ToSet(waiting[a]) \cup flying[a]
BatchInv ==
    \A a \in Callers : \A c, d \in UnderWay(a) : c # d => ConcurrencySafe(c.kind) /\ ConcurrencySafe(d.kind)

CallsInv == CallsTyped /\ BudgetInv /\ BatchInv

\* The elements of a sequence are its head and those of its tail.
LEMMA HeadAndTail ==
    ASSUME NEW S, NEW s \in Seq(S), s # <<>>
    PROVE  Tail(s) \in Seq(S) /\ Head(s) \in ToSet(s) /\ Head(s) \in S /\ ToSet(Tail(s)) \subseteq ToSet(s)
    <1>1. /\ Tail(s) \in Seq(S) /\ Len(s) \in Nat /\ Len(s) > 0 /\ DOMAIN s = 1..Len(s)
          /\ DOMAIN Tail(s) = 1..Len(s) - 1 /\ Head(s) = s[1]
          /\ \A i \in 1..Len(s) - 1 : Tail(s)[i] = s[i + 1]
        OBVIOUS
    <1>2. ASSUME NEW i \in 1..Len(s) - 1 PROVE Tail(s)[i] \in ToSet(s)
        <2>1. i + 1 \in 1..Len(s) /\ Tail(s)[i] = s[i + 1] BY <1>1
        <2> QED BY <1>1, <2>1 DEF ToSet
    <1>3. Head(s) \in ToSet(s) /\ Head(s) \in S BY <1>1 DEF ToSet
    <1> QED BY <1>1, <1>2, <1>3 DEF ToSet

\* Nothing but who asks, and what it has asked for, changes.
LEMMA CallsKept ==
    ASSUME CallsInv, UNCHANGED <<context, spent, executed, waiting, flying>>,
           queued' \in [Callers -> Seq(ToolCallSet)]
    PROVE  CallsInv'
    <1>1. BatchInv'
        <2>1. \A a \in Callers : UnderWay(a)' = UnderWay(a) BY DEF UnderWay
        <2> QED BY <2>1 DEF CallsInv, BatchInv
    <1> QED BY <1>1 DEF CallsInv, CallsTyped, BudgetInv

\* What is under way only gets less.
LEMMA FewerKept ==
    ASSUME CallsInv, UNCHANGED <<context, spent, executed>>, queued' \in [Callers -> Seq(ToolCallSet)],
           waiting' \in [Callers -> Seq(ToolCallSet)], flying' \in [Callers -> SUBSET ToolCallSet],
           \A a \in Callers : ToSet(waiting'[a]) \cup flying'[a] \subseteq UnderWay(a)
    PROVE  CallsInv'
    <1>1. BatchInv' BY DEF CallsInv, BatchInv, UnderWay
    <1> QED BY <1>1 DEF CallsInv, CallsTyped, BudgetInv

\* Whoever begins has the budget of its trace.
LEMMA ContextKept ==
    ASSUME CallsInv, UNCHANGED <<spent, executed, queued, waiting>>,
           context' \in [Callers -> [trace : 0..LastTurn, depth : Nat, budget : 0..LastTurn]],
           \A a \in Callers : context'[a].budget = context'[a].trace,
           flying' \in [Callers -> SUBSET ToolCallSet],
           \A a \in Callers : flying'[a] \subseteq flying[a]
    PROVE  CallsInv'
    <1>1. BatchInv' BY DEF CallsInv, BatchInv, UnderWay
    <1> QED BY <1>1 DEF CallsInv, CallsTyped, BudgetInv

\* The answer's calls are queued.
LEMMA AskKeeps == ASSUME CallsInv, NEW a \in Callers, AskTools(a) PROVE CallsInv'
    <1>1. PICK kinds \in SeqOf(Offered(a), MaxCalls) :
             queued' = [queued EXCEPT ![a] = [i \in DOMAIN kinds |-> [at |-> i, kind |-> kinds[i]]]]
        BY DEF AskTools
    <1>2. PICK n \in 0..MaxCalls : kinds \in [1..n -> Offered(a)] BY DEF SeqOf
    <1>3. n \in Nat /\ Offered(a) \subseteq ToolKinds BY CallsAssumption DEF Offered
    <1>4. [i \in DOMAIN kinds |-> [at |-> i, kind |-> kinds[i]]] \in Seq(ToolCallSet)
        <2>1. DOMAIN kinds = 1..n /\ \A i \in 1..n : [at |-> i, kind |-> kinds[i]] \in ToolCallSet
            BY <1>2, <1>3 DEF ToolCallSet
        <2> QED BY <1>3, <2>1
    <1>5. queued' \in [Callers -> Seq(ToolCallSet)] BY <1>1, <1>4 DEF CallsInv, CallsTyped
    <1>6. UNCHANGED <<context, spent, executed, waiting, flying>> BY DEF AskTools
    <1> QED BY <1>5, <1>6, CallsKept

\* The next batch begins: one call, or calls that are safe side by side.
LEMMA BatchKeeps == ASSUME CallsInv, NEW a \in Callers, NextBatch(a) PROVE CallsInv'
    <1>0. queued[a] \in Seq(ToolCallSet) /\ flying[a] = {} BY DEF NextBatch, CallsInv, CallsTyped
    <1>1. PICK n \in 1..Len(queued[a]) :
             /\ IsBatch(a, queued[a], n) /\ waiting' = [waiting EXCEPT ![a] = SubSeq(queued[a], 1, n)]
             /\ queued' = [queued EXCEPT ![a] = SubSeq(@, n + 1, Len(@))]
        BY DEF NextBatch
    <1> DEFINE b == SubSeq(queued[a], 1, n)
    <1>2. /\ Len(queued[a]) \in Nat /\ n \in Nat /\ b \in Seq(ToolCallSet) /\ DOMAIN b = 1..n
          /\ \A i \in 1..n : b[i] = queued[a][i]
        BY <1>0
    <1>3. SubSeq(queued[a], n + 1, Len(queued[a])) \in Seq(ToolCallSet) BY <1>0, <1>2
    <1> HIDE DEF b
    <1>4. waiting' = [waiting EXCEPT ![a] = b] BY <1>1 DEF b
    <1>5. waiting' \in [Callers -> Seq(ToolCallSet)] /\ waiting'[a] = b
          /\ \A k \in Callers : k # a => waiting'[k] = waiting[k]
        BY <1>2, <1>4 DEF CallsInv, CallsTyped
    <1>6. queued' \in [Callers -> Seq(ToolCallSet)] BY <1>1, <1>3 DEF CallsInv, CallsTyped
    <1>7. UNCHANGED <<context, spent, executed, flying>> BY DEF NextBatch
    <1>8. ASSUME NEW c \in ToSet(b), NEW d \in ToSet(b), c # d PROVE ConcurrencySafe(c.kind) /\ ConcurrencySafe(d.kind)
        <2>1. PICK i \in 1..n : c = queued[a][i] BY <1>2, <1>8 DEF ToSet
        <2>2. PICK j \in 1..n : d = queued[a][j] BY <1>2, <1>8 DEF ToSet
        <2>3. n > 1 BY <1>2, <1>8, <2>1, <2>2
        <2> QED BY <1>1, <2>1, <2>2, <2>3 DEF IsBatch
    <1>9. BatchInv'
        <2>1. \A k \in Callers : UnderWay(k)' = IF k = a THEN ToSet(b) ELSE UnderWay(k) BY <1>0, <1>5, <1>7 DEF UnderWay
        <2> QED BY <1>8, <2>1 DEF CallsInv, BatchInv
    <1> QED BY <1>5, <1>6, <1>7, <1>9 DEF CallsInv, CallsTyped, BudgetInv

\* A call is taken from the batch: it is denied, or let through and counted.
LEMMA CallKeeps == ASSUME CallsInv, NEW a \in Callers, Call(a) PROVE CallsInv'
    <1> DEFINE c == Head(waiting[a])
               b == context[a].budget
    <1>1. /\ waiting[a] # <<>> /\ waiting' = [waiting EXCEPT ![a] = Tail(@)]
          /\ spent' = (IF Barred(a, c.kind) THEN spent ELSE Debit(b))
          /\ \/ UNCHANGED <<flying, executed>>
             \/ /\ ~Barred(a, c.kind) /\ WithinBudget(b) /\ flying' = [flying EXCEPT ![a] = @ \cup {c}]
                /\ executed' = [executed EXCEPT ![context[a].trace] = @ + 1]
          /\ UNCHANGED <<context, queued>>
        BY DEF Call
    <1>2. waiting[a] \in Seq(ToolCallSet) BY DEF CallsInv, CallsTyped
    <1>3. Tail(waiting[a]) \in Seq(ToolCallSet) /\ c \in ToSet(waiting[a]) /\ c \in ToolCallSet
          /\ ToSet(Tail(waiting[a])) \subseteq ToSet(waiting[a])
        BY <1>1, <1>2, HeadAndTail
    <1>4. b \in 0..LastTurn /\ context[a].trace = b BY DEF CallsInv, CallsTyped, BudgetInv
    <1> HIDE DEF c, b
    <1>5. /\ waiting' \in [Callers -> Seq(ToolCallSet)] /\ waiting'[a] = Tail(waiting[a])
          /\ \A k \in Callers : k # a => waiting'[k] = waiting[k]
        BY <1>1, <1>3 DEF CallsInv, CallsTyped
    <1>6. /\ flying' \in [Callers -> SUBSET ToolCallSet] /\ flying'[a] \subseteq flying[a] \cup {c}
          /\ \A k \in Callers : k # a => flying'[k] = flying[k]
        <2>1. UNCHANGED flying \/ flying' = [flying EXCEPT ![a] = @ \cup {c}] BY <1>1
        <2>2. flying \in [Callers -> SUBSET ToolCallSet] /\ {c} \in SUBSET ToolCallSet BY <1>3 DEF CallsInv, CallsTyped
        <2> QED BY <2>1, <2>2
    <1>7. /\ spent' \in [Purses -> Nat] /\ \A p \in Purses : spent'[p] >= spent[p]
        <2>1. spent' = spent \/ spent' = [spent EXCEPT ![b] = @ + 1] BY <1>1 DEF Debit
        <2>2. spent \in [Purses -> Nat] /\ b \in Purses BY <1>4 DEF Purses, CallsInv, CallsTyped
        <2> QED BY <2>1, <2>2
    <1>8. executed' \in [0..LastTurn -> Nat] BY <1>1, <1>4 DEF CallsInv, CallsTyped
    <1>9. ASSUME MaxToolCalls > 0, NEW t \in 0..LastTurn
          PROVE  executed'[t] <= spent'[t] /\ executed'[t] <= MaxToolCalls
        <2>1. /\ executed[t] <= spent[t] /\ executed[t] <= MaxToolCalls
              /\ executed[t] \in Nat /\ spent[t] \in Nat /\ MaxToolCalls \in Nat /\ spent'[t] >= spent[t]
              /\ spent'[t] \in Nat
            BY <1>7, <1>9, CallsAssumption DEF CallsInv, CallsTyped, BudgetInv, Purses
        <2>2. CASE executed'[t] = executed[t] BY <2>1, <2>2
        <2>3. CASE executed'[t] # executed[t]
            <3>1. /\ t = b /\ executed'[t] = executed[t] + 1 /\ ~Barred(a, c.kind) /\ WithinBudget(b)
                BY <1>1, <1>4, <2>3 DEF CallsInv, CallsTyped
            <3>2. spent'[t] = spent[t] + 1
                BY <1>1, <1>9, <3>1 DEF Debit, Purses, CallsInv, CallsTyped
            <3>3. spent[t] < MaxToolCalls BY <1>9, <3>1 DEF WithinBudget
            <3> QED BY <2>1, <3>1, <3>2, <3>3
        <2> QED BY <2>2, <2>3
    <1>10. BatchInv'
        <2>1. \A k \in Callers : UnderWay(k)' \subseteq UnderWay(k) BY <1>3, <1>5, <1>6 DEF UnderWay
        <2> QED BY <2>1 DEF CallsInv, BatchInv
    <1>11. CallsTyped' /\ BudgetInv'
        BY <1>1, <1>5, <1>6, <1>7, <1>8, <1>9 DEF CallsInv, CallsTyped, BudgetInv
    <1> QED BY <1>10, <1>11 DEF CallsInv

\* A call ends, and a subagent may begin with the context of its parent, one deeper.
LEMMA CallEndKeeps ==
    ASSUME CallsInv, NEW a \in Callers, NEW c \in flying[a], CallEnds(a, c)
    PROVE  CallsInv'
    <1>1. /\ flying' = [flying EXCEPT ![a] = @ \ {c}] /\ UNCHANGED <<spent, executed, queued, waiting>>
          /\ Spawn(a) \/ UNCHANGED context
        BY DEF CallEnds
    <1>2. flying' \in [Callers -> SUBSET ToolCallSet] /\ \A k \in Callers : flying'[k] \subseteq flying[k]
        BY <1>1 DEF CallsInv, CallsTyped
    <1>3. /\ context' \in [Callers -> [trace : 0..LastTurn, depth : Nat, budget : 0..LastTurn]]
          /\ \A k \in Callers : context'[k].budget = context'[k].trace
        <2>1. CASE UNCHANGED context BY <2>1 DEF CallsInv, CallsTyped, BudgetInv
        <2>2. CASE Spawn(a)
            <3>1. PICK s \in Callers : context' = [context EXCEPT ![s] = ChildContext(context[a])]
                BY <2>2 DEF Spawn
            <3>2. /\ ChildContext(context[a]) \in [trace : 0..LastTurn, depth : Nat, budget : 0..LastTurn]
                  /\ ChildContext(context[a]).budget = context[a].budget
                  /\ ChildContext(context[a]).trace = context[a].trace
                <4>1. \A r \in [trace : 0..LastTurn, depth : Nat, budget : 0..LastTurn] :
                         /\ [r EXCEPT !.depth = @ + 1] \in [trace : 0..LastTurn, depth : Nat, budget : 0..LastTurn]
                         /\ [r EXCEPT !.depth = @ + 1].budget = r.budget /\ [r EXCEPT !.depth = @ + 1].trace = r.trace
                    OBVIOUS
                <4> QED BY <4>1 DEF ChildContext, CallsInv, CallsTyped
            <3> QED BY <3>1, <3>2 DEF CallsInv, CallsTyped, BudgetInv
        <2> QED BY <1>1, <2>1, <2>2
    <1> QED BY <1>1, <1>2, <1>3, ContextKept

\* Every step keeps the calls to their budgets and batches.
LEMMA CallsInvNext == ASSUME CallsInv, [CallsNext]_callVars PROVE CallsInv'
    <1> USE DEF quiet
    <1>0. queued \in [Callers -> Seq(ToolCallSet)] /\ waiting \in [Callers -> Seq(ToolCallSet)]
          /\ flying \in [Callers -> SUBSET ToolCallSet]
        BY DEF CallsInv, CallsTyped
    <1>1. ASSUME NEW t \in LoopTurns, BeginLoop(t) PROVE CallsInv'
        <2>1. context' = [context EXCEPT ![Loop] = TurnContext(t)] /\ UNCHANGED <<spent, queued, waiting, flying, executed>>
            BY <1>1 DEF BeginLoop
        <2>2. /\ TurnContext(t) \in [trace : 0..LastTurn, depth : Nat, budget : 0..LastTurn]
              /\ TurnContext(t).budget = TurnContext(t).trace
            BY CallsAssumption DEF TurnContext, LoopTurns
        <2>3. /\ context' \in [Callers -> [trace : 0..LastTurn, depth : Nat, budget : 0..LastTurn]]
              /\ \A k \in Callers : context'[k].budget = context'[k].trace
            BY <2>1, <2>2 DEF CallsInv, CallsTyped, BudgetInv
        <2> QED BY <1>0, <2>1, <2>3, ContextKept
    <1>2. ASSUME NEW t \in LoopTurns, TimeRunsOut(t) PROVE CallsInv' BY <1>0, <1>2, CallsKept DEF TimeRunsOut
    <1>3. ASSUME NEW a \in Callers, AskTools(a) PROVE CallsInv' BY <1>3, AskKeeps
    <1>4. ASSUME NEW a \in Callers, FinalAnswer(a) \/ ResultsIn(a) PROVE CallsInv'
        BY <1>0, <1>4, CallsKept DEF FinalAnswer, ResultsIn
    <1>5. ASSUME NEW a \in Callers, NextBatch(a) PROVE CallsInv' BY <1>5, BatchKeeps
    <1>6. ASSUME NEW a \in Callers, BlockLookup(a) PROVE CallsInv'
        <2>1. waiting[a] # <<>> /\ waiting' = [waiting EXCEPT ![a] = Tail(@)]
              /\ UNCHANGED <<context, spent, queued, flying, executed>>
            BY <1>6 DEF BlockLookup
        <2>2. Tail(waiting[a]) \in Seq(ToolCallSet) /\ ToSet(Tail(waiting[a])) \subseteq ToSet(waiting[a])
            BY <1>0, <2>1, HeadAndTail
        <2>3. /\ waiting' \in [Callers -> Seq(ToolCallSet)]
              /\ \A k \in Callers : ToSet(waiting'[k]) \subseteq ToSet(waiting[k])
            BY <1>0, <2>1, <2>2
        <2> QED BY <1>0, <2>1, <2>3, FewerKept DEF UnderWay
    <1>7. ASSUME NEW a \in Callers, Call(a) PROVE CallsInv' BY <1>7, CallKeeps
    <1>8. ASSUME NEW a \in Callers, Cancel(a) PROVE CallsInv'
        <2>1. <<>> \in Seq(ToolCallSet) /\ ToSet(<<>>) = {} BY DEF ToSet
        <2>2. queued' = [queued EXCEPT ![a] = <<>>] /\ waiting' = [waiting EXCEPT ![a] = <<>>]
              /\ flying' = [flying EXCEPT ![a] = {}] /\ UNCHANGED <<context, spent, executed>>
            BY <1>8 DEF Cancel
        <2>3. /\ queued' \in [Callers -> Seq(ToolCallSet)] /\ waiting' \in [Callers -> Seq(ToolCallSet)]
              /\ flying' \in [Callers -> SUBSET ToolCallSet]
            BY <1>0, <2>1, <2>2
        <2>4. \A k \in Callers : ToSet(waiting'[k]) \cup flying'[k] \subseteq UnderWay(k)
            BY <1>0, <2>1, <2>2 DEF UnderWay
        <2> QED BY <2>2, <2>3, <2>4, FewerKept
    <1>9. ASSUME NEW a \in Callers, NEW c \in flying[a], CallEnds(a, c) PROVE CallsInv' BY <1>9, CallEndKeeps
    <1>10. CASE UNCHANGED callVars BY <1>0, <1>10, CallsKept DEF callVars
    <1> QED BY <1>1, <1>2, <1>3, <1>4, <1>5, <1>6, <1>7, <1>8, <1>9, <1>10 DEF CallsNext

\* A turn and the subagents it began, those included that outlive it, together never have more
\* tools executed than a turn may; and a tool that is not safe beside others runs alone: for every
\* number of turns, subagents, answers and calls.
THEOREM LimitsKept == CallsSpec => []CallLimits
    <1>1. CallsInit => CallsInv
        <2> SUFFICES ASSUME CallsInit PROVE CallsInv OBVIOUS
        <2>1. <<>> \in Seq(ToolCallSet) /\ ToSet(<<>>) = {} BY DEF ToSet
        <2>2. CallsTyped BY <2>1, CallsAssumption DEF CallsInit, CallsTyped, NoContext
        <2>3. BudgetInv BY CallsAssumption DEF CallsInit, BudgetInv, NoContext, Purses
        <2>4. BatchInv BY <2>1 DEF CallsInit, BatchInv, UnderWay
        <2> QED BY <2>2, <2>3, <2>4 DEF CallsInv
    <1>2. CallsInv => CallLimits
        <2> SUFFICES ASSUME CallsInv PROVE CallLimits OBVIOUS
        <2>1. BudgetHolds BY CallsAssumption DEF CallsInv, BudgetInv, BudgetHolds, LoopTurns
        <2>2. \A k : ConcurrencySafe(k) => k \notin Exclusive \cup {"edit", "spawn", "missing"}
            BY DEF ConcurrencySafe, ReadOnly, Exclusive
        <2>3. RunsAlone BY <2>2 DEF CallsInv, BatchInv, UnderWay, RunsAlone
        <2> QED BY <2>1, <2>3 DEF CallLimits
    <1> QED BY <1>1, <1>2, CallsInvNext, PTL DEF CallsSpec

----------------------------------------------------------------------------
(* The files the tools read: when "unchanged since last read" is the truth, and what a patch    *)
(* that fails leaves.                                                                           *)

\* What is remembered of a file is what the last answer for its offset showed.
Remembered(f) ==
    \/ f \in raced
    \/ /\ readState[f].offset \in Lines
       /\ answers[<<f, readState[f].offset>>] = Shows(readState[f].hash, readState[f].offset)

FileTables ==
    /\ disk = [f \in Files |-> disk[f]] /\ readState = [f \in Files |-> readState[f]]
    /\ answers = [x \in Files \X Lines |-> answers[x]]
    /\ reading # Nowhere => reading.file \in Files /\ reading.offset \in Lines

\* Between the halves of a read, the table has the text that is about to be shown, and the file
\* holds it unless someone writes it.
HalfRead ==
    reading # Nowhere =>
        /\ readState[reading.file].offset = reading.offset /\ readState[reading.file].hash = reading.text
        /\ reading.file \in raced \/ disk[reading.file] = reading.text

ReadInv ==
    /\ FileTables /\ HalfRead
    /\ \A f \in Files : readState[f].dedup /\ (reading = Nowhere \/ reading.file # f) => Remembered(f)

\* Steps after which less is remembered, or as much, and no read is under way.
LEMMA WriteKeeps ==
    ASSUME ReadInv, reading = Nowhere, UNCHANGED <<reading, answers, raced>>, disk' = [f \in Files |-> disk'[f]],
           NEW S, RecordWrite(S) \/ UNCHANGED readState
    PROVE  ReadInv'
    <1>1. readState' = [f \in Files |-> readState'[f]]
        BY DEF RecordWrite, ReadInv, FileTables
    <1>2. \A f \in Files : readState'[f].dedup => readState'[f] = readState[f]
        BY DEF RecordWrite, NotRead, Recorded
    <1>3. FileTables' BY <1>1 DEF ReadInv, FileTables
    <1>4. HalfRead' BY DEF HalfRead
    <1>5. ASSUME NEW f \in Files, readState'[f].dedup PROVE Remembered(f)'
        <2>1. readState'[f] = readState[f] BY <1>2, <1>5
        <2>2. readState[f].dedup BY <1>5, <2>1
        <2>3. Remembered(f) BY <2>2 DEF ReadInv
        <2> QED BY <2>1, <2>3 DEF Remembered
    <1> QED BY <1>3, <1>4, <1>5 DEF ReadInv

\* The first half of a read is a stub, or the read is recorded.
LEMMA ReadTextKeeps ==
    ASSUME ReadInv, NEW f \in Files, NEW offset \in Lines, ReadText(f, offset)
    PROVE  ReadInv' /\ StubTrue'
    <1>1. reading = Nowhere /\ UNCHANGED <<disk, mtime, answers, raced>> BY DEF ReadText
    <1>2. CASE IsUnchanged(f, offset)
        <2>1. /\ stub' = [file |-> f, now |-> Shows(disk[f], offset), shown |-> answers[<<f, offset>>]]
              /\ UNCHANGED <<readState, reading>>
            BY <1>2 DEF ReadText
        <2>2. readState[f].dedup /\ readState[f].offset = offset /\ readState[f].hash = disk[f]
            BY <1>2 DEF IsUnchanged
        <2>3. Remembered(f) BY <1>1, <2>2 DEF ReadInv
        <2>4. StubTrue' BY <1>1, <2>1, <2>2, <2>3 DEF StubTrue, Remembered
        <2>5. ReadInv' BY <1>1, <2>1 DEF ReadInv, FileTables, HalfRead, Remembered
        <2> QED BY <2>4, <2>5
    <1>3. CASE ~IsUnchanged(f, offset)
        <2>1. /\ reading' = [file |-> f, offset |-> offset, text |-> disk[f]] /\ stub' = NoStub
              /\ readState' = [readState EXCEPT ![f] = Recorded(f, offset, TRUE)]
            BY <1>3 DEF ReadText, RecordRead
        <2>2. StubTrue' BY <2>1 DEF StubTrue, NoStub
        <2>3. /\ readState' = [g \in Files |-> readState'[g]] /\ \A g \in Files : g # f => readState'[g] = readState[g]
              /\ readState'[f] = Recorded(f, offset, TRUE)
            BY <2>1 DEF ReadInv, FileTables
        <2>4. readState'[f].offset = offset /\ readState'[f].hash = disk[f] BY <1>1, <2>3 DEF Recorded
        <2>5. reading'.file = f /\ reading'.offset = offset /\ reading'.text = disk[f] BY <2>1
        <2>6. reading' # Nowhere BY <2>5, EditAssumption DEF Nowhere
        <2>7. FileTables' BY <1>1, <2>3, <2>5 DEF ReadInv, FileTables
        <2>8. HalfRead' BY <1>1, <2>4, <2>5 DEF HalfRead
        <2>9. ASSUME NEW g \in Files, readState'[g].dedup, reading'.file # g PROVE Remembered(g)'
            <3>1. readState'[g] = readState[g] /\ readState[g].dedup BY <2>3, <2>5, <2>9
            <3>2. Remembered(g) BY <1>1, <3>1 DEF ReadInv
            <3> QED BY <1>1, <3>1, <3>2 DEF Remembered
        <2> QED BY <2>2, <2>6, <2>7, <2>8, <2>9 DEF ReadInv
    <1> QED BY <1>2, <1>3

\* The second half shows what was read, and records it once more.
LEMMA ReadEndKeeps == ASSUME ReadInv, ReadEnds PROVE ReadInv'
    <1> DEFINE f == reading.file
               o == reading.offset
    <1>1. /\ reading # Nowhere /\ reading' = Nowhere /\ UNCHANGED <<disk, raced>>
          /\ answers' = [answers EXCEPT ![<<f, o>>] = Shows(reading.text, o)]
          /\ UNCHANGED readState \/ readState' = [readState EXCEPT ![f] = Recorded(f, o, TRUE)]
        BY DEF ReadEnds, RecordRead
    <1>2. /\ f \in Files /\ o \in Lines /\ readState[f].offset = o /\ readState[f].hash = reading.text
          /\ f \in raced \/ disk[f] = reading.text
        BY <1>1 DEF ReadInv, FileTables, HalfRead
    <1> HIDE DEF f, o
    <1>3. /\ answers' = [x \in Files \X Lines |-> answers'[x]] /\ answers'[<<f, o>>] = Shows(reading.text, o)
          /\ \A g \in Files, x \in Lines : g # f => answers'[<<g, x>>] = answers[<<g, x>>]
        <2>1. <<f, o>> \in Files \X Lines BY <1>2
        <2>2. answers = [x \in Files \X Lines |-> answers[x]] BY DEF ReadInv, FileTables
        <2>3. answers' = [y \in Files \X Lines |-> IF y = <<f, o>> THEN Shows(reading.text, o) ELSE answers[y]]
            BY <1>1, <2>2
        <2>4. answers'[<<f, o>>] = Shows(reading.text, o) BY <2>1, <2>3
        <2>5. answers' = [x \in Files \X Lines |-> answers'[x]] BY <2>3
        <2>6. ASSUME NEW g \in Files, NEW x \in Lines, g # f PROVE answers'[<<g, x>>] = answers[<<g, x>>]
            BY <2>3, <2>6
        <2> QED BY <2>4, <2>5, <2>6
    <1>4. /\ readState' = [g \in Files |-> readState'[g]] /\ readState'[f].offset = o
          /\ readState'[f].hash = reading.text \/ f \in raced
          /\ \A g \in Files : g # f => readState'[g] = readState[g]
        <2>1. readState = [g \in Files |-> readState[g]] BY DEF ReadInv, FileTables
        <2>2. CASE UNCHANGED readState BY <1>2, <2>1, <2>2
        <2>3. CASE readState' = [readState EXCEPT ![f] = Recorded(f, o, TRUE)]
            <3>1. Recorded(f, o, TRUE).offset = o /\ Recorded(f, o, TRUE).hash = disk[f] BY <1>1 DEF Recorded
            <3>2. readState' = [g \in Files |-> IF g = f THEN Recorded(f, o, TRUE) ELSE readState[g]]
                BY <2>1, <2>3
            <3>3. readState'[f] = Recorded(f, o, TRUE) BY <1>2, <3>2
            <3>4. readState' = [g \in Files |-> readState'[g]] BY <3>2
            <3> QED BY <1>2, <3>1, <3>2, <3>3, <3>4
        <2> QED BY <1>1, <2>2, <2>3
    <1>5. FileTables' BY <1>1, <1>3, <1>4 DEF ReadInv, FileTables
    <1>6. HalfRead' BY <1>1 DEF HalfRead
    <1>7. ASSUME NEW g \in Files, readState'[g].dedup PROVE Remembered(g)'
        <2>1. CASE g = f BY <1>1, <1>2, <1>3, <1>4, <2>1 DEF Remembered
        <2>2. CASE g # f
            <3>1. readState'[g] = readState[g] /\ readState[g].dedup BY <1>4, <1>7, <2>2
            <3>2. Remembered(g) BY <2>2, <3>1 DEF ReadInv, f
            <3> QED BY <1>1, <1>3, <2>2, <3>1, <3>2 DEF Remembered
        <2> QED BY <2>1, <2>2
    <1> QED BY <1>5, <1>6, <1>7 DEF ReadInv

\* Someone else's edit is noted when it comes between the halves of a read of that file.
LEMMA EditKeeps == ASSUME ReadInv, NEW f \in Files, ExternalEdit(f) PROVE ReadInv'
    <1>1. UNCHANGED <<readState, reading, answers>> /\ Raced(f) BY DEF ExternalEdit
    <1>2. disk' = [g \in Files |-> disk'[g]] /\ \A g \in Files : g # f => disk'[g] = disk[g]
        <2>1. disk = [g \in Files |-> disk[g]] BY DEF ReadInv, FileTables
        <2>2. CASE UNCHANGED disk BY <2>1, <2>2
        <2>3. CASE \E text \in {NoFile, <<edits'>>} : disk' = [disk EXCEPT ![f] = text]
            BY <2>1, <2>3
        <2> QED BY <2>2, <2>3 DEF ExternalEdit
    <1>3. raced \subseteq raced' /\ (reading # Nowhere /\ reading.file = f => f \in raced') BY <1>1 DEF Raced
    <1>4. FileTables' BY <1>1, <1>2 DEF ReadInv, FileTables
    <1>5. HalfRead'
        <2> SUFFICES ASSUME reading # Nowhere PROVE reading.file \in raced' \/ disk'[reading.file] = reading.text
            BY <1>1 DEF ReadInv, HalfRead
        <2>1. reading.file \in Files /\ (reading.file \in raced \/ disk[reading.file] = reading.text)
            BY DEF ReadInv, FileTables, HalfRead
        <2> QED BY <1>2, <1>3, <2>1
    <1>6. ASSUME NEW g \in Files, Remembered(g) PROVE Remembered(g)' BY <1>1, <1>3, <1>6 DEF Remembered
    <1> QED BY <1>1, <1>4, <1>5, <1>6 DEF ReadInv

\* A patch, whatever its operations come to, writes files that are no read under way.
LEMMA PatchKeeps == ASSUME ReadInv, NEW ops, ApplyPatch(ops) PROVE ReadInv' /\ stub' = NoStub
    <1> DEFINE st == Staged(ops)
               backups == Backups(st)
    <1>1. reading = Nowhere /\ UNCHANGED <<reading, answers, raced>> /\ stub' = NoStub BY DEF ApplyPatch
    <1>2. disk = [f \in Files |-> disk[f]] BY DEF ReadInv, FileTables
    <1>3. CASE ~st.ok /\ UNCHANGED <<disk, readState>>
        BY <1>1, <1>2, <1>3, WriteKeeps
    <1>4. CASE disk' = Applied(st, st.deletes, DOMAIN st.writes) /\ RecordWrite(DOMAIN backups)
        <2>1. disk' = [f \in Files |-> disk'[f]] BY <1>4 DEF Applied
        <2> QED BY <1>1, <1>4, <2>1, WriteKeeps
    <1>5. CASE \E gone \in SUBSET st.deletes, put \in SUBSET DOMAIN st.writes :
                   disk' = RestoredTo(Applied(st, gone, put), backups) /\ UNCHANGED readState
        <2>1. disk' = [f \in Files |-> disk'[f]] BY <1>5 DEF RestoredTo
        <2> QED BY <1>1, <1>5, <2>1, WriteKeeps
    <1>6. \/ ~st.ok /\ UNCHANGED <<disk, readState>>
          \/ disk' = Applied(st, st.deletes, DOMAIN st.writes) /\ RecordWrite(DOMAIN backups)
          \/ \E gone \in SUBSET st.deletes, put \in SUBSET DOMAIN st.writes :
                 disk' = RestoredTo(Applied(st, gone, put), backups) /\ UNCHANGED readState
        BY DEF ApplyPatch
    <1> QED BY <1>1, <1>3, <1>4, <1>5, <1>6

\* Every step keeps what the readings rest on, and gives no stub that is not true.
LEMMA ReadInvNext == ASSUME ReadInv, StubTrue, [FileNext]_fileVars PROVE ReadInv' /\ StubTrue'
    <1>1. stub' = NoStub => StubTrue' BY DEF StubTrue, NoStub
    <1>2. disk = [f \in Files |-> disk[f]] BY DEF ReadInv, FileTables
    <1>3. ASSUME NEW f \in Files, WriteFile(f) PROVE ReadInv' /\ StubTrue'
        <2>1. /\ reading = Nowhere /\ UNCHANGED <<reading, answers, raced>> /\ stub' = NoStub /\ RecordWrite({f})
              /\ disk' = [disk EXCEPT ![f] = <<edits'>>]
            BY <1>3 DEF WriteFile, Put, NothingElse
        <2>2. disk' = [g \in Files |-> disk'[g]] BY <1>2, <2>1
        <2> QED BY <1>1, <2>1, <2>2, WriteKeeps
    <1>4. ASSUME NEW f \in Files, EditFile(f) PROVE ReadInv' /\ StubTrue'
        <2>1. /\ reading = Nowhere /\ UNCHANGED <<reading, answers, raced>> /\ stub' = NoStub /\ RecordWrite({f})
              /\ \E text : disk' = [disk EXCEPT ![f] = text]
            BY <1>4 DEF EditFile, Put, NothingElse
        <2>2. disk' = [g \in Files |-> disk'[g]] BY <1>2, <2>1
        <2> QED BY <1>1, <2>1, <2>2, WriteKeeps
    <1>5. ASSUME NEW f \in Files, NotebookEdit(f) PROVE ReadInv' /\ StubTrue'
        <2>1. /\ reading = Nowhere /\ UNCHANGED <<reading, answers, raced>> /\ stub' = NoStub /\ UNCHANGED readState
              /\ \E text : disk' = [disk EXCEPT ![f] = text]
            BY <1>5 DEF NotebookEdit, Put, NothingElse
        <2>2. disk' = [g \in Files |-> disk'[g]] BY <1>2, <2>1
        <2> QED BY <1>1, <2>1, <2>2, WriteKeeps
    <1>6. ASSUME NEW f \in Files, ExternalEdit(f) PROVE ReadInv' /\ StubTrue'
        BY <1>1, <1>6, EditKeeps DEF ExternalEdit, NothingElse
    <1>7. ASSUME NEW f \in Files, NEW offset \in Lines, ReadText(f, offset) PROVE ReadInv' /\ StubTrue'
        BY <1>7, ReadTextKeeps
    <1>8. CASE ReadEnds BY <1>1, <1>8, ReadEndKeeps DEF ReadEnds, NothingElse
    <1>9. ASSUME NEW ops \in Patches, ApplyPatch(ops) PROVE ReadInv' /\ StubTrue'
        BY <1>1, <1>9, PatchKeeps
    <1>10. CASE UNCHANGED fileVars
        BY <1>10 DEF fileVars, ReadInv, FileTables, HalfRead, Remembered, StubTrue
    <1> QED BY <1>3, <1>4, <1>5, <1>6, <1>7, <1>8, <1>9, <1>10 DEF FileNext

\* Nothing is remembered of any file at first.
LEMMA ReadInvInit == FileInit => ReadInv /\ StubTrue
    <1> SUFFICES ASSUME FileInit PROVE ReadInv /\ StubTrue OBVIOUS
    <1>1. FileTables BY DEF FileInit, FileTables
    <1>2. HalfRead BY DEF FileInit, HalfRead
    <1>3. StubTrue BY DEF FileInit, StubTrue, NoStub
    <1>4. \A f \in Files : ~readState[f].dedup BY DEF FileInit, NotRead
    <1> QED BY <1>1, <1>2, <1>3, <1>4 DEF ReadInv

\* "Unchanged since last read" is only said when the lines are those of the last answer, unless
\* someone wrote the file in the middle of that read: for every number of files, edits and offsets.
THEOREM StubsTrue == FileSpec => []StubTrue
    <1> QED BY ReadInvInit, ReadInvNext, PTL DEF FileSpec

\* A patch that fails, refused or in the middle of its writes, leaves every file as it was.
FailureRestores == patched.failed => patched.after = patched.before

\* No step breaks that: what a failing patch wrote or deleted is in its backups.
LEMMA FailureRestoresNext ==
    ASSUME disk = [f \in Files |-> disk[f]], FailureRestores, [FileNext]_fileVars
    PROVE  FailureRestores'
    <1>1. patched' = NoPatch => FailureRestores' BY DEF FailureRestores, NoPatch
    <1>2. ASSUME NEW ops \in Patches, ApplyPatch(ops) PROVE FailureRestores'
        <2> DEFINE st == Staged(ops)
                   backups == Backups(st)
        <2>1. CASE UNCHANGED disk /\ patched' = Outcome(ops, TRUE)
            BY <2>1 DEF Outcome, FailureRestores
        <2>2. CASE patched' = Outcome(ops, FALSE)
            BY <2>2 DEF Outcome, FailureRestores
        <2>3. ASSUME NEW gone \in SUBSET st.deletes, NEW put \in SUBSET DOMAIN st.writes,
                     disk' = RestoredTo(Applied(st, gone, put), backups), patched' = Outcome(ops, TRUE)
              PROVE  FailureRestores'
            <3>1. \A f \in Files : f \notin DOMAIN backups => Applied(st, gone, put)[f] = disk[f]
                BY DEF Backups, Applied
            <3>2. \A f \in DOMAIN backups : backups[f] = disk[f] BY DEF Backups
            <3>3. disk' = [f \in Files |-> disk[f]] BY <2>3, <3>1, <3>2 DEF RestoredTo
            <3> QED BY <2>3, <3>3 DEF Outcome, FailureRestores
        <2> QED BY <1>2, <2>1, <2>2, <2>3 DEF ApplyPatch
    <1>3. (~\E ops \in Patches : ApplyPatch(ops)) /\ FileNext => patched' = NoPatch
        BY DEF FileNext, NothingElse, WriteFile, EditFile, NotebookEdit, ExternalEdit, ReadText, ReadEnds
    <1>4. CASE UNCHANGED fileVars BY <1>4 DEF fileVars, FailureRestores
    <1> QED BY <1>1, <1>2, <1>3, <1>4

\* A patch that fails restores every file, those it deleted and those it made: for every number of
\* files and operations, and wherever it fails.
THEOREM FailedPatchRestores == FileSpec => []FailureRestores
    <1>1. FileInit => FailureRestores BY DEF FileInit, FailureRestores, NoPatch
    <1>2. ReadInv => disk = [f \in Files |-> disk[f]] BY DEF ReadInv, FileTables
    <1> QED BY <1>1, <1>2, ReadInvInit, ReadInvNext, FailureRestoresNext, PTL DEF FileSpec

----------------------------------------------------------------------------
(* apply_patch: what is staged of the operations is what they come to one after the other. *)

\* What is staged: texts by file, files to delete.
Texts == UNION {[S -> Seq(Nat)] : S \in SUBSET Files}
StageStates == [writes : Texts, deletes : SUBSET Files, ok : BOOLEAN]
TreeStates == [tree : [Files -> Seq(Nat)], ok : BOOLEAN]

FilesTyped == disk \in [Files -> Seq(Nat)] /\ edits \in Nat

\* A file that an operation takes away is where its path was.
Takes(op) == op.kind = "delete" \/ op.to # op.path

\* Staged so far and carried out so far are the same files, unless the patch is refused.
SameSoFar(s, t) ==
    s.ok =>
        /\ t.ok /\ DOMAIN s.writes \cap s.deletes = {}
        /\ \A f \in DOMAIN s.writes : s.writes[f] # NoFile
        /\ \A f \in Files : t.tree[f] = IF f \in DOMAIN s.writes THEN s.writes[f]
                                        ELSE IF f \in s.deletes THEN NoFile ELSE disk[f]

\* A text more, a text less.
LEMMA OneMore ==
    ASSUME NEW w \in Texts, NEW f \in Files, NEW text \in Seq(Nat)
    PROVE  /\ With(w, f, text) \in Texts /\ DOMAIN With(w, f, text) = DOMAIN w \cup {f}
           /\ With(w, f, text)[f] = text
           /\ \A g \in DOMAIN w : g # f => With(w, f, text)[g] = w[g]
    <1>1. PICK S \in SUBSET Files : w \in [S -> Seq(Nat)] BY DEF Texts
    <1>2. With(w, f, text) \in [S \cup {f} -> Seq(Nat)] BY <1>1 DEF With
    <1>3. S \cup {f} \in SUBSET Files OBVIOUS
    <1>4. With(w, f, text) \in Texts BY <1>2, <1>3 DEF Texts
    <1> QED BY <1>1, <1>4 DEF With

LEMMA OneLess ==
    ASSUME NEW w \in Texts, NEW f
    PROVE  /\ Less(w, f) \in Texts /\ DOMAIN Less(w, f) = DOMAIN w \ {f}
           /\ \A g \in DOMAIN w : g # f => Less(w, f)[g] = w[g]
    <1>1. PICK S \in SUBSET Files : w \in [S -> Seq(Nat)] BY DEF Texts
    <1>2. Less(w, f) \in [S \ {f} -> Seq(Nat)] BY <1>1 DEF Less
    <1>3. S \ {f} \in SUBSET Files OBVIOUS
    <1>4. Less(w, f) \in Texts BY <1>2, <1>3 DEF Texts
    <1> QED BY <1>1, <1>4 DEF Less

\* An edit makes no file empty.
LEMMA AppendedIs ==
    ASSUME NEW text \in Seq(Nat), NEW e \in Nat
    PROVE  Append(text, e) \in Seq(Nat) /\ Append(text, e) # NoFile /\ <<e>> = Append(NoFile, e)
    <1>1. Append(text, e) \in Seq(Nat) /\ Len(Append(text, e)) = Len(text) + 1 /\ Len(text) \in Nat OBVIOUS
    <1>2. Len(NoFile) = 0 BY DEF NoFile
    <1>3. <<e>> = Append(NoFile, e) BY DEF NoFile
    <1> QED BY <1>1, <1>2, <1>3

\* One operation, staged and carried out.
LEMMA StageStep ==
    ASSUME FilesTyped, NEW s \in StageStates, NEW t \in TreeStates, NEW op \in Ops
    PROVE  /\ Stage(s, op) \in StageStates /\ CarriedOut(t, op, edits + 1) \in TreeStates
           /\ Stage(s, op).ok => s.ok
           /\ Stage(s, op).ok => Stage(s, op).deletes \subseteq s.deletes \cup (IF Takes(op) THEN {op.path} ELSE {})
           /\ SameSoFar(s, t) /\ {op.path, op.to} \cap s.deletes = {} =>
                 SameSoFar(Stage(s, op), CarriedOut(t, op, edits + 1))
    <1> DEFINE e == edits + 1
               u == CarriedOut(t, op, e)
               r == Stage(s, op)
    <1>1. /\ op.path \in Files /\ op.to \in Files /\ op.kind \in {"add", "delete", "update"}
          /\ op.kind # "update" => op.to = op.path
        BY DEF Ops, Add, Delete, Update
    <1>2. PICK S \in SUBSET Files : s.writes \in [S -> Seq(Nat)] BY DEF StageStates, Texts
    <1>3. s.writes \in Texts /\ s.deletes \in SUBSET Files /\ s.ok \in BOOLEAN /\ DOMAIN s.writes = S BY <1>2 DEF StageStates
    <1>4. e \in Nat /\ NoFile \in Seq(Nat) BY DEF FilesTyped, NoFile
    <1>5. t.tree \in [Files -> Seq(Nat)] /\ t.ok \in BOOLEAN BY DEF TreeStates
    <1>6. disk \in [Files -> Seq(Nat)] BY DEF FilesTyped
    <1>7. TextOf(s, op.path) \in Seq(Nat) BY <1>1, <1>2, <1>3, <1>6 DEF TextOf, Pending
    <1> HIDE DEF e
    <1>8. /\ Append(t.tree[op.path], e) \in Seq(Nat) /\ Append(TextOf(s, op.path), e) \in Seq(Nat)
          /\ Append(TextOf(s, op.path), e) # NoFile /\ <<e>> = Append(NoFile, e) /\ <<e>> \in Seq(Nat) /\ <<e>> # NoFile
        BY <1>1, <1>4, <1>5, <1>7, AppendedIs
    <1> DEFINE old == t.tree[op.path]
               new == IF op.kind = "delete" THEN NoFile ELSE Append(old, e)
    <1>9. /\ u.tree = [f \in Files |-> IF f = op.to THEN new ELSE IF f = op.path THEN NoFile ELSE t.tree[f]]
          /\ u.ok = (/\ t.ok /\ (op.kind = "add" <=> old = NoFile) /\ (op.to # op.path => t.tree[op.to] = NoFile))
          /\ u = [tree |-> u.tree, ok |-> u.ok]
        BY DEF CarriedOut
    <1>10. new \in Seq(Nat) BY <1>4, <1>8
    <1>11. u \in TreeStates
        <2> HIDE DEF u, new, old
        <2>1. u.tree \in [Files -> Seq(Nat)] BY <1>4, <1>5, <1>9, <1>10
        <2>2. u.ok \in BOOLEAN BY <1>9
        <2> QED BY <1>9, <2>1, <2>2 DEF TreeStates
    <1> HIDE DEF u, r
    <1>12. CASE ~s.ok
        <2>1. r = s BY <1>12 DEF r, Stage
        <2> QED BY <1>11, <1>12, <2>1 DEF SameSoFar, r, u, e
    <1>13. CASE s.ok /\ op.kind = "add"
        <2>1. r = StageAdd(s, op) BY <1>13 DEF r, Stage
        <2> DEFINE w == With(s.writes, op.path, <<e>>)
        <2>2. /\ w \in Texts /\ DOMAIN w = S \cup {op.path}
              /\ w[op.path] = <<e>> /\ \A g \in S : g # op.path => w[g] = s.writes[g]
            <3> DEFINE one == <<e>>
                       texts == s.writes
                       f == op.path
                       more == With(texts, f, one)
            <3>1. one \in Seq(Nat) /\ texts \in Texts /\ f \in Files BY <1>1, <1>3, <1>8
            <3>2. w = more OBVIOUS
            <3> HIDE DEF one, texts, f, w
            <3>3. /\ more \in Texts /\ DOMAIN more = DOMAIN texts \cup {f} /\ more[f] = one
                  /\ \A g \in DOMAIN texts : g # f => more[g] = texts[g]
                BY <3>1, OneMore
            <3> HIDE DEF more
            <3> QED BY <1>3, <3>2, <3>3 DEF one, texts, f
        <2>3. CASE There(s, op.path)
            <3>1. r = [s EXCEPT !.ok = FALSE] BY <2>1, <2>3 DEF StageAdd, Refused
            <3>2. r.ok = FALSE /\ r \in StageStates BY <3>1 DEF StageStates
            <3> QED BY <1>11, <3>2 DEF SameSoFar, r, u, e
        <2>4. CASE ~There(s, op.path)
            <3>1. r = [s EXCEPT !.writes = w, !.deletes = s.deletes \ {op.path}] BY <2>1, <2>4 DEF StageAdd, e
            <3> HIDE DEF w
            <3>2. r.writes = w /\ r.deletes = s.deletes \ {op.path} /\ r.ok = s.ok /\ r \in StageStates
                BY <1>3, <2>2, <3>1 DEF StageStates
            <3>3. op.path \notin S /\ disk[op.path] = NoFile BY <1>3, <2>4 DEF There, Pending
            <3>4. ASSUME SameSoFar(s, t), op.path \notin s.deletes PROVE SameSoFar(r, u)
                <4>1. old = NoFile /\ t.ok BY <1>1, <1>3, <1>13, <3>3, <3>4 DEF SameSoFar
                <4>2. new = <<e>> BY <1>8, <1>13, <4>1
                <4>3. u.ok BY <1>1, <1>9, <1>13, <4>1
                <4> HIDE DEF new, old
                <4>4. \A f \in Files : u.tree[f] = IF f = op.path THEN <<e>> ELSE t.tree[f]
                    BY <1>1, <1>9, <1>13, <4>2
                <4>5. DOMAIN r.writes \cap r.deletes = {} /\ \A f \in DOMAIN r.writes : r.writes[f] # NoFile
                    BY <1>3, <1>8, <1>13, <2>2, <3>2, <3>4 DEF SameSoFar
                <4>6. \A f \in Files : u.tree[f] = IF f \in DOMAIN r.writes THEN r.writes[f]
                                               ELSE IF f \in r.deletes THEN NoFile ELSE disk[f]
                    BY <1>3, <1>13, <2>2, <3>2, <3>4, <4>4 DEF SameSoFar
                <4> QED BY <4>3, <4>5, <4>6 DEF SameSoFar
            <3> QED BY <1>11, <1>13, <3>2, <3>4 DEF r, u, e
        <2> QED BY <2>3, <2>4
    <1>14. CASE s.ok /\ op.kind = "delete"
        <2>1. r = StageDelete(s, op) BY <1>14 DEF r, Stage
        <2> DEFINE w == Less(s.writes, op.path)
        <2>2. /\ w \in Texts /\ DOMAIN w = S \ {op.path}
              /\ \A g \in S : g # op.path => w[g] = s.writes[g]
            BY <1>3, OneLess
        <2>3. CASE ~There(s, op.path)
            <3>1. r = [s EXCEPT !.ok = FALSE] BY <2>1, <2>3 DEF StageDelete, Refused
            <3>2. r.ok = FALSE /\ r \in StageStates BY <3>1 DEF StageStates
            <3> QED BY <1>11, <3>2 DEF SameSoFar, r, u, e
        <2>4. CASE There(s, op.path)
            <3>1. r = [s EXCEPT !.writes = w, !.deletes = s.deletes \cup {op.path}] BY <2>1, <2>4 DEF StageDelete
            <3> HIDE DEF w
            <3>2. r.writes = w /\ r.deletes = s.deletes \cup {op.path} /\ r.ok = s.ok /\ r \in StageStates
                BY <1>1, <1>3, <2>2, <3>1 DEF StageStates
            <3>3. op.path \in S \/ disk[op.path] # NoFile BY <1>3, <2>4 DEF There, Pending
            <3>4. ASSUME SameSoFar(s, t), op.path \notin s.deletes PROVE SameSoFar(r, u)
                <4>1. old # NoFile /\ t.ok BY <1>1, <1>3, <1>14, <3>3, <3>4 DEF SameSoFar
                <4>2. new = NoFile /\ u.ok BY <1>1, <1>9, <1>14, <4>1
                <4> HIDE DEF new, old
                <4>3. \A f \in Files : u.tree[f] = IF f = op.path THEN NoFile ELSE t.tree[f]
                    BY <1>1, <1>9, <1>14, <4>2
                <4> QED BY <1>1, <1>3, <1>14, <2>2, <3>2, <3>4, <4>2, <4>3 DEF SameSoFar
            <3>5. Takes(op) BY <1>14 DEF Takes
            <3> QED BY <1>11, <1>14, <3>2, <3>4, <3>5 DEF r, u, e
        <2> QED BY <2>3, <2>4
    <1>15. CASE s.ok /\ op.kind = "update"
        <2>1. r = StageUpdate(s, op) BY <1>15 DEF r, Stage
        <2> DEFINE text == Append(TextOf(s, op.path), e)
                   w == With(s.writes, op.to, text)
                   D == S \cup {op.to}
                   v == Less(w, op.path)
        <2>2. /\ w \in Texts /\ DOMAIN w = D
              /\ w[op.to] = text /\ \A g \in S : g # op.to => w[g] = s.writes[g]
            <3> DEFINE texts == s.writes
                       f == op.to
                       more == With(texts, f, text)
            <3>1. text \in Seq(Nat) /\ texts \in Texts /\ f \in Files BY <1>1, <1>3, <1>8
            <3>2. w = more OBVIOUS
            <3> HIDE DEF text, texts, f, w
            <3>3. /\ more \in Texts /\ DOMAIN more = DOMAIN texts \cup {f} /\ more[f] = text
                  /\ \A g \in DOMAIN texts : g # f => more[g] = texts[g]
                BY <3>1, OneMore
            <3> HIDE DEF more
            <3> QED BY <1>3, <3>2, <3>3 DEF texts, f
        <2>3. w = With(s.writes, op.to, ApplyHunks(TextOf(s, op.path))) BY DEF ApplyHunks, e
        <2>4. text # NoFile BY <1>8
        <2> HIDE DEF w, D
        <2>5. /\ v \in Texts /\ DOMAIN v = D \ {op.path}
              /\ \A g \in D : g # op.path => v[g] = w[g]
            BY <2>2, OneLess
        <2>6. ASSUME SameSoFar(s, t), op.path \notin s.deletes, There(s, op.path)
              PROVE  t.ok /\ old = TextOf(s, op.path) /\ old # NoFile /\ new = text
            <3>1. op.path \in S \/ disk[op.path] # NoFile BY <1>3, <2>6 DEF There, Pending
            <3>2. t.ok /\ old = TextOf(s, op.path) /\ old # NoFile
                BY <1>1, <1>3, <1>15, <2>6, <3>1 DEF SameSoFar, TextOf, Pending
            <3> QED BY <1>15, <3>2
        <2> HIDE DEF text, v
        <2>7. CASE ~There(s, op.path) \/ (op.to # op.path /\ There(s, op.to))
            <3>1. r = [s EXCEPT !.ok = FALSE] BY <2>1, <2>7 DEF StageUpdate, Refused
            <3>2. r.ok = FALSE /\ r \in StageStates BY <3>1 DEF StageStates
            <3> QED BY <1>11, <3>2 DEF SameSoFar, r, u, e
        <2>8. CASE There(s, op.path) /\ op.to # op.path /\ ~There(s, op.to)
            <3>1. r = [s EXCEPT !.writes = v, !.deletes = (s.deletes \ {op.to}) \cup {op.path}]
                BY <2>1, <2>3, <2>8 DEF StageUpdate, v
            <3>2. r.writes = v /\ r.deletes = (s.deletes \ {op.to}) \cup {op.path} /\ r.ok = s.ok /\ r \in StageStates
                BY <1>1, <1>3, <2>5, <3>1 DEF StageStates
            <3>3. op.to \notin S /\ disk[op.to] = NoFile BY <1>3, <2>8 DEF There, Pending
            <3>4. ASSUME SameSoFar(s, t), op.path \notin s.deletes, op.to \notin s.deletes PROVE SameSoFar(r, u)
                <4>1. t.ok /\ old # NoFile /\ new = text BY <2>6, <2>8, <3>4
                <4>2. t.tree[op.to] = NoFile BY <1>1, <1>3, <1>15, <3>3, <3>4 DEF SameSoFar
                <4>3. u.ok BY <1>9, <1>15, <4>1, <4>2
                <4> HIDE DEF new, old
                <4>4. \A f \in Files : u.tree[f] = IF f = op.to THEN text ELSE IF f = op.path THEN NoFile ELSE t.tree[f]
                    BY <1>9, <4>1
                <4>5. \A f \in D : f \in S \/ f = op.to BY DEF D
                <4>6. \A f \in S : f \in D BY DEF D
                <4>7. op.to \in D BY DEF D
                <4>8. DOMAIN r.writes \cap r.deletes = {} /\ \A f \in DOMAIN r.writes : r.writes[f] # NoFile
                    <5>1. DOMAIN s.writes \cap s.deletes = {} /\ \A f \in S : s.writes[f] # NoFile
                        BY <1>3, <1>15, <3>4 DEF SameSoFar
                    <5>2. \A f \in DOMAIN r.writes : f \in D /\ f # op.path /\ r.writes[f] = w[f] BY <2>2, <2>5, <3>2
                    <5>3. \A f \in DOMAIN r.writes : f \notin r.deletes BY <1>3, <3>2, <4>5, <5>1, <5>2
                    <5> QED BY <2>2, <2>4, <4>5, <5>1, <5>2, <5>3
                <4>9. \A f \in Files : u.tree[f] = IF f \in DOMAIN r.writes THEN r.writes[f]
                                               ELSE IF f \in r.deletes THEN NoFile ELSE disk[f]
                    <5> SUFFICES ASSUME NEW f \in Files
                                 PROVE  u.tree[f] = IF f \in DOMAIN r.writes THEN r.writes[f]
                                                    ELSE IF f \in r.deletes THEN NoFile ELSE disk[f]
                        OBVIOUS
                    <5>1. CASE f = op.to BY <2>2, <2>5, <2>8, <3>2, <4>4, <4>7, <5>1
                    <5>2. CASE f = op.path BY <2>2, <2>5, <2>8, <3>2, <4>4, <5>2
                    <5>3. CASE f # op.to /\ f # op.path
                        <6>1. f \in D <=> f \in S BY <4>5, <4>6, <5>3
                        <6>2. f \in S => r.writes[f] = s.writes[f] BY <2>2, <2>5, <3>2, <5>3, <6>1
                        <6> QED BY <1>3, <1>15, <2>5, <3>2, <3>4, <4>4, <5>3, <6>1, <6>2 DEF SameSoFar
                    <5> QED BY <5>1, <5>2, <5>3
                <4> QED BY <4>3, <4>8, <4>9 DEF SameSoFar
            <3>5. Takes(op) BY <2>8 DEF Takes
            <3> QED BY <1>11, <1>15, <3>2, <3>4, <3>5 DEF r, u, e
        <2>9. CASE There(s, op.path) /\ op.to = op.path
            <3>1. r = [s EXCEPT !.writes = w, !.deletes = s.deletes \ {op.to}]
                BY <2>1, <2>3, <2>9 DEF StageUpdate
            <3>2. r.writes = w /\ r.deletes = s.deletes \ {op.to} /\ r.ok = s.ok /\ r \in StageStates
                BY <1>3, <2>2, <3>1 DEF StageStates
            <3>3. ASSUME SameSoFar(s, t), op.path \notin s.deletes PROVE SameSoFar(r, u)
                <4>1. t.ok /\ old # NoFile /\ new = text BY <2>6, <2>9, <3>3
                <4>2. u.ok BY <1>9, <1>15, <2>9, <4>1
                <4> HIDE DEF new, old
                <4>3. \A f \in Files : u.tree[f] = IF f = op.to THEN text ELSE t.tree[f]
                    BY <1>9, <2>9, <4>1
                <4>4. \A f : f \in D <=> f \in S \/ f = op.to BY DEF D
                <4>5. DOMAIN r.writes \cap r.deletes = {} /\ \A f \in DOMAIN r.writes : r.writes[f] # NoFile
                    <5>1. DOMAIN s.writes \cap s.deletes = {} /\ \A f \in S : s.writes[f] # NoFile
                        BY <1>3, <1>15, <3>3 DEF SameSoFar
                    <5>2. \A f \in DOMAIN r.writes : f \notin r.deletes BY <1>3, <2>2, <3>2, <4>4, <5>1
                    <5> QED BY <2>2, <2>4, <3>2, <4>4, <5>1, <5>2
                <4>6. \A f \in Files : u.tree[f] = IF f \in DOMAIN r.writes THEN r.writes[f]
                                               ELSE IF f \in r.deletes THEN NoFile ELSE disk[f]
                    BY <1>3, <1>15, <2>2, <3>2, <3>3, <4>3, <4>4 DEF SameSoFar
                <4> QED BY <4>2, <4>5, <4>6 DEF SameSoFar
            <3> QED BY <1>11, <1>15, <3>2, <3>3 DEF r, u, e
        <2> QED BY <2>7, <2>8, <2>9
    <1> QED BY <1>1, <1>12, <1>13, <1>14, <1>15, <1>3

\* The operations of a patch are finitely many.
LEMMA PatchIs ==
    ASSUME NEW ops \in Patches
    PROVE  ops \in Seq(Ops) /\ Len(ops) \in Nat /\ DOMAIN ops = 1..Len(ops) /\ \A i \in 1..Len(ops) : ops[i] \in Ops
    <1>1. PICK n \in 1..MaxOps : ops \in [1..n -> Ops] BY DEF Patches
    <1>2. n \in Nat BY <1>1, EditAssumption
    <1>3. ops \in Seq(Ops) /\ Len(ops) = n BY <1>1, <1>2
    <1> QED BY <1>1, <1>2, <1>3

\* What is staged after each operation.
StagedAfter(after, ops) ==
    /\ after \in [0..Len(ops) -> StageStates] /\ after[0] = NothingStaged
    /\ \A i \in 1..Len(ops) : after[i] = Stage(after[i - 1], ops[i])

LEMMA StagedDefined ==
    ASSUME FilesTyped, NEW ops \in Patches
    PROVE  \E after : StagedAfter(after, ops) /\ Staged(ops) = after[Len(ops)]
    <1> DEFINE n == Len(ops)
               Round(after, i) == IF i = 0 THEN NothingStaged ELSE Stage(after[i - 1], ops[i])
               move == [i \in 1..n |-> [x \in StageStates |-> Stage(x, ops[i])]]
    <1>1. n \in Nat /\ \A i \in 1..n : ops[i] \in Ops BY PatchIs
    <1>2. NothingStaged \in StageStates
        <2>1. [f \in {} |-> NoFile] \in [{} -> Seq(Nat)] OBVIOUS
        <2>2. {} \in SUBSET Files OBVIOUS
        <2>3. [f \in {} |-> NoFile] \in Texts BY <2>1, <2>2 DEF Texts
        <2> QED BY <2>3 DEF NothingStaged, StageStates
    <1>3. \A i \in 1..n : \A x \in StageStates : Stage(x, ops[i]) \in StageStates
        <2>1. [tree |-> disk, ok |-> TRUE] \in TreeStates BY DEF FilesTyped, TreeStates
        <2> QED BY <1>1, <2>1, StageStep
    <1>4. move \in [1..n -> [StageStates -> StageStates]] BY <1>3
    <1>5. \A i \in 1..n : \A x \in StageStates : move[i][x] = Stage(x, ops[i]) OBVIOUS
    <1> HIDE DEF move, n
    <1>6. PICK g : LoopOf(g, StageStates, NothingStaged, n, move) BY <1>1, <1>2, <1>4, LoopDefined
    <1>7. g \in [0..n -> StageStates] /\ g[0] = NothingStaged /\ \A i \in 1..n : g[i] = Stage(g[i - 1], ops[i])
        <2>1. g \in [0..n -> StageStates] /\ g[0] = NothingStaged /\ \A i \in 1..n : g[i] = move[i][g[i - 1]]
            BY <1>6 DEF LoopOf
        <2>2. \A i \in 1..n : i - 1 \in 0..n BY <1>1
        <2> QED BY <1>5, <2>1, <2>2
    <1>8. g = [i \in 0..n |-> Round(g, i)]
        <2>1. \A i \in 0..n : i = 0 \/ i \in 1..n BY <1>1
        <2>2. \A i \in 0..n : g[i] = Round(g, i) BY <1>1, <1>7, <2>1
        <2> HIDE DEF Round
        <2> QED BY <1>7, <2>2
    <1> DEFINE after == CHOOSE h : h = [i \in 0..n |-> Round(h, i)]
    <1>9. after = [i \in 0..n |-> Round(after, i)]
        <2> HIDE DEF Round
        <2> QED BY <1>8
    <1>10. Staged(ops) = after[n] BY DEF Staged, n
    <1> HIDE DEF after
    <1>11. \A i \in 0..n : after[i] = Round(after, i) BY <1>9
    <1> DEFINE Off == {i \in 0..n : after[i] # g[i]}
    <1>12. Off = {}
        <2> SUFFICES ASSUME Off # {} PROVE FALSE OBVIOUS
        <2>1. PICK i \in Off : \A j \in Off : i <= j
            <3>1. Off \in SUBSET Nat BY <1>1
            <3> HIDE DEF Off
            <3> QED BY <3>1, LeastNumber
        <2>2. i \in 0..n /\ after[i] # g[i] BY <2>1
        <2>3. CASE i = 0 BY <1>1, <1>7, <1>11, <2>2, <2>3
        <2>4. CASE i # 0
            <3>1. i - 1 \in 0..n /\ i \in 1..n /\ ~(i <= i - 1) BY <1>1, <2>2, <2>4
            <3>2. after[i - 1] = g[i - 1] BY <2>1, <3>1
            <3> QED BY <1>7, <1>11, <2>2, <2>4, <3>1, <3>2
        <2> QED BY <2>3, <2>4
    <1>13. n \in 0..n BY <1>1
    <1>14. Staged(ops) = g[n] BY <1>10, <1>12, <1>13
    <1> QED BY <1>7, <1>14 DEF StagedAfter, n

\* What the operations have come to after each of them.
CarriedAfter(after, before, ops, e) ==
    /\ after \in [0..Len(ops) -> TreeStates] /\ after[0] = [tree |-> before, ok |-> TRUE]
    /\ \A i \in 1..Len(ops) : after[i] = CarriedOut(after[i - 1], ops[i], e)

LEMMA CarriedDefined ==
    ASSUME NEW before \in [Files -> Seq(Nat)], NEW e \in Nat, NEW ops \in Patches
    PROVE  \E after : CarriedAfter(after, before, ops, e) /\ InOrder(before, ops, e) = after[Len(ops)]
    <1> DEFINE n == Len(ops)
               start == [tree |-> before, ok |-> TRUE]
               Round(after, i) == IF i = 0 THEN start ELSE CarriedOut(after[i - 1], ops[i], e)
               move == [i \in 1..n |-> [x \in TreeStates |-> CarriedOut(x, ops[i], e)]]
    <1>1. n \in Nat /\ \A i \in 1..n : ops[i] \in Ops BY PatchIs
    <1>2. start \in TreeStates BY DEF TreeStates
    <1>3. ASSUME NEW i \in 1..n, NEW x \in TreeStates PROVE CarriedOut(x, ops[i], e) \in TreeStates
        <2> DEFINE op == ops[i]
                   old == x.tree[op.path]
                   new == IF op.kind = "delete" THEN NoFile ELSE Append(old, e)
                   tree == [f \in Files |-> IF f = op.to THEN new ELSE IF f = op.path THEN NoFile ELSE x.tree[f]]
                   ok == /\ x.ok /\ (op.kind = "add" <=> old = NoFile)
                         /\ op.to # op.path => x.tree[op.to] = NoFile
        <2>1. op.path \in Files BY <1>1 DEF Ops, Add, Delete, Update
        <2>2. x.tree \in [Files -> Seq(Nat)] /\ NoFile \in Seq(Nat) BY DEF TreeStates, NoFile
        <2>3. CarriedOut(x, ops[i], e) = [tree |-> tree, ok |-> ok] BY DEF CarriedOut
        <2> HIDE DEF op
        <2>4. new \in Seq(Nat) BY <2>1, <2>2
        <2> HIDE DEF new
        <2>5. tree \in [Files -> Seq(Nat)] BY <2>2, <2>4
        <2>6. ok \in BOOLEAN OBVIOUS
        <2> HIDE DEF tree, ok
        <2> QED BY <2>3, <2>5, <2>6 DEF TreeStates
    <1>4. move \in [1..n -> [TreeStates -> TreeStates]] BY <1>3
    <1>5. \A i \in 1..n : \A x \in TreeStates : move[i][x] = CarriedOut(x, ops[i], e) OBVIOUS
    <1> HIDE DEF move, n, start
    <1>6. PICK g : LoopOf(g, TreeStates, start, n, move) BY <1>1, <1>2, <1>4, LoopDefined
    <1>7. g \in [0..n -> TreeStates] /\ g[0] = start /\ \A i \in 1..n : g[i] = CarriedOut(g[i - 1], ops[i], e)
        <2>1. g \in [0..n -> TreeStates] /\ g[0] = start /\ \A i \in 1..n : g[i] = move[i][g[i - 1]]
            BY <1>6 DEF LoopOf
        <2>2. \A i \in 1..n : i - 1 \in 0..n BY <1>1
        <2> QED BY <1>5, <2>1, <2>2
    <1>8. g = [i \in 0..n |-> Round(g, i)]
        <2>1. \A i \in 0..n : i = 0 \/ i \in 1..n BY <1>1
        <2>2. \A i \in 0..n : g[i] = Round(g, i) BY <1>1, <1>7, <2>1
        <2> HIDE DEF Round
        <2> QED BY <1>7, <2>2
    <1> DEFINE after == CHOOSE h : h = [i \in 0..n |-> Round(h, i)]
    <1>9. after = [i \in 0..n |-> Round(after, i)]
        <2> HIDE DEF Round
        <2> QED BY <1>8
    <1>10. InOrder(before, ops, e) = after[n] BY DEF InOrder, n, start
    <1> HIDE DEF after
    <1>11. \A i \in 0..n : after[i] = Round(after, i) BY <1>9
    <1> DEFINE Off == {i \in 0..n : after[i] # g[i]}
    <1>12. Off = {}
        <2> SUFFICES ASSUME Off # {} PROVE FALSE OBVIOUS
        <2>1. PICK i \in Off : \A j \in Off : i <= j
            <3>1. Off \in SUBSET Nat BY <1>1
            <3> HIDE DEF Off
            <3> QED BY <3>1, LeastNumber
        <2>2. i \in 0..n /\ after[i] # g[i] BY <2>1
        <2>3. CASE i = 0 BY <1>1, <1>7, <1>11, <2>2, <2>3
        <2>4. CASE i # 0
            <3>1. i - 1 \in 0..n /\ i \in 1..n /\ ~(i <= i - 1) BY <1>1, <2>2, <2>4
            <3>2. after[i - 1] = g[i - 1] BY <2>1, <3>1
            <3> QED BY <1>7, <1>11, <2>2, <2>4, <3>1, <3>2
        <2> QED BY <2>3, <2>4
    <1>13. n \in 0..n BY <1>1
    <1>14. InOrder(before, ops, e) = g[n] BY <1>10, <1>12, <1>13
    <1> QED BY <1>7, <1>14 DEF CarriedAfter, n, start

\* What a patch that is not refused has staged, its operations come to one after the other, if
\* none of them uses a file an earlier one took away.
LEMMA StagedIsInOrder ==
    ASSUME FilesTyped, NEW ops \in Patches, ~Reuses(ops), Staged(ops).ok
    PROVE  SameSoFar(Staged(ops), InOrder(disk, ops, edits + 1)) /\ Staged(ops) \in StageStates
           /\ InOrder(disk, ops, edits + 1) \in TreeStates
    <1> DEFINE n == Len(ops)
    <1>1. n \in Nat /\ DOMAIN ops = 1..n /\ \A i \in 1..n : ops[i] \in Ops BY PatchIs
    <1>2. PICK s : StagedAfter(s, ops) /\ Staged(ops) = s[n] BY StagedDefined
    <1>3. PICK t : CarriedAfter(t, disk, ops, edits + 1) /\ InOrder(disk, ops, edits + 1) = t[n]
        <2>1. disk \in [Files -> Seq(Nat)] /\ edits + 1 \in Nat BY DEF FilesTyped
        <2> QED BY <2>1, CarriedDefined
    <1> DEFINE Same(i) ==
                 s[i].ok => SameSoFar(s[i], t[i]) /\ \A f \in s[i].deletes : \E k \in 1..i : Takes(ops[k]) /\ ops[k].path = f
               Off == {i \in 0..n : ~Same(i)}
    <1>4. /\ s \in [0..n -> StageStates] /\ s[0] = NothingStaged /\ \A i \in 1..n : s[i] = Stage(s[i - 1], ops[i])
          /\ t \in [0..n -> TreeStates] /\ t[0] = [tree |-> disk, ok |-> TRUE]
          /\ \A i \in 1..n : t[i] = CarriedOut(t[i - 1], ops[i], edits + 1)
        BY <1>2, <1>3 DEF StagedAfter, CarriedAfter
    <1> HIDE DEF n
    <1>5. Off = {}
        <2> SUFFICES ASSUME Off # {} PROVE FALSE OBVIOUS
        <2>1. PICK i \in Off : \A j \in Off : i <= j
            <3>1. Off \in SUBSET Nat BY <1>1
            <3> HIDE DEF Off
            <3> QED BY <3>1, LeastNumber
        <2>2. i \in 0..n /\ ~Same(i) BY <2>1
        <2>3. CASE i = 0
            <3>1. SameSoFar(NothingStaged, [tree |-> disk, ok |-> TRUE]) BY DEF SameSoFar, NothingStaged
            <3>2. s[i] = NothingStaged /\ t[i] = [tree |-> disk, ok |-> TRUE] BY <1>4, <2>3
            <3>3. NothingStaged.deletes = {} BY DEF NothingStaged
            <3>4. Same(i) BY <3>1, <3>2, <3>3
            <3> HIDE DEF Same
            <3> QED BY <2>2, <3>4
        <2>4. CASE i # 0
            <3> DEFINE p == i - 1
            <3>1. p \in 0..n /\ i \in 1..n /\ ~(i <= p) /\ i \in Nat /\ p \in Nat /\ i = p + 1 BY <1>1, <2>2, <2>4
            <3>2. Same(p)
                <4> HIDE DEF Same, p
                <4> QED BY <2>1, <3>1
            <3>3. s[i] = Stage(s[p], ops[i]) /\ t[i] = CarriedOut(t[p], ops[i], edits + 1) BY <1>4, <3>1
            <3> HIDE DEF p
            <3>4. s[p] \in StageStates /\ t[p] \in TreeStates /\ ops[i] \in Ops BY <1>1, <1>4, <3>1
            <3>5. /\ s[i].ok => s[p].ok
                  /\ s[i].ok => s[i].deletes \subseteq s[p].deletes \cup (IF Takes(ops[i]) THEN {ops[i].path} ELSE {})
                  /\ SameSoFar(s[p], t[p]) /\ {ops[i].path, ops[i].to} \cap s[p].deletes = {} => SameSoFar(s[i], t[i])
                BY <3>3, <3>4, StageStep
            <3> SUFFICES ASSUME s[i].ok PROVE FALSE BY <2>2
            <3>6. SameSoFar(s[p], t[p]) /\ \A f \in s[p].deletes : \E k \in 1..p : Takes(ops[k]) /\ ops[k].path = f
                BY <3>2, <3>5
            <3>7. {ops[i].path, ops[i].to} \cap s[p].deletes = {}
                <4> SUFFICES ASSUME NEW f \in s[p].deletes, f \in {ops[i].path, ops[i].to} PROVE FALSE OBVIOUS
                <4>1. PICK k \in 1..p : Takes(ops[k]) /\ ops[k].path = f BY <3>6
                <4>2. k \in DOMAIN ops /\ i \in DOMAIN ops /\ k < i BY <1>1, <3>1
                <4>3. Reuses(ops) BY <4>1, <4>2 DEF Reuses, Takes
                <4> QED BY <4>3
            <3>8. \A f \in s[i].deletes : \E k \in 1..i : Takes(ops[k]) /\ ops[k].path = f
                <4> TAKE f \in s[i].deletes
                <4>1. CASE f \in s[p].deletes
                    <5>1. PICK k \in 1..p : Takes(ops[k]) /\ ops[k].path = f BY <3>6, <4>1
                    <5>2. k \in 1..i BY <3>1
                    <5> QED BY <5>1, <5>2
                <4>2. CASE f \notin s[p].deletes
                    <5>1. Takes(ops[i]) /\ ops[i].path = f BY <3>5, <4>2
                    <5> QED BY <3>1, <5>1
                <4> QED BY <4>1, <4>2
            <3> QED BY <2>2, <3>5, <3>6, <3>7, <3>8
        <2> QED BY <2>3, <2>4
    <1>6. n \in 0..n BY <1>1
    <1>7. Same(n) BY <1>5, <1>6
    <1>8. n = Len(ops) BY DEF n
    <1> QED BY <1>2, <1>3, <1>4, <1>6, <1>7 DEF n

\* The texts of the files stay texts.
LEMMA FilesTypedNext == FilesTyped /\ [FileNext]_fileVars => FilesTyped'
    <1> SUFFICES ASSUME FilesTyped, [FileNext]_fileVars PROVE FilesTyped' OBVIOUS
    <1>1. disk \in [Files -> Seq(Nat)] /\ edits \in Nat /\ NoFile \in Seq(Nat) BY DEF FilesTyped, NoFile
    <1>2. NewEdit => edits' = edits + 1 /\ edits' \in Nat BY <1>1 DEF NewEdit
    <1>3. edits' \in Nat => <<edits'>> \in Seq(Nat) /\ \A text \in Seq(Nat) : Append(text, edits') \in Seq(Nat) OBVIOUS
    <1>4. ASSUME NEW f \in Files, WriteFile(f) \/ EditFile(f) \/ NotebookEdit(f) PROVE FilesTyped'
        <2>1. NewEdit /\ \E text : Put(f, text) /\ text \in {<<edits'>>, Append(disk[f], edits')}
            BY <1>4 DEF WriteFile, EditFile, NotebookEdit, Replaced
        <2>2. PICK text \in Seq(Nat) : Put(f, text) BY <1>1, <1>2, <1>3, <2>1
        <2>3. disk' = [disk EXCEPT ![f] = text] BY <2>2 DEF Put
        <2> QED BY <1>1, <1>2, <2>1, <2>3 DEF FilesTyped
    <1>5. ASSUME NEW f \in Files, ExternalEdit(f) PROVE FilesTyped'
        <2>1. NewEdit /\ (disk' = disk \/ \E text \in {NoFile, <<edits'>>} : disk' = [disk EXCEPT ![f] = text])
            BY <1>5 DEF ExternalEdit
        <2>2. disk' = disk \/ \E text \in Seq(Nat) : disk' = [disk EXCEPT ![f] = text] BY <1>1, <1>2, <1>3, <2>1
        <2> QED BY <1>1, <1>2, <2>1, <2>2 DEF FilesTyped
    <1>6. ASSUME NEW ops \in Patches, ApplyPatch(ops) PROVE FilesTyped'
        <2> DEFINE st == Staged(ops)
        <2>1. st \in StageStates
            <3>1. PICK after : StagedAfter(after, ops) /\ st = after[Len(ops)] BY StagedDefined
            <3> HIDE DEF st
            <3>2. Len(ops) \in 0..Len(ops) BY PatchIs
            <3> QED BY <3>1, <3>2 DEF StagedAfter
        <2> HIDE DEF st
        <2>2. \A f \in DOMAIN st.writes : st.writes[f] \in Seq(Nat) BY <2>1 DEF StageStates, Texts
        <2>3. ASSUME NEW gone, NEW put \in SUBSET DOMAIN st.writes PROVE Applied(st, gone, put) \in [Files -> Seq(Nat)]
            BY <1>1, <2>2 DEF Applied
        <2>4. ASSUME NEW now \in [Files -> Seq(Nat)] PROVE RestoredTo(now, Backups(st)) \in [Files -> Seq(Nat)]
            <3>1. \A f \in DOMAIN Backups(st) \cap Files : Backups(st)[f] \in Seq(Nat) BY <1>1 DEF Backups
            <3> QED BY <3>1 DEF RestoredTo
        <2>5. \/ disk' = disk \/ disk' = Applied(st, st.deletes, DOMAIN st.writes)
              \/ \E gone \in SUBSET st.deletes, put \in SUBSET DOMAIN st.writes :
                    disk' = RestoredTo(Applied(st, gone, put), Backups(st))
            BY <1>6 DEF ApplyPatch, st
        <2>6. disk' \in [Files -> Seq(Nat)] BY <1>1, <2>3, <2>4, <2>5
        <2> QED BY <1>2, <1>6, <2>6 DEF ApplyPatch, FilesTyped
    <1>7. CASE (\E f \in Files, offset \in Lines : ReadText(f, offset)) \/ ReadEnds \/ UNCHANGED fileVars
        BY <1>1, <1>7 DEF ReadText, ReadEnds, fileVars, FilesTyped
    <1> QED BY <1>4, <1>5, <1>6, <1>7 DEF FileNext

\* A patch that is carried out leaves what its operations come to.
LEMMA PatchWholeNext ==
    ASSUME FilesTyped, PatchWhole, [FileNext]_fileVars PROVE PatchWhole'
    <1>1. patched' = NoPatch => PatchWhole' BY DEF PatchWhole, NoPatch
    <1>2. FailureRestores'
        <2>1. disk = [f \in Files |-> disk[f]] /\ FailureRestores BY DEF FilesTyped, PatchWhole, FailureRestores
        <2> QED BY <2>1, FailureRestoresNext
    <1>3. ASSUME NEW ops \in Patches, ApplyPatch(ops) PROVE PatchWhole'
        <2> DEFINE st == Staged(ops)
                   want == InOrder(disk, ops, edits + 1)
        <2>1. edits' = edits + 1 BY <1>3 DEF ApplyPatch, NewEdit
        <2>2. CASE patched' = Outcome(ops, TRUE) BY <1>2, <2>2 DEF Outcome, FailureRestores, PatchWhole
        <2>3. CASE st.ok /\ disk' = Applied(st, st.deletes, DOMAIN st.writes) /\ patched' = Outcome(ops, FALSE)
            <3>1. /\ patched'.ops = ops /\ patched'.before = disk /\ patched'.after = disk' /\ ~patched'.failed
                  /\ patched'.edit = edits + 1
                BY <2>1, <2>3 DEF Outcome
            <3> SUFFICES ASSUME ~Reuses(ops) PROVE want.ok /\ disk' = want.tree BY <3>1 DEF PatchWhole
            <3>2. SameSoFar(st, want) /\ st \in StageStates /\ want \in TreeStates BY <2>3, StagedIsInOrder
            <3> HIDE DEF st, want
            <3>3. /\ want.ok
                  /\ \A f \in Files : want.tree[f] = IF f \in DOMAIN st.writes THEN st.writes[f]
                                                     ELSE IF f \in st.deletes THEN NoFile ELSE disk[f]
                BY <2>3, <3>2 DEF SameSoFar
            <3>4. want.tree = [f \in Files |-> want.tree[f]] BY <3>2 DEF TreeStates
            <3> QED BY <2>3, <3>3, <3>4 DEF Applied
        <2> QED BY <1>3, <2>2, <2>3 DEF ApplyPatch
    <1>4. (~\E ops \in Patches : ApplyPatch(ops)) /\ FileNext => patched' = NoPatch
        BY DEF FileNext, NothingElse, WriteFile, EditFile, NotebookEdit, ExternalEdit, ReadText, ReadEnds
    <1>5. CASE UNCHANGED fileVars BY <1>5 DEF fileVars, PatchWhole
    <1> QED BY <1>1, <1>3, <1>4, <1>5

\* A patch does what its operations do one after the other, or nothing at all: for every number of
\* files and operations, and wherever one of its writes fails.
THEOREM PatchesWhole == FileSpec => []PatchWhole
    <1> DEFINE I == FilesTyped /\ PatchWhole
    <1>1. FileInit => I
        <2>1. ASSUME FileInit PROVE FilesTyped
            <3> DEFINE one == <<0>>
            <3>1. NoFile \in Seq(Nat) /\ one \in Seq(Nat) BY DEF NoFile
            <3>2. disk \in [Files -> {NoFile, one}] /\ edits = 0 BY <2>1 DEF FileInit
            <3> HIDE DEF one
            <3> QED BY <3>1, <3>2 DEF FilesTyped
        <2> QED BY <2>1 DEF FileInit, PatchWhole, NoPatch
    <1>2. I /\ [FileNext]_fileVars => I' BY FilesTypedNext, PatchWholeNext
    <1> QED BY <1>1, <1>2, PTL DEF FileSpec

(* The streamed calls: what a complete stream leaves, and the chips of its edits. *)

NCalls == Cardinality(StreamCalls)
Ids == WireIds \cup {NoCallId}

LEMMA CallNumbers == NCalls \in Nat /\ StreamCalls = 1..NCalls /\ \A c \in StreamCalls : c \in Nat /\ c >= 1
    <1>1. NCalls \in Nat BY ToolStreamAssumption, FS_CardinalityType DEF NCalls
    <1>2. StreamCalls = 1..NCalls BY ToolStreamAssumption DEF NCalls
    <1> QED BY <1>1, <1>2

\* A set of calls has an order by index.
LEMMA ByIndexIs ==
    ASSUME NEW S \in SUBSET StreamCalls
    PROVE  /\ Cardinality(S) \in Nat /\ ByIndex(S) \in [1..Cardinality(S) -> S] /\ Increasing(ByIndex(S))
           /\ \A c \in S : \E k \in 1..Cardinality(S) : ByIndex(S)[k] = c
    <1> DEFINE N == NCalls
               Part(n) == S \cap 1..n
               Lists(q, n) == /\ q \in [1..Cardinality(Part(n)) -> Part(n)] /\ Increasing(q)
                              /\ \A c \in Part(n) : \E k \in 1..Cardinality(Part(n)) : q[k] = c
               Bad == {n \in 0..N : \A q : ~Lists(q, n)}
    <1>1. N \in Nat /\ StreamCalls = 1..N BY CallNumbers
    <1>2. \A n \in 0..N : IsFiniteSet(Part(n)) /\ Cardinality(Part(n)) \in Nat
        <2> SUFFICES ASSUME NEW n \in 0..N PROVE IsFiniteSet(Part(n)) /\ Cardinality(Part(n)) \in Nat OBVIOUS
        <2>1. IsFiniteSet(1..n) /\ Part(n) \subseteq 1..n BY <1>1, FS_Interval
        <2>2. IsFiniteSet(Part(n)) BY <2>1, FS_Subset
        <2> QED BY <2>2, FS_CardinalityType
    <1> HIDE DEF N
    <1>3. Bad = {}
        <2> SUFFICES ASSUME Bad # {} PROVE FALSE OBVIOUS
        <2>1. PICK n \in Bad : \A j \in Bad : n <= j
            <3>1. Bad \in SUBSET Nat BY <1>1
            <3> HIDE DEF Bad
            <3> QED BY <3>1, LeastNumber
        <2>2. n \in 0..N /\ \A q : ~Lists(q, n) BY <2>1
        <2>3. CASE n = 0
            <3> DEFINE q == [k \in 1..0 |-> 0]
            <3>1. Part(0) = {} OBVIOUS
            <3>2. Cardinality(Part(0)) = 0 BY <3>1, FS_EmptySet
            <3> DEFINE P == Part(0)
            <3>3. Increasing(q) BY DEF Increasing
            <3>4. q \in [1..0 -> P] OBVIOUS
            <3>5. Lists(q, 0) BY <3>1, <3>2, <3>3, <3>4
            <3> QED BY <2>2, <2>3, <3>5
        <2>4. CASE n # 0
            <3> DEFINE p == n - 1
                       m == Cardinality(Part(p))
            <3>1. n \in Nat /\ p \in 0..N /\ p \in Nat /\ n = p + 1 /\ ~(n <= p) BY <1>1, <2>2, <2>4
            <3> HIDE DEF p
            <3>2. PICK q : Lists(q, p)
                <4> HIDE DEF Lists
                <4>1. p \notin Bad BY <2>1, <3>1
                <4> QED BY <3>1, <4>1
            <3>3. m \in Nat BY <1>2, <3>1
            <3>4. CASE n \notin S
                <4>1. Part(n) = Part(p) BY <3>1, <3>4
                <4>2. Lists(q, n) BY <3>2, <4>1
                <4> QED BY <2>2, <4>2
            <3>5. CASE n \in S
                <4>1. Part(n) = Part(p) \cup {n} /\ n \notin Part(p) BY <3>1, <3>5
                <4>2. Cardinality(Part(n)) = m + 1
                    <5> HIDE DEF Part
                    <5> QED BY <1>2, <3>1, <4>1, FS_AddElement
                <4> DEFINE r == [k \in 1..(m + 1) |-> IF k = m + 1 THEN n ELSE q[k]]
                           P == Part(p)
                           Q == Part(n)
                <4>3. q \in [1..m -> P] /\ Increasing(q) /\ \A c \in P : \E k \in 1..m : q[k] = c BY <3>2
                <4>4. \A k \in 1..(m + 1) : k = m + 1 \/ k \in 1..m BY <3>3
                <4>5. \A k \in 1..m : k \in 1..(m + 1) /\ k # m + 1 /\ q[k] \in P /\ q[k] \in Nat /\ q[k] < n
                    <5>1. \A c \in P : c \in Nat /\ c < n BY <3>1
                    <5> HIDE DEF P, m
                    <5> QED BY <3>3, <4>3, <5>1
                <4>6. m + 1 \in 1..(m + 1) BY <3>3
                <4>7. Q = P \cup {n} BY <4>1
                <4> HIDE DEF m, P, Q
                <4>8. r \in [1..(m + 1) -> Q] BY <4>4, <4>5, <4>7
                <4>9. r[m + 1] = n /\ \A k \in 1..m : r[k] = q[k] BY <4>5, <4>6
                <4> HIDE DEF r
                <4>10. Increasing(r)
                    <5> SUFFICES ASSUME NEW k \in 1..(m + 1), NEW l \in 1..(m + 1), k < l PROVE r[k] < r[l]
                        BY <4>8 DEF Increasing
                    <5>1. k \in 1..m BY <3>3
                    <5>2. CASE l = m + 1 BY <4>5, <4>9, <5>1, <5>2
                    <5>3. CASE l \in 1..m
                        <6>1. DOMAIN q = 1..m BY <4>3
                        <6> QED BY <4>3, <4>9, <5>1, <5>3, <6>1 DEF Increasing
                    <5> QED BY <4>4, <5>2, <5>3
                <4>11. \A c \in Q : \E k \in 1..(m + 1) : r[k] = c BY <4>3, <4>5, <4>6, <4>7, <4>9
                <4>12. Cardinality(Q) = m + 1 BY <4>2 DEF Q
                <4>13. Lists(r, n) BY <4>8, <4>10, <4>11, <4>12 DEF Q
                <4> QED BY <2>2, <4>13
            <3> QED BY <3>4, <3>5
        <2> QED BY <2>3, <2>4
    <1>4. Part(N) = S /\ N \in 0..N
        <2>1. S \subseteq 1..N BY <1>1
        <2>2. N \in 0..N BY <1>1
        <2> QED BY <2>1, <2>2
    <1>5. PICK q : Lists(q, N)
        <2> HIDE DEF Lists
        <2> QED BY <1>3, <1>4
    <1> DEFINE m == Cardinality(S)
               b == ByIndex(S)
    <1>6. m \in Nat /\ q \in [1..m -> S] /\ Increasing(q) /\ \A c \in S : \E k \in 1..m : q[k] = c BY <1>2, <1>4, <1>5
    <1>7. Range(q) = S BY <1>6 DEF Range
    <1>8. b \in [1..m -> S] /\ Increasing(b) /\ Range(b) = S BY <1>6, <1>7 DEF ByIndex
    <1> HIDE DEF b, m
    <1>9. \A c \in S : \E k \in 1..m : b[k] = c BY <1>8 DEF Range
    <1> QED BY <1>6, <1>8, <1>9 DEF b, m

Steps == {"path", "rest"}
\* What has arrived of a call's arguments.
Got(n) == IF n <= 1 THEN <<>> ELSE IF n = 2 THEN <<"path">> ELSE <<"path", "rest">>

StreamTyped ==
    /\ api \in {"chat", "responses", "anthropic"} /\ reused \in BOOLEAN /\ (reused => api = "chat")
    /\ attempt \in 1..MaxTries /\ pathOf \in [StreamCalls -> Paths] /\ sent \in [StreamCalls -> 0..3]
    /\ bufs \in [StreamCalls -> [id : Ids, args : Seq(Steps)]]
    /\ progress \in [StreamCalls -> [id : Ids, args : Seq(Steps), tracker : Ids]]
    /\ chips \in [ChipIds -> {"none", "editing", "done", "error"}]
\* What the client and the tracker have of a call that has begun in this attempt.
Heard(c) ==
    /\ \A d \in StreamCalls : d < c /\ sent[c] > 0 => sent[d] > 0
    /\ bufs[c].args = Got(sent[c])
    /\ sent[c] > 0 => bufs[c].id = WireId(c) /\ progress[c].id = WireId(c)
    /\ sent[c] > 1 => Path(progress[c]) /\ (pathOf[c] \in LostPaths \/ progress[c].tracker # NoCallId)
    /\ attempt = 1 /\ ~reused => /\ progress[c].tracker \in {NoCallId, WireId(c)}
                                 /\ sent[c] = 0 => progress[c].tracker = NoCallId
StreamHeard == StreamTyped /\ \A c \in StreamCalls : Heard(c)

Clear == attempt = 1 /\ ~reused
\* In a first attempt the chips are those of the calls that have begun.
ChipsStreamed == Clear => \A i \in ChipIds : chips[i] # "none" => \E c \in StreamCalls : sent[c] > 0 /\ i = WireId(c)
Plain == Clear /\ (\A c \in StreamCalls : sent[c] # 1) /\ IsInjective(pathOf)
\* A chip that is still open is that of a call of the response, or of one whose path does not resolve.
InResponse(i) == \E k \in DOMAIN final : final[k].id = i /\ final[k].call \in StreamCalls /\ i = <<attempt, final[k].call>>
Unresolved(i) == \E c \in StreamCalls : i = WireId(c) /\ pathOf[c] \in LostPaths
ChipsHeld == Plain => \A i \in ChipIds : chips[i] = "editing" => InResponse(i) \/ Unresolved(i)
\* The inductive invariant of the streamed calls.
CallsHeard ==
    /\ StreamHeard /\ CallsSound
    /\ stage \in {"streaming", "ended", "ran"}
    /\ stage = "streaming" => ChipsStreamed
    /\ stage = "ended" => ChipsHeld

LEMMA Wires ==
    ASSUME StreamTyped, NEW c \in StreamCalls
    PROVE  /\ WireId(c) \in WireIds /\ WireId(c) \in Ids /\ WireId(c) \in ChipIds /\ WireId(c) # NoCallId
           /\ \A d : WireId(c) # FreshId(d)
           /\ ~reused => WireId(c) = <<attempt, c>>
           /\ reused => WireId(c) = <<attempt, 1>>
    <1>1. attempt \in 1..MaxTries /\ attempt # 0 /\ reused \in BOOLEAN
        <2>1. MaxTries \in Nat BY ToolStreamAssumption
        <2> QED BY <2>1 DEF StreamTyped
    <1>2. 1 \in StreamCalls BY CallNumbers
    <1>3. WireId(c) = <<attempt, c>> \/ WireId(c) = <<attempt, 1>> BY DEF WireId
    <1>4. WireId(c) \in WireIds BY <1>1, <1>2, <1>3 DEF WireIds
    <1>5. WireId(c) # NoCallId /\ \A d : WireId(c) # FreshId(d) BY <1>1, <1>3 DEF NoCallId, FreshId
    <1> QED BY <1>4, <1>5 DEF WireId, Ids, ChipIds

LEMMA PathOfStep ==
    ASSUME NEW q \in Seq(Steps)
    PROVE  /\ Append(q, "path") \in Seq(Steps) /\ Append(q, "rest") \in Seq(Steps)
           /\ Path([args |-> Append(q, "path")]) /\ (Path([args |-> q]) => Path([args |-> Append(q, "rest")]))
    <1>1. Append(q, "path") \in Seq(Steps) /\ Append(q, "rest") \in Seq(Steps) BY DEF Steps
    <1>2. Len(q) + 1 \in DOMAIN Append(q, "path") /\ Append(q, "path")[Len(q) + 1] = "path" OBVIOUS
    <1>3. \A i \in DOMAIN q : i \in DOMAIN Append(q, "rest") /\ Append(q, "rest")[i] = q[i] OBVIOUS
    <1>4. Path([args |-> q]) => Path([args |-> Append(q, "rest")])
        <2> SUFFICES ASSUME Path([args |-> q]) PROVE Path([args |-> Append(q, "rest")]) OBVIOUS
        <2>1. PICK i \in DOMAIN q : q[i] = "path" BY DEF Path
        <2> QED BY <1>3, <2>1 DEF Path
    <1> QED BY <1>1, <1>2, <1>4 DEF Path

LEMMA GotPath == \A n \in 2..3 : Path([args |-> Got(n)]) /\ \A f : f.args = Got(n) => Path(f)
    <1>1. Got(2)[1] = "path" /\ 1 \in DOMAIN Got(2) BY DEF Got
    <1>2. Got(3)[1] = "path" /\ 1 \in DOMAIN Got(3) BY DEF Got
    <1>3. \A n \in 2..3 : n = 2 \/ n = 3 OBVIOUS
    <1> QED BY <1>1, <1>2, <1>3 DEF Path

\* The last call a client has heard of by the calls' order.
LEMMA LeastHit ==
    ASSUME NEW S \in SUBSET StreamCalls, S # {}
    PROVE  LET m == CHOOSE c \in S : \A d \in S : c <= d IN m \in S /\ \A d \in S : m <= d
    <1>1. S \in SUBSET Nat BY CallNumbers
    <1>2. PICK c \in S : \A d \in S : c <= d BY <1>1, LeastNumber
    <1> QED BY <1>2

\* The calls of a response, and what it gives as the id of each.
Given == {c \in Begun : Announced(c)}
Listed == ByIndex(Given)
GivenId(c) == IF api = "chat" THEN UniqueId(c) ELSE bufs[c].id

LEMMA ResponseIs ==
    ASSUME StreamHeard
    PROVE  LET m == Cardinality(Given) IN
           /\ m \in Nat /\ Listed \in [1..m -> Given] /\ Increasing(Listed) /\ \A c \in Given : \E k \in 1..m : Listed[k] = c
           /\ DOMAIN Response = 1..m /\ Response = [k \in 1..m |-> Response[k]]
           /\ \A k \in 1..m : /\ Response[k] = [id |-> GivenId(Listed[k]), call |-> Listed[k], args |-> bufs[Listed[k]].args]
                              /\ Listed[k] \in Given /\ Response[k].args = Got(sent[Listed[k]])
    <1> DEFINE m == Cardinality(Given)
               q == Listed
    <1>1. Given \in SUBSET StreamCalls BY DEF Given, Begun
    <1>2. m \in Nat /\ q \in [1..m -> Given] /\ Increasing(q) /\ \A c \in Given : \E k \in 1..m : q[k] = c
        BY <1>1, ByIndexIs DEF Listed
    <1>3. Response = [k \in DOMAIN q |-> [id |-> GivenId(q[k]), call |-> q[k], args |-> bufs[q[k]].args]]
        BY DEF Response, Listed, Given, GivenId
    <1>4. \A c \in Given : bufs[c].args = Got(sent[c]) BY <1>1 DEF StreamHeard, Heard
    <1> HIDE DEF m, q
    <1>5. DOMAIN q = 1..m BY <1>2
    <1>6. DOMAIN Response = 1..m BY <1>3, <1>5
    <1>7. \A k \in 1..m : Response[k] = [id |-> GivenId(q[k]), call |-> q[k], args |-> bufs[q[k]].args] BY <1>3, <1>5
    <1>8. Response = [k \in 1..m |-> Response[k]]
        <2> DEFINE E(k) == [id |-> GivenId(q[k]), call |-> q[k], args |-> bufs[q[k]].args]
        <2>1. Response = [k \in 1..m |-> E(k)] BY <1>3, <1>5
        <2> HIDE DEF E
        <2> QED BY <2>1
    <1>9. \A k \in 1..m : q[k] \in Given BY <1>2
    <1>10. \A k \in 1..m : Response[k].args = Got(sent[q[k]])
        <2> SUFFICES ASSUME NEW k \in 1..m PROVE Response[k].args = Got(sent[q[k]]) OBVIOUS
        <2> DEFINE i == GivenId(q[k])
                   a == bufs[q[k]].args
        <2>1. Response[k] = [id |-> i, call |-> q[k], args |-> a] BY <1>7
        <2> HIDE DEF i, a
        <2>2. Response[k].args = a BY <2>1
        <2> QED BY <1>4, <1>9, <2>2 DEF a
    <1> QED BY <1>2, <1>6, <1>7, <1>8, <1>9, <1>10 DEF m, q

LEMMA GivenIds ==
    ASSUME StreamHeard, NEW c \in Given
    PROVE  /\ c \in StreamCalls /\ sent[c] > 0 /\ bufs[c].id = WireId(c) /\ progress[c].id = WireId(c)
           /\ ~reused => GivenId(c) = WireId(c)
           /\ reused => GivenId(c) = IF c = 1 THEN WireId(c) ELSE FreshId(c)
    <1>1. c \in StreamCalls /\ sent[c] > 0 BY DEF Given, Begun
    <1>2. Heard(c) /\ StreamTyped BY <1>1 DEF StreamHeard
    <1>3. bufs[c].id = WireId(c) /\ progress[c].id = WireId(c) BY <1>1, <1>2 DEF Heard
    <1>4. c \in Nat /\ c >= 1 /\ \A d \in 1..(c - 1) : d \in StreamCalls /\ d < c BY <1>1, CallNumbers
    <1>5. \A d \in 1..(c - 1) : bufs[d].id = WireId(d)
        <2> SUFFICES ASSUME NEW d \in 1..(c - 1) PROVE bufs[d].id = WireId(d) OBVIOUS
        <2>1. d \in StreamCalls /\ d < c BY <1>4
        <2>2. sent[d] > 0 BY <1>1, <1>2, <2>1 DEF Heard
        <2>3. Heard(d) BY <2>1 DEF StreamHeard
        <2> QED BY <2>2, <2>3 DEF Heard
    <1>6. ASSUME ~reused PROVE GivenId(c) = WireId(c)
        <2>1. \A d \in 1..(c - 1) : WireId(d) # WireId(c)
            <3> SUFFICES ASSUME NEW d \in 1..(c - 1) PROVE WireId(d) # WireId(c) OBVIOUS
            <3>1. d # c BY <1>4
            <3> QED BY <1>6, <3>1 DEF WireId
        <2>2. UniqueId(c) = WireId(c) BY <1>3, <1>5, <2>1 DEF UniqueId
        <2> QED BY <1>3, <2>2 DEF GivenId
    <1>7. ASSUME reused PROVE GivenId(c) = IF c = 1 THEN WireId(c) ELSE FreshId(c)
        <2>1. api = "chat" BY <1>2, <1>7 DEF StreamTyped
        <2>2. CASE c = 1 BY <1>3, <2>1, <2>2 DEF GivenId, UniqueId
        <2>3. CASE c # 1
            <3>1. 1 \in 1..(c - 1) BY <1>4, <2>3
            <3>2. bufs[1].id = bufs[c].id BY <1>3, <1>5, <1>7, <3>1 DEF WireId
            <3> QED BY <2>1, <2>3, <3>1, <3>2 DEF GivenId, UniqueId
        <2> QED BY <2>2, <2>3
    <1> QED BY <1>1, <1>3, <1>6, <1>7

Hits(f) == {c \in StreamCalls : progress[c].id # NoCallId /\ Matches(c, f)}

LEMMA CanonicalIs ==
    ASSUME NEW f
    PROVE  /\ Hits(f) = {} => Canonical(f) = NoCallId
           /\ Hits(f) # {} => \E d \in Hits(f) : Canonical(f) = progress[d].id /\ \A e \in Hits(f) : d <= e
    <1>1. Hits(f) \in SUBSET StreamCalls BY DEF Hits
    <1>2. Canonical(f) = IF Hits(f) = {} THEN NoCallId ELSE progress[CHOOSE c \in Hits(f) : \A d \in Hits(f) : c <= d].id
        BY DEF Canonical, Hits
    <1> QED BY <1>1, <1>2, LeastHit

\* Two calls that may name one file, and an edit the tracker has of it.
LEMMA MatchesByFile ==
    ASSUME NEW c, NEW d, NEW f, NEW g, Matches(c, f), progress[c].id # f.id, f.call = d, Path(g), SameFile(d, g.call)
    PROVE  Matches(c, g)
    BY DEF Matches, SameFile

\* What the least match of a listed call is: a call of this attempt, no later than it.
LEMMA CanonicalCall ==
    ASSUME StreamHeard, api # "responses", ~reused \/ \A c \in Begun : sent[c] = 3,
           NEW n \in 1..Cardinality(Given)
    PROVE  \E d \in Given : /\ d <= Listed[n] /\ Canonical(Response[n]) = WireId(d)
                            /\ Matches(d, Response[n]) /\ \A e \in Hits(Response[n]) : d <= e
    <1> DEFINE c == Listed[n]
               f == Response[n]
    <1>1. c \in Given /\ f.id = GivenId(c) /\ f.call = c /\ f.args = Got(sent[c])
        <2>1. f = [id |-> GivenId(c), call |-> c, args |-> bufs[c].args] /\ c \in Given /\ f.args = Got(sent[c])
            BY ResponseIs
        <2> QED BY <2>1
    <1> HIDE DEF c, f
    <1>2. /\ c \in StreamCalls /\ sent[c] > 0 /\ progress[c].id = WireId(c) /\ (~reused => GivenId(c) = WireId(c))
        BY <1>1, GivenIds
    <1>3. StreamTyped /\ Heard(c) BY <1>2 DEF StreamHeard
    <1>4. WireId(c) # NoCallId BY <1>2, <1>3, Wires
    <1>5. Matches(c, f)
        <2>1. CASE ~reused BY <1>1, <1>2, <2>1 DEF Matches
        <2>2. CASE \A b \in Begun : sent[b] = 3
            <3>1. sent[c] = 3 BY <1>1, <2>2 DEF Given
            <3>2. Path(f) BY <1>1, <3>1, GotPath
            <3> QED BY <1>1, <3>2 DEF Matches, SameFile
        <2> QED BY <2>1, <2>2
    <1>6. c \in Hits(f) BY <1>2, <1>4, <1>5 DEF Hits
    <1>7. PICK d \in Hits(f) : Canonical(f) = progress[d].id /\ \A e \in Hits(f) : d <= e BY <1>6, CanonicalIs
    <1>8. d \in StreamCalls /\ Matches(d, f) /\ d <= c BY <1>6, <1>7 DEF Hits
    <1>9. sent[d] > 0
        <2>1. d \in Nat /\ c \in Nat BY <1>2, <1>8, CallNumbers
        <2>2. d = c \/ d < c BY <1>8, <2>1
        <2> QED BY <1>2, <1>3, <1>8, <2>2 DEF Heard
    <1>10. d \in Given BY <1>8, <1>9 DEF Given, Begun, Announced
    <1>11. progress[d].id = WireId(d) BY <1>10, GivenIds
    <1> QED BY <1>7, <1>8, <1>10, <1>11 DEF c, f

\* A listed call that comes before another has a place before it.
LEMMA ListedBefore ==
    ASSUME StreamHeard, NEW n \in 1..Cardinality(Given), NEW d \in Given, d < Listed[n]
    PROVE  \E l \in 1..(n - 1) : l \in 1..Cardinality(Given) /\ Listed[l] = d
    <1> DEFINE m == Cardinality(Given)
               q == Listed
    <1>1. m \in Nat /\ q \in [1..m -> Given] /\ Increasing(q) /\ \A c \in Given : \E k \in 1..m : q[k] = c BY ResponseIs
    <1>2. \A c \in Given : c \in Nat BY CallNumbers DEF Given, Begun
    <1>3. n \in 1..m /\ d < q[n] OBVIOUS
    <1> HIDE DEF m, q
    <1>4. PICK l \in 1..m : q[l] = d BY <1>1
    <1>5. DOMAIN q = 1..m /\ q[n] \in Nat /\ d \in Nat BY <1>1, <1>2, <1>3
    <1>6. ~(n < l) BY <1>1, <1>3, <1>4, <1>5 DEF Increasing
    <1>7. l # n BY <1>3, <1>4, <1>5
    <1>8. l \in 1..(n - 1) BY <1>1, <1>3, <1>6, <1>7
    <1> QED BY <1>4, <1>8 DEF m, q

\* Every call of a response keeps its id: its canonical id is its own, or is given already.
LEMMA KeyTaken ==
    ASSUME StreamHeard, api # "responses", ~reused \/ \A c \in Begun : sent[c] = 3,
           NEW n \in 1..Cardinality(Given)
    PROVE  \/ Canonical(Response[n]) = Response[n].id
           \/ \E l \in 1..(n - 1) : Canonical(Response[l]) = Canonical(Response[n])
    <1> DEFINE c == Listed[n]
               f == Response[n]
    <1>1. c \in Given /\ f.id = GivenId(c) /\ f.call = c /\ f.args = Got(sent[c])
        <2>1. f = [id |-> GivenId(c), call |-> c, args |-> bufs[c].args] /\ c \in Given /\ f.args = Got(sent[c])
            BY ResponseIs
        <2> QED BY <2>1
    <1>2. PICK d \in Given : d <= c /\ Canonical(f) = WireId(d) /\ Matches(d, f) /\ \A e \in Hits(f) : d <= e
        BY CanonicalCall
    <1>3. \A b \in Given : b \in StreamCalls /\ b \in Nat /\ b >= 1 BY CallNumbers DEF Given, Begun
    <1>4. StreamTyped BY DEF StreamHeard
    <1>5. d < c => \E l \in 1..(n - 1) : l \in 1..Cardinality(Given) /\ Listed[l] = d BY ListedBefore
    <1> HIDE DEF c, f
    <1>6. d \in Nat /\ c \in Nat /\ (d = c \/ d < c) BY <1>1, <1>2, <1>3
    <1>7. CASE ~reused
        <2>1. CASE d = c BY <1>1, <1>2, <1>7, <2>1, GivenIds DEF f
        <2>2. CASE d < c
            <3>1. PICK l \in 1..(n - 1) : l \in 1..Cardinality(Given) /\ Listed[l] = d BY <1>5, <2>2
            <3> DEFINE g == Response[l]
            <3>2. g.id = GivenId(d) /\ g.call = d
                <4>1. g = [id |-> GivenId(d), call |-> d, args |-> bufs[d].args] BY <3>1, ResponseIs
                <4> QED BY <4>1
            <3>3. PICK e \in Given : /\ e <= d /\ Canonical(g) = WireId(e)
                                     /\ Matches(e, g) /\ \A b \in Hits(g) : e <= b
                <4>1. \E e \in Given : /\ e <= Listed[l] /\ Canonical(g) = WireId(e)
                                       /\ Matches(e, g) /\ \A b \in Hits(g) : e <= b
                    BY <3>1, CanonicalCall
                <4> QED BY <3>1, <4>1
            <3> HIDE DEF g
            <3>4. CASE e = d BY <1>2, <3>3, <3>4 DEF f, g
            <3>5. CASE e # d
                <4>1. progress[e].id = WireId(e) /\ progress[d].id = WireId(d) /\ g.id = WireId(d) /\ f.id = WireId(c)
                    BY <1>1, <1>7, <3>2, GivenIds
                <4>2. WireId(e) # WireId(d) /\ WireId(d) # WireId(c) BY <1>6, <1>7, <2>2, <3>5 DEF WireId
                <4>3. Path(g) /\ (Path(progress[e]) => SameFile(e, d)) BY <3>2, <3>3, <4>1, <4>2 DEF Matches
                <4>4. Path(f) /\ (Path(progress[d]) => SameFile(d, c)) BY <1>1, <1>2, <4>1, <4>2 DEF Matches
                <4>8. Path(progress[d])
                    <5>1. d \in StreamCalls /\ Heard(d) /\ sent[d] \in 0..3 BY <1>3, <1>4 DEF StreamHeard, StreamTyped
                    <5>2. g.args = Got(sent[d]) BY <3>1, ResponseIs DEF g
                    <5>3. sent[d] > 1
                        <6>1. Got(0) = <<>> /\ Got(1) = <<>> BY DEF Got
                        <6>2. CASE sent[d] = 0 \/ sent[d] = 1 BY <4>3, <5>2, <6>1, <6>2 DEF Path
                        <6> QED BY <5>1, <6>2
                    <5> QED BY <5>1, <5>3 DEF Heard
                <4>5. Matches(e, f) BY <1>1, <4>3, <4>4, <4>8 DEF Matches, SameFile
                <4>6. e \in Hits(f) BY <1>3, <1>4, <4>1, <4>5, Wires DEF Hits
                <4>7. d <= e /\ e \in Nat /\ d \in Nat BY <1>2, <1>3, <4>6
                <4> QED BY <3>3, <3>5, <4>7
            <3> QED BY <3>4, <3>5
        <2> QED BY <1>6, <2>1, <2>2
    <1>8. CASE reused
        <2>1. Canonical(f) = <<attempt, 1>> BY <1>2, <1>8 DEF WireId
        <2>2. CASE c = 1
            <3>1. f.id = WireId(c) BY <1>1, <1>8, <2>2, GivenIds
            <3> QED BY <1>8, <2>1, <3>1 DEF WireId, f
        <2>3. CASE c # 1
            <3>1. 1 \in StreamCalls /\ 1 < c BY <1>1, <1>3, <2>3, CallNumbers
            <3>2. Heard(c) /\ sent[c] > 0 BY <1>1, <1>3, GivenIds DEF StreamHeard
            <3>3. sent[1] > 0 BY <3>1, <3>2 DEF Heard
            <3>4. 1 \in Given BY <3>1, <3>3 DEF Given, Begun, Announced
            <3>5. PICK l \in 1..(n - 1) : l \in 1..Cardinality(Given) /\ Listed[l] = 1 BY <3>1, <3>4, ListedBefore DEF c
            <3>6. Canonical(Response[l]) = <<attempt, 1>>
                <4>1. PICK e \in Given : Canonical(Response[l]) = WireId(e) BY <3>5, CanonicalCall
                <4> QED BY <1>8, <4>1 DEF WireId
            <3> QED BY <2>1, <3>5, <3>6 DEF f
        <2> QED BY <2>2, <2>3
    <1> QED BY <1>7, <1>8

LEMMA KeyedSame ==
    ASSUME StreamHeard, ~reused \/ \A c \in Begun : sent[c] = 3
    PROVE  Keyed(Response) = Response
    <1> DEFINE m == Cardinality(Given)
               R == Response
               Used(n) == {NoCallId} \cup {Canonical(R[k]) : k \in 1..n - 1}
               E(n) == IF Canonical(R[n]) \in Used(n) THEN R[n] ELSE [R[n] EXCEPT !.id = Canonical(R[n])]
    <1>1. CASE api = "responses" BY <1>1 DEF Keyed
    <1>2. CASE api # "responses"
        <2>1. Keyed(R) = [n \in DOMAIN R |-> E(n)] BY <1>2 DEF Keyed
        <2>2. DOMAIN R = 1..m /\ R = [n \in 1..m |-> R[n]] /\ m \in Nat BY ResponseIs
        <2>3. ASSUME NEW n \in 1..m PROVE E(n) = R[n]
            <3>1. Canonical(R[n]) = R[n].id \/ \E l \in 1..(n - 1) : Canonical(R[l]) = Canonical(R[n]) BY <1>2, KeyTaken
            <3>2. R[n] = [id |-> GivenId(Listed[n]), call |-> Listed[n], args |-> bufs[Listed[n]].args] BY ResponseIs
            <3> HIDE DEF R
            <3>3. CASE Canonical(R[n]) = R[n].id
                <4>1. [R[n] EXCEPT !.id = R[n].id] = R[n] BY <3>2
                <4> QED BY <3>3, <4>1
            <3>4. CASE \E l \in 1..(n - 1) : Canonical(R[l]) = Canonical(R[n]) BY <3>4
            <3> QED BY <3>1, <3>3, <3>4
        <2> HIDE DEF E, m, R
        <2>4. Keyed(R) = [n \in 1..m |-> R[n]] BY <2>1, <2>2, <2>3
        <2>5. Keyed(R) = R BY <2>2, <2>4
        <2> QED BY <2>5 DEF R
    <1> QED BY <1>1, <1>2

Piece(c) == IF sent[c] = 0 THEN "name" ELSE PiecesOf[sent[c]]

LEMMA AppendedTo ==
    ASSUME NEW T, NEW q \in Seq(T), NEW e \in T
    PROVE  /\ Append(q, e) \in Seq(T) /\ Len(Append(q, e)) = Len(q) + 1
           /\ \A i \in 1..Len(q) : Append(q, e)[i] = q[i]
           /\ Append(q, e)[Len(q) + 1] = e
    <1>1. Append(q, e) \in Seq(T) OBVIOUS
    <1>2. Len(Append(q, e)) = Len(q) + 1 OBVIOUS
    <1>3. \A i \in 1..Len(q) : Append(q, e)[i] = q[i] OBVIOUS
    <1>4. Append(q, e)[Len(q) + 1] = e OBVIOUS
    <1> QED BY <1>1, <1>2, <1>3, <1>4

\* What a piece adds to the buffer of its call and to the state its tracker has.
LEMMA PieceAdds ==
    ASSUME StreamTyped, NEW c \in StreamCalls, Heard(c), sent[c] < Len(PiecesOf) + 1
    PROVE  LET s == Progressed(progress[c], WireId(c), Piece(c), pathOf[c]) IN
           /\ sent[c] + 1 \in 1..3
           /\ Accumulated(bufs[c], WireId(c), Piece(c)) = [id |-> WireId(c), args |-> Got(sent[c] + 1)]
           /\ Got(sent[c] + 1) \in Seq(Steps)
           /\ s \in [id : Ids, args : Seq(Steps), tracker : Ids]
           /\ s.id = WireId(c) /\ s.tracker \in {progress[c].tracker, WireId(c)}
           /\ sent[c] = 1 => Path(s) /\ (pathOf[c] \in LostPaths \/ s.tracker # NoCallId)
           /\ Path(progress[c]) => Path(s)
           /\ progress[c].tracker # NoCallId => s.tracker # NoCallId
    <1> DEFINE n == sent[c]
               w == WireId(c)
               p == Piece(c)
               old == progress[c].args
               args == IF p = "name" THEN old ELSE Append(old, p)
               far == pathOf[c] \in LostPaths
               k == IF progress[c].tracker = NoCallId /\ Path([args |-> args]) /\ ~far THEN w ELSE progress[c].tracker
               s == Progressed(progress[c], w, p, pathOf[c])
    <1>1. n \in 0..2
        <2>1. n \in 0..3 BY DEF StreamTyped
        <2>2. Len(PiecesOf) = 2 BY DEF PiecesOf
        <2> QED BY <2>1, <2>2
    <1>2. n = 0 \/ n = 1 \/ n = 2 BY <1>1
    <1>3. (n = 0 => p = "name") /\ (n = 1 => p = "path") /\ (n = 2 => p = "rest") BY DEF Piece, PiecesOf
    <1>4. Accumulated(bufs[c], w, p) = [id |-> w, args |-> IF p = "name" THEN Got(n) ELSE Append(Got(n), p)]
        BY DEF Accumulated, Heard
    <1>5. s = [id |-> w, args |-> args, tracker |-> k] BY DEF Progressed
    <1>6. w \in Ids /\ w # NoCallId BY Wires
    <1>7. progress[c].tracker \in Ids /\ old \in Seq(Steps) BY DEF StreamTyped
    <1>8. n + 1 \in 1..3 BY <1>1
    <1> HIDE DEF n, w, p
    <1>9. args \in Seq(Steps) /\ (n = 1 => Path([args |-> args])) /\ (Path(progress[c]) => Path([args |-> args]))
        <2>4. Path(progress[c]) <=> Path([args |-> old]) BY DEF Path
        <2> HIDE DEF old
        <2>1. CASE n = 0 BY <1>3, <1>7, <2>1, <2>4
        <2>2. CASE n = 1
            <3>1. args = Append(old, "path") BY <1>3, <2>2
            <3> HIDE DEF args
            <3> QED BY <1>7, <3>1, PathOfStep
        <2>3. CASE n = 2
            <3>1. args = Append(old, "rest") /\ n # 1 BY <1>3, <2>3
            <3> HIDE DEF args, n
            <3>2. args \in Seq(Steps) /\ (Path([args |-> old]) => Path([args |-> args])) BY <1>7, <3>1, PathOfStep
            <3> QED BY <2>4, <3>1, <3>2
        <2> QED BY <1>2, <2>1, <2>2, <2>3
    <1>10. (IF p = "name" THEN Got(n) ELSE Append(Got(n), p)) = Got(n + 1) /\ Got(n + 1) \in Seq(Steps)
        <2>1. CASE n = 0 BY <1>3, <2>1 DEF Got, Steps
        <2>2. CASE n = 1
            <3>1. Got(1) = <<>> /\ Got(2) = <<"path">> BY DEF Got
            <3>2. Append(<<>>, "path") = <<"path">> OBVIOUS
            <3>3. <<"path">> \in Seq(Steps) BY DEF Steps
            <3>4. n + 1 = 2 /\ p = "path" /\ p # "name" BY <1>3, <2>2
            <3> QED BY <2>2, <3>1, <3>2, <3>3, <3>4
        <2>3. CASE n = 2
            <3>1. Got(2) = <<"path">> /\ Got(3) = <<"path", "rest">> BY DEF Got
            <3> DEFINE one == <<"path">>
                       two == <<"path", "rest">>
                       made == Append(one, "rest")
            <3>2. one \in Seq(Steps) /\ Len(one) = 1 /\ one[1] = "path" BY DEF Steps
            <3>3. two \in Seq(Steps) /\ Len(two) = 2 /\ two[1] = "path" /\ two[2] = "rest" BY DEF Steps
            <3> HIDE DEF one, two
            <3>4. made \in Seq(Steps) /\ Len(made) = 2 /\ made[1] = "path" /\ made[2] = "rest"
                <4>1. "rest" \in Steps BY DEF Steps
                <4> DEFINE e == "rest"
                <4> HIDE DEF e
                <4>2. one \in Seq(Steps) /\ e \in Steps BY <3>2, <4>1 DEF e
                <4>3. /\ Append(one, e) \in Seq(Steps) /\ Len(Append(one, e)) = Len(one) + 1
                      /\ \A i \in 1..Len(one) : Append(one, e)[i] = one[i]
                      /\ Append(one, e)[Len(one) + 1] = e
                    BY <4>2, AppendedTo
                <4>4. made = Append(one, e) BY DEF e
                <4> HIDE DEF made
                <4>5. 1 \in 1..Len(one) /\ Len(one) + 1 = 2 BY <3>2
                <4> QED BY <3>2, <4>3, <4>4, <4>5 DEF e
            <3> HIDE DEF made
            <3>5. made = two BY <3>3, <3>4
            <3>6. Got(2) = one /\ Got(3) = two BY <3>1 DEF one, two
            <3>7. n + 1 = 3 /\ p = "rest" /\ p # "name" BY <1>3, <2>3
            <3> QED BY <2>3, <3>3, <3>5, <3>6, <3>7 DEF made
        <2> QED BY <1>2, <2>1, <2>2, <2>3
    <1> HIDE DEF args, old, far
    <1>11. k \in Ids /\ k \in {progress[c].tracker, w} /\ (n = 1 => far \/ k # NoCallId)
           /\ (progress[c].tracker # NoCallId => k # NoCallId)
        BY <1>6, <1>7, <1>9
    <1> HIDE DEF k, s
    <1>12. s \in [id : Ids, args : Seq(Steps), tracker : Ids] /\ s.id = w /\ s.tracker = k /\ s.args = args
        BY <1>5, <1>6, <1>9, <1>11
    <1>13. (n = 1 => Path(s)) /\ (Path(progress[c]) => Path(s))
        <2>1. Path(s) <=> Path([args |-> args]) BY <1>12 DEF Path
        <2> QED BY <1>9, <2>1
    <1> QED BY <1>4, <1>8, <1>10, <1>11, <1>12, <1>13 DEF n, w, p, s, far

LEMMA ShownKeeps ==
    ASSUME NEW old \in [ChipIds -> {"none", "editing", "done", "error"}], NEW i \in ChipIds, NEW t \in {"editing", "error"}
    PROVE  /\ Shown(old, i, t) \in [ChipIds -> {"none", "editing", "done", "error"}]
           /\ \A j \in ChipIds : j # i => Shown(old, i, t)[j] = old[j]
           /\ Shown(old, i, t)[i] \in {t, old[i]}
           /\ t = "error" => Shown(old, i, t)[i] = "error"
    BY DEF Shown

LEMMA ShownAllKeeps ==
    ASSUME NEW old \in [ChipIds -> {"none", "editing", "done", "error"}], NEW S, NEW t \in {"editing", "error"}
    PROVE  /\ ShownAll(old, S, t) \in [ChipIds -> {"none", "editing", "done", "error"}]
           /\ \A j \in ChipIds : j \notin S => ShownAll(old, S, t)[j] = old[j]
           /\ \A j \in ChipIds \cap S : t = "error" => ShownAll(old, S, t)[j] = "error"
    <1>1. \A i \in ChipIds : Shown(old, i, t)[i] \in {"none", "editing", "done", "error"} BY ShownKeeps
    <1>2. t = "error" => \A i \in ChipIds : Shown(old, i, t)[i] = "error" BY ShownKeeps
    <1> QED BY <1>1, <1>2 DEF ShownAll

LEMMA PieceHeard ==
    ASSUME StreamHeard, NEW c \in StreamCalls, PieceArrives(c)
    PROVE  StreamHeard'
    <1> DEFINE w == WireId(c)
               s == Progressed(progress[c], w, Piece(c), pathOf[c])
               n == sent[c] + 1
               b == [id |-> w, args |-> Got(n)]
    <1>1. StreamTyped /\ Heard(c) BY DEF StreamHeard
    <1>2. sent[c] < Len(PiecesOf) + 1 BY DEF PieceArrives
    <1>3. /\ n \in 1..3 /\ Got(n) \in Seq(Steps)
          /\ s \in [id : Ids, args : Seq(Steps), tracker : Ids] /\ s.id = w
          /\ s.tracker \in {progress[c].tracker, w}
          /\ (sent[c] = 1 => Path(s) /\ (pathOf[c] \in LostPaths \/ s.tracker # NoCallId))
          /\ (Path(progress[c]) => Path(s)) /\ (progress[c].tracker # NoCallId => s.tracker # NoCallId)
        BY <1>1, <1>2, PieceAdds
    <1>4. Accumulated(bufs[c], w, Piece(c)) = b BY <1>1, <1>2, PieceAdds
    <1>5. w \in Ids /\ w \in WireIds /\ w # NoCallId BY <1>1, Wires
    <1>6. /\ sent' = [sent EXCEPT ![c] = n] /\ bufs' = [bufs EXCEPT ![c] = b] /\ progress' = [progress EXCEPT ![c] = s]
          /\ chips' = Streamed(chips, s) /\ UNCHANGED <<api, pathOf, reused, stage, attempt, final, whole>>
          /\ \A d \in StreamCalls : d < c => sent[d] > 0
        BY <1>4 DEF PieceArrives, Piece
    <1>7. LiveId(s) \in ChipIds /\ LiveId(s) \in {s.id, s.tracker}
        BY <1>3, <1>5 DEF LiveId, Ids, ChipIds
    <1>8. b \in [id : Ids, args : Seq(Steps)] BY <1>3, <1>5
    <1> HIDE DEF s, n, b
    <1>9. StreamTyped'
        <2>1. chips' \in [ChipIds -> {"none", "editing", "done", "error"}]
            BY <1>1, <1>6, <1>7, ShownKeeps DEF StreamTyped, Streamed
        <2>2. sent' \in [StreamCalls -> 0..3] BY <1>1, <1>3, <1>6 DEF StreamTyped
        <2>3. bufs' \in [StreamCalls -> [id : Ids, args : Seq(Steps)]] BY <1>1, <1>6, <1>8 DEF StreamTyped
        <2>4. progress' \in [StreamCalls -> [id : Ids, args : Seq(Steps), tracker : Ids]] BY <1>1, <1>3, <1>6 DEF StreamTyped
        <2> QED BY <1>1, <1>6, <2>1, <2>2, <2>3, <2>4 DEF StreamTyped
    <1>10. ASSUME NEW d \in StreamCalls PROVE Heard(d)'
        <2>1. Heard(d) BY DEF StreamHeard
        <2>2. WireId(d)' = WireId(d) BY <1>6 DEF WireId
        <2>3. \A e \in StreamCalls : sent[e] \in 0..3 /\ (e # c => sent'[e] = sent[e]) BY <1>1, <1>6 DEF StreamTyped
        <2>4. sent'[c] = n /\ bufs'[c] = b /\ progress'[c] = s BY <1>1, <1>6 DEF StreamTyped
        <2>5. \A e \in StreamCalls : e < d /\ sent'[d] > 0 => sent'[e] > 0
            <3> SUFFICES ASSUME NEW e \in StreamCalls, e < d, sent'[d] > 0 PROVE sent'[e] > 0 OBVIOUS
            <3>1. CASE e = c BY <1>3, <2>4, <3>1
            <3>2. CASE e # c /\ d = c BY <1>6, <2>3, <3>2
            <3>3. CASE e # c /\ d # c BY <2>1, <2>3, <3>3 DEF Heard
            <3> QED BY <3>1, <3>2, <3>3
        <2>6. CASE d # c
            <3>1. sent'[d] = sent[d] /\ bufs'[d] = bufs[d] /\ progress'[d] = progress[d] BY <1>1, <1>6, <2>6 DEF StreamTyped
            <3> QED BY <1>6, <2>1, <2>2, <2>5, <3>1 DEF Heard
        <2>7. CASE d = c
            <3>1. bufs'[c].args = Got(sent'[c]) /\ bufs'[c].id = w BY <2>4 DEF b
            <3>2. progress'[c].id = w BY <1>3, <2>4
            <3>3. sent'[c] > 1 => Path(s) /\ (pathOf[c] \in LostPaths \/ s.tracker # NoCallId)
                <4>1. n > 1 => sent[c] = 1 \/ sent[c] > 1 BY <2>3 DEF n
                <4>2. sent[c] > 1 => Path(progress[c]) /\ (pathOf[c] \in LostPaths \/ progress[c].tracker # NoCallId)
                    BY <1>1 DEF Heard
                <4> QED BY <1>3, <2>4, <4>1, <4>2
            <3>7. Path(progress[c])' <=> Path(s) BY <2>4 DEF Path
            <3>4. Clear => progress'[c].tracker \in {NoCallId, w} BY <1>1, <1>3, <2>4 DEF Heard, Clear
            <3>5. sent'[c] # 0 BY <1>3, <2>4
            <3> HIDE DEF w
            <3>6. WireId(c)' = w BY <2>2, <2>7 DEF w
            <3> QED BY <1>6, <2>4, <2>5, <2>7, <3>1, <3>2, <3>3, <3>4, <3>5, <3>6, <3>7 DEF Heard, Clear
        <2> QED BY <2>6, <2>7
    <1> QED BY <1>9, <1>10 DEF StreamHeard

LEMMA StallHeard ==
    ASSUME StreamHeard, StreamStalls
    PROVE  StreamHeard'
    <1>1. StreamTyped BY DEF StreamHeard
    <1>2. attempt + 1 \in 1..MaxTries /\ attempt + 1 # 1
        <2>1. MaxTries \in Nat /\ attempt \in 1..MaxTries /\ attempt < MaxTries
            BY <1>1, ToolStreamAssumption DEF StreamTyped, StreamStalls
        <2> QED BY <2>1
    <1>3. /\ attempt' = attempt + 1 /\ sent' = [c \in StreamCalls |-> 0]
          /\ bufs' = [c \in StreamCalls |-> [id |-> NoCallId, args |-> <<>>]]
          /\ UNCHANGED <<api, pathOf, reused, progress, chips>>
        BY DEF StreamStalls
    <1>4. [id |-> NoCallId, args |-> <<>>] \in [id : Ids, args : Seq(Steps)] BY DEF Ids
    <1>5. bufs' \in [StreamCalls -> [id : Ids, args : Seq(Steps)]] BY <1>3, <1>4
    <1>6. StreamTyped' BY <1>1, <1>2, <1>3, <1>5 DEF StreamTyped
    <1>7. ASSUME NEW c \in StreamCalls PROVE Heard(c)'
        <2>1. sent'[c] = 0 /\ bufs'[c].args = <<>> BY <1>3
        <2>2. Got(sent'[c]) = <<>> BY <2>1 DEF Got
        <2> QED BY <1>2, <1>3, <2>1, <2>2 DEF Heard
    <1> QED BY <1>6, <1>7 DEF StreamHeard

\* What the end of a stream does to the chips.
LEMMA SettledChips ==
    ASSUME StreamTyped, NEW calls, Settled(calls)
    PROVE  LET T == {progress[c].tracker : c \in StreamCalls} \ {NoCallId}
               D == {LiveId(progress[c]) : c \in Dropped(calls)} IN
           /\ chips' \in [ChipIds -> {"none", "editing", "done", "error"}]
           /\ \A i \in ChipIds : chips'[i] = "editing" => i \notin D /\ (i \in T \/ chips[i] = "editing")
    <1> DEFINE T == {progress[c].tracker : c \in StreamCalls} \ {NoCallId}
               D == {LiveId(progress[c]) : c \in Dropped(calls)}
               one == ShownAll(chips, T, "editing")
    <1>1. chips' = ShownAll(one, D, "error") BY DEF Settled
    <1> HIDE DEF T, D
    <1>2. chips \in [ChipIds -> {"none", "editing", "done", "error"}] BY DEF StreamTyped
    <1>3. one \in [ChipIds -> {"none", "editing", "done", "error"}] /\ \A j \in ChipIds : j \notin T => one[j] = chips[j]
        BY <1>2, ShownAllKeeps
    <1> HIDE DEF one
    <1>4. /\ chips' \in [ChipIds -> {"none", "editing", "done", "error"}]
          /\ \A j \in ChipIds : j \notin D => chips'[j] = one[j]
          /\ \A j \in ChipIds \cap D : chips'[j] = "error"
        BY <1>1, <1>3, ShownAllKeeps
    <1>5. \A i \in ChipIds : chips'[i] = "editing" => i \notin D /\ (i \in T \/ chips[i] = "editing") BY <1>3, <1>4
    <1> QED BY <1>4, <1>5 DEF T, D

LEMMA UnheardKeeps ==
    ASSUME StreamHeard, UNCHANGED <<api, pathOf, reused, attempt, sent, bufs, progress>>,
           chips' \in [ChipIds -> {"none", "editing", "done", "error"}]
    PROVE  StreamHeard'
    BY DEF StreamHeard, StreamTyped, Heard, WireId, Path

LEMMA HeardHeld ==
    ASSUME StreamHeard, [ToolNext]_toolVars
    PROVE  StreamHeard'
    <1>1. StreamTyped BY DEF StreamHeard
    <1>2. ASSUME NEW c \in StreamCalls, PieceArrives(c) PROVE StreamHeard' BY <1>2, PieceHeard
    <1>3. ASSUME NEW calls, Settled(calls) PROVE StreamHeard'
        <2>1. chips' \in [ChipIds -> {"none", "editing", "done", "error"}] BY <1>1, <1>3, SettledChips
        <2> QED BY <1>3, <2>1, UnheardKeeps DEF Settled
    <1>4. CASE StreamStalls BY <1>4, StallHeard
    <1>5. CASE RunCalls
        <2>1. PICK failed \in SUBSET DOMAIN final, barred \in SUBSET DOMAIN final :
                  chips' = [i \in ChipIds |-> RunStatus(i, failed, barred)]
            BY <1>5 DEF RunCalls
        <2>2. \A i \in ChipIds : RunStatus(i, failed, barred) \in {"none", "editing", "done", "error"}
            BY <1>1 DEF StreamTyped, RunStatus
        <2> QED BY <1>5, <2>1, <2>2, UnheardKeeps DEF RunCalls
    <1>6. CASE UNCHANGED toolVars BY <1>1, <1>6, UnheardKeeps DEF toolVars, StreamTyped
    <1>7. StreamEnds => Settled(Response) BY DEF StreamEnds
    <1>8. StreamCut => Settled(Response) BY DEF StreamCut
    <1>9. StreamFails => Settled(<<>>) BY DEF StreamFails
    <1> QED BY <1>2, <1>3, <1>4, <1>5, <1>6, <1>7, <1>8, <1>9 DEF ToolNext

\* The response of a complete stream.
LEMMA EndsWhole ==
    ASSUME StreamHeard, StreamEnds
    PROVE  CallsWhole'
    <1> DEFINE m == Cardinality(Given)
               R == Response
               q == Listed
    <1>1. \A c \in Begun : sent[c] = 3
        <2>1. Len(PiecesOf) = 2 BY DEF PiecesOf
        <2> QED BY <2>1 DEF StreamEnds, Begun
    <1>2. Given = Begun
        <2>1. Len(PiecesOf) + 1 = 3 BY DEF PiecesOf
        <2> QED BY <1>1, <2>1 DEF Given, Announced
    <1>3. final' = Keyed(Response) /\ sent' = sent BY DEF StreamEnds, Settled
    <1>4. final' = R BY <1>1, <1>3, KeyedSame
    <1>5. /\ m \in Nat /\ q \in [1..m -> Given] /\ Increasing(q) /\ DOMAIN R = 1..m
          /\ \A k \in 1..m : R[k] = [id |-> GivenId(q[k]), call |-> q[k], args |-> bufs[q[k]].args]
          /\ \A k \in 1..m : q[k] \in Given /\ R[k].args = Got(sent[q[k]])
        BY ResponseIs
    <1> HIDE DEF m, q, R
    <1>6. Len(R) = m BY <1>5
    <1>7. \A k \in 1..m : R[k].args = PiecesOf
        <2>1. Got(3) = PiecesOf BY DEF Got, PiecesOf
        <2> QED BY <1>1, <1>2, <1>5, <2>1
    <1>8. \A c, d \in Given : GivenId(c) = GivenId(d) => c = d
        <2> SUFFICES ASSUME NEW c \in Given, NEW d \in Given, GivenId(c) = GivenId(d) PROVE c = d OBVIOUS
        <2>1. StreamTyped /\ c \in StreamCalls /\ d \in StreamCalls BY DEF StreamHeard, Given, Begun
        <2>2. CASE ~reused BY <2>2, GivenIds DEF WireId
        <2>3. CASE reused
            <3>1. /\ GivenId(c) = IF c = 1 THEN WireId(c) ELSE FreshId(c)
                  /\ GivenId(d) = IF d = 1 THEN WireId(d) ELSE FreshId(d)
                BY <2>3, GivenIds
            <3>2. WireId(c) # FreshId(d) /\ WireId(d) # FreshId(c) BY <2>1, Wires
            <3>3. FreshId(c) = FreshId(d) => c = d BY DEF FreshId
            <3> QED BY <3>1, <3>2, <3>3
        <2> QED BY <2>2, <2>3
    <1>9. \A k, l \in 1..m : R[l].id = R[k].id => l = k
        <2> SUFFICES ASSUME NEW k \in 1..m, NEW l \in 1..m, R[l].id = R[k].id PROVE l = k OBVIOUS
        <2>1. R[k].id = GivenId(q[k])
            <3>1. R[k] = [id |-> GivenId(q[k]), call |-> q[k], args |-> bufs[q[k]].args] BY <1>5
            <3> QED BY <3>1
        <2>2. R[l].id = GivenId(q[l])
            <3>1. R[l] = [id |-> GivenId(q[l]), call |-> q[l], args |-> bufs[q[l]].args] BY <1>5
            <3> QED BY <3>1
        <2>3. q[k] = q[l] /\ q[k] \in Nat BY <1>5, <1>8, <2>1, <2>2, CallNumbers DEF Given, Begun
        <2>4. DOMAIN q = 1..m BY <1>5
        <2>5. ~(k < l) /\ ~(l < k) BY <1>5, <2>3, <2>4 DEF Increasing
        <2> QED BY <1>5, <2>5
    <1>10. Cardinality({c \in StreamCalls : sent[c] > 0}) = m BY <1>2 DEF m, Begun
    <1> QED BY <1>3, <1>4, <1>5, <1>6, <1>7, <1>9, <1>10 DEF CallsWhole

\* The chips an ended stream leaves open are those of the calls of its response.
LEMMA EndHolds ==
    ASSUME StreamHeard, ChipsStreamed, NEW calls, Settled(calls), calls = Response \/ calls = <<>>
    PROVE  ChipsHeld'
    <1> SUFFICES ASSUME Plain', NEW i \in ChipIds, chips'[i] = "editing"
                 PROVE  InResponse(i)' \/ Unresolved(i)'
        BY DEF ChipsHeld
    <1>1. Plain BY DEF Plain, Clear, Settled
    <1>2. StreamTyped /\ attempt = 1 /\ ~reused /\ IsInjective(pathOf) /\ \A c \in StreamCalls : sent[c] # 1 /\ Heard(c)
        BY <1>1 DEF Plain, Clear, StreamHeard
    <1>3. \A c \in StreamCalls : WireId(c) = <<1, c>> /\ WireId(c) # NoCallId BY <1>2, Wires
    <1>4. /\ i \notin {LiveId(progress[c]) : c \in Dropped(calls)}
          /\ i \in ({progress[c].tracker : c \in StreamCalls} \ {NoCallId}) \/ chips[i] = "editing"
        BY <1>2, SettledChips
    <1>5. PICK c \in StreamCalls : sent[c] > 0 /\ i = WireId(c)
        <2>1. CASE chips[i] = "editing" BY <1>2, <2>1 DEF ChipsStreamed, Clear
        <2>2. CASE i \in ({progress[c].tracker : c \in StreamCalls} \ {NoCallId})
            <3>1. PICK c \in StreamCalls : i = progress[c].tracker /\ i # NoCallId BY <2>2
            <3>2. Heard(c) /\ sent[c] \in 0..3 BY <1>2 DEF StreamTyped
            <3>3. i = WireId(c) /\ sent[c] # 0 BY <1>2, <3>1, <3>2 DEF Heard
            <3> QED BY <3>2, <3>3
        <2> QED BY <1>4, <2>1, <2>2
    <1>17. \A d \in StreamCalls : WireId(d)' = WireId(d) BY DEF WireId, Settled
    <1>18. CASE pathOf[c] \in LostPaths BY <1>5, <1>17, <1>18 DEF Unresolved, Settled
    <1> SUFFICES ASSUME pathOf[c] \notin LostPaths PROVE InResponse(i)' BY <1>18
    <1>6. progress[c].tracker = WireId(c) /\ progress[c].id = WireId(c) /\ Path(progress[c])
        <2>1. Heard(c) /\ sent[c] \in 0..3 /\ sent[c] # 1 BY <1>2 DEF StreamTyped
        <2>2. sent[c] > 1 BY <1>5, <2>1
        <2> QED BY <1>2, <1>5, <2>1, <2>2 DEF Heard
    <1>7. LiveId(progress[c]) = i /\ progress[c].tracker # NoCallId BY <1>3, <1>5, <1>6 DEF LiveId
    <1>8. c \notin Dropped(calls) BY <1>4, <1>7
    <1>9. PICK k \in DOMAIN calls : Matches(c, calls[k]) BY <1>7, <1>8 DEF Dropped
    <1>10. calls = Response
        <2>1. DOMAIN <<>> = {} OBVIOUS
        <2> QED BY <1>9, <2>1
    <1>11. final' = Response BY <1>2, <1>10, KeyedSame DEF Settled
    <1> DEFINE f == Response[k]
               e == Listed[k]
    <1>12. k \in 1..Cardinality(Given) BY <1>9, <1>10, ResponseIs
    <1>13. f.id = GivenId(e) /\ f.call = e /\ e \in Given
        <2>1. f = [id |-> GivenId(e), call |-> e, args |-> bufs[e].args] /\ e \in Given BY <1>12, ResponseIs
        <2> QED BY <2>1
    <1> HIDE DEF e, f
    <1>14. f.id = WireId(e) /\ e \in StreamCalls BY <1>2, <1>13, GivenIds
    <1>15. Matches(c, f) BY <1>9, <1>10 DEF f
    <1>16. f.id = i
        <2>1. CASE progress[c].id = f.id BY <1>5, <1>6, <2>1
        <2>2. CASE progress[c].id # f.id
            <3>1. pathOf[c] = pathOf[e] BY <1>6, <1>13, <1>15, <2>2 DEF Matches, SameFile
            <3>2. c = e BY <1>2, <1>14, <3>1 DEF IsInjective, StreamTyped
            <3> QED BY <1>5, <1>14, <3>2
        <2> QED BY <2>1, <2>2
    <1>19. f.call \in StreamCalls /\ i = <<attempt', f.call>>
        <2>1. attempt' = attempt /\ WireId(e) = <<attempt, e>> BY <1>2 DEF WireId, Settled
        <2> QED BY <1>13, <1>14, <1>16, <2>1
    <1>20. Response[k].id = i /\ Response[k].call \in StreamCalls /\ i = <<attempt', Response[k].call>>
        BY <1>16, <1>19 DEF f
    <1> QED BY <1>9, <1>10, <1>11, <1>20 DEF InResponse

LEMMA CallsStart == ToolInit => CallsHeard
    <1> SUFFICES ASSUME ToolInit PROVE CallsHeard OBVIOUS
    <1>1. StreamTyped
        <2>1. attempt \in 1..MaxTries BY ToolStreamAssumption DEF ToolInit
        <2>2. api \in {"chat", "responses", "anthropic"} BY ToolStreamAssumption DEF ToolInit
        <2>3. reused \in BOOLEAN /\ (reused => api = "chat") BY DEF ToolInit
        <2>4. [id |-> NoCallId, args |-> <<>>] \in [id : Ids, args : Seq(Steps)] BY DEF Ids
        <2>5. [id |-> NoCallId, args |-> <<>>, tracker |-> NoCallId] \in [id : Ids, args : Seq(Steps), tracker : Ids]
            BY DEF Ids
        <2>6. bufs \in [StreamCalls -> [id : Ids, args : Seq(Steps)]] BY <2>4 DEF ToolInit
        <2>7. progress \in [StreamCalls -> [id : Ids, args : Seq(Steps), tracker : Ids]] BY <2>5 DEF ToolInit
        <2>8. sent \in [StreamCalls -> 0..3] /\ chips \in [ChipIds -> {"none", "editing", "done", "error"}]
              /\ pathOf \in [StreamCalls -> Paths]
            BY DEF ToolInit
        <2> QED BY <2>1, <2>2, <2>3, <2>6, <2>7, <2>8 DEF StreamTyped
    <1>2. ASSUME NEW c \in StreamCalls PROVE Heard(c)
        <2>1. sent[c] = 0 /\ bufs[c].args = <<>> /\ progress[c].tracker = NoCallId BY DEF ToolInit
        <2>2. Got(sent[c]) = <<>> BY <2>1 DEF Got
        <2> QED BY <2>1, <2>2 DEF Heard
    <1>3. ChipsStreamed BY DEF ToolInit, ChipsStreamed
    <1>4. stage = "streaming" BY DEF ToolInit
    <1> QED BY <1>1, <1>2, <1>3, <1>4 DEF CallsHeard, StreamHeard, CallsSound, CallsWhole, ChipsClose

LEMMA PieceChips ==
    ASSUME StreamHeard, ChipsStreamed, NEW c \in StreamCalls, PieceArrives(c)
    PROVE  ChipsStreamed'
    <1> DEFINE s == Progressed(progress[c], WireId(c), Piece(c), pathOf[c])
    <1>1. StreamTyped /\ Heard(c) BY DEF StreamHeard
    <1>2. s.id = WireId(c) /\ s.tracker \in {progress[c].tracker, WireId(c)} /\ WireId(c) \in ChipIds
        BY <1>1, PieceAdds, Wires DEF PieceArrives
    <1>3. /\ sent' = [sent EXCEPT ![c] = sent[c] + 1] /\ chips' = Streamed(chips, s)
          /\ UNCHANGED <<reused, attempt>>
        BY DEF PieceArrives, Piece
    <1> SUFFICES ASSUME Clear', NEW i \in ChipIds, chips'[i] # "none"
                 PROVE  \E d \in StreamCalls : sent'[d] > 0 /\ i = WireId(d)'
        BY DEF ChipsStreamed
    <1>4. Clear BY <1>3 DEF Clear
    <1>5. s.tracker \in {NoCallId, WireId(c)} BY <1>1, <1>2, <1>4 DEF Heard, Clear
    <1>6. LiveId(s) = WireId(c) BY <1>2, <1>5 DEF LiveId
    <1> HIDE DEF s
    <1>7. \A d \in StreamCalls : WireId(d)' = WireId(d) BY <1>3 DEF WireId
    <1>8. \A d \in StreamCalls : sent[d] \in 0..3 /\ sent'[d] = (IF d = c THEN sent[c] + 1 ELSE sent[d])
        BY <1>1, <1>3 DEF StreamTyped
    <1>9. sent'[c] > 0 BY <1>8
    <1>10. CASE i = WireId(c) BY <1>7, <1>9, <1>10
    <1>11. CASE i # WireId(c)
        <2>1. chips'[i] = chips[i] BY <1>1, <1>2, <1>3, <1>6, <1>11, ShownKeeps DEF StreamTyped, Streamed
        <2>2. PICK d \in StreamCalls : sent[d] > 0 /\ i = WireId(d) BY <1>4, <2>1 DEF ChipsStreamed
        <2>3. sent'[d] > 0 BY <1>8, <1>9, <2>2
        <2> QED BY <1>7, <2>2, <2>3
    <1> QED BY <1>10, <1>11

LEMMA CallsStep == CallsHeard /\ [ToolNext]_toolVars => CallsHeard'
    <1> SUFFICES ASSUME CallsHeard, [ToolNext]_toolVars PROVE CallsHeard' OBVIOUS
    <1>1. /\ StreamHeard /\ CallsWhole /\ ChipsClose /\ stage \in {"streaming", "ended", "ran"}
          /\ (stage = "streaming" => ChipsStreamed) /\ (stage = "ended" => ChipsHeld)
        BY DEF CallsHeard, CallsSound
    <1>2. StreamHeard' BY <1>1, HeardHeld
    <1>3. ASSUME NEW c \in StreamCalls, PieceArrives(c) PROVE CallsHeard'
        <2>1. stage = "streaming" /\ stage' = "streaming" BY <1>3 DEF PieceArrives
        <2>2. ChipsStreamed' BY <1>1, <1>3, <2>1, PieceChips
        <2> QED BY <1>2, <2>1, <2>2 DEF CallsHeard, CallsSound, CallsWhole, ChipsClose
    <1>4. CASE StreamStalls
        <2>1. stage' = "streaming" BY <1>4 DEF StreamStalls
        <2>2. ~Clear'
            <3>1. attempt \in 1..MaxTries /\ attempt' = attempt + 1 BY <1>1, <1>4 DEF StreamHeard, StreamTyped, StreamStalls
            <3>2. MaxTries \in Nat BY ToolStreamAssumption
            <3>3. attempt' # 1 BY <3>1, <3>2
            <3> QED BY <3>3 DEF Clear
        <2>3. ChipsStreamed' BY <2>2 DEF ChipsStreamed
        <2> QED BY <1>2, <2>1, <2>3 DEF CallsHeard, CallsSound, CallsWhole, ChipsClose
    <1>5. ASSUME stage = "streaming", NEW calls, Settled(calls), calls = Response \/ calls = <<>>, CallsWhole'
          PROVE  CallsHeard'
        <2>1. stage' = "ended" BY <1>5 DEF Settled
        <2>2. ChipsHeld' BY <1>1, <1>5, EndHolds
        <2> QED BY <1>2, <1>5, <2>1, <2>2 DEF CallsHeard, CallsSound, ChipsClose
    <1>6. CASE StreamEnds BY <1>1, <1>5, <1>6, EndsWhole DEF StreamEnds
    <1>7. CASE StreamCut
        <2>1. CallsWhole' BY <1>7 DEF StreamCut, CallsWhole
        <2> QED BY <1>5, <1>7, <2>1 DEF StreamCut
    <1>8. CASE StreamFails
        <2>1. CallsWhole' BY <1>8 DEF StreamFails, CallsWhole
        <2> QED BY <1>5, <1>8, <2>1 DEF StreamFails
    <1>9. CASE RunCalls
        <2>1. /\ stage = "ended" /\ stage' = "ran" /\ UNCHANGED <<pathOf, reused, attempt, sent, final, whole>>
            BY <1>9 DEF RunCalls
        <2>2. PICK failed \in SUBSET DOMAIN final, barred \in SUBSET DOMAIN final :
                  /\ chips' = [i \in ChipIds |-> RunStatus(i, failed, barred)]
                  /\ refused' = {final[k].call : k \in barred}
            BY <1>9 DEF RunCalls
        <2>3. CallsWhole'
            <3>1. stage # "streaming" BY <2>1
            <3> QED BY <1>1, <2>1, <3>1 DEF CallsWhole
        <2>4. ASSUME Plain', NEW i \in ChipIds, chips'[i] = "editing"
              PROVE  \E c \in StreamCalls : i = WireId(c)' /\ (pathOf'[c] \in LostPaths \/ c \in refused')
            <3>1. Plain BY <2>1, <2>4 DEF Plain, Clear
            <3>2. chips'[i] = RunStatus(i, failed, barred) BY <2>2
            <3>3. chips[i] = "editing" /\ Ending(i, barred) = {} BY <2>4, <3>2 DEF RunStatus
            <3>4. InResponse(i) \/ Unresolved(i) BY <1>1, <2>1, <3>1, <3>3 DEF ChipsHeld
            <3>5. \A c \in StreamCalls : WireId(c)' = WireId(c) BY <2>1 DEF WireId
            <3>6. CASE Unresolved(i) BY <2>1, <3>5, <3>6 DEF Unresolved
            <3>7. CASE InResponse(i)
                <4>1. PICK k \in DOMAIN final : final[k].id = i /\ final[k].call \in StreamCalls /\ i = <<attempt, final[k].call>>
                    BY <3>7 DEF InResponse
                <4>2. k \in barred \/ pathOf[final[k].call] \in LostPaths BY <3>3, <4>1 DEF Ending
                <4> PICK c \in StreamCalls : c = final[k].call BY <4>1
                <4>3. c \in StreamCalls /\ i = <<attempt, c>> BY <4>1
                <4>4. (k \in barred => c \in refused') /\ (k \in barred \/ pathOf[c] \in LostPaths) BY <2>2, <4>2
                <4>5. WireId(c) = <<attempt, c>> BY <3>1 DEF WireId, Plain, Clear
                <4>6. i = WireId(c)' BY <3>5, <4>3, <4>5
                <4> QED BY <2>1, <4>3, <4>4, <4>6
            <3> QED BY <3>4, <3>6, <3>7
        <2>5. ChipsClose' BY <2>4 DEF ChipsClose, Plain, Clear
        <2> QED BY <1>2, <2>1, <2>3, <2>5 DEF CallsHeard, CallsSound
    <1>10. CASE UNCHANGED toolVars
        <2>1. UNCHANGED <<pathOf, reused, attempt, stage, sent, chips, final, refused, whole>> BY <1>10 DEF toolVars
        <2>2. CallsWhole' BY <1>1, <2>1 DEF CallsWhole
        <2>3. ChipsClose' BY <1>1, <2>1 DEF ChipsClose, WireId
        <2>4. stage' = "streaming" => ChipsStreamed'
            BY <1>1, <2>1 DEF ChipsStreamed, Clear, WireId
        <2>5. stage' = "ended" => ChipsHeld' BY <1>1, <2>1 DEF ChipsHeld, Plain, Clear, InResponse, Unresolved, WireId
        <2> QED BY <1>1, <1>2, <2>1, <2>2, <2>3, <2>4, <2>5 DEF CallsHeard, CallsSound
    <1> QED BY <1>3, <1>4, <1>6, <1>7, <1>8, <1>9, <1>10 DEF ToolNext

\* A complete stream's response has the calls the provider sent, each with all its pieces and an id
\* of its own, whatever came of the attempts before and however the pieces of the calls interleave;
\* and no chip a streamed edit has opened is left open when the calls have run.
THEOREM StreamedCallsKept == ToolSpec => []CallsSound
    <1>1. CallsHeard => CallsSound BY DEF CallsHeard
    <1> QED BY CallsStart, CallsStep, <1>1, PTL DEF ToolSpec

----------------------------------------------------------------------------
(* The messages of a turn: exchanges are whole. *)

Roles == {"system", "user", "assistant", "tool"}
Msg == [role : Roles, calls : Seq(Nat), results : Seq(Nat), says : SUBSET Nat, size : Nat]

\* Message m comes while the calls x are not answered, and leaves y.
Leaves(m, x, y) ==
    \/ m.role \in {"system", "user"} /\ m.calls = <<>> /\ m.results = <<>> /\ x = <<>> /\ y = <<>>
    \/ m.role = "assistant" /\ m.results = <<>> /\ x = <<>> /\ y = m.calls
    \/ m.role = "tool" /\ m.calls = <<>> /\ x # <<>> /\ m.results = <<Head(x)>> /\ y = Tail(x)
\* The calls that are not answered after each message of a list.
Debts(ms, d) ==
    /\ ms \in Seq(Msg) /\ d \in [0..Len(ms) -> Seq(Nat)] /\ d[0] = <<>>
    /\ \A i \in 1..Len(ms) : Leaves(ms[i], d[i - 1], d[i])
\* A list of whole exchanges; and one that begins with the system prompt and a user's message.
Unowing(ms) == \E d : Debts(ms, d) /\ d[Len(ms)] = <<>>
Proper(ms) ==
    /\ Unowing(ms) /\ Len(ms) >= 2 /\ ms[1] = System /\ ms[2].role = "user"
    /\ \A i \in 2..Len(ms) : ms[i].role # "system"

\* The rows, and what a turn has: what it will save are whole exchanges too.
RowsSo(all) ==
    Unowing(all) /\ (\A i \in 1..Len(all) : all[i].role # "system") /\ (all # <<>> => all[1].role = "user")
TurnSo(ms, skip) == Proper(ms) /\ skip \in 2..Len(ms) /\ Unowing(From(ms, skip + 1))
ShapeInv ==
    /\ count \in Nat /\ RowsSo(rows)
    /\ messages # <<>> => rows # <<>> /\ TurnSo(messages, saved)

LEMMA ListIs ==
    ASSUME NEW ms \in Seq(Msg)
    PROVE  /\ Len(ms) \in Nat /\ DOMAIN ms = 1..Len(ms) /\ \A i \in 1..Len(ms) : ms[i] \in Msg
           /\ (ms = <<>> <=> Len(ms) = 0)
    OBVIOUS

\* Lists are the same if they have the same elements.
LEMMA SameList ==
    ASSUME NEW M, NEW p \in Seq(M), NEW q \in Seq(M), Len(p) = Len(q), \A i \in 1..Len(p) : p[i] = q[i]
    PROVE  p = q
    OBVIOUS

LEMMA FromIs ==
    ASSUME NEW M, NEW q \in Seq(M), NEW k \in 1..Len(q) + 1
    PROVE  /\ From(q, k) \in Seq(M) /\ Len(From(q, k)) = Len(q) - k + 1 /\ \A i \in 1..Len(q) - k + 1 : From(q, k)[i] = q[k - 1 + i]
    <1>1. Len(q) \in Nat /\ k \in Nat /\ 1 <= k /\ k <= Len(q) + 1 OBVIOUS
    <1>2. \A i \in k..Len(q) : q[i] \in M OBVIOUS
    <1> DEFINE s == SubSeq(q, k, Len(q))
    <1>3. s = [i \in 1..(Len(q) - k + 1) |-> q[k - 1 + i]]
        <2>1. CASE k <= Len(q) BY <1>1, <2>1
        <2>2. CASE k = Len(q) + 1 BY <1>1, <2>2
        <2> QED BY <1>1, <2>1, <2>2
    <1>4. \A i \in 1..(Len(q) - k + 1) : q[k - 1 + i] \in M BY <1>1, <1>2
    <1>5. Len(q) - k + 1 \in Nat BY <1>1
    <1> HIDE DEF s
    <1>6. s \in Seq(M) BY <1>3, <1>4, <1>5
    <1>7. Len(s) = Len(q) - k + 1 BY <1>3, <1>5
    <1>8. s = From(q, k) BY DEF From, s
    <1> QED BY <1>3, <1>6, <1>7, <1>8

\* What is left of a list after each place.
LEMMA PickedIs ==
    ASSUME NEW M, NEW q \in Seq(M), NEW I
    PROVE  \E f : /\ f \in [0..Len(q) -> Seq(M)] /\ f[0] = <<>> /\ Picked(q, I) = f[Len(q)]
                  /\ \A i \in 1..Len(q) : f[i] = IF i \in I THEN Append(f[i - 1], q[i]) ELSE f[i - 1]
    <1> DEFINE n == Len(q)
               move == [i \in 1..n |-> [x \in Seq(M) |-> IF i \in I THEN Append(x, q[i]) ELSE x]]
               Round(f, i) == IF i = 0 THEN <<>> ELSE IF i \in I THEN Append(f[i - 1], q[i]) ELSE f[i - 1]
    <1>1. n \in Nat /\ <<>> \in Seq(M) OBVIOUS
    <1>2. move \in [1..n -> [Seq(M) -> Seq(M)]]
        <2>1. \A i \in 1..n : \A x \in Seq(M) : (IF i \in I THEN Append(x, q[i]) ELSE x) \in Seq(M) OBVIOUS
        <2> QED BY <2>1
    <1>3. \A i \in 1..n : \A x \in Seq(M) : move[i][x] = IF i \in I THEN Append(x, q[i]) ELSE x OBVIOUS
    <1> HIDE DEF move, n
    <1>4. PICK g : LoopOf(g, Seq(M), <<>>, n, move) BY <1>1, <1>2, LoopDefined
    <1>5. g \in [0..n -> Seq(M)] /\ g[0] = <<>> /\ \A i \in 1..n : g[i] = move[i][g[i - 1]] BY <1>4 DEF LoopOf
    <1>6. \A i \in 1..n : g[i - 1] \in Seq(M) BY <1>1, <1>5
    <1>7. \A i \in 1..n : g[i] = IF i \in I THEN Append(g[i - 1], q[i]) ELSE g[i - 1] BY <1>3, <1>5, <1>6
    <1>8. g = [i \in 0..n |-> Round(g, i)]
        <2>1. \A i \in 0..n : i = 0 \/ i \in 1..n BY <1>1
        <2>2. \A i \in 0..n : g[i] = Round(g, i) BY <1>1, <1>5, <1>7, <2>1
        <2> HIDE DEF Round
        <2> QED BY <1>5, <2>2
    <1> DEFINE f == CHOOSE h : h = [i \in 0..n |-> Round(h, i)]
    <1>9. f = [i \in 0..n |-> Round(f, i)]
        <2> HIDE DEF Round
        <2> QED BY <1>8
    <1>10. Picked(q, I) = f[n] BY DEF Picked, n
    <1> HIDE DEF f
    <1>11. \A i \in 0..n : f[i] = Round(f, i)
        <2> HIDE DEF Round
        <2> QED BY <1>9
    <1>14. f[0] = <<>> BY <1>1, <1>11
    <1>15. \A i \in 1..n : f[i] = IF i \in I THEN Append(f[i - 1], q[i]) ELSE f[i - 1]
        <2>1. \A i \in 1..n : i \in 0..n /\ i # 0 BY <1>1
        <2> QED BY <1>11, <2>1
    <1>12. \A i \in 0..n : f[i] \in Seq(M)
        <2> DEFINE S == {i \in 0..n : f[i] \in Seq(M)}
        <2>1. 0 \in S
            <3>1. f[0] \in Seq(M) BY <1>1, <1>14, Zenon
            <3>2. 0 \in 0..n BY <1>1
            <3> QED BY <3>1, <3>2
        <2>2. \A i \in 1..n : q[i] \in M BY DEF n
        <2>3. ASSUME NEW i \in 1..n, i - 1 \in S PROVE i \in S
            <3>1. f[i - 1] \in Seq(M) /\ q[i] \in M /\ i \in 0..n BY <1>1, <2>2, <2>3
            <3>2. Append(f[i - 1], q[i]) \in Seq(M) BY <3>1
            <3> QED BY <1>15, <3>1, <3>2
        <2> HIDE DEF S
        <2>4. \A i \in 0..n : i \in S BY <1>1, <2>1, <2>3, Climb
        <2> QED BY <2>4 DEF S
    <1>13. f \in [0..n -> Seq(M)] BY <1>9, <1>12
    <1> QED BY <1>10, <1>13, <1>14, <1>15 DEF n

\* The places from k on are what is left.
LEMMA PickTail ==
    ASSUME NEW M, NEW q \in Seq(M), NEW k \in 1..Len(q) + 1, NEW I, \A i \in 1..Len(q) : i \in I <=> k <= i
    PROVE  Picked(q, I) = From(q, k)
    <1> DEFINE n == Len(q)
               Size(i) == IF i < k THEN 0 ELSE i - k + 1
    <1>1. n \in Nat /\ k \in Nat /\ 1 <= k /\ k <= n + 1 OBVIOUS
    <1>2. PICK f : /\ f \in [0..n -> Seq(M)] /\ f[0] = <<>> /\ Picked(q, I) = f[n]
                   /\ \A i \in 1..n : f[i] = IF i \in I THEN Append(f[i - 1], q[i]) ELSE f[i - 1]
        BY PickedIs
    <1>3. \A i \in 1..n : q[i] \in M OBVIOUS
    <1>4. \A i \in 1..n : i \in I <=> k <= i OBVIOUS
    <1> HIDE DEF n
    <1> DEFINE S == {i \in 0..n : Len(f[i]) = Size(i) /\ \A j \in 1..Size(i) : f[i][j] = q[k - 1 + j]}
    <1>5. 0 \in S
        <2>1. Len(f[0]) = 0 /\ Size(0) = 0 BY <1>1, <1>2
        <2> QED BY <1>1, <2>1
    <1>6. ASSUME NEW i \in 1..n, i - 1 \in S PROVE i \in S
        <2>1. i - 1 \in 0..n /\ i \in 0..n /\ i \in Nat /\ f[i - 1] \in Seq(M) /\ q[i] \in M BY <1>1, <1>2, <1>3
        <2>2. Len(f[i - 1]) = Size(i - 1) /\ \A j \in 1..Size(i - 1) : f[i - 1][j] = q[k - 1 + j] BY <1>6
        <2>3. CASE i < k
            <3>1. f[i] = f[i - 1] /\ Size(i) = 0 /\ Size(i - 1) = 0 BY <1>1, <1>2, <1>4, <2>1, <2>3
            <3> QED BY <2>1, <2>2, <3>1
        <2>4. CASE k <= i
            <3>1. f[i] = Append(f[i - 1], q[i]) BY <1>2, <1>4, <2>4
            <3>2. Size(i) = i - k + 1 /\ Size(i - 1) = i - k BY <1>1, <2>1, <2>4
            <3>3. Len(f[i - 1]) = i - k /\ i - k \in Nat BY <1>1, <2>1, <2>2, <2>4, <3>2
            <3>4. Len(f[i]) = i - k + 1 /\ f[i][i - k + 1] = q[i] /\ \A j \in 1..i - k : f[i][j] = f[i - 1][j]
                BY <2>1, <3>1, <3>3
            <3>5. \A j \in 1..i - k + 1 : f[i][j] = q[k - 1 + j]
                <4> TAKE j \in 1..i - k + 1
                <4>1. CASE j = i - k + 1
                    <5>1. k - 1 + j = i BY <1>1, <2>1, <4>1
                    <5> QED BY <3>4, <4>1, <5>1
                <4>2. CASE j # i - k + 1
                    <5>1. j \in 1..i - k BY <1>1, <2>1, <4>2
                    <5> QED BY <2>2, <3>2, <3>4, <5>1
                <4> QED BY <4>1, <4>2
            <3> QED BY <2>1, <3>2, <3>4, <3>5
        <2> QED BY <1>1, <2>1, <2>3, <2>4
    <1> HIDE DEF S
    <1>7. \A i \in 0..n : i \in S BY <1>1, <1>5, <1>6, Climb
    <1>8. n \in S BY <1>1, <1>7
    <1>9. Len(f[n]) = Size(n) /\ \A j \in 1..Size(n) : f[n][j] = q[k - 1 + j] BY <1>8 DEF S
    <1>10. Size(n) = n - k + 1 BY <1>1
    <1>11. From(q, k) \in Seq(M) /\ Len(From(q, k)) = n - k + 1 /\ \A j \in 1..n - k + 1 : From(q, k)[j] = q[k - 1 + j]
        BY FromIs DEF n
    <1>12. f[n] \in Seq(M) BY <1>1, <1>2
    <1> HIDE DEF Size
    <1>14. Len(f[n]) = Len(From(q, k)) BY <1>9, <1>10, <1>11
    <1>15. \A j \in 1..Len(f[n]) : f[n][j] = From(q, k)[j] BY <1>9, <1>10, <1>11
    <1>13. f[n] = From(q, k) BY <1>11, <1>12, <1>14, <1>15, SameList
    <1> QED BY <1>2, <1>13

\* The whole of a list.
LEMMA WholeIs ==
    ASSUME NEW M, NEW q \in Seq(M)
    PROVE  From(q, 1) = q
    <1>1. 1 \in 1..Len(q) + 1 OBVIOUS
    <1>2. From(q, 1) \in Seq(M) /\ Len(From(q, 1)) = Len(q) - 1 + 1 /\ \A i \in 1..Len(q) - 1 + 1 : From(q, 1)[i] = q[1 - 1 + i]
        BY <1>1, FromIs
    <1>3. Len(From(q, 1)) = Len(q) /\ \A i \in 1..Len(q) : From(q, 1)[i] = q[i] BY <1>2
    <1> QED BY <1>2, <1>3, SameList

\* What a debt is.
LEMMA DebtIs ==
    ASSUME NEW ms, NEW d, Debts(ms, d)
    PROVE  /\ ms \in Seq(Msg) /\ Len(ms) \in Nat /\ DOMAIN ms = 1..Len(ms) /\ d[0] = <<>>
           /\ \A i \in 0..Len(ms) : d[i] \in Seq(Nat)
           /\ \A i \in 1..Len(ms) : ms[i] \in Msg /\ Leaves(ms[i], d[i - 1], d[i]) /\ i - 1 \in 0..Len(ms)
    <1>1. ms \in Seq(Msg) /\ d \in [0..Len(ms) -> Seq(Nat)] /\ d[0] = <<>> /\ \A i \in 1..Len(ms) : Leaves(ms[i], d[i - 1], d[i])
        BY DEF Debts
    <1>2. Len(ms) \in Nat /\ DOMAIN ms = 1..Len(ms) /\ \A i \in 1..Len(ms) : ms[i] \in Msg BY <1>1, ListIs
    <1>3. \A i \in 1..Len(ms) : i - 1 \in 0..Len(ms) BY <1>2
    <1> QED BY <1>1, <1>2, <1>3

LEMMA LeavesIs ==
    ASSUME NEW m \in Msg, NEW x \in Seq(Nat), NEW y \in Seq(Nat), Leaves(m, x, y)
    PROVE  /\ m.calls \in Seq(Nat) /\ m.results \in Seq(Nat) /\ m.says \in SUBSET Nat /\ m.size \in Nat /\ m.role \in Roles
           /\ m.role # "tool" => x = <<>> /\ m.results = <<>>
           /\ m.role # "assistant" => m.calls = <<>>
           /\ m.role \in {"system", "user"} => y = <<>>
           /\ m.role = "assistant" => y = m.calls
           /\ x # <<>> => /\ m.role = "tool" /\ m.results = <<x[1]>> /\ IdsIn(m.results) = {x[1]} /\ Len(y) + 1 = Len(x)
                          /\ \A j \in 1..Len(y) : y[j] = x[j + 1]
    <1>1. x # <<>> => x[1] = Head(x) /\ Tail(x) \in Seq(Nat) /\ Len(Tail(x)) + 1 = Len(x) /\ \A j \in 1..Len(Tail(x)) : Tail(x)[j] = x[j + 1]
        OBVIOUS
    <1>2. \A a : IdsIn(<<a>>) = {a} BY DEF IdsIn
    <1> QED BY <1>1, <1>2 DEF Leaves, Msg, Roles

\* The results of a message's calls follow it at once, in their order.
LEMMA Exchange ==
    ASSUME NEW ms, NEW d, Debts(ms, d), d[Len(ms)] = <<>>, NEW i \in 1..Len(ms)
    PROVE  \A k \in 1..Len(ms[i].calls) :
               i + k \in 1..Len(ms) /\ ms[i + k].role = "tool" /\ IdsIn(ms[i + k].results) = {ms[i].calls[k]}
    <1> DEFINE c == ms[i].calls
               n == Len(c)
               N == Len(ms)
    <1>1. /\ N \in Nat /\ ms[i] \in Msg /\ c \in Seq(Nat) /\ n \in Nat /\ Leaves(ms[i], d[i - 1], d[i])
          /\ d[i] \in Seq(Nat) /\ d[i - 1] \in Seq(Nat)
        <2>1. N \in Nat /\ ms[i] \in Msg /\ Leaves(ms[i], d[i - 1], d[i]) /\ i \in 0..N /\ i - 1 \in 0..N BY DebtIs
        <2>2. d[i] \in Seq(Nat) /\ d[i - 1] \in Seq(Nat) BY <2>1, DebtIs
        <2>3. c \in Seq(Nat) BY <2>1 DEF Msg
        <2>4. n \in Nat BY <2>3
        <2> QED BY <2>1, <2>2, <2>3, <2>4
    <1>2. \A j \in 1..N : ms[j] \in Msg /\ Leaves(ms[j], d[j - 1], d[j]) /\ d[j - 1] \in Seq(Nat) /\ d[j] \in Seq(Nat)
        <2>1. \A j \in 1..N : j - 1 \in 0..N /\ j \in 0..N BY <1>1
        <2> QED BY <2>1, DebtIs
    <1>3. c # <<>> => d[i] = c
        <2>1. /\ ms[i].role # "assistant" => ms[i].calls = <<>>
              /\ ms[i].role = "assistant" => d[i] = ms[i].calls
            BY <1>1, LeavesIs
        <2> QED BY <2>1
    <1>4. CASE c = <<>> BY <1>4
    <1>5. CASE c # <<>>
        <2> HIDE DEF c, n, N
        <2> DEFINE Good(k) == /\ i + k <= N /\ Len(d[i + k]) = n - k /\ \A j \in 1..n - k : d[i + k][j] = c[k + j]
                              /\ k # 0 => ms[i + k].role = "tool" /\ IdsIn(ms[i + k].results) = {c[k]}
                   S == {k \in 0..n : Good(k)}
        <2>1. 0 \in S
            <3>1. i + 0 = i /\ n - 0 = n /\ i <= N BY <1>1 DEF N
            <3>2. Len(d[i]) = n /\ \A j \in 1..n : d[i][j] = c[0 + j] BY <1>1, <1>3, <1>5 DEF n
            <3> QED BY <1>1, <3>1, <3>2
        <2>2. ASSUME NEW k \in 1..n, k - 1 \in S PROVE k \in S
            <3> DEFINE a == i + k
                       x == d[a - 1]
                       y == d[a]
            <3>1. i \in Nat /\ k \in Nat /\ k - 1 \in Nat /\ i + (k - 1) = a - 1 /\ n - (k - 1) = n - k + 1 /\ n - k \in Nat BY <1>1
            <3>2. Good(k - 1) BY <2>2
            <3>3. a - 1 <= N /\ Len(x) = n - k + 1 /\ \A j \in 1..n - k + 1 : x[j] = c[k - 1 + j] BY <3>1, <3>2
            <3>4. Len(x) # 0 BY <3>1, <3>3
            <3>5. x # <<>> BY <3>4
            <3>6. a - 1 # N BY <3>5 DEF N
            <3>7. a \in 1..N
                <4>1. i >= 1 /\ k >= 1 BY DEF N
                <4>2. N \in Nat /\ i \in Nat /\ k \in Nat BY <1>1, <3>1
                <4>3. i + k - 1 <= N /\ i + k - 1 # N BY <3>3, <3>6
                <4> QED BY <4>1, <4>2, <4>3
            <3>8. ms[a] \in Msg /\ Leaves(ms[a], x, y) /\ x \in Seq(Nat) /\ y \in Seq(Nat) BY <1>2, <3>7
            <3> HIDE DEF x, y, a
            <3>9. /\ ms[a].role = "tool" /\ IdsIn(ms[a].results) = {x[1]} /\ Len(y) + 1 = Len(x)
                  /\ \A j \in 1..Len(y) : y[j] = x[j + 1]
                BY <3>5, <3>8, LeavesIs
            <3>10. Len(y) = n - k
                <4>1. Len(y) \in Nat BY <3>8
                <4> QED BY <3>1, <3>3, <3>9, <4>1
            <3>11. x[1] = c[k]
                <4>1. 1 \in 1..n - k + 1 /\ k - 1 + 1 = k BY <3>1
                <4> QED BY <3>3, <4>1
            <3>12. \A j \in 1..n - k : y[j] = c[k + j]
                <4> TAKE j \in 1..n - k
                <4>1. j + 1 \in 1..n - k + 1 /\ k - 1 + (j + 1) = k + j BY <3>1
                <4> QED BY <3>3, <3>9, <3>10, <4>1
            <3>13. a <= N BY <1>1, <3>7
            <3>14. Good(k) BY <3>9, <3>10, <3>11, <3>12, <3>13 DEF a, y
            <3> HIDE DEF Good
            <3>15. k \in 0..n BY <1>1
            <3> QED BY <3>14, <3>15
        <2> HIDE DEF S
        <2>3. \A k \in 0..n : k \in S BY <1>1, <2>1, <2>2, Climb
        <2>4. \A k \in 1..n : k \in 0..n /\ k # 0 BY <1>1
        <2>5. \A k \in 1..n : i + k <= N /\ ms[i + k].role = "tool" /\ IdsIn(ms[i + k].results) = {c[k]} BY <2>3, <2>4 DEF S
        <2>6. \A k \in 1..n : i + k <= N => i + k \in 1..N BY <1>1
        <2> QED BY <2>5, <2>6 DEF c, n, N
    <1> QED BY <1>4, <1>5

\* Who asked for the results that come: a message before them, with nothing but results between.
LEMMA Asker ==
    ASSUME NEW ms, NEW d, Debts(ms, d), NEW i \in 1..Len(ms), ms[i].role = "tool"
    PROVE  Asked(ms, i)
    <1> DEFINE N == Len(ms)
               Owed(k) == d[k] # <<>> => \E j \in 1..k : IdsIn(d[k]) \subseteq IdsIn(ms[j].calls) /\ \A l \in (j + 1)..k : ms[l].role = "tool"
               S == {k \in 0..N : Owed(k)}
    <1>1. N \in Nat BY DebtIs
    <1>2. \A k \in 1..N : ms[k] \in Msg /\ Leaves(ms[k], d[k - 1], d[k]) /\ d[k - 1] \in Seq(Nat) /\ d[k] \in Seq(Nat) /\ k - 1 \in 0..N
        <2>1. \A k \in 1..N : k - 1 \in 0..N /\ k \in 0..N BY <1>1
        <2> QED BY <2>1, DebtIs
    <1> HIDE DEF N
    <1>3. 0 \in S
        <2>1. d[0] = <<>> BY DebtIs
        <2> QED BY <1>1, <2>1
    <1>4. ASSUME NEW k \in 1..N, k - 1 \in S PROVE k \in S
        <2> DEFINE x == d[k - 1]
                   y == d[k]
        <2>1. k \in 0..N /\ k \in Nat /\ k >= 1 BY <1>1
        <2>2. ms[k] \in Msg /\ Leaves(ms[k], x, y) /\ x \in Seq(Nat) /\ y \in Seq(Nat) BY <1>2
        <2>3. Owed(k - 1) BY <1>4
        <2> SUFFICES ASSUME y # <<>> PROVE \E j \in 1..k : IdsIn(y) \subseteq IdsIn(ms[j].calls) /\ \A l \in (j + 1)..k : ms[l].role = "tool"
            BY <2>1
        <2>4. CASE x = <<>>
            <3> HIDE DEF x, y
            <3>1. ms[k].calls = y
                <4>1. ms[k].role # "tool" BY <2>2, <2>4 DEF Leaves
                <4> QED BY <2>2, <4>1 DEF Leaves
            <3>2. \A l \in (k + 1)..k : FALSE BY <2>1
            <3>3. k \in 1..k BY <2>1
            <3> QED BY <3>1, <3>2, <3>3
        <2>5. CASE x # <<>>
            <3>1. PICK j \in 1..(k - 1) : IdsIn(x) \subseteq IdsIn(ms[j].calls) /\ \A l \in (j + 1)..(k - 1) : ms[l].role = "tool"
                BY <2>3, <2>5
            <3> HIDE DEF x, y
            <3>2. ms[k].role = "tool" /\ Len(y) + 1 = Len(x) /\ \A a \in 1..Len(y) : y[a] = x[a + 1] BY <2>2, <2>5, LeavesIs
            <3>3. IdsIn(y) \subseteq IdsIn(x)
                <4>1. Len(x) \in Nat /\ Len(y) \in Nat /\ DOMAIN x = 1..Len(x) /\ DOMAIN y = 1..Len(y) BY <2>2
                <4>2. \A a \in 1..Len(y) : a + 1 \in 1..Len(x) BY <3>2, <4>1
                <4> QED BY <3>2, <4>1, <4>2 DEF IdsIn
            <3>4. j \in 1..k /\ \A l \in (j + 1)..k : l = k \/ l \in (j + 1)..(k - 1) BY <2>1
            <3> QED BY <3>1, <3>2, <3>3, <3>4
        <2> QED BY <2>4, <2>5
    <1> HIDE DEF S
    <1>5. \A k \in 0..N : k \in S BY <1>1, <1>3, <1>4, Climb
    <1>6. i \in 1..N /\ i \in Nat BY DEF N
    <1>7. Owed(i - 1)
        <2>1. i - 1 \in 0..N BY <1>2, <1>6
        <2> QED BY <1>5, <2>1 DEF S
    <1> DEFINE x == d[i - 1]
    <1>8. ms[i] \in Msg /\ Leaves(ms[i], x, d[i]) /\ x \in Seq(Nat) /\ d[i] \in Seq(Nat) BY <1>2, <1>6
    <1>9. x # <<>> BY <1>8 DEF Leaves
    <1>10. PICK j \in 1..(i - 1) : IdsIn(x) \subseteq IdsIn(ms[j].calls) /\ \A l \in (j + 1)..(i - 1) : ms[l].role = "tool"
        BY <1>7, <1>9
    <1> HIDE DEF x
    <1>11. IdsIn(ms[i].results) = {x[1]} BY <1>8, <1>9, LeavesIs
    <1>12. x[1] \in IdsIn(x)
        <2>1. 1 \in DOMAIN x BY <1>8, <1>9
        <2> QED BY <2>1 DEF IdsIn
    <1>13. \A l \in (j + 1)..i : l = i \/ l \in (j + 1)..(i - 1) BY <1>6
    <1>14. IdsIn(ms[i].results) \subseteq IdsIn(ms[j].calls) /\ \A l \in (j + 1)..i : ms[l].role = "tool"
        BY <1>10, <1>11, <1>12, <1>13
    <1> QED BY <1>14 DEF Asked

\* In whole exchanges every call is answered at once, and every result asked for.
LEMMA UnowingIs ==
    ASSUME NEW ms, Unowing(ms)
    PROVE  /\ ms \in Seq(Msg) /\ Len(ms) \in Nat /\ DOMAIN ms = 1..Len(ms)
           /\ \A i \in 1..Len(ms) : ms[i] \in Msg /\ Answered(ms, i) /\ (ms[i].role = "tool" => Asked(ms, i))
    <1>1. PICK d : Debts(ms, d) /\ d[Len(ms)] = <<>> BY DEF Unowing
    <1>2. ms \in Seq(Msg) /\ Len(ms) \in Nat /\ DOMAIN ms = 1..Len(ms) /\ \A i \in 1..Len(ms) : ms[i] \in Msg BY <1>1, DebtIs
    <1>3. \A i \in 1..Len(ms) : ms[i].role = "tool" => Asked(ms, i) BY <1>1, Asker
    <1>4. ASSUME NEW i \in 1..Len(ms) PROVE Answered(ms, i)
        <2> DEFINE c == ms[i].calls
                   n == Len(c)
        <2>1. c \in Seq(Nat)  BY <1>2 DEF Msg
        <2>2. n \in Nat /\ DOMAIN c = 1..n BY <2>1
        <2>8. \A k \in 1..Len(ms[i].calls) :
                  i + k \in 1..Len(ms) /\ ms[i + k].role = "tool" /\ IdsIn(ms[i + k].results) = {ms[i].calls[k]}
            BY <1>1, Exchange
        <2>3. \A k \in 1..n : i + k \in 1..Len(ms) /\ IdsIn(ms[i + k].results) = {c[k]} BY <2>8
        <2> HIDE DEF c, n
        <2>4. i + n <= Len(ms)
            <3>1. CASE n = 0 BY <1>2, <3>1
            <3>2. CASE n # 0
                <4>1. n \in 1..n BY <2>2, <3>2
                <4>2. i + n \in 1..Len(ms) BY <2>3, <4>1
                <4> QED BY <1>2, <4>2
            <3> QED BY <3>1, <3>2
        <2>5. \A k \in 1..n : i + k \in (i + 1)..(i + n) BY <2>2
        <2>6. \A j \in (i + 1)..(i + n) : j - i \in 1..n /\ i + (j - i) = j BY <2>2
        <2>7. IdsIn(c) = UNION {IdsIn(ms[j].results) : j \in (i + 1)..(i + n)}
            <3>1. ASSUME NEW a \in IdsIn(c) PROVE a \in UNION {IdsIn(ms[j].results) : j \in (i + 1)..(i + n)}
                <4>1. PICK k \in 1..n : a = c[k] BY <2>2 DEF IdsIn
                <4>2. a \in IdsIn(ms[i + k].results) BY <2>3, <4>1
                <4> QED BY <2>5, <4>2
            <3>2. ASSUME NEW j \in (i + 1)..(i + n), NEW a \in IdsIn(ms[j].results) PROVE a \in IdsIn(c)
                <4> DEFINE k == j - i
                <4>1. k \in 1..n /\ i + k = j BY <2>6
                <4> HIDE DEF k
                <4>2. a = c[k] BY <2>3, <3>2, <4>1
                <4> QED BY <2>2, <4>1, <4>2 DEF IdsIn
            <3> QED BY <3>1, <3>2
        <2> QED BY <2>4, <2>7 DEF Answered, c, n
    <1> QED BY <1>2, <1>3, <1>4

\* Nothing is an orphan.
LEMMA NoOrphans ==
    ASSUME NEW ms, Unowing(ms)
    PROVE  DropOrphans(ms) = ms
    <1> DEFINE Declared(i) == UNION {IdsIn(ms[j].calls) : j \in 1..i}
               I == {i \in DOMAIN ms : ms[i].role # "tool" \/ IdsIn(ms[i].results) \subseteq Declared(i)}
    <1>1. ms \in Seq(Msg) /\ Len(ms) \in Nat /\ DOMAIN ms = 1..Len(ms) /\ \A i \in 1..Len(ms) : ms[i].role = "tool" => Asked(ms, i)
        BY UnowingIs
    <1>2. \A i \in 1..Len(ms) : ms[i].role = "tool" => IdsIn(ms[i].results) \subseteq Declared(i)
        <2> TAKE i \in 1..Len(ms)
        <2> HAVE ms[i].role = "tool"
        <2>1. PICK j \in 1..(i - 1) : IdsIn(ms[i].results) \subseteq IdsIn(ms[j].calls) BY <1>1 DEF Asked
        <2>2. j \in 1..i OBVIOUS
        <2> QED BY <2>1, <2>2
    <1>3. \A i \in 1..Len(ms) : i \in I <=> 1 <= i BY <1>1, <1>2
    <1>4. DropOrphans(ms) = Picked(ms, I) BY DEF DropOrphans
    <1>5. 1 \in 1..Len(ms) + 1 BY <1>1
    <1> HIDE DEF I
    <1>6. Picked(ms, I) = From(ms, 1) BY <1>1, <1>3, <1>5, PickTail
    <1> QED BY <1>1, <1>4, <1>6, WholeIs

\* What is held back and listed after each message.
Listings == [held : Seq(Msg), list : Seq(Msg)]

\* No call lacks its result.
LEMMA NoneMissing ==
    ASSUME NEW ms, Unowing(ms)
    PROVE  Backfill(ms) = ms
    <1> DEFINE n == Len(ms)
               fulfilled == UNION {IdsIn(ms[i].results) : i \in DOMAIN ms}
               Missing(m) == Picked(m.calls, {k \in DOMAIN m.calls : m.calls[k] \notin fulfilled})
               Held(m) == LET missing == Missing(m) IN [k \in DOMAIN missing |-> BackfillResult(missing[k])]
               Insert(out, m) ==
                   [held |-> IF m.role = "tool" THEN out.held ELSE Held(m),
                    list |-> Append(IF m.role = "tool" THEN out.list ELSE out.list \o out.held, m)]
               Start == [held |-> <<>>, list |-> <<>>]
               Round(f, i) == IF i = 0 THEN Start ELSE Insert(f[i - 1], ms[i])
               After(i) == [held |-> <<>>, list |-> SubSeq(ms, 1, i)]
    <1>1. ms \in Seq(Msg) /\ n \in Nat /\ DOMAIN ms = 1..n /\ \A i \in 1..n : ms[i] \in Msg /\ Answered(ms, i) BY UnowingIs
    <1>2. \A i \in 1..n : Missing(ms[i]) = <<>>
        <2> TAKE i \in 1..n
        <2> DEFINE c == ms[i].calls
                   I == {k \in DOMAIN c : c[k] \notin fulfilled}
        <2>1. c \in Seq(Nat) BY <1>1 DEF Msg
        <2>9. i + Len(c) <= n /\ IdsIn(c) = UNION {IdsIn(ms[j].results) : j \in (i + 1)..(i + Len(c))} BY <1>1 DEF Answered
        <2>10. \A j \in (i + 1)..(i + Len(c)) : j \in DOMAIN ms
            <3>1. Len(c) \in Nat /\ i \in Nat BY <1>1, <2>1
            <3> HIDE DEF c, n
            <3> QED BY <1>1, <2>9, <3>1
        <2>2. IdsIn(c) \subseteq fulfilled BY <2>9, <2>10
        <2>3. Len(c) \in Nat /\ DOMAIN c = 1..Len(c) BY <2>1
        <2>4. \A k \in 1..Len(c) : c[k] \in fulfilled
            <3> HIDE DEF fulfilled
            <3> QED BY <2>2, <2>3 DEF IdsIn
        <2>5. Len(c) + 1 \in 1..Len(c) + 1 /\ \A k \in 1..Len(c) : k \in I <=> Len(c) + 1 <= k BY <2>3, <2>4
        <2> HIDE DEF c, I
        <2>6. Picked(c, I) = From(c, Len(c) + 1) BY <2>1, <2>5, PickTail
        <2>7. From(c, Len(c) + 1) \in Seq(Nat) /\ Len(From(c, Len(c) + 1)) = Len(c) - (Len(c) + 1) + 1 BY <2>1, <2>5, FromIs
        <2>8. From(c, Len(c) + 1) = <<>> BY <2>3, <2>7
        <2> QED BY <2>6, <2>8 DEF c, I
    <1>3. \A i \in 1..n : Held(ms[i]) = <<>>
        <2>1. [k \in DOMAIN <<>> |-> BackfillResult(<<>>[k])] = <<>> OBVIOUS
        <2> QED BY <1>2, <2>1
    <1> HIDE DEF Held, Missing
    <1>4. \A i \in 1..n : i \in 0..n /\ i - 1 \in 0..n BY <1>1
    <1>5. SubSeq(ms, 1, 0) = <<>> /\ SubSeq(ms, 1, n) = ms
        /\ \A i \in 1..n : SubSeq(ms, 1, i - 1) \in Seq(Msg) /\ Append(SubSeq(ms, 1, i - 1), ms[i]) = SubSeq(ms, 1, i)
        <2>1. SubSeq(ms, 1, 0) = <<>> OBVIOUS
        <2>2. SubSeq(ms, 1, n) = ms BY <1>1, WholeIs DEF From
        <2>3. ASSUME NEW i \in 1..n
              PROVE SubSeq(ms, 1, i - 1) \in Seq(Msg) /\ Append(SubSeq(ms, 1, i - 1), ms[i]) = SubSeq(ms, 1, i)
            <3> DEFINE p == SubSeq(ms, 1, i - 1)
                       r == SubSeq(ms, 1, i)
            <3>1. p \in Seq(Msg) /\ Len(p) = i - 1 /\ \A j \in 1..i - 1 : p[j] = ms[j] BY <1>1
            <3>2. r \in Seq(Msg) /\ Len(r) = i /\ \A j \in 1..i : r[j] = ms[j] BY <1>1
            <3> HIDE DEF p, r
            <3>3. ms[i] \in Msg /\ i \in Nat BY <1>1
            <3>4. Append(p, ms[i]) \in Seq(Msg) /\ Len(Append(p, ms[i])) = i /\ Append(p, ms[i])[i] = ms[i]
                  /\ \A j \in 1..i - 1 : Append(p, ms[i])[j] = p[j]
                BY <3>1, <3>3
            <3>5. \A j \in 1..i : j = i \/ j \in 1..i - 1 BY <3>3
            <3>6. \A j \in 1..i : Append(p, ms[i])[j] = r[j] BY <3>1, <3>2, <3>4, <3>5
            <3>7. Append(p, ms[i]) = r BY <3>2, <3>4, <3>6, SameList
            <3> QED BY <3>1, <3>7 DEF p, r
        <2> QED BY <2>1, <2>2, <2>3
    <1> HIDE DEF n
    <1> DEFINE g == [i \in 0..n |-> After(i)]
    <1>6. g = [i \in 0..n |-> Round(g, i)]
        <2>1. g[0] = Round(g, 0) BY <1>1, <1>5
        <2>2. ASSUME NEW i \in 1..n PROVE g[i] = Round(g, i)
            <3>1. g[i] = After(i) /\ g[i - 1] = After(i - 1) BY <1>4
            <3> DEFINE p == SubSeq(ms, 1, i - 1)
            <3>2. p \in Seq(Msg) /\ Append(p, ms[i]) = SubSeq(ms, 1, i) BY <1>5
            <3>3. p \o <<>> = p
                <4> HIDE DEF p
                <4> QED BY <3>2
            <3>4. Insert(After(i - 1), ms[i]) = After(i) BY <1>3, <3>2, <3>3
            <3>5. i # 0 BY <1>1
            <3> HIDE DEF g, After, Insert
            <3> QED BY <3>1, <3>4, <3>5
        <2>3. \A i \in 0..n : i = 0 \/ i \in 1..n BY <1>1
        <2>4. \A i \in 0..n : g[i] = Round(g, i) BY <2>1, <2>2, <2>3
        <2> HIDE DEF Round, After
        <2> QED BY <2>4
    <1> HIDE DEF g
    <1> DEFINE all == CHOOSE f : f = [i \in 0..n |-> Round(f, i)]
    <1>7. all = [i \in 0..n |-> Round(all, i)]
        <2> HIDE DEF Round
        <2> QED BY <1>6
    <1>8. Backfill(ms) = all[n].list \o all[n].held BY DEF Backfill, n, Held, Missing
    <1> HIDE DEF all
    <1>9. \A i \in 0..n : all[i] = Round(all, i)
        <2> HIDE DEF Round
        <2> QED BY <1>7
    <1> DEFINE S == {i \in 0..n : all[i] = After(i)}
    <1>10. 0 \in S
        <2>2. 0 \in 0..n BY <1>1
        <2>3. all[0] = Start BY <1>9, <2>2
        <2>4. After(0) = Start BY <1>5
        <2>1. all[0] = Start /\ After(0) = Start BY <2>3, <2>4
        <2> QED BY <1>1, <2>1
    <1>11. ASSUME NEW i \in 1..n, i - 1 \in S PROVE i \in S
        <2> DEFINE p == SubSeq(ms, 1, i - 1)
        <2>1. i \in 0..n /\ i # 0 BY <1>1
        <2>2. all[i] = Insert(all[i - 1], ms[i]) BY <1>9, <2>1
        <2>3. all[i - 1] = After(i - 1) BY <1>11
        <2>4. p \in Seq(Msg) /\ Append(p, ms[i]) = SubSeq(ms, 1, i) BY <1>5
        <2>5. p \o <<>> = p
            <3> HIDE DEF p
            <3> QED BY <2>4
        <2>6. Insert(After(i - 1), ms[i]) = After(i) BY <1>3, <2>4, <2>5
        <2> HIDE DEF After, Insert
        <2> QED BY <2>1, <2>2, <2>3, <2>6
    <1> HIDE DEF S
    <1>12. n \in S
        <2>1. \A i \in 0..n : i \in S BY <1>1, <1>10, <1>11, Climb
        <2> QED BY <1>1, <2>1
    <1>13. all[n].list = ms /\ all[n].held = <<>> BY <1>5, <1>12 DEF S
    <1>14. ms \o <<>> = ms BY <1>1
    <1> QED BY <1>8, <1>13, <1>14

\* Nor is there a result whose call is not seen before it.
LEMMA LegalFromStart ==
    ASSUME NEW ms, Unowing(ms)
    PROVE  LegalStart(ms) = 0 /\ AtLegalStart(ms) = ms
    <1> DEFINE n == Len(ms)
               Start == [start |-> 0, declared |-> {}]
               Scan(acc, i) ==
                   IF ms[i].role = "assistant" THEN [acc EXCEPT !.declared = @ \cup IdsIn(ms[i].calls)]
                   ELSE IF ms[i].role = "tool" /\ ~ IdsIn(ms[i].results) \subseteq acc.declared
                   THEN [start |-> i, declared |-> {}] ELSE acc
               Round(f, i) == IF i = 0 THEN Start ELSE Scan(f[i - 1], i)
               CallsBefore(i) == {j \in 1..i : ms[j].role = "assistant"}
               Seen(i) == [start |-> 0, declared |-> UNION {IdsIn(ms[j].calls) : j \in CallsBefore(i)}]
    <1>1. ms \in Seq(Msg) /\ n \in Nat /\ DOMAIN ms = 1..n /\ \A i \in 1..n : ms[i] \in Msg /\ (ms[i].role = "tool" => Asked(ms, i))
        BY UnowingIs
    <1>2. \A i \in 1..n : ms[i].role # "assistant" => ms[i].calls = <<>>
        <2>1. PICK d : Debts(ms, d) BY DEF Unowing
        <2>2. \A i \in 1..n : Leaves(ms[i], d[i - 1], d[i]) BY <2>1, DebtIs
        <2> QED BY <2>2 DEF Leaves
    <1>3. \A i \in 1..n : ms[i].role = "tool" => IdsIn(ms[i].results) \subseteq Seen(i - 1).declared
        <2> TAKE i \in 1..n
        <2> HAVE ms[i].role = "tool"
        <2>1. PICK j \in 1..(i - 1) : IdsIn(ms[i].results) \subseteq IdsIn(ms[j].calls) BY <1>1 DEF Asked
        <2>2. CASE ms[j].role = "assistant"
            <3>1. j \in CallsBefore(i - 1) BY <2>2
            <3> QED BY <2>1, <3>1
        <2>3. CASE ms[j].role # "assistant"
            <3>1. i \in 1..n /\ i \in Nat BY <1>1
            <3>2. j \in 1..n BY <1>1, <3>1
            <3>3. IdsIn(<<>>) = {} BY DEF IdsIn
            <3>4. IdsIn(ms[j].calls) = {} BY <1>2, <2>3, <3>2, <3>3
            <3> QED BY <2>1, <3>4
        <2> QED BY <2>2, <2>3
    <1>4. \A i \in 1..n : i - 1 \in 0..n /\ i \in 0..n /\ i # 0 BY <1>1
    <1>5. \A i \in 1..n : Scan(Seen(i - 1), i) = Seen(i)
        <2> TAKE i \in 1..n
        <2>1. \A j \in 1..i : j = i \/ j \in 1..(i - 1) BY <1>1
        <2>2. i \in 1..i /\ \A j \in 1..(i - 1) : j \in 1..i BY <1>1
        <2>3. CASE ms[i].role = "assistant"
            <3>1. CallsBefore(i) = CallsBefore(i - 1) \cup {i} BY <2>1, <2>2, <2>3
            <3>2. Seen(i).declared = Seen(i - 1).declared \cup IdsIn(ms[i].calls)
                <4> HIDE DEF CallsBefore
                <4> QED BY <3>1
            <3>3. Scan(Seen(i - 1), i) = [start |-> 0, declared |-> Seen(i - 1).declared \cup IdsIn(ms[i].calls)] BY <2>3
            <3> HIDE DEF Scan
            <3> QED BY <3>2, <3>3
        <2>4. CASE ms[i].role # "assistant"
            <3>1. CallsBefore(i) = CallsBefore(i - 1) BY <2>1, <2>2, <2>4
            <3>2. Seen(i) = Seen(i - 1)
                <4> HIDE DEF CallsBefore
                <4> QED BY <3>1
            <3>3. Scan(Seen(i - 1), i) = Seen(i - 1)
                <4>1. ~(ms[i].role = "tool" /\ ~ IdsIn(ms[i].results) \subseteq Seen(i - 1).declared) BY <1>3
                <4> HIDE DEF Seen
                <4> QED BY <2>4, <4>1
            <3> QED BY <3>2, <3>3
        <2> QED BY <2>3, <2>4
    <1>6. Seen(0) = Start
        <2>1. CallsBefore(0) = {} OBVIOUS
        <2> HIDE DEF CallsBefore
        <2> QED BY <2>1
    <1> HIDE DEF n, Seen, Scan
    <1> DEFINE g == [i \in 0..n |-> Seen(i)]
    <1>7. g = [i \in 0..n |-> Round(g, i)]
        <2>1. \A i \in 1..n : g[i] = Round(g, i) BY <1>4, <1>5
        <2>2. g[0] = Round(g, 0) BY <1>1, <1>6
        <2>3. \A i \in 0..n : i = 0 \/ i \in 1..n BY <1>1
        <2>4. \A i \in 0..n : g[i] = Round(g, i) BY <2>1, <2>2, <2>3
        <2> HIDE DEF Round
        <2> QED BY <2>4
    <1> HIDE DEF g
    <1> DEFINE seen == CHOOSE f : f = [i \in 0..n |-> Round(f, i)]
    <1>8. seen = [i \in 0..n |-> Round(seen, i)]
        <2> HIDE DEF Round
        <2> QED BY <1>7
    <1>9. LegalStart(ms) = seen[n].start BY DEF LegalStart, n, Scan
    <1> HIDE DEF seen
    <1>10. \A i \in 0..n : seen[i] = Round(seen, i)
        <2> HIDE DEF Round
        <2> QED BY <1>8
    <1> DEFINE S == {i \in 0..n : seen[i] = Seen(i)}
    <1>11. 0 \in S
        <2>1. 0 \in 0..n BY <1>1
        <2>2. seen[0] = Start BY <1>10, <2>1
        <2> QED BY <1>6, <2>1, <2>2
    <1>12. ASSUME NEW i \in 1..n, i - 1 \in S PROVE i \in S
        <2>1. i \in 0..n /\ i # 0 BY <1>4
        <2>2. seen[i] = Scan(seen[i - 1], i) BY <1>10, <2>1
        <2>3. seen[i - 1] = Seen(i - 1) BY <1>12
        <2> QED BY <1>5, <2>1, <2>2, <2>3
    <1> HIDE DEF S
    <1>13. n \in S
        <2>1. \A i \in 0..n : i \in S BY <1>1, <1>11, <1>12, Climb
        <2> QED BY <1>1, <2>1
    <1>14. seen[n].start = 0 BY <1>13 DEF S, Seen
    <1>15. LegalStart(ms) = 0 BY <1>9, <1>14
    <1>16. AtLegalStart(ms) = From(ms, 1) BY <1>15 DEF AtLegalStart
    <1> QED BY <1>1, <1>15, <1>16, WholeIs

\* Messages of which others have the roles, the calls and the results.
SameShape(p, q) ==
    Len(p) = Len(q) /\ \A i \in 1..Len(p) : p[i].role = q[i].role /\ p[i].calls = q[i].calls /\ p[i].results = q[i].results

LEMMA ShapeKept ==
    ASSUME NEW p \in Seq(Msg), NEW q, Unowing(q), SameShape(p, q)
    PROVE  Unowing(p)
    <1>1. PICK d : Debts(q, d) /\ d[Len(q)] = <<>> BY DEF Unowing
    <1>2. d \in [0..Len(p) -> Seq(Nat)] /\ d[0] = <<>> BY <1>1 DEF Debts, SameShape
    <1>3. \A i \in 1..Len(p) : Leaves(p[i], d[i - 1], d[i])
        <2>1. \A i \in 1..Len(p) : Leaves(q[i], d[i - 1], d[i]) BY <1>1 DEF Debts, SameShape
        <2> QED BY <2>1 DEF Leaves, SameShape
    <1> QED BY <1>1, <1>2, <1>3 DEF Unowing, Debts, SameShape

\* A list from a message on before which everything is answered.
LEMMA UnowingFrom ==
    ASSUME NEW ms, NEW d, Debts(ms, d), d[Len(ms)] = <<>>, NEW k \in 1..Len(ms) + 1, d[k - 1] = <<>>
    PROVE  Unowing(From(ms, k))
    <1> DEFINE q == From(ms, k)
               n == Len(ms) - k + 1
               e == [i \in 0..n |-> d[k - 1 + i]]
    <1>1. ms \in Seq(Msg) /\ Len(ms) \in Nat /\ d \in [0..Len(ms) -> Seq(Nat)]
          /\ \A i \in 1..Len(ms) : Leaves(ms[i], d[i - 1], d[i])
        BY DebtIs DEF Debts
    <1>2. q \in Seq(Msg) /\ Len(q) = n /\ \A i \in 1..n : q[i] = ms[k - 1 + i] BY <1>1, FromIs
    <1>3. n \in Nat /\ k \in Nat /\ k >= 1 /\ Len(ms) \in Nat BY <1>1
    <1>4. \A i \in 0..n : k - 1 + i \in 0..Len(ms) BY <1>3
    <1>5. e \in [0..n -> Seq(Nat)] BY <1>1, <1>4
    <1>6. e[0] = <<>> /\ e[n] = <<>>
        <2>1. k - 1 + 0 = k - 1 /\ k - 1 + n = Len(ms) /\ 0 \in 0..n /\ n \in 0..n BY <1>3
        <2> HIDE DEF n
        <2> QED BY <2>1
    <1>7. \A i \in 1..n : Leaves(q[i], e[i - 1], e[i])
        <2> TAKE i \in 1..n
        <2>1. k - 1 + i \in 1..Len(ms) /\ k - 1 + i - 1 = k - 1 + (i - 1) /\ i \in 0..n /\ i - 1 \in 0..n BY <1>3
        <2>2. Leaves(ms[k - 1 + i], d[k - 1 + (i - 1)], d[k - 1 + i]) BY <1>1, <2>1
        <2>3. e[i] = d[k - 1 + i] /\ e[i - 1] = d[k - 1 + (i - 1)] BY <2>1
        <2> HIDE DEF e, q, n
        <2> QED BY <1>2, <2>2, <2>3
    <1> HIDE DEF e, q, n
    <1>8. Debts(q, e) /\ e[Len(q)] = <<>> BY <1>2, <1>5, <1>6, <1>7 DEF Debts
    <1> QED BY <1>8 DEF Unowing, q

\* A list from a user's message on.
LEMMA UnowingUser ==
    ASSUME NEW ms, Unowing(ms), NEW k \in 1..Len(ms), ms[k].role # "tool"
    PROVE  Unowing(From(ms, k))
    <1>1. PICK d : Debts(ms, d) /\ d[Len(ms)] = <<>> BY DEF Unowing
    <1>2. Len(ms) \in Nat BY <1>1, DebtIs
    <1>3. Leaves(ms[k], d[k - 1], d[k]) BY <1>1, DebtIs
    <1>4. d[k - 1] = <<>> BY <1>3 DEF Leaves
    <1>5. k \in 1..Len(ms) + 1 BY <1>2
    <1> QED BY <1>1, <1>4, <1>5, UnowingFrom

\* Two lists of whole exchanges, one after the other.
LEMMA JoinIs ==
    ASSUME NEW M, NEW p \in Seq(M), NEW q \in Seq(M)
    PROVE  /\ p \o q \in Seq(M) /\ Len(p \o q) = Len(p) + Len(q) /\ Len(p) \in Nat /\ Len(q) \in Nat
           /\ \A i \in 1..Len(p) : (p \o q)[i] = p[i]
           /\ \A i \in 1..Len(q) : (p \o q)[Len(p) + i] = q[i]
    <1>1. p \o q \in Seq(M) /\ Len(p \o q) = Len(p) + Len(q) /\ Len(p) \in Nat /\ Len(q) \in Nat OBVIOUS
    <1>2. \A i \in 1..Len(p) : (p \o q)[i] = p[i] OBVIOUS
    <1>3. \A i \in 1..Len(q) : (p \o q)[Len(p) + i] = q[i] OBVIOUS
    <1> QED BY <1>1, <1>2, <1>3

LEMMA UnowingJoin ==
    ASSUME NEW p, NEW q, Unowing(p), Unowing(q)
    PROVE  Unowing(p \o q)
    <1>1. PICK d : Debts(p, d) /\ d[Len(p)] = <<>> BY DEF Unowing
    <1>2. PICK e : Debts(q, e) /\ e[Len(q)] = <<>> BY DEF Unowing
    <1> DEFINE a == Len(p)
               b == Len(q)
               f == [i \in 0..a + b |-> IF i <= a THEN d[i] ELSE e[i - a]]
               r == p \o q
    <1>3. p \in Seq(Msg) /\ d \in [0..a -> Seq(Nat)] /\ d[0] = <<>> /\ \A i \in 1..a : Leaves(p[i], d[i - 1], d[i]) BY <1>1 DEF Debts
    <1>4. q \in Seq(Msg) /\ e \in [0..b -> Seq(Nat)] /\ e[0] = <<>> /\ \A i \in 1..b : Leaves(q[i], e[i - 1], e[i]) BY <1>2 DEF Debts
    <1>5. r \in Seq(Msg) /\ Len(r) = a + b /\ a \in Nat /\ b \in Nat /\ (\A i \in 1..a : r[i] = p[i]) /\ \A i \in 1..b : r[a + i] = q[i]
        BY <1>3, <1>4, JoinIs
    <1>6. d[a] = <<>> /\ e[b] = <<>> BY <1>1, <1>2
    <1> HIDE DEF r, a, b
    <1>7. \A i \in 0..a + b : (i <= a => i \in 0..a) /\ (~(i <= a) => i - a \in 0..b /\ i - a \in 1..b) BY <1>5
    <1>8. f \in [0..a + b -> Seq(Nat)] BY <1>3, <1>4, <1>7
    <1>9. f[0] = <<>> BY <1>3, <1>5
    <1>10. f[a + b] = <<>>
        <2>1. CASE b = 0
            <3>1. a + b = a /\ a \in 0..a + b /\ a <= a BY <1>5, <2>1
            <3>2. f[a] = d[a] BY <3>1
            <3> HIDE DEF f
            <3>3. f[a + b] = f[a] BY <3>1, Zenon
            <3> QED BY <1>6, <3>2, <3>3
        <2>2. CASE b # 0
            <3> DEFINE n == a + b
            <3>1. ~(n <= a) /\ n - a = b /\ n \in 0..n BY <1>5, <2>2
            <3>2. f[n] = e[n - a] BY <3>1
            <3> HIDE DEF f, n
            <3>3. f[n] = <<>> BY <1>6, <3>1, <3>2
            <3> QED BY <3>3 DEF n
        <2> QED BY <2>1, <2>2
    <1>11. ASSUME NEW i \in 1..a + b PROVE Leaves(r[i], f[i - 1], f[i])
        <2>1. i \in 0..a + b /\ i - 1 \in 0..a + b /\ i \in Nat BY <1>5
        <2>2. CASE i <= a
            <3>1. i \in 1..a /\ i - 1 <= a BY <1>5, <2>2
            <3>2. f[i] = d[i] /\ f[i - 1] = d[i - 1] /\ r[i] = p[i] BY <1>5, <2>1, <2>2, <3>1
            <3> HIDE DEF f
            <3> QED BY <1>3, <3>1, <3>2
        <2>3. CASE ~(i <= a)
            <3> DEFINE k == i - a
            <3>1. k \in 1..b /\ a + k = i /\ k - 1 = (i - 1) - a BY <1>5, <2>3
            <3>2. f[i] = e[k] BY <2>1, <2>3
            <3>3. f[i - 1] = e[k - 1]
                <4>1. CASE i - 1 <= a
                    <5>1. i - 1 = a /\ k - 1 = 0 BY <1>5, <2>1, <2>3, <4>1
                    <5>2. f[i - 1] = d[a] BY <2>1, <4>1, <5>1
                    <5> HIDE DEF f, k
                    <5> QED BY <1>4, <1>6, <5>1, <5>2
                <4>2. CASE ~(i - 1 <= a) BY <2>1, <3>1, <4>2
                <4> QED BY <4>1, <4>2
            <3>4. r[i] = q[k] BY <1>5, <3>1
            <3> HIDE DEF f, k
            <3> QED BY <1>4, <3>1, <3>2, <3>3, <3>4
        <2> QED BY <2>2, <2>3
    <1> HIDE DEF f
    <1>12. Debts(r, f) /\ f[Len(r)] = <<>> BY <1>5, <1>8, <1>9, <1>10, <1>11 DEF Debts
    <1> QED BY <1>12 DEF Unowing, r

\* A message that neither asks nor answers.
LEMMA OneUnowing ==
    ASSUME NEW m \in Msg, m.calls = <<>>, m.results = <<>>, m.role # "tool"
    PROVE  Unowing(<<m>>)
    <1> DEFINE d == [i \in 0..1 |-> <<>>]
    <1>1. <<m>> \in Seq(Msg) /\ Len(<<m>>) = 1 /\ <<m>>[1] = m OBVIOUS
    <1>2. d \in [0..1 -> Seq(Nat)] /\ d[0] = <<>> /\ d[1] = <<>> OBVIOUS
    <1>3. m.role \in Roles BY DEF Msg
    <1>4. Leaves(m, <<>>, <<>>) BY <1>3 DEF Leaves, Roles
    <1>5. \A i \in 1..1 : i = 1 /\ i - 1 = 0 OBVIOUS
    <1> HIDE DEF d
    <1>6. Debts(<<m>>, d) BY <1>1, <1>2, <1>4, <1>5 DEF Debts
    <1> QED BY <1>1, <1>2, <1>6 DEF Unowing

LEMMA SystemUnowing == System \in Msg /\ System.role = "system" /\ System.calls = <<>> /\ System.results = <<>> /\ Unowing(<<System>>)
    <1>1. System \in Msg /\ System.role = "system" /\ System.calls = <<>> /\ System.results = <<>>
        BY DEF System, Message, Msg, Roles
    <1> QED BY <1>1, OneUnowing

LEMMA ProperIs ==
    ASSUME NEW ms, Proper(ms)
    PROVE  /\ ms \in Seq(Msg) /\ Len(ms) \in Nat /\ Len(ms) >= 2 /\ DOMAIN ms = 1..Len(ms)
           /\ ms[1] = System /\ ms[2].role = "user" /\ Unowing(ms)
           /\ \A i \in 1..Len(ms) : ms[i] \in Msg /\ (i # 1 => ms[i].role # "system")
    <1>1. Unowing(ms) /\ Len(ms) >= 2 /\ ms[1] = System /\ ms[2].role = "user" /\ \A i \in 2..Len(ms) : ms[i].role # "system"
        BY DEF Proper
    <1>2. ms \in Seq(Msg) /\ Len(ms) \in Nat /\ DOMAIN ms = 1..Len(ms) /\ \A i \in 1..Len(ms) : ms[i] \in Msg BY <1>1, UnowingIs
    <1>3. \A i \in 1..Len(ms) : i # 1 => i \in 2..Len(ms) BY <1>2
    <1> QED BY <1>1, <1>2, <1>3

\* What is not the system prompt.
LEMMA RestIs ==
    ASSUME NEW ms, Proper(ms)
    PROVE  LET q == WithoutSystem(ms)
           IN /\ q = From(ms, 2) /\ q \in Seq(Msg) /\ Len(q) = Len(ms) - 1 /\ Unowing(q)
              /\ \A i \in 1..Len(q) : q[i] = ms[1 + i] /\ i + 1 \in 1..Len(ms) /\ q[i].role # "system"
              /\ q[1].role = "user"
    <1> DEFINE I == {i \in DOMAIN ms : ms[i].role # "system"}
    <1>1. /\ ms \in Seq(Msg) /\ Len(ms) \in Nat /\ Len(ms) >= 2 /\ DOMAIN ms = 1..Len(ms)
          /\ ms[1] = System /\ ms[2].role = "user" /\ Unowing(ms)
          /\ \A i \in 1..Len(ms) : ms[i] \in Msg /\ (i # 1 => ms[i].role # "system")
        BY ProperIs
    <1>2. ms[1].role = "system" BY <1>1, SystemUnowing
    <1>3. \A i \in 1..Len(ms) : i \in I <=> 2 <= i BY <1>1, <1>2
    <1>4. 2 \in 1..Len(ms) + 1 /\ 2 \in 1..Len(ms) BY <1>1
    <1> HIDE DEF I
    <1>5. WithoutSystem(ms) = From(ms, 2) BY <1>1, <1>3, <1>4, PickTail DEF WithoutSystem, I
    <1> DEFINE q == From(ms, 2)
    <1>6. q \in Seq(Msg) /\ Len(q) = Len(ms) - 2 + 1 /\ \A i \in 1..Len(ms) - 2 + 1 : q[i] = ms[2 - 1 + i] BY <1>1, <1>4, FromIs
    <1>7. ms[2].role # "tool" BY <1>1
    <1>8. Unowing(q) BY <1>1, <1>4, <1>7, UnowingUser
    <1>9. \A i \in 1..Len(ms) - 1 : 1 + i \in 1..Len(ms) /\ 1 + i # 1 /\ 2 - 1 + i = 1 + i BY <1>1
    <1> HIDE DEF q
    <1>10. Len(q) = Len(ms) - 1 /\ \A i \in 1..Len(q) : q[i] = ms[1 + i] /\ i + 1 \in 1..Len(ms) /\ q[i].role # "system"
        <2>1. Len(ms) - 2 + 1 = Len(ms) - 1 BY <1>1
        <2> QED BY <1>1, <1>6, <1>9, <2>1
    <1>11. q[1].role = "user"
        <2>1. 1 \in 1..Len(q) /\ 1 + 1 = 2 BY <1>1, <1>10
        <2> QED BY <1>1, <1>10, <2>1
    <1> QED BY <1>5, <1>6, <1>8, <1>10, <1>11 DEF q

\* Cutting the text of old results.
LEMMA Compacted ==
    ASSUME NEW ms, Proper(ms), ShapeAssumption
    PROVE  LET q == Microcompact(ms)
           IN Proper(q) /\ Len(q) = Len(ms) /\ q[Len(ms)] = ms[Len(ms)]
    <1> DEFINE q == Microcompact(ms)
               tools == {i \in DOMAIN ms : ms[i].role = "tool"}
               Stale(i) == i \in tools /\ Cardinality({j \in tools : j > i}) >= KeepRecent
    <1>1. /\ ms \in Seq(Msg) /\ Len(ms) \in Nat /\ Len(ms) >= 2 /\ DOMAIN ms = 1..Len(ms)
          /\ ms[1] = System /\ ms[2].role = "user" /\ Unowing(ms)
          /\ \A i \in 1..Len(ms) : ms[i] \in Msg /\ (i # 1 => ms[i].role # "system")
        BY ProperIs
    <1>2. q = [i \in 1..Len(ms) |-> IF Stale(i) THEN [ms[i] EXCEPT !.says = {}, !.size = 1] ELSE ms[i]]
        BY <1>1 DEF Microcompact
    <1>3. \A i \in 1..Len(ms) : [ms[i] EXCEPT !.says = {}, !.size = 1] \in Msg BY <1>1 DEF Msg
    <1>4. \A i \in 1..Len(ms) : LET m == [ms[i] EXCEPT !.says = {}, !.size = 1]
                                IN m.role = ms[i].role /\ m.calls = ms[i].calls /\ m.results = ms[i].results
        BY <1>1 DEF Msg
    <1>5. ~Stale(Len(ms)) /\ ~Stale(1) /\ 1 \in 1..Len(ms) /\ 2 \in 1..Len(ms) /\ Len(ms) \in 1..Len(ms)
        <2>1. {j \in tools : j > Len(ms)} = {} BY <1>1
        <2>2. Cardinality({}) = 0 BY FS_EmptySet
        <2>3. KeepRecent \in Nat \ {0} BY DEF ShapeAssumption
        <2>4. ~(0 >= KeepRecent) BY <2>3
        <2>5. 1 \notin tools BY <1>1, SystemUnowing
        <2> HIDE DEF tools
        <2>6. Cardinality({j \in tools : j > Len(ms)}) = 0 BY <2>1, <2>2
        <2>7. ~Stale(Len(ms)) BY <2>4, <2>6
        <2>8. ~Stale(1) BY <2>5
        <2> HIDE DEF Stale
        <2> QED BY <1>1, <2>7, <2>8
    <1> HIDE DEF Stale
    <1>6. q \in Seq(Msg) /\ Len(q) = Len(ms)
        <2>1. \A i \in 1..Len(ms) : (IF Stale(i) THEN [ms[i] EXCEPT !.says = {}, !.size = 1] ELSE ms[i]) \in Msg BY <1>1, <1>3
        <2> HIDE DEF q
        <2>2. q \in [1..Len(ms) -> Msg] BY <1>2, <2>1
        <2> QED BY <1>1, <2>2
    <1>7. \A i \in 1..Len(ms) : q[i].role = ms[i].role /\ q[i].calls = ms[i].calls /\ q[i].results = ms[i].results BY <1>2, <1>4
    <1>8. q[Len(ms)] = ms[Len(ms)] /\ q[1] = System BY <1>1, <1>2, <1>5
    <1> HIDE DEF q
    <1>9. Unowing(q) BY <1>1, <1>6, <1>7, ShapeKept DEF SameShape
    <1>10. Proper(q)
        <2>1. \A i \in 2..Len(q) : i \in 1..Len(ms) /\ i # 1 BY <1>1, <1>6
        <2> QED BY <1>1, <1>5, <1>6, <1>7, <1>8, <1>9, <2>1 DEF Proper
    <1> QED BY <1>6, <1>8, <1>10 DEF q

\* The least and the greatest of some places.
LEMMA FirstIs ==
    ASSUME NEW n \in Nat, NEW I \in SUBSET (1..n), I # {}
    PROVE  First(I) \in I /\ \A j \in I : First(I) <= j
    <1>1. I \in SUBSET Nat OBVIOUS
    <1>2. \E i \in I : \A j \in I : i <= j BY <1>1, LeastNumber
    <1> QED BY <1>2 DEF First

LEMMA Last1Is ==
    ASSUME NEW n \in Nat, NEW I \in SUBSET (1..n), I # {}
    PROVE  Last1(I) \in I
    <1> DEFINE J == {n - i : i \in I}
    <1>1. J \in SUBSET Nat /\ J # {}
        <2>1. \A i \in I : n - i \in Nat OBVIOUS
        <2>2. J \subseteq Nat BY <2>1
        <2>3. PICK i \in I : TRUE OBVIOUS
        <2>4. n - i \in J OBVIOUS
        <2> HIDE DEF J
        <2> QED BY <2>2, <2>4
    <1> HIDE DEF J
    <1>2. PICK k \in J : \A j \in J : k <= j BY <1>1, LeastNumber
    <1>3. PICK i \in I : k = n - i BY <1>2 DEF J
    <1>4. ASSUME NEW j \in I PROVE j <= i
        <2>1. n - j \in J BY DEF J
        <2>2. n - i <= n - j BY <1>2, <1>3, <2>1
        <2>3. i \in 1..n /\ j \in 1..n OBVIOUS
        <2> QED BY <2>2, <2>3
    <1> QED BY <1>4 DEF Last1

\* What _snip_history keeps is the list from a user's message on.
LEMMA KeptIs ==
    ASSUME NEW q \in Seq(Msg), Len(q) >= 1, q[1].role = "user", NEW room
    PROVE  \E k \in 1..Len(q) : q[k].role = "user" /\ FromUser(FittingSuffix(q, room), q) = From(q, k)
    <1> DEFINE n == Len(q)
               I == {i \in DOMAIN q : i = n \/ Total(From(q, i)) <= room}
               a == First(I)
               kept == From(q, a)
    <1>1. n \in Nat /\ n >= 1 /\ DOMAIN q = 1..n OBVIOUS
    <1>2. a \in 1..n
        <2>1. I \in SUBSET (1..n) /\ n \in I BY <1>1
        <2> HIDE DEF I, n
        <2>2. First(I) \in I BY <1>1, <2>1, FirstIs
        <2> QED BY <2>1, <2>2
    <1>3. FittingSuffix(q, room) = kept BY DEF FittingSuffix
    <1> HIDE DEF a
    <1>4. a \in 1..n + 1 BY <1>1, <1>2
    <1>5. kept \in Seq(Msg) /\ Len(kept) = n - a + 1 /\ \A i \in 1..n - a + 1 : kept[i] = q[a - 1 + i] BY <1>4, FromIs
    <1> HIDE DEF n, kept
    <1>6. CASE Users(kept) # {}
        <2> DEFINE b == First(Users(kept))
        <2>1. Len(kept) \in Nat /\ DOMAIN kept = 1..Len(kept) BY <1>5
        <2>2. Users(kept) \in SUBSET (1..Len(kept)) BY <2>1 DEF Users
        <2>3. b \in Users(kept) BY <1>6, <2>1, <2>2, FirstIs
        <2> HIDE DEF b
        <2>4. b \in 1..n - a + 1 /\ kept[b].role = "user" BY <1>5, <2>1, <2>3 DEF Users
        <2> DEFINE k == a - 1 + b
        <2>5. k \in 1..n /\ k \in 1..n + 1 /\ n - k + 1 = (n - a + 1) - b + 1 BY <1>1, <1>2, <2>4
        <2>6. q[k].role = "user" BY <1>5, <2>4
        <2>7. From(kept, b) = From(q, k)
            <3> DEFINE N == n - k + 1
            <3>1. b \in 1..Len(kept) + 1 BY <2>1, <2>4, <1>5
            <3>2. From(kept, b) \in Seq(Msg) /\ Len(From(kept, b)) = Len(kept) - b + 1
                  /\ \A i \in 1..Len(kept) - b + 1 : From(kept, b)[i] = kept[b - 1 + i]
                <4>1. kept \in Seq(Msg) BY <1>5
                <4> QED BY <3>1, <4>1, FromIs
            <3>3. From(q, k) \in Seq(Msg) /\ Len(From(q, k)) = N /\ \A i \in 1..N : From(q, k)[i] = q[k - 1 + i]
                BY <2>5, FromIs DEF n
            <3>4. Len(kept) - b + 1 = N BY <1>5, <2>5
            <3>5. \A i \in 1..N : b - 1 + i \in 1..n - a + 1 /\ a - 1 + (b - 1 + i) = k - 1 + i BY <1>1, <1>2, <2>4
            <3>6. \A i \in 1..N : From(kept, b)[i] = From(q, k)[i] BY <1>5, <3>2, <3>3, <3>4, <3>5
            <3> HIDE DEF k, N
            <3>7. Len(From(kept, b)) = Len(From(q, k)) /\ \A i \in 1..Len(From(kept, b)) : From(kept, b)[i] = From(q, k)[i]
                BY <3>2, <3>3, <3>4, <3>6
            <3> QED BY <3>2, <3>3, <3>7, SameList
        <2>8. FromUser(kept, q) = From(kept, b) BY <1>6 DEF FromUser, b
        <2> HIDE DEF k
        <2> QED BY <1>3, <2>5, <2>6, <2>7, <2>8 DEF n
    <1>7. CASE Users(kept) = {}
        <2> DEFINE k == Last1(Users(q))
        <2>1. Users(q) \in SUBSET (1..n) BY <1>1 DEF Users
        <2>2. 1 \in Users(q) BY <1>1 DEF Users
        <2>3. k \in Users(q) BY <1>1, <2>1, <2>2, Last1Is
        <2>4. FromUser(kept, q) = From(q, k) BY <1>7, <2>2 DEF FromUser
        <2> HIDE DEF k
        <2>5. k \in 1..n /\ q[k].role = "user" BY <2>1, <2>3 DEF Users
        <2> QED BY <1>3, <2>4, <2>5 DEF n
    <1> QED BY <1>6, <1>7

LEMMA Snipped ==
    ASSUME NEW ms, Proper(ms)
    PROVE  LET q == Snip(ms) IN Proper(q) /\ q[Len(q)] = ms[Len(ms)]
    <1> DEFINE rest == WithoutSystem(ms)
               room == IF Budget > 1 THEN Budget - 1 ELSE 1
               part == FromUser(FittingSuffix(rest, room), rest)
    <1>1. CASE Total(ms) <= Budget \/ rest = <<>> BY <1>1 DEF Snip
    <1>2. CASE ~(Total(ms) <= Budget \/ rest = <<>>)
        <2>1. Snip(ms) = <<System>> \o AtLegalStart(part) BY <1>2 DEF Snip
        <2>2. /\ rest \in Seq(Msg) /\ Len(rest) = Len(ms) - 1 /\ Unowing(rest) /\ rest[1].role = "user"
              /\ \A i \in 1..Len(rest) : rest[i] = ms[1 + i] /\ rest[i].role # "system"
            BY RestIs
        <2>3. Len(ms) \in Nat /\ Len(ms) >= 2 BY ProperIs
        <2> HIDE DEF room, rest
        <2>4. PICK k \in 1..Len(rest) : rest[k].role = "user" /\ part = From(rest, k) BY <2>2, <2>3, KeptIs
        <2> HIDE DEF part
        <2>5. Unowing(part) BY <2>2, <2>4, UnowingUser
        <2>6. AtLegalStart(part) = part BY <2>5, LegalFromStart
        <2>7. k \in 1..Len(rest) + 1 BY <2>2, <2>3
        <2>8. part \in Seq(Msg) /\ Len(part) = Len(rest) - k + 1 /\ \A i \in 1..Len(rest) - k + 1 : part[i] = rest[k - 1 + i]
            <3> DEFINE h == From(rest, k)
            <3>1. rest \in Seq(Msg) BY <2>2
            <3>2. h \in Seq(Msg) /\ Len(h) = Len(rest) - k + 1 /\ \A i \in 1..Len(rest) - k + 1 : h[i] = rest[k - 1 + i]
                BY <2>7, <3>1, FromIs
            <3>3. part = h BY <2>4
            <3> HIDE DEF h
            <3> QED BY <3>2, <3>3
        <2> DEFINE q == <<System>> \o part
        <2>9. Unowing(q) BY <2>5, SystemUnowing, UnowingJoin
        <2>10. <<System>> \in Seq(Msg) /\ Len(<<System>>) = 1 /\ <<System>>[1] = System BY SystemUnowing
        <2>11. /\ Len(q) = 1 + Len(part) /\ (\A i \in 1..1 : q[i] = <<System>>[i]) /\ \A i \in 1..Len(part) : q[1 + i] = part[i]
            <3>1. /\ Len(q) = Len(<<System>>) + Len(part) /\ (\A i \in 1..Len(<<System>>) : q[i] = <<System>>[i])
                  /\ \A i \in 1..Len(part) : q[Len(<<System>>) + i] = part[i]
                <4> DEFINE h == <<System>>
                <4>1. h \in Seq(Msg) /\ part \in Seq(Msg) BY <2>8, <2>10
                <4> HIDE DEF h
                <4>2. /\ Len(h \o part) = Len(h) + Len(part) /\ (\A i \in 1..Len(h) : (h \o part)[i] = h[i])
                      /\ \A i \in 1..Len(part) : (h \o part)[Len(h) + i] = part[i]
                    BY <4>1, JoinIs
                <4> QED BY <4>2 DEF h
            <3> HIDE DEF q
            <3> QED BY <2>10, <3>1
        <2> HIDE DEF q
        <2>12. Len(part) \in Nat /\ Len(part) >= 1 /\ k \in Nat /\ Len(rest) \in Nat BY <2>2, <2>3, <2>8
        <2>13. q[1] = System BY <2>10, <2>11
        <2>14. q[2].role = "user"
            <3>1. 1 \in 1..Len(part) /\ 1 \in 1..Len(rest) - k + 1 /\ k - 1 + 1 = k /\ 1 + 1 = 2 BY <2>8, <2>12
            <3> QED BY <2>4, <2>8, <2>11, <3>1
        <2>15. \A i \in 2..Len(q) : q[i].role # "system"
            <3> TAKE i \in 2..Len(q)
            <3> DEFINE j == i - 1
                       l == k - 1 + j
            <3>1. j \in 1..Len(part) /\ 1 + j = i /\ j \in 1..Len(rest) - k + 1 BY <2>8, <2>11, <2>12
            <3>2. l \in 1..Len(rest) BY <2>8, <2>12, <3>1
            <3> HIDE DEF j
            <3>3. q[i] = rest[l] BY <2>8, <2>11, <3>1
            <3> HIDE DEF l
            <3> QED BY <2>2, <3>2, <3>3
        <2>16. q[Len(q)] = ms[Len(ms)]
            <3> DEFINE j == Len(part)
            <3>1. j \in 1..Len(part) /\ j \in 1..Len(rest) - k + 1 /\ k - 1 + j = Len(rest) /\ Len(rest) \in 1..Len(rest) /\ 1 + Len(rest) = Len(ms)
                BY <2>2, <2>3, <2>8, <2>12
            <3>2. q[1 + j] = part[j] /\ part[j] = rest[k - 1 + j] BY <2>8, <2>11, <3>1
            <3>3. rest[Len(rest)] = ms[1 + Len(rest)] BY <2>2, <3>1
            <3> QED BY <2>11, <3>1, <3>2, <3>3
        <2>17. Proper(q) BY <2>9, <2>11, <2>12, <2>13, <2>14, <2>15 DEF Proper
        <2> QED BY <2>1, <2>6, <2>16, <2>17 DEF q
    <1> QED BY <1>1, <1>2

\* What a model is sent is a proper list, and ends with the newest message.
LEMMA PreparedIs ==
    ASSUME NEW ms, Proper(ms), ShapeAssumption
    PROVE  LET q == Prepared(ms) IN Proper(q) /\ q[Len(q)] = ms[Len(ms)]
    <1>1. Unowing(ms) BY DEF Proper
    <1>2. Backfill(DropOrphans(ms)) = ms BY <1>1, NoOrphans, NoneMissing
    <1> DEFINE a == Microcompact(ms)
               b == Snip(a)
    <1>3. Proper(a) /\ a[Len(a)] = ms[Len(ms)] BY Compacted
    <1>4. Proper(b) /\ b[Len(b)] = a[Len(a)] BY <1>3, Snipped
    <1>5. Unowing(b) BY <1>4 DEF Proper
    <1>6. Backfill(DropOrphans(b)) = b
        <2> HIDE DEF b
        <2> QED BY <1>5, NoOrphans, NoneMissing
    <1>7. Prepared(ms) = b BY <1>2, <1>6 DEF Prepared
    <1> QED BY <1>3, <1>4, <1>7

----------------------------------------------------------------------------
(* What the chat client makes of a proper list. *)

LEMMA SanitizedIs ==
    ASSUME NEW ms, Proper(ms)
    PROVE  LET q == Sanitized(ms)
           IN /\ Proper(q) /\ Len(q) = Len(ms)
              /\ ms[Len(ms)].role \in {"user", "tool"} => q[Len(q)] = ms[Len(ms)]
    <1> DEFINE q == Sanitized(ms)
               Bare(m) == IF m.calls # <<>> THEN [m EXCEPT !.says = {}] ELSE m
    <1>1. /\ ms \in Seq(Msg) /\ Len(ms) \in Nat /\ Len(ms) >= 2 /\ DOMAIN ms = 1..Len(ms)
          /\ ms[1] = System /\ ms[2].role = "user" /\ Unowing(ms)
          /\ \A i \in 1..Len(ms) : ms[i] \in Msg /\ (i # 1 => ms[i].role # "system")
        BY ProperIs
    <1>2. q = [i \in 1..Len(ms) |-> Bare(ms[i])] BY <1>1 DEF Sanitized
    <1>3. \A m \in Msg : Bare(m) \in Msg /\ Bare(m).role = m.role /\ Bare(m).calls = m.calls /\ Bare(m).results = m.results
        BY DEF Msg
    <1>4. \A i \in 1..Len(ms) : ms[i].role # "assistant" => ms[i].calls = <<>>
        <2>1. PICK d : Debts(ms, d) BY <1>1 DEF Unowing
        <2>2. \A i \in 1..Len(ms) : Leaves(ms[i], d[i - 1], d[i]) BY <2>1, DebtIs
        <2> QED BY <2>2 DEF Leaves
    <1>5. Bare(System) = System BY SystemUnowing
    <1>6. Len(ms) \in 1..Len(ms) /\ 1 \in 1..Len(ms) /\ 2 \in 1..Len(ms) BY <1>1
    <1>7. ms[Len(ms)].role \in {"user", "tool"} => Bare(ms[Len(ms)]) = ms[Len(ms)] BY <1>4, <1>6
    <1> HIDE DEF Bare
    <1>8. q \in Seq(Msg) /\ Len(q) = Len(ms)
        <2>1. \A i \in 1..Len(ms) : Bare(ms[i]) \in Msg BY <1>1, <1>3
        <2> HIDE DEF q
        <2>2. q \in [1..Len(ms) -> Msg] BY <1>2, <2>1
        <2> QED BY <1>1, <2>2
    <1>9. \A i \in 1..Len(ms) : q[i] = Bare(ms[i]) BY <1>2
    <1> HIDE DEF q
    <1>10. \A i \in 1..Len(ms) : q[i].role = ms[i].role /\ q[i].calls = ms[i].calls /\ q[i].results = ms[i].results
        BY <1>1, <1>3, <1>9
    <1>11. Unowing(q) BY <1>1, <1>8, <1>10, ShapeKept DEF SameShape
    <1>12. q[1] = System BY <1>1, <1>5, <1>6, <1>9
    <1>13. Proper(q)
        <2>1. \A i \in 2..Len(q) : i \in 1..Len(ms) /\ i # 1 BY <1>1, <1>8
        <2> QED BY <1>1, <1>6, <1>8, <1>10, <1>11, <1>12, <2>1 DEF Proper
    <1> QED BY <1>6, <1>7, <1>8, <1>9, <1>13 DEF q

\* Two messages in one.
LEMMA WithTextIs ==
    ASSUME NEW a \in Msg, NEW b \in Msg
    PROVE  LET m == WithText(a, b)
           IN m \in Msg /\ m.role = a.role /\ m.calls = a.calls /\ m.results = a.results /\ m.says = a.says \cup b.says
    <1>1. a.says \cup b.says \in SUBSET Nat /\ a.size + b.size \in Nat BY DEF Msg
    <1> DEFINE s == a.says \cup b.says
               z == a.size + b.size
               m == [a EXCEPT !.says = s, !.size = z]
    <1>2. WithText(a, b) = m BY DEF WithText
    <1> HIDE DEF s, z
    <1>3. s \in SUBSET Nat /\ z \in Nat BY <1>1 DEF s, z
    <1>4. m \in Msg /\ m.role = a.role /\ m.calls = a.calls /\ m.results = a.results /\ m.says = s BY <1>3 DEF Msg
    <1> QED BY <1>2, <1>4 DEF s

\* What has been merged after some messages of a list, of which e is not answered: neighbours
\* differ, and the last message stands for the last of the list.
MergedSo(out, e, m, y) ==
    /\ Debts(out, e) /\ Len(out) >= 1 /\ e[Len(out)] = y
    /\ out[1] = System /\ \A i \in 2..Len(out) : out[i].role # "system"
    /\ \A i \in 1..Len(out) : Apart(out, i)
    /\ out[Len(out)].role = m.role
    /\ m.role \in {"user", "tool"} => m.says \subseteq out[Len(out)].says
    /\ Len(out) >= 2 => out[2].role = "user"

\* One more message, and what it leaves.
LEMMA DebtsAppend ==
    ASSUME NEW out, NEW e, Debts(out, e), NEW m \in Msg, NEW y \in Seq(Nat), Leaves(m, e[Len(out)], y)
    PROVE  LET n == Len(out) + 1
               f == [i \in 0..n |-> IF i = n THEN y ELSE e[i]]
           IN Debts(Append(out, m), f) /\ f[Len(Append(out, m))] = y
    <1> DEFINE n == Len(out) + 1
               f == [i \in 0..n |-> IF i = n THEN y ELSE e[i]]
               q == Append(out, m)
    <1>1. out \in Seq(Msg) /\ Len(out) \in Nat /\ e \in [0..Len(out) -> Seq(Nat)] /\ e[0] = <<>>
          /\ \A i \in 1..Len(out) : Leaves(out[i], e[i - 1], e[i])
        BY DebtIs DEF Debts
    <1>2. q \in Seq(Msg) /\ Len(q) = n /\ q[n] = m /\ \A i \in 1..Len(out) : q[i] = out[i] BY <1>1
    <1>3. \A i \in 0..n : i = n \/ i \in 0..Len(out) BY <1>1
    <1>4. f \in [0..n -> Seq(Nat)] BY <1>1, <1>3
    <1>5. f[0] = <<>> /\ f[n] = y /\ \A i \in 0..Len(out) : f[i] = e[i] BY <1>1
    <1> HIDE DEF f, q
    <1>6. ASSUME NEW i \in 1..n PROVE Leaves(q[i], f[i - 1], f[i])
        <2>1. CASE i = n
            <3>1. i - 1 = Len(out) /\ Len(out) \in 0..Len(out) BY <1>1, <2>1
            <3> QED BY <1>2, <1>5, <2>1, <3>1
        <2>2. CASE i # n
            <3>1. i \in 1..Len(out) /\ i \in 0..Len(out) /\ i - 1 \in 0..Len(out) BY <1>1, <2>2
            <3> QED BY <1>1, <1>2, <1>5, <3>1
        <2> QED BY <2>1, <2>2
    <1> HIDE DEF n
    <1>7. Debts(q, f) /\ f[Len(q)] = y BY <1>2, <1>4, <1>5, <1>6 DEF Debts
    <1> QED BY <1>7 DEF f, n, q

\* Another last message in the place of the last.
LEMMA DebtsReplace ==
    ASSUME NEW out, NEW e, Debts(out, e), Len(out) >= 1, NEW m \in Msg, NEW y \in Seq(Nat), Leaves(m, e[Len(out) - 1], y)
    PROVE  \E f : Debts([out EXCEPT ![Len(out)] = m], f) /\ f[Len(out)] = y
    <1> DEFINE n == Len(out)
               f == [i \in 0..n |-> IF i = n THEN y ELSE e[i]]
               q == [out EXCEPT ![n] = m]
    <1>1. out \in Seq(Msg) /\ n \in Nat /\ n >= 1 /\ e \in [0..n -> Seq(Nat)] /\ e[0] = <<>>
          /\ \A i \in 1..n : Leaves(out[i], e[i - 1], e[i])
        BY DebtIs DEF Debts
    <1>2. q \in Seq(Msg) /\ Len(q) = n /\ q[n] = m /\ \A i \in 1..n : i # n => q[i] = out[i] BY <1>1
    <1>4. f \in [0..n -> Seq(Nat)] BY <1>1
    <1>5. f[0] = <<>> /\ f[n] = y /\ \A i \in 0..n : i # n => f[i] = e[i] BY <1>1
    <1> HIDE DEF f, q
    <1>6. ASSUME NEW i \in 1..n PROVE Leaves(q[i], f[i - 1], f[i])
        <2>1. i - 1 \in 0..n /\ i - 1 # n /\ i \in 0..n BY <1>1
        <2>2. CASE i = n BY <1>2, <1>5, <2>1, <2>2
        <2>3. CASE i # n BY <1>1, <1>2, <1>5, <2>1, <2>3
        <2> QED BY <2>2, <2>3
    <1>7. Debts(q, f) /\ f[n] = y BY <1>2, <1>4, <1>5, <1>6 DEF Debts
    <1>8. \E h : Debts(q, h) /\ h[n] = y BY <1>7
    <1> QED BY <1>8 DEF n, q

LEMMA TwoAtLeast == ASSUME NEW n \in Nat, n >= 1, n # 1 PROVE n >= 2 /\ 1 \in 1..n /\ 2 \in 1..n
    OBVIOUS

\* A message is appended.
LEMMA MergeAppends ==
    ASSUME NEW out, NEW e, NEW p \in Msg, NEW m \in Msg, NEW x \in Seq(Nat), NEW y \in Seq(Nat),
           MergedSo(out, e, p, x), Leaves(m, x, y), m.role # "system",
           m.role \in {"user", "assistant"} => out[Len(out)].role # m.role,
           Len(out) = 1 => m.role = "user"
    PROVE  \E f : MergedSo(Append(out, m), f, m, y)
    <1> DEFINE n == Len(out) + 1
               q == Append(out, m)
               f == [i \in 0..n |-> IF i = n THEN y ELSE e[i]]
    <1>1. Debts(out, e) /\ Len(out) >= 1 /\ e[Len(out)] = x BY DEF MergedSo
    <1>2. out \in Seq(Msg) /\ Len(out) \in Nat BY <1>1, DebtIs
    <1>3. Debts(q, f) /\ f[Len(q)] = y BY <1>1, DebtsAppend
    <1>4. Len(q) = n /\ q[n] = m /\ \A i \in 1..Len(out) : q[i] = out[i] BY <1>2
    <1> HIDE DEF f, q
    <1>5. q[1] = System /\ \A i \in 2..n : q[i].role # "system"
        <2>1. 1 \in 1..Len(out) /\ out[1] = System BY <1>1, <1>2 DEF MergedSo
        <2>2. \A i \in 2..n : i = n \/ (i \in 1..Len(out) /\ i \in 2..Len(out)) BY <1>2
        <2>3. \A i \in 2..Len(out) : out[i].role # "system" BY DEF MergedSo
        <2> QED BY <1>4, <2>1, <2>2, <2>3
    <1>6. \A i \in 1..n : Apart(q, i)
        <2> TAKE i \in 1..n
        <2>1. CASE i = n BY <1>2, <1>4, <2>1 DEF Apart
        <2>2. CASE i = Len(out)
            <3>1. i + 1 = n /\ i \in 1..Len(out) /\ q[i] = out[i] BY <1>1, <1>2, <1>4, <2>2
            <3>2. out[i].role # m.role \/ m.role = "tool"
                <4>1. m.role \in Roles BY DEF Msg
                <4> QED BY <2>2, <4>1 DEF Roles
            <3>3. q[i].role # q[i + 1].role \/ q[i].role \in {"tool", "system"} BY <1>4, <3>1, <3>2
            <3> QED BY <3>3 DEF Apart
        <2>3. CASE i # n /\ i # Len(out)
            <3>1. i < Len(out) /\ i \in 1..Len(out) /\ i + 1 \in 1..Len(out) BY <1>2, <2>3
            <3>2. Apart(out, i) BY <3>1 DEF MergedSo
            <3>3. q[i] = out[i] /\ q[i + 1] = out[i + 1] BY <1>4, <3>1
            <3> QED BY <3>1, <3>2, <3>3 DEF Apart
        <2> QED BY <2>1, <2>2, <2>3
    <1>7. q[2].role = "user"
        <2>1. CASE Len(out) = 1 BY <1>4, <2>1
        <2>2. CASE Len(out) # 1
            <3>1. Len(out) >= 2 /\ 2 \in 1..Len(out) BY <1>1, <1>2, <2>2, TwoAtLeast, Zenon
            <3> QED BY <1>4, <3>1 DEF MergedSo
        <2> QED BY <2>1, <2>2
    <1>8. n >= 1 BY <1>2
    <1> HIDE DEF n
    <1>9. MergedSo(q, f, m, y) BY <1>3, <1>4, <1>5, <1>6, <1>7, <1>8 DEF MergedSo
    <1> QED BY <1>9 DEF q

\* Or one takes the place of the last.
LEMMA MergeReplaces ==
    ASSUME NEW out, NEW e, NEW p \in Msg, NEW m \in Msg, NEW w \in Msg, NEW x \in Seq(Nat), NEW y \in Seq(Nat),
           MergedSo(out, e, p, x), Leaves(w, e[Len(out) - 1], y), m.role # "system",
           w.role = m.role, out[Len(out)].role = m.role, m.role \in {"user", "tool"} => m.says \subseteq w.says
    PROVE  \E f : MergedSo([out EXCEPT ![Len(out)] = w], f, m, y)
    <1> DEFINE n == Len(out)
               q == [out EXCEPT ![n] = w]
    <1>1. Debts(out, e) /\ n >= 1 BY DEF MergedSo
    <1>2. out \in Seq(Msg) /\ n \in Nat BY <1>1, DebtIs
    <1>11. PICK f : Debts(q, f) /\ f[n] = y BY <1>1, DebtsReplace
    <1>3. Len(q) = n /\ q[n] = w /\ \A i \in 1..n : i # n => q[i] = out[i] BY <1>1, <1>2
    <1> HIDE DEF q
    <1>4. \A i \in 1..n : q[i].role = out[i].role BY <1>3
    <1>5. n # 1 BY SystemUnowing DEF MergedSo
    <1>6. 1 \in 1..n /\ 2 \in 1..n /\ n >= 2 BY <1>1, <1>2, <1>5, TwoAtLeast, Zenon
    <1>7. q[1] = System /\ q[2].role = "user" BY <1>3, <1>4, <1>5, <1>6 DEF MergedSo
    <1>8. \A i \in 2..n : q[i].role # "system"
        <2>1. \A i \in 2..n : i \in 1..n BY <1>2
        <2> QED BY <1>4, <2>1 DEF MergedSo
    <1>9. \A i \in 1..n : Apart(q, i)
        <2> TAKE i \in 1..n
        <2>1. i < n => i + 1 \in 1..n BY <1>2
        <2>2. Apart(out, i) BY DEF MergedSo
        <2> QED BY <1>3, <1>4, <2>1, <2>2 DEF Apart
    <1> HIDE DEF n
    <1>10. MergedSo(q, f, m, y) BY <1>1, <1>3, <1>7, <1>8, <1>9, <1>11 DEF MergedSo
    <1> QED BY <1>10 DEF q, n

\* So it is with every message that _enforce_role_alternation comes to.
LEMMA MergeStep ==
    ASSUME NEW out, NEW e, NEW p \in Msg, NEW m \in Msg, NEW x \in Seq(Nat), NEW y \in Seq(Nat),
           MergedSo(out, e, p, x), Leaves(m, x, y), m.role # "system", Len(out) = 1 => m.role = "user"
    PROVE  \E f : MergedSo(MergeInto(out, m), f, m, y)
    <1> DEFINE n == Len(out)
               prev == out[n]
               o == e[n - 1]
    <1>1. Debts(out, e) /\ n >= 1 /\ e[n] = x BY DEF MergedSo
    <1>2. out \in Seq(Msg) /\ n \in Nat BY <1>1, DebtIs
    <1>3. out # <<>> BY <1>1
    <1>4. n \in 1..n /\ n - 1 \in 0..n BY <1>1, <1>2
    <1>5. prev \in Msg /\ Leaves(prev, o, x) /\ o \in Seq(Nat) BY <1>1, <1>4, DebtIs
    <1>6. CASE m.role \notin {"user", "assistant"} \/ prev.role # m.role
        <2>1. MergeInto(out, m) = Append(out, m) BY <1>3, <1>6 DEF MergeInto
        <2>2. m.role \in {"user", "assistant"} => out[Len(out)].role # m.role BY <1>6
        <2> QED BY <2>1, <2>2, MergeAppends
    <1>7. CASE m.role \in {"user", "assistant"} /\ prev.role = m.role
        <2>1. x = <<>> /\ o = <<>> /\ m.results = <<>> /\ prev.results = <<>> /\ prev.calls = <<>> BY <1>5, <1>7 DEF Leaves
        <2> DEFINE w == WithText(prev, m)
        <2>2. w \in Msg /\ w.role = prev.role /\ w.calls = prev.calls /\ w.results = prev.results /\ w.says = prev.says \cup m.says
            BY <1>5, WithTextIs
        <2> HIDE DEF w
        <2>3. CASE m.calls # <<>>
            <3>1. MergeInto(out, m) = [out EXCEPT ![Len(out)] = m] BY <1>3, <1>7, <2>3 DEF MergeInto
            <3>2. Leaves(m, o, y) BY <2>1
            <3> HIDE DEF o
            <3>3. \E f : MergedSo([out EXCEPT ![Len(out)] = m], f, m, y)
                <4>1. Leaves(m, e[Len(out) - 1], y) BY <3>2 DEF o
                <4> QED BY <1>7, <4>1, MergeReplaces
            <3> QED BY <3>1, <3>3
        <2>4. CASE m.calls = <<>>
            <3>1. MergeInto(out, m) = [out EXCEPT ![Len(out)] = w] BY <1>3, <1>7, <2>1, <2>4 DEF MergeInto, w
            <3>2. Leaves(w, o, y)
                <4>1. y = <<>> BY <1>7, <2>4 DEF Leaves
                <4> QED BY <1>7, <2>1, <2>2, <4>1 DEF Leaves
            <3>3. \E f : MergedSo([out EXCEPT ![Len(out)] = w], f, m, y)
                <4>1. Leaves(w, e[Len(out) - 1], y) BY <3>2 DEF o
                <4>2. w.role = m.role /\ m.says \subseteq w.says BY <1>7, <2>2
                <4> QED BY <1>7, <2>2, <4>1, <4>2, MergeReplaces
            <3> QED BY <3>1, <3>3
        <2> QED BY <2>3, <2>4
    <1> QED BY <1>6, <1>7

LEMMA MergeTyped == ASSUME NEW out \in Seq(Msg), NEW m \in Msg PROVE MergeInto(out, m) \in Seq(Msg)
    <1> DEFINE n == Len(out)
               prev == out[n]
    <1>1. CASE out = <<>> \/ m.role \notin {"user", "assistant"} BY <1>1 DEF MergeInto
    <1>2. CASE out # <<>> /\ m.role \in {"user", "assistant"}
        <2>1. n \in 1..n /\ n \in DOMAIN out /\ prev \in Msg BY <1>2
        <2>2. WithText(prev, m) \in Msg BY <2>1, WithTextIs
        <2> DEFINE w == WithText(prev, m)
        <2> HIDE DEF w
        <2>3. [out EXCEPT ![n] = m] \in Seq(Msg) /\ [out EXCEPT ![n] = w] \in Seq(Msg) /\ Append(out, m) \in Seq(Msg) BY <2>1, <2>2 DEF w
        <2>4. MergeInto(out, m) \in {out, [out EXCEPT ![n] = m], [out EXCEPT ![n] = w], Append(out, m)} BY DEF MergeInto, w
        <2> QED BY <2>3, <2>4
    <1> QED BY <1>1, <1>2

LEMMA MergedIs ==
    ASSUME NEW ms \in Seq(Msg)
    PROVE  \E f : /\ f[0] = <<>> /\ Merged(ms) = f[Len(ms)]
                  /\ \A i \in 1..Len(ms) : f[i] = MergeInto(f[i - 1], ms[i])
    <1> DEFINE n == Len(ms)
               X == Seq(Msg)
               move == [i \in 1..n |-> [x \in X |-> MergeInto(x, ms[i])]]
               Round(f, i) == IF i = 0 THEN <<>> ELSE MergeInto(f[i - 1], ms[i])
    <1>1. n \in Nat /\ <<>> \in X BY ListIs
    <1>2. move \in [1..n -> [X -> X]]
        <2>1. \A i \in 1..n : ms[i] \in Msg BY ListIs
        <2>2. \A i \in 1..n : \A x \in X : MergeInto(x, ms[i]) \in X BY <2>1, MergeTyped
        <2> HIDE DEF X
        <2> QED BY <2>2
    <1>3. \A i \in 1..n : \A x \in X : move[i][x] = MergeInto(x, ms[i]) OBVIOUS
    <1> HIDE DEF move, n, X
    <1>4. PICK g : LoopOf(g, X, <<>>, n, move) BY <1>1, <1>2, LoopDefined
    <1>5. g \in [0..n -> X] /\ g[0] = <<>> /\ \A i \in 1..n : g[i] = move[i][g[i - 1]] BY <1>4 DEF LoopOf
    <1>6. \A i \in 1..n : g[i - 1] \in X BY <1>1, <1>5
    <1>7. \A i \in 1..n : g[i] = MergeInto(g[i - 1], ms[i]) BY <1>3, <1>5, <1>6
    <1>8. g = [i \in 0..n |-> Round(g, i)]
        <2>1. \A i \in 0..n : i = 0 \/ i \in 1..n BY <1>1
        <2>2. \A i \in 0..n : g[i] = Round(g, i) BY <1>1, <1>5, <1>7, <2>1
        <2> HIDE DEF Round
        <2> QED BY <1>5, <2>2
    <1> DEFINE f == CHOOSE h : h = [i \in 0..n |-> Round(h, i)]
    <1>9. f = [i \in 0..n |-> Round(f, i)]
        <2> HIDE DEF Round
        <2> QED BY <1>8
    <1>10. Merged(ms) = f[n] BY DEF Merged, n
    <1> HIDE DEF f
    <1>11. \A i \in 0..n : f[i] = Round(f, i)
        <2> HIDE DEF Round
        <2> QED BY <1>9
    <1>12. f[0] = <<>>
        <2>1. 0 \in 0..n BY <1>1
        <2> QED BY <1>11, <2>1
    <1>13. \A i \in 1..n : f[i] = MergeInto(f[i - 1], ms[i])
        <2>1. \A i \in 1..n : i \in 0..n /\ i # 0 BY <1>1
        <2> QED BY <1>11, <2>1
    <1> QED BY <1>10, <1>12, <1>13 DEF n

\* What neighbours of one role come to.
LEMMA MergedSound ==
    ASSUME NEW ms, Proper(ms)
    PROVE  \E e : MergedSo(Merged(ms), e, ms[Len(ms)], <<>>)
    <1> DEFINE n == Len(ms)
    <1>1. PICK d : Debts(ms, d) /\ d[n] = <<>> BY DEF Proper, Unowing
    <1>2. /\ ms \in Seq(Msg) /\ n \in Nat /\ n >= 2 /\ ms[1] = System /\ ms[2].role = "user"
          /\ \A i \in 1..n : ms[i] \in Msg /\ (i # 1 => ms[i].role # "system")
        BY ProperIs
    <1>3. \A i \in 1..n : Leaves(ms[i], d[i - 1], d[i]) /\ d[i - 1] \in Seq(Nat) /\ d[i] \in Seq(Nat)
        <2>1. \A i \in 1..n : i \in 0..n /\ i - 1 \in 0..n BY <1>2
        <2> QED BY <1>1, <2>1, DebtIs
    <1>4. PICK f : f[0] = <<>> /\ Merged(ms) = f[n] /\ \A i \in 1..n : f[i] = MergeInto(f[i - 1], ms[i]) BY <1>2, MergedIs
    <1> HIDE DEF n
    <1> DEFINE S == {i \in 0..n : i = 0 \/ \E e : MergedSo(f[i], e, ms[i], d[i])}
    <1>5. 0 \in S BY <1>2
    <1>6. ASSUME NEW i \in 1..n, i - 1 \in S PROVE i \in S
        <2>1. i \in 0..n /\ i \in Nat /\ ms[i] \in Msg BY <1>2
        <2>2. CASE i = 1
            <3>1. f[1] = MergeInto(<<>>, System) BY <1>2, <1>4, <2>2
            <3>2. MergeInto(<<>>, System) = <<System>> BY SystemUnowing DEF MergeInto
            <3>3. Leaves(System, d[0], d[1])
                <4>1. 1 - 1 = 0 OBVIOUS
                <4> QED BY <1>2, <1>3, <2>2, <4>1
            <3>4. d[1] = <<>> BY <3>3, SystemUnowing DEF Leaves
            <3> DEFINE q == <<System>>
            <3>5. q \in Seq(Msg) /\ Len(q) = 1 /\ q[1] = System BY SystemUnowing
            <3>6. PICK e : Debts(q, e) /\ e[Len(q)] = <<>> BY SystemUnowing DEF Unowing
            <3> HIDE DEF q
            <3>7. \A j \in 1..Len(q) : Apart(q, j) BY <3>5 DEF Apart
            <3>8. \A j \in 2..Len(q) : FALSE BY <3>5
            <3>9. MergedSo(q, e, System, <<>>) BY <3>5, <3>6, <3>7, <3>8, SystemUnowing DEF MergedSo
            <3>10. f[i] = q /\ ms[i] = System /\ d[i] = <<>> BY <1>2, <2>2, <3>1, <3>2, <3>4 DEF q
            <3> QED BY <2>1, <3>9, <3>10
        <2>3. CASE i # 1
            <3>1. i - 1 # 0 /\ i - 1 \in 1..n BY <1>2, <2>1, <2>3
            <3>2. PICK e : MergedSo(f[i - 1], e, ms[i - 1], d[i - 1]) BY <1>6, <3>1
            <3> DEFINE out == f[i - 1]
                       p == ms[i - 1]
                       x == d[i - 1]
                       y == d[i]
                       m == ms[i]
            <3>3. p \in Msg /\ m \in Msg /\ x \in Seq(Nat) /\ y \in Seq(Nat) /\ Leaves(m, x, y) /\ m.role # "system"
                BY <1>2, <1>3, <2>3, <3>1
            <3>4. Len(out) = 1 => m.role = "user"
                <4>1. CASE i = 2 BY <1>2, <4>1
                <4>2. CASE i # 2
                    <5>1. i - 1 # 1 BY <2>1, <4>2
                    <5>2. p.role # "system" BY <1>2, <3>1, <5>1
                    <5>3. Len(out) # 1 BY <3>2, <5>2, SystemUnowing DEF MergedSo
                    <5> QED BY <5>3
                <4> QED BY <4>1, <4>2
            <3>5. MergedSo(out, e, p, x) BY <3>2
            <3>6. f[i] = MergeInto(out, m) BY <1>4
            <3> HIDE DEF out, p, x, m, y
            <3>7. \E h : MergedSo(MergeInto(out, m), h, m, y) BY <3>3, <3>4, <3>5, MergeStep
            <3>8. \E h : MergedSo(f[i], h, ms[i], d[i]) BY <3>6, <3>7 DEF m, y
            <3> QED BY <2>1, <3>8
        <2> QED BY <2>2, <2>3
    <1> HIDE DEF S
    <1>7. n \in S
        <2>1. \A i \in 0..n : i \in S BY <1>2, <1>5, <1>6, Climb
        <2> QED BY <1>2, <2>1
    <1>8. \E e : MergedSo(f[n], e, ms[n], d[n])
        <2>1. n # 0 BY <1>2
        <2> QED BY <1>7, <2>1 DEF S
    <1> QED BY <1>1, <1>4, <1>8 DEF n

\* An assistant's message at the end is cut off.
LEMMA TrailingIs ==
    ASSUME NEW q \in Seq(Msg), Len(q) >= 1, q[Len(q)].role = "assistant" => Len(q) >= 2 /\ q[Len(q) - 1].role # "assistant"
    PROVE  /\ q[Len(q)].role # "assistant" => Trailing(q) = {} /\ WithoutTrailing(q) = q
           /\ q[Len(q)].role = "assistant" => Trailing(q) # {} /\ WithoutTrailing(q) = SubSeq(q, 1, Len(q) - 1)
    <1> DEFINE n == Len(q)
    <1>1. n \in Nat /\ n >= 1 /\ DOMAIN q = 1..n OBVIOUS
    <1>2. Trailing(q) = {i \in 1..n : \A j \in i..n : q[j].role = "assistant"} BY <1>1 DEF Trailing
    <1>3. q[n].role = "assistant" => n >= 2 /\ q[n - 1].role # "assistant" OBVIOUS
    <1> HIDE DEF n
    <1>4. \A i \in 1..n : n \in i..n /\ (i # n => n - 1 \in i..n) BY <1>1
    <1>5. CASE q[n].role # "assistant"
        <2>1. Trailing(q) = {} BY <1>2, <1>4, <1>5
        <2>2. WithoutTrailing(q) = q BY <2>1 DEF WithoutTrailing
        <2> QED BY <1>5, <2>1, <2>2 DEF n
    <1>6. CASE q[n].role = "assistant"
        <2>1. \A j \in n..n : j = n BY <1>1
        <2>2. Trailing(q) = {n} BY <1>1, <1>2, <1>3, <1>4, <1>6, <2>1
        <2>3. First({n}) = n
            <3>1. {n} \in SUBSET (1..n) /\ {n} # {} BY <1>1
            <3>2. First({n}) \in {n} BY <1>1, <3>1, FirstIs
            <3> QED BY <3>2
        <2>4. WithoutTrailing(q) = SubSeq(q, 1, n - 1) BY <2>2, <2>3 DEF WithoutTrailing
        <2> QED BY <1>6, <2>2, <2>4 DEF n
    <1> QED BY <1>5, <1>6

\* A list whose first message, but for the system prompt, is a user's is not opened by another.
LEMMA OpenedIs ==
    ASSUME NEW q \in Seq(Msg), NEW k \in 1..Len(q), q[k].role = "user", \A j \in 1..(k - 1) : q[j].role = "system"
    PROVE  Opened(q) = q
    <1> DEFINE I == {j \in DOMAIN q : q[j].role # "system"}
    <1>1. Len(q) \in Nat /\ I \in SUBSET (1..Len(q)) /\ k \in I OBVIOUS
    <1>2. I # {} BY <1>1
    <1>3. \A j \in I : j \in 1..Len(q) /\ q[j].role # "system" OBVIOUS
    <1> HIDE DEF I
    <1>4. First(I) \in I /\ First(I) <= k BY <1>1, <1>2, FirstIs
    <1>5. First(I) = k
        <2>1. First(I) \in 1..Len(q) /\ q[First(I)].role # "system" BY <1>3, <1>4
        <2>2. First(I) \notin 1..(k - 1) BY <2>1
        <2> QED BY <1>1, <1>4, <2>1, <2>2
    <1>6. q[First(I)].role # "assistant" BY <1>5
    <1> QED BY <1>6 DEF Opened, I

LEMMA PartIs ==
    ASSUME NEW M, NEW q \in Seq(M), NEW k \in 0..Len(q)
    PROVE  SubSeq(q, 1, k) \in Seq(M) /\ Len(SubSeq(q, 1, k)) = k /\ \A i \in 1..k : SubSeq(q, 1, k)[i] = q[i]
    <1>1. CASE k = 0
        <2>1. SubSeq(q, 1, k) = <<>> BY <1>1
        <2> QED BY <1>1, <2>1
    <1>2. CASE k # 0
        <2>1. k \in 1..Len(q) /\ k \in Nat /\ Len(q) \in Nat BY <1>2
        <2>2. \A i \in 1..k : q[i] \in M BY <2>1
        <2> DEFINE s == SubSeq(q, 1, k)
        <2>3. s = [i \in 1..k |-> q[i]] BY <2>1
        <2> HIDE DEF s
        <2>4. s \in Seq(M) BY <2>1, <2>2, <2>3
        <2>5. Len(s) = k BY <2>1, <2>3
        <2> QED BY <2>3, <2>4, <2>5 DEF s
    <1> QED BY <1>1, <1>2

LEMMA UnowingPart ==
    ASSUME NEW ms, NEW d, Debts(ms, d), NEW k \in 0..Len(ms), d[k] = <<>>
    PROVE  Unowing(SubSeq(ms, 1, k))
    <1> DEFINE q == SubSeq(ms, 1, k)
               e == [i \in 0..k |-> d[i]]
    <1>1. ms \in Seq(Msg) /\ Len(ms) \in Nat /\ d \in [0..Len(ms) -> Seq(Nat)] /\ d[0] = <<>>
          /\ \A i \in 1..Len(ms) : Leaves(ms[i], d[i - 1], d[i])
        BY DebtIs DEF Debts
    <1>2. q \in Seq(Msg) /\ Len(q) = k /\ \A i \in 1..k : q[i] = ms[i] BY <1>1, PartIs
    <1>3. k \in Nat BY <1>1
    <1>4. \A i \in 0..k : i \in 0..Len(ms) BY <1>1
    <1>5. e \in [0..k -> Seq(Nat)] BY <1>1, <1>4
    <1>6. e[0] = <<>> /\ e[k] = <<>> BY <1>1, <1>3
    <1>7. \A i \in 1..k : Leaves(q[i], e[i - 1], e[i])
        <2> TAKE i \in 1..k
        <2>1. i \in 1..Len(ms) /\ i \in 0..k /\ i - 1 \in 0..k BY <1>1
        <2> HIDE DEF q
        <2> QED BY <1>1, <1>2, <2>1
    <1> HIDE DEF e, q
    <1>8. Debts(q, e) /\ e[Len(q)] = <<>> BY <1>2, <1>5, <1>6, <1>7 DEF Debts
    <1> QED BY <1>8 DEF Unowing, q

\* A list that a chat model takes.
LEMMA ChatTakes ==
    ASSUME NEW q, Proper(q), \A i \in 1..Len(q) : Apart(q, i), q[Len(q)].role \in {"user", "tool"}
    PROVE  ChatLegal(q) /\ Opened(q) = q
    <1>1. /\ q \in Seq(Msg) /\ Len(q) \in Nat /\ Len(q) >= 2 /\ DOMAIN q = 1..Len(q)
          /\ q[1] = System /\ q[2].role = "user" /\ Unowing(q)
          /\ \A i \in 1..Len(q) : q[i] \in Msg /\ (i # 1 => q[i].role # "system")
        BY ProperIs
    <1>2. \A i \in 1..Len(q) : Answered(q, i) /\ (q[i].role = "tool" => Asked(q, i)) BY <1>1, UnowingIs
    <1>3. LastRole(q) \in {"user", "tool"}
        <2>1. q # <<>> BY <1>1
        <2> QED BY <2>1 DEF LastRole
    <1>4. ASSUME NEW i \in DOMAIN q, q[i].role = "assistant" PROVE \E j \in 1..(i - 1) : q[j].role # "system"
        <2>1. i # 1 /\ i # 2 BY <1>1, <1>4, SystemUnowing
        <2>2. 2 \in 1..(i - 1) BY <1>1, <2>1
        <2> QED BY <1>1, <2>2
    <1>5. ChatLegal(q) BY <1>1, <1>2, <1>3, <1>4 DEF ChatLegal
    <1>6. 2 \in 1..Len(q) /\ \A j \in 1..(2 - 1) : q[j].role = "system" BY <1>1, SystemUnowing
    <1>7. Opened(q) = q BY <1>1, <1>6, OpenedIs
    <1> QED BY <1>5, <1>7

\* What a chat model is sent of a proper list.
LEMMA ChatSound ==
    ASSUME NEW ms, Proper(ms)
    PROVE  /\ ChatLegal(ChatRequest(ms))
           /\ ms[Len(ms)].role \in {"user", "tool"} => ms[Len(ms)].says \subseteq Says(ChatRequest(ms))
    <1> DEFINE q == Sanitized(ms)
               F == Merged(q)
               n == Len(F)
               m == q[Len(q)]
    <1>1. Proper(q) /\ Len(q) = Len(ms) /\ (ms[Len(ms)].role \in {"user", "tool"} => m = ms[Len(ms)]) BY SanitizedIs
    <1> HIDE DEF q
    <1>2. PICK e : MergedSo(F, e, m, <<>>) BY <1>1, MergedSound
    <1>3. /\ q \in Seq(Msg) /\ Len(q) \in Nat /\ Len(q) >= 2 /\ q[1] = System
          /\ \A i \in 1..Len(q) : q[i] \in Msg /\ (i # 1 => q[i].role # "system")
        BY <1>1, ProperIs
    <1>4. m \in Msg /\ m.role # "system"
        <2>1. Len(q) \in 1..Len(q) /\ Len(q) # 1 BY <1>3
        <2> QED BY <1>3, <2>1
    <1>5. ChatRequest(ms) = Opened(Recovered(F)) BY DEF ChatRequest, q
    <1> HIDE DEF m, F
    <1>6. Debts(F, e) /\ n >= 1 /\ e[n] = <<>> BY <1>2 DEF MergedSo
    <1>7. F \in Seq(Msg) /\ n \in Nat /\ DOMAIN F = 1..n /\ \A i \in 1..n : F[i] \in Msg BY <1>6, DebtIs
    <1>8. /\ F[1] = System /\ F[n].role = m.role /\ (\A i \in 2..n : F[i].role # "system") /\ \A i \in 1..n : Apart(F, i)
          /\ m.role \in {"user", "tool"} => m.says \subseteq F[n].says
        BY <1>2 DEF MergedSo
    <1>9. n # 1 BY <1>4, <1>8, SystemUnowing
    <1>10. n >= 2 /\ 1 \in 1..n /\ 2 \in 1..n BY <1>6, <1>7, <1>9, TwoAtLeast, Zenon
    <1>11. F[2].role = "user" BY <1>2, <1>10 DEF MergedSo
    <1>12. Unowing(F) BY <1>6 DEF Unowing
    <1>13. Proper(F) BY <1>8, <1>10, <1>11, <1>12 DEF Proper
    <1>14. n \in 1..n /\ n - 1 \in 1..n /\ n - 1 < n /\ n - 1 + 1 = n BY <1>7, <1>10
    <1>15. F[n].role = "assistant" => F[n - 1].role # "assistant"
        <2>1. Apart(F, n - 1) BY <1>8, <1>14
        <2>2. F[n - 1].role # F[n].role \/ F[n - 1].role \in {"tool", "system"} BY <1>14, <2>1 DEF Apart
        <2> QED BY <2>2
    <1>16. /\ F[n].role # "assistant" => Trailing(F) = {} /\ WithoutTrailing(F) = F
           /\ F[n].role = "assistant" => Trailing(F) # {} /\ WithoutTrailing(F) = SubSeq(F, 1, n - 1)
        BY <1>7, <1>10, <1>15, TrailingIs
    <1>17. CASE F[n].role # "assistant"
        <2>1. Recovered(F) = F BY <1>16, <1>17 DEF Recovered
        <2>2. m.role \in {"user", "tool"}
            <3>1. m.role \in Roles BY <1>4 DEF Msg
            <3> QED BY <1>4, <1>8, <1>17, <3>1 DEF Roles
        <2>3. ChatLegal(F) /\ Opened(F) = F BY <1>8, <1>13, <2>2, ChatTakes
        <2>4. F[n].says \subseteq Says(F) BY <1>7, <1>14 DEF Says
        <2>5. ms[Len(ms)].role \in {"user", "tool"} => m = ms[Len(ms)] BY <1>1 DEF m
        <2> QED BY <1>5, <1>8, <2>1, <2>2, <2>3, <2>4, <2>5
    <1>18. CASE F[n].role = "assistant"
        <2> DEFINE cut == SubSeq(F, 1, n - 1)
        <2>1. n # 2 BY <1>11, <1>18
        <2>2. n - 1 \in Nat /\ n - 1 >= 2 /\ n - 1 \in 0..n BY <1>7, <1>10, <2>1
        <2>3. cut \in Seq(Msg) /\ Len(cut) = n - 1 /\ \A i \in 1..n - 1 : cut[i] = F[i] BY <1>7, <2>2, PartIs
        <2>4. e[n - 1] = <<>>
            <3>1. Leaves(F[n], e[n - 1], e[n]) BY <1>6, <1>14, DebtIs
            <3> QED BY <1>18, <3>1 DEF Leaves
        <2>5. Unowing(cut) BY <1>6, <2>2, <2>4, UnowingPart
        <2>6. WithoutTrailing(F) = cut BY <1>16, <1>18
        <2> HIDE DEF cut
        <2>7. 1 \in 1..n - 1 /\ 2 \in 1..n - 1 /\ n - 1 \in 1..n - 1 BY <2>2
        <2>8. cut[1] = System /\ cut[2].role = "user" /\ cut[n - 1] = F[n - 1] BY <1>8, <1>11, <2>3, <2>7
        <2>9. \A i \in 2..n - 1 : cut[i].role # "system"
            <3>1. \A i \in 2..n - 1 : i \in 1..n - 1 /\ i \in 2..n BY <1>7
            <3> QED BY <1>8, <2>3, <3>1
        <2>10. Proper(cut) BY <2>2, <2>3, <2>5, <2>8, <2>9 DEF Proper
        <2>11. \A i \in 1..Len(cut) : Apart(cut, i)
            <3> TAKE i \in 1..Len(cut)
            <3>1. i \in 1..n - 1 /\ i \in 1..n /\ (i < n - 1 => i < n /\ i + 1 \in 1..n - 1) BY <1>7, <2>3
            <3>2. Apart(F, i) BY <1>8, <3>1
            <3> QED BY <1>7, <2>3, <3>1, <3>2 DEF Apart
        <2>12. cut[Len(cut)].role \in {"user", "tool"}
            <3>1. F[n - 1].role \in Roles BY <1>7, <1>14 DEF Msg
            <3>2. F[n - 1].role # "system"
                <4>1. n - 1 \in 2..n BY <2>2
                <4> QED BY <1>8, <4>1
            <3> QED BY <1>15, <1>18, <2>3, <2>8, <3>1, <3>2 DEF Roles
        <2>13. Recovered(F) = cut
            <3>1. 2 \in DOMAIN cut BY <2>2, <2>3
            <3> QED BY <2>6, <2>8, <3>1 DEF Recovered
        <2>14. ChatLegal(cut) /\ Opened(cut) = cut BY <2>10, <2>11, <2>12, ChatTakes
        <2>15. ms[Len(ms)].role \notin {"user", "tool"}
            <3>1. ms[Len(ms)].role \in {"user", "tool"} => m = ms[Len(ms)] BY <1>1 DEF m
            <3> QED BY <1>8, <1>18, <3>1
        <2> QED BY <1>5, <2>13, <2>14, <2>15
    <1> QED BY <1>17, <1>18

----------------------------------------------------------------------------
(* What the Anthropic client makes of a proper list. *)

LEMMA IdsJoin == ASSUME NEW p \in Seq(Nat), NEW q \in Seq(Nat) PROVE IdsIn(p \o q) = IdsIn(p) \cup IdsIn(q)
    <1> DEFINE r == p \o q
    <1>1. /\ Len(r) = Len(p) + Len(q) /\ Len(p) \in Nat /\ Len(q) \in Nat /\ r \in Seq(Nat)
          /\ (\A i \in 1..Len(p) : r[i] = p[i]) /\ (\A i \in 1..Len(q) : r[Len(p) + i] = q[i])
        BY JoinIs
    <1>2. DOMAIN r = 1..Len(r) /\ DOMAIN p = 1..Len(p) /\ DOMAIN q = 1..Len(q) BY <1>1
    <1> HIDE DEF r
    <1>3. ASSUME NEW a \in IdsIn(r) PROVE a \in IdsIn(p) \cup IdsIn(q)
        <2>1. PICK i \in 1..Len(r) : a = r[i] BY <1>2 DEF IdsIn
        <2>2. i \in 1..Len(p) \/ (i - Len(p) \in 1..Len(q) /\ Len(p) + (i - Len(p)) = i) BY <1>1
        <2>3. r[i] \in IdsIn(p) \cup IdsIn(q) BY <1>1, <1>2, <2>2 DEF IdsIn
        <2> QED BY <2>1, <2>3
    <1>4. ASSUME NEW a \in IdsIn(p) PROVE a \in IdsIn(r)
        <2>1. PICK i \in 1..Len(p) : a = p[i] BY <1>2 DEF IdsIn
        <2>2. i \in 1..Len(r) /\ r[i] = a BY <1>1, <2>1
        <2> QED BY <1>2, <2>2 DEF IdsIn
    <1>5. ASSUME NEW a \in IdsIn(q) PROVE a \in IdsIn(r)
        <2>1. PICK i \in 1..Len(q) : a = q[i] BY <1>2 DEF IdsIn
        <2>2. Len(p) + i \in 1..Len(r) /\ r[Len(p) + i] = a BY <1>1, <2>1
        <2> QED BY <1>2, <2>2 DEF IdsIn
    <1> QED BY <1>3, <1>4, <1>5 DEF r

\* What a message turned into a user's or an assistant's answers and asks.
Turns(t, x, y) ==
    /\ t.role \in {"user", "assistant"}
    /\ t.role = "user" => /\ t.calls = <<>> /\ IdsIn(x) = IdsIn(t.results) \cup IdsIn(y)
                          /\ x = <<>> => t.results = <<>> /\ y = <<>>
    /\ t.role = "assistant" => t.results = <<>> /\ x = <<>> /\ y = t.calls

LEMMA TurnIs ==
    ASSUME NEW m \in Msg, m.role # "system", NEW x \in Seq(Nat), NEW y \in Seq(Nat), Leaves(m, x, y)
    PROVE  LET t == AnthropicTurn(m)
           IN t \in Msg /\ Turns(t, x, y) /\ t.says = m.says /\ (m.role \in {"user", "tool"} <=> t.role = "user")
    <1> DEFINE t == AnthropicTurn(m)
    <1>1. /\ t \in Msg /\ t.says = m.says /\ t.calls = m.calls /\ t.results = m.results
          /\ t.role = IF m.role = "tool" THEN "user" ELSE m.role
        BY DEF AnthropicTurn, Msg, Roles
    <1>2. m.role \in {"user", "assistant", "tool"} BY DEF Msg, Roles
    <1> HIDE DEF t
    <1>3. CASE m.role = "user"
        <2>1. t.calls = <<>> /\ t.results = <<>> /\ x = <<>> /\ y = <<>> BY <1>1, <1>3 DEF Leaves
        <2>2. IdsIn(x) = IdsIn(t.results) \cup IdsIn(y) BY <2>1
        <2> QED BY <1>1, <1>3, <2>1, <2>2 DEF Turns, t
    <1>4. CASE m.role = "assistant" BY <1>1, <1>4 DEF Leaves, Turns, t
    <1>5. CASE m.role = "tool"
        <2>1. t.calls = <<>> /\ x # <<>> /\ t.results = <<Head(x)>> /\ y = Tail(x) BY <1>1, <1>5 DEF Leaves
        <2> DEFINE a == Head(x)
        <2>2. a \in Nat /\ <<a>> \in Seq(Nat) /\ y \in Seq(Nat) /\ x = <<a>> \o y BY <2>1
        <2> DEFINE s == <<a>>
        <2> HIDE DEF s
        <2>3. IdsIn(s \o y) = IdsIn(s) \cup IdsIn(y) BY <2>2, IdsJoin DEF s
        <2>4. IdsIn(x) = IdsIn(t.results) \cup IdsIn(y) BY <2>1, <2>2, <2>3 DEF s
        <2> QED BY <1>1, <1>5, <2>1, <2>4 DEF Turns, t
    <1> QED BY <1>2, <1>3, <1>4, <1>5

\* Two neighbours of one role.
LEMMA BothIs ==
    ASSUME NEW a \in Msg, NEW b \in Msg
    PROVE  LET m == Both(a, b)
           IN /\ m \in Msg /\ m.role = a.role /\ m.calls = a.calls \o b.calls /\ m.results = a.results \o b.results
              /\ m.says = a.says \cup b.says
    <1> DEFINE w == WithText(a, b)
               c == a.calls \o b.calls
               r == a.results \o b.results
    <1>1. w \in Msg /\ w.role = a.role /\ w.calls = a.calls /\ w.results = a.results /\ w.says = a.says \cup b.says BY WithTextIs
    <1>2. a.calls \in Seq(Nat) /\ b.calls \in Seq(Nat) /\ a.results \in Seq(Nat) /\ b.results \in Seq(Nat) BY DEF Msg
    <1>3. c \in Seq(Nat) /\ r \in Seq(Nat) BY <1>2
    <1>4. Both(a, b) = [w EXCEPT !.calls = c, !.results = r] BY <1>1 DEF Both
    <1> HIDE DEF w, c, r
    <1> DEFINE m == [w EXCEPT !.calls = c, !.results = r]
    <1>5. m \in Msg /\ m.role = w.role /\ m.calls = c /\ m.results = r /\ m.says = w.says BY <1>1, <1>3 DEF Msg
    <1> HIDE DEF m
    <1>6. Both(a, b) = m BY <1>4 DEF m
    <1> QED BY <1>1, <1>5, <1>6 DEF c, r

LEMMA JoinTyped == ASSUME NEW out \in Seq(Msg), NEW m \in Msg PROVE JoinTurn(out, m) \in Seq(Msg)
    <1> DEFINE n == Len(out)
               w == Both(out[n], m)
    <1>1. CASE out # <<>> /\ LastRole(out) = m.role
        <2>1. n \in 1..n /\ n \in DOMAIN out /\ out[n] \in Msg BY <1>1
        <2>2. w \in Msg BY <2>1, BothIs
        <2>3. JoinTurn(out, m) = [out EXCEPT ![n] = w] BY <1>1 DEF JoinTurn
        <2> HIDE DEF w
        <2> QED BY <2>1, <2>2, <2>3
    <1>2. CASE ~(out # <<>> /\ LastRole(out) = m.role)
        <2>1. JoinTurn(out, m) = Append(out, m) BY <1>2 DEF JoinTurn
        <2> QED BY <2>1
    <1> QED BY <1>1, <1>2

LEMMA JoinedIs ==
    ASSUME NEW ms \in Seq(Msg)
    PROVE  \E f : /\ f[0] = <<>> /\ Joined(ms) = f[Len(ms)]
                  /\ \A i \in 1..Len(ms) : f[i] = JoinTurn(f[i - 1], ms[i])
    <1> DEFINE n == Len(ms)
               X == Seq(Msg)
               move == [i \in 1..n |-> [x \in X |-> JoinTurn(x, ms[i])]]
               Round(f, i) == IF i = 0 THEN <<>> ELSE JoinTurn(f[i - 1], ms[i])
    <1>1. n \in Nat /\ <<>> \in X BY ListIs
    <1>2. move \in [1..n -> [X -> X]]
        <2>1. \A i \in 1..n : ms[i] \in Msg BY ListIs
        <2>2. \A i \in 1..n : \A x \in X : JoinTurn(x, ms[i]) \in X BY <2>1, JoinTyped
        <2> HIDE DEF X
        <2> QED BY <2>2
    <1>3. \A i \in 1..n : \A x \in X : move[i][x] = JoinTurn(x, ms[i]) OBVIOUS
    <1> HIDE DEF move, n, X
    <1>4. PICK g : LoopOf(g, X, <<>>, n, move) BY <1>1, <1>2, LoopDefined
    <1>5. g \in [0..n -> X] /\ g[0] = <<>> /\ \A i \in 1..n : g[i] = move[i][g[i - 1]] BY <1>4 DEF LoopOf
    <1>6. \A i \in 1..n : g[i - 1] \in X BY <1>1, <1>5
    <1>7. \A i \in 1..n : g[i] = JoinTurn(g[i - 1], ms[i]) BY <1>3, <1>5, <1>6
    <1>8. g = [i \in 0..n |-> Round(g, i)]
        <2>1. \A i \in 0..n : i = 0 \/ i \in 1..n BY <1>1
        <2>2. \A i \in 0..n : g[i] = Round(g, i) BY <1>1, <1>5, <1>7, <2>1
        <2> HIDE DEF Round
        <2> QED BY <1>5, <2>2
    <1> DEFINE f == CHOOSE h : h = [i \in 0..n |-> Round(h, i)]
    <1>9. f = [i \in 0..n |-> Round(f, i)]
        <2> HIDE DEF Round
        <2> QED BY <1>8
    <1>10. Joined(ms) = f[n] BY DEF Joined, n
    <1> HIDE DEF f
    <1>11. \A i \in 0..n : f[i] = Round(f, i)
        <2> HIDE DEF Round
        <2> QED BY <1>9
    <1>12. f[0] = <<>>
        <2>1. 0 \in 0..n BY <1>1
        <2> QED BY <1>11, <2>1
    <1>13. \A i \in 1..n : f[i] = JoinTurn(f[i - 1], ms[i])
        <2>1. \A i \in 1..n : i \in 0..n /\ i # 0 BY <1>1
        <2> QED BY <1>11, <2>1
    <1> QED BY <1>10, <1>12, <1>13 DEF n

\* What has been joined after some messages of a list, t the last as a turn and y what is not
\* answered: turns alternate, and each answers what the one before it asks.
Matched(out, i) == IdsIn(out[i].calls) = IdsIn(out[i + 1].results)
JoinedSo(out, t, y) ==
    /\ out \in Seq(Msg) /\ Len(out) >= 1 /\ out[1].role = "user" /\ out[1].results = <<>>
    /\ \A i \in 1..Len(out) : out[i].role \in {"user", "assistant"} /\ (out[i].role = "user" => out[i].calls = <<>>)
    /\ \A i \in 1..Len(out) - 1 :
           out[i].role # out[i + 1].role /\ (out[i + 1].role = "assistant" \/ i + 1 # Len(out) => Matched(out, i))
    /\ out[Len(out)].role = t.role /\ (t.role = "user" => t.says \subseteq out[Len(out)].says)
    /\ t.role = "assistant" => IdsIn(out[Len(out)].calls) = IdsIn(y)
    /\ t.role = "user" /\ Len(out) = 1 => y = <<>>
    /\ t.role = "user" /\ Len(out) # 1 => IdsIn(out[Len(out) - 1].calls) = IdsIn(out[Len(out)].results) \cup IdsIn(y)

LEMMA NoIds == IdsIn(<<>>) = {}
    BY DEF IdsIn

\* Another turn ...
LEMMA JoinAppends ==
    ASSUME NEW out, NEW p \in Msg, NEW t \in Msg, NEW x \in Seq(Nat), NEW y \in Seq(Nat),
           JoinedSo(out, p, x), Turns(t, x, y), p.role # t.role
    PROVE  JoinedSo(Append(out, t), t, y)
    <1> DEFINE n == Len(out)
               q == Append(out, t)
    <1>1. out \in Seq(Msg) /\ n >= 1 /\ out[1].role = "user" /\ out[1].results = <<>> /\ out[n].role = p.role BY DEF JoinedSo
    <1>2. n \in Nat /\ q \in Seq(Msg) /\ Len(q) = n + 1 /\ q[n + 1] = t /\ \A i \in 1..n : q[i] = out[i] BY <1>1
    <1>3. 1 \in 1..n /\ n \in 1..n /\ n + 1 \in 1..n + 1 /\ n + 1 # 1 /\ n + 1 >= 1 /\ (n + 1) - 1 = n BY <1>1, <1>2
    <1>4. \A i \in 1..n : out[i].role \in {"user", "assistant"} /\ (out[i].role = "user" => out[i].calls = <<>>) BY DEF JoinedSo
    <1>5. t.role \in {"user", "assistant"} /\ (t.role = "user" => t.calls = <<>>) BY DEF Turns
    <1> HIDE DEF q
    <1>6. \A i \in 1..n + 1 : q[i].role \in {"user", "assistant"} /\ (q[i].role = "user" => q[i].calls = <<>>)
        <2>1. \A i \in 1..n + 1 : i = n + 1 \/ i \in 1..n BY <1>2
        <2> QED BY <1>2, <1>4, <1>5, <2>1
    \* The turn before it is answered, if it is an assistant's; and by an assistant's turn it must have been.
    <1>7. p.role = "assistant" => IdsIn(out[n].calls) = IdsIn(t.results) \cup IdsIn(y)
        <2>1. p.role = "assistant" => IdsIn(out[n].calls) = IdsIn(x) BY DEF JoinedSo
        <2>2. p.role = "assistant" => t.role = "user" BY <1>5
        <2> QED BY <2>1, <2>2 DEF Turns
    <1>8. t.role = "assistant" => p.role = "user" /\ x = <<>> /\ y = t.calls /\ t.results = <<>> BY <1>1, <1>3, <1>4 DEF Turns
    <1>9. t.role = "user" => p.role = "assistant" BY <1>1, <1>3, <1>4
    <1>10. ASSUME NEW i \in 1..n
           PROVE  q[i].role # q[i + 1].role /\ (q[i + 1].role = "assistant" \/ i + 1 # n + 1 => Matched(q, i))
        <2>1. CASE i = n
            <3>1. q[i] = out[n] /\ q[i + 1] = t BY <1>2, <2>1
            <3>2. t.role = "assistant" => Matched(q, i)
                <4>1. t.role = "assistant" => out[n].calls = <<>> /\ t.results = <<>> BY <1>1, <1>3, <1>4, <1>8
                <4> QED BY <3>1, <4>1 DEF Matched
            <3>3. i + 1 = n + 1 BY <2>1
            <3> QED BY <1>1, <3>1, <3>2, <3>3
        <2>2. CASE i # n
            <3>1. i \in 1..n - 1 /\ i + 1 \in 1..n /\ i \in 1..n BY <1>2, <2>2
            <3>2. q[i] = out[i] /\ q[i + 1] = out[i + 1] BY <1>2, <3>1
            <3>3. out[i].role # out[i + 1].role /\ (out[i + 1].role = "assistant" \/ i + 1 # n => Matched(out, i))
                BY <3>1 DEF JoinedSo
            <3>4. i + 1 = n /\ out[n].role # "assistant" => Matched(out, i)
                <4> SUFFICES ASSUME i + 1 = n, out[n].role # "assistant" PROVE Matched(out, i) OBVIOUS
                <4>1. p.role = "user" /\ t.role = "assistant" BY <1>1, <1>3, <1>4, <1>5
                <4>2. x = <<>> BY <1>8, <4>1
                <4>3. n # 1 /\ n - 1 = i BY <1>2, <3>1
                <4>4. IdsIn(out[i].calls) = IdsIn(out[n].results) \cup IdsIn(x) BY <4>1, <4>3 DEF JoinedSo
                <4>5. IdsIn(out[i].calls) = IdsIn(out[n].results) BY <4>2, <4>4, NoIds
                <4> QED BY <4>5 DEF Matched
            <3>5. Matched(out, i) BY <3>3, <3>4
            <3> QED BY <3>2, <3>3, <3>5 DEF Matched
        <2> QED BY <2>1, <2>2
    <1>11. t.role = "user" => IdsIn(q[n].calls) = IdsIn(t.results) \cup IdsIn(y) BY <1>2, <1>3, <1>7, <1>9
    <1>12. t.role = "assistant" => IdsIn(t.calls) = IdsIn(y) BY <1>8
    <1>13. q[1].role = "user" /\ q[1].results = <<>> BY <1>1, <1>2, <1>3
    <1> DEFINE k == n + 1
    <1>14. /\ Len(q) = k /\ q[k] = t /\ k >= 1 /\ k # 1 /\ k - 1 = n BY <1>2, <1>3
    <1>15. /\ \A i \in 1..k : q[i].role \in {"user", "assistant"} /\ (q[i].role = "user" => q[i].calls = <<>>)
           /\ \A i \in 1..n : q[i].role # q[i + 1].role /\ (q[i + 1].role = "assistant" \/ i + 1 # k => Matched(q, i))
        BY <1>6, <1>10
    <1> HIDE DEF n, k
    <1>16. JoinedSo(q, t, y) BY <1>2, <1>11, <1>12, <1>13, <1>14, <1>15 DEF JoinedSo
    <1> QED BY <1>16 DEF q

\* ... or more of the last one.
LEMMA JoinReplaces ==
    ASSUME NEW out, NEW p \in Msg, NEW t \in Msg, NEW x \in Seq(Nat), NEW y \in Seq(Nat),
           JoinedSo(out, p, x), Turns(t, x, y), p.role = t.role
    PROVE  JoinedSo([out EXCEPT ![Len(out)] = Both(out[Len(out)], t)], t, y)
    <1> DEFINE n == Len(out)
               o == out[n]
               w == Both(o, t)
               q == [out EXCEPT ![n] = w]
    <1>1. out \in Seq(Msg) /\ n >= 1 /\ out[1].role = "user" /\ out[1].results = <<>> /\ o.role = p.role BY DEF JoinedSo
    <1>2. n \in Nat /\ n \in 1..n /\ 1 \in 1..n BY <1>1
    <1>3. o \in Msg BY <1>1, <1>2
    <1>4. /\ w \in Msg /\ w.role = o.role /\ w.calls = o.calls \o t.calls /\ w.results = o.results \o t.results
          /\ w.says = o.says \cup t.says
        BY <1>3, BothIs
    <1>5. o.calls \in Seq(Nat) /\ o.results \in Seq(Nat) /\ t.calls \in Seq(Nat) /\ t.results \in Seq(Nat) BY <1>3 DEF Msg
    <1>6. IdsIn(w.calls) = IdsIn(o.calls) \cup IdsIn(t.calls) /\ IdsIn(w.results) = IdsIn(o.results) \cup IdsIn(t.results)
        BY <1>4, <1>5, IdsJoin
    <1>7. /\ t.calls = <<>> => w.calls = o.calls
          /\ t.results = <<>> => w.results = o.results
        <2>1. \A s \in Seq(Nat) : s \o <<>> = s OBVIOUS
        <2> HIDE DEF w, o
        <2> QED BY <1>4, <1>5, <2>1
    <1> HIDE DEF w
    <1>8. q \in Seq(Msg) /\ Len(q) = n /\ q[n] = w /\ \A i \in 1..n : i # n => q[i] = out[i] BY <1>1, <1>2, <1>4
    <1> HIDE DEF q, o
    <1>9. \A i \in 1..n : q[i].role = out[i].role BY <1>4, <1>8 DEF o
    <1>10. q[1].role = "user" /\ q[1].results = <<>>
        <2>1. CASE n = 1
            <3>1. t.role = "user" /\ o.results = <<>> BY <1>1, <2>1 DEF o
            <3>2. x = <<>> BY <2>1, <3>1 DEF JoinedSo
            <3>3. t.results = <<>> BY <3>1, <3>2 DEF Turns
            <3>4. w.results = <<>> BY <1>7, <3>1, <3>3
            <3> QED BY <1>1, <1>2, <1>8, <1>9, <2>1, <3>4
        <2>2. CASE n # 1 BY <1>1, <1>2, <1>8, <2>2
        <2> QED BY <2>1, <2>2
    <1>11. t.role \in {"user", "assistant"} /\ (t.role = "user" => t.calls = <<>>)
           /\ (t.role = "assistant" => t.results = <<>> /\ x = <<>> /\ y = t.calls)
        BY DEF Turns
    <1>12. \A i \in 1..n : q[i].role \in {"user", "assistant"} /\ (q[i].role = "user" => q[i].calls = <<>>)
        <2>1. \A i \in 1..n : out[i].role \in {"user", "assistant"} /\ (out[i].role = "user" => out[i].calls = <<>>) BY DEF JoinedSo
        <2>2. o.role = "user" => w.calls = <<>> BY <1>1, <1>2, <1>7, <1>11, <2>1 DEF o
        <2> QED BY <1>4, <1>8, <1>9, <2>1, <2>2
    <1>13. ASSUME NEW i \in 1..n - 1
           PROVE  q[i].role # q[i + 1].role /\ (q[i + 1].role = "assistant" \/ i + 1 # n => Matched(q, i))
        <2>1. i \in 1..n /\ i + 1 \in 1..n /\ i # n BY <1>2
        <2>2. out[i].role # out[i + 1].role /\ (out[i + 1].role = "assistant" \/ i + 1 # n => Matched(out, i)) BY DEF JoinedSo
        <2>3. q[i] = out[i] /\ q[i + 1].role = out[i + 1].role BY <1>8, <1>9, <2>1
        <2>4. q[i + 1].role = "assistant" \/ i + 1 # n => q[i + 1].results = out[i + 1].results
            <3>1. CASE i + 1 = n
                <4>1. out[i + 1] = o /\ q[i + 1] = w BY <1>8, <3>1 DEF o
                <4> QED BY <1>1, <1>7, <1>11, <2>3, <3>1, <4>1
            <3>2. CASE i + 1 # n BY <1>8, <2>1, <3>2
            <3> QED BY <3>1, <3>2
        <2> QED BY <2>2, <2>3, <2>4 DEF Matched
    <1>14. t.role = "user" => t.says \subseteq w.says BY <1>4
    <1>15. t.role = "assistant" => IdsIn(w.calls) = IdsIn(y)
        <2>1. t.role = "assistant" => IdsIn(o.calls) = IdsIn(x) BY DEF JoinedSo, o
        <2> QED BY <1>6, <1>11, <2>1, NoIds
    <1>16. t.role = "user" /\ n = 1 => y = <<>>
        <2>1. t.role = "user" /\ n = 1 => x = <<>> BY DEF JoinedSo
        <2> QED BY <2>1 DEF Turns
    <1>17. t.role = "user" /\ n # 1 => IdsIn(q[n - 1].calls) = IdsIn(w.results) \cup IdsIn(y)
        <2> SUFFICES ASSUME t.role = "user", n # 1 PROVE IdsIn(q[n - 1].calls) = IdsIn(w.results) \cup IdsIn(y) OBVIOUS
        <2> HIDE DEF n
        <2>1. n - 1 \in 1..n /\ n - 1 # n BY <1>1, <1>2
        <2> USE DEF n
        <2>2. q[n - 1] = out[n - 1] BY <1>8, <2>1
        <2>3. IdsIn(out[n - 1].calls) = IdsIn(o.results) \cup IdsIn(x) BY DEF JoinedSo, o
        <2>4. IdsIn(x) = IdsIn(t.results) \cup IdsIn(y) BY DEF Turns
        <2> QED BY <1>6, <2>2, <2>3, <2>4
    <1> HIDE DEF n
    <1>18. q[n].role = t.role BY <1>1, <1>4, <1>8
    <1>19. JoinedSo(q, t, y) BY <1>1, <1>8, <1>10, <1>12, <1>13, <1>14, <1>15, <1>16, <1>17, <1>18 DEF JoinedSo
    <1> QED BY <1>19 DEF q, w, o, n

\* So it is with the first turn, and with every other.
LEMMA JoinFirst ==
    ASSUME NEW t \in Msg, t.role = "user", NEW y \in Seq(Nat), Turns(t, <<>>, y)
    PROVE  JoinedSo(JoinTurn(<<>>, t), t, y)
    <1> DEFINE q == <<t>>
    <1>1. JoinTurn(<<>>, t) = q BY DEF JoinTurn
    <1>2. q \in Seq(Msg) /\ Len(q) = 1 /\ q[1] = t OBVIOUS
    <1>3. t.calls = <<>> /\ t.results = <<>> /\ y = <<>> BY DEF Turns
    <1> HIDE DEF q
    <1>4. \A i \in 1..Len(q) : i = 1 BY <1>2
    <1>5. \A i \in 1..Len(q) - 1 : FALSE BY <1>2
    <1>6. JoinedSo(q, t, y) BY <1>2, <1>3, <1>4, <1>5 DEF JoinedSo
    <1> QED BY <1>1, <1>6

LEMMA JoinStep ==
    ASSUME NEW out, NEW p \in Msg, NEW t \in Msg, NEW x \in Seq(Nat), NEW y \in Seq(Nat),
           JoinedSo(out, p, x), Turns(t, x, y)
    PROVE  JoinedSo(JoinTurn(out, t), t, y)
    <1>1. out \in Seq(Msg) /\ Len(out) >= 1 /\ out[Len(out)].role = p.role BY DEF JoinedSo
    <1>2. out # <<>> /\ LastRole(out) = p.role BY <1>1 DEF LastRole
    <1>3. CASE p.role = t.role
        <2>1. JoinTurn(out, t) = [out EXCEPT ![Len(out)] = Both(out[Len(out)], t)] BY <1>2, <1>3 DEF JoinTurn
        <2>2. JoinedSo([out EXCEPT ![Len(out)] = Both(out[Len(out)], t)], t, y) BY <1>3, JoinReplaces, Zenon
        <2> QED BY <2>1, <2>2, Zenon
    <1>4. CASE p.role # t.role
        <2>1. JoinTurn(out, t) = Append(out, t) BY <1>2, <1>4 DEF JoinTurn
        <2> QED BY <1>4, <2>1, JoinAppends
    <1> QED BY <1>3, <1>4

\* What neighbours come to, in a list of whole exchanges that a user's message begins.
LEMMA JoinedSound ==
    ASSUME NEW ms, Unowing(ms), Len(ms) >= 1, ms[1].role = "user", \A i \in 1..Len(ms) : ms[i].role # "system"
    PROVE  JoinedSo(Joined([i \in DOMAIN ms |-> AnthropicTurn(ms[i])]), AnthropicTurn(ms[Len(ms)]), <<>>)
    <1> DEFINE n == Len(ms)
               ts == [i \in DOMAIN ms |-> AnthropicTurn(ms[i])]
    <1>1. PICK d : Debts(ms, d) /\ d[n] = <<>> BY DEF Unowing
    <1>2. ms \in Seq(Msg) /\ n \in Nat /\ n >= 1 /\ DOMAIN ms = 1..n /\ d[0] = <<>> /\ \A i \in 1..n : ms[i] \in Msg BY <1>1, DebtIs
    <1>3. \A i \in 1..n : Leaves(ms[i], d[i - 1], d[i]) /\ d[i - 1] \in Seq(Nat) /\ d[i] \in Seq(Nat)
        <2>1. \A i \in 1..n : i \in 0..n /\ i - 1 \in 0..n BY <1>2
        <2> QED BY <1>1, <2>1, DebtIs
    <1>4. \A i \in 1..n : ts[i] = AnthropicTurn(ms[i]) BY <1>2
    <1>5. \A i \in 1..n : AnthropicTurn(ms[i]) \in Msg /\ Turns(AnthropicTurn(ms[i]), d[i - 1], d[i]) BY <1>2, <1>3, TurnIs
    <1>6. ts \in Seq(Msg) /\ Len(ts) = n
        <2>1. ts = [i \in 1..n |-> AnthropicTurn(ms[i])] BY <1>2
        <2> HIDE DEF ts, n
        <2>2. ts \in [1..n -> Msg] BY <1>5, <2>1
        <2> QED BY <1>2, <2>2
    <1>7. \A i \in 1..n : ts[i] \in Msg /\ Turns(ts[i], d[i - 1], d[i]) BY <1>4, <1>5
    <1>8. ts[1].role = "user"
        <2>1. 1 \in 1..n BY <1>2
        <2>2. AnthropicTurn(ms[1]) = ms[1] BY DEF AnthropicTurn
        <2> QED BY <1>4, <2>1, <2>2
    <1> HIDE DEF ts, n
    <1>9. PICK f : f[0] = <<>> /\ Joined(ts) = f[n] /\ \A i \in 1..n : f[i] = JoinTurn(f[i - 1], ts[i]) BY <1>6, JoinedIs
    <1> DEFINE S == {i \in 0..n : i = 0 \/ JoinedSo(f[i], ts[i], d[i])}
    <1>10. 0 \in S BY <1>2
    <1>11. ASSUME NEW i \in 1..n, i - 1 \in S PROVE i \in S
        <2>1. i \in 0..n /\ i \in Nat /\ ts[i] \in Msg /\ d[i] \in Seq(Nat) BY <1>2, <1>3, <1>7
        <2>2. CASE i = 1
            <3>1. f[1] = JoinTurn(<<>>, ts[1]) /\ Turns(ts[1], <<>>, d[1])
                <4>1. 1 - 1 = 0 OBVIOUS
                <4> QED BY <1>2, <1>7, <1>9, <2>2, <4>1
            <3>2. JoinedSo(JoinTurn(<<>>, ts[1]), ts[1], d[1]) BY <1>8, <2>1, <2>2, <3>1, JoinFirst
            <3> QED BY <2>1, <2>2, <3>1, <3>2
        <2>3. CASE i # 1
            <3>1. i - 1 # 0 /\ i - 1 \in 1..n BY <1>2, <2>1, <2>3
            <3>2. JoinedSo(f[i - 1], ts[i - 1], d[i - 1]) BY <1>11, <3>1
            <3>3. ts[i - 1] \in Msg /\ d[i - 1] \in Seq(Nat) /\ Turns(ts[i], d[i - 1], d[i]) BY <1>3, <1>7, <3>1
            <3>4. JoinedSo(JoinTurn(f[i - 1], ts[i]), ts[i], d[i]) BY <2>1, <3>2, <3>3, JoinStep
            <3> QED BY <1>9, <2>1, <3>4
        <2> QED BY <2>2, <2>3
    <1> HIDE DEF S
    <1>12. n \in S
        <2>1. \A i \in 0..n : i \in S BY <1>2, <1>10, <1>11, Climb
        <2> QED BY <1>2, <2>1
    <1>13. JoinedSo(f[n], ts[n], <<>>)
        <2>1. n # 0 BY <1>2
        <2> QED BY <1>1, <1>12, <2>1 DEF S
    <1>14. n \in 1..n BY <1>2
    <1> QED BY <1>4, <1>9, <1>13, <1>14 DEF n, ts

\* What an Anthropic model is sent of a proper list.
LEMMA AnthropicSound ==
    ASSUME NEW ms, Proper(ms)
    PROVE  /\ AnthropicLegal(AnthropicRequest(ms))
           /\ ms[Len(ms)].role \in {"user", "tool"} => ms[Len(ms)].says \subseteq Says(AnthropicRequest(ms))
    <1> DEFINE rest == WithoutSystem(ms)
               F == Joined([i \in DOMAIN rest |-> AnthropicTurn(rest[i])])
               n == Len(F)
               m == ms[Len(ms)]
               t == AnthropicTurn(m)
    <1>1. ms \in Seq(Msg) /\ Len(ms) \in Nat /\ Len(ms) >= 2 /\ \A i \in 1..Len(ms) : ms[i] \in Msg /\ (i # 1 => ms[i].role # "system")
        BY ProperIs
    <1>2. /\ rest \in Seq(Msg) /\ Len(rest) = Len(ms) - 1 /\ Unowing(rest) /\ rest[1].role = "user"
          /\ \A i \in 1..Len(rest) : rest[i] = ms[1 + i] /\ rest[i].role # "system"
        BY RestIs
    <1>3. AnthropicRequest(ms) = Opened(Reroute(F)) BY DEF AnthropicRequest
    <1> HIDE DEF rest
    <1>4. Len(rest) >= 1 /\ Len(rest) \in 1..Len(rest) /\ 1 + Len(rest) = Len(ms) BY <1>1, <1>2
    <1>5. rest[Len(rest)] = m BY <1>2, <1>4
    <1>6. JoinedSo(F, t, <<>>) BY <1>2, <1>4, <1>5, JoinedSound
    <1>7. t \in Msg /\ t.says = m.says /\ (m.role \in {"user", "tool"} <=> t.role = "user")
        <2>1. m \in Msg /\ m.role # "system"
            <3>1. Len(ms) \in 1..Len(ms) /\ Len(ms) # 1 BY <1>1
            <3> QED BY <1>1, <3>1
        <2>2. PICK d : Debts(rest, d) BY <1>2 DEF Unowing
        <2>3. Leaves(m, d[Len(rest) - 1], d[Len(rest)]) BY <1>4, <1>5, <2>2, DebtIs
        <2>4. d[Len(rest) - 1] \in Seq(Nat) /\ d[Len(rest)] \in Seq(Nat)
            <3>1. Len(rest) - 1 \in 0..Len(rest) /\ Len(rest) \in 0..Len(rest) BY <1>1, <1>2, <1>4
            <3> QED BY <2>2, <3>1, DebtIs
        <2> HIDE DEF m
        <2> QED BY <2>1, <2>3, <2>4, TurnIs
    <1> HIDE DEF F, t, m
    <1>8. /\ F \in Seq(Msg) /\ n >= 1 /\ F[1].role = "user" /\ F[1].results = <<>> /\ F[n].role = t.role
          /\ \A i \in 1..n : F[i].role \in {"user", "assistant"}
          /\ \A i \in 1..n - 1 : F[i].role # F[i + 1].role /\ (F[i + 1].role = "assistant" \/ i + 1 # n => Matched(F, i))
          /\ t.role = "user" => t.says \subseteq F[n].says
        BY <1>6 DEF JoinedSo
    <1>9. n \in Nat /\ n \in 1..n /\ 1 \in 1..n /\ DOMAIN F = 1..n BY <1>8
    <1>10. F[n].role = "assistant" => n >= 2 /\ n - 1 \in 1..n /\ F[n - 1].role = "user"
        <2> SUFFICES ASSUME F[n].role = "assistant" PROVE n >= 2 /\ n - 1 \in 1..n /\ F[n - 1].role = "user" OBVIOUS
        <2>1. n # 1 BY <1>8
        <2> HIDE DEF n
        <2>2. n >= 2 /\ n - 1 \in 1..n - 1 /\ n - 1 \in 1..n /\ n - 1 + 1 = n BY <1>8, <1>9, <2>1
        <2> QED BY <1>8, <2>2 DEF n
    <1>11. /\ F[n].role # "assistant" => WithoutTrailing(F) = F
           /\ F[n].role = "assistant" => WithoutTrailing(F) = SubSeq(F, 1, n - 1)
        <2>1. F[n].role = "assistant" => n >= 2 /\ F[n - 1].role # "assistant" BY <1>10
        <2> QED BY <1>8, <2>1, TrailingIs
    <1>12. \A i \in 1..0 : F[i].role = "system" OBVIOUS
    <1>13. CASE F[n].role # "assistant"
        <2>1. F[n].role = "user" /\ t.role = "user" BY <1>8, <1>9, <1>13
        <2>2. F # <<>> BY <1>8
        <2>3. Reroute(F) = F BY <1>11, <1>13, <2>2 DEF Reroute
        <2>4. Opened(F) = F
            <3>1. \A j \in 1..(1 - 1) : F[j].role = "system" OBVIOUS
            <3> QED BY <1>8, <1>9, <3>1, OpenedIs
        <2>5. \A i \in 1..n - 1 : Matched(F, i)
            <3> TAKE i \in 1..n - 1
            <3>1. CASE i + 1 # n BY <1>8, <3>1
            <3>2. CASE i + 1 = n
                <4>1. n # 1 /\ n - 1 = i
                    <5> HIDE DEF n
                    <5>1. i \in Nat /\ i >= 1 BY <1>9
                    <5> QED BY <1>9, <3>2, <5>1
                <4>2. IdsIn(F[i].calls) = IdsIn(F[n].results) \cup IdsIn(<<>>) BY <1>6, <2>1, <4>1 DEF JoinedSo
                <4> QED BY <3>2, <4>2, NoIds DEF Matched
            <3> QED BY <3>1, <3>2
        <2>6. LastRole(F) = "user" BY <2>1, <2>2 DEF LastRole
        <2>7. AnthropicLegal(F) BY <1>8, <2>2, <2>5, <2>6 DEF AnthropicLegal, Matched
        <2>8. F[n].says \subseteq Says(F) BY <1>9 DEF Says
        <2>9. m.role \in {"user", "tool"} => m.says \subseteq Says(F) BY <1>7, <1>8, <2>8
        <2> QED BY <1>3, <2>3, <2>4, <2>7, <2>9 DEF m
    <1>14. CASE F[n].role = "assistant"
        <2> DEFINE cut == SubSeq(F, 1, n - 1)
                   k == n - 1
        <2>1. k \in 0..n /\ k \in Nat /\ k >= 1 /\ 1 \in 1..k /\ k \in 1..k
            <3> HIDE DEF n
            <3> QED BY <1>9, <1>10, <1>14
        <2>2. cut \in Seq(Msg) /\ Len(cut) = k /\ \A i \in 1..k : cut[i] = F[i] BY <1>8, <2>1, PartIs
        <2>3. WithoutTrailing(F) = cut BY <1>11, <1>14
        <2>4. F[k].role = "user" BY <1>10, <1>14
        <2>10. \A i \in 1..k - 1 : i \in 1..k /\ i + 1 \in 1..k /\ i \in 1..n - 1 /\ i + 1 # n
            <3> HIDE DEF n
            <3> QED BY <1>9
        <2>11. \A i \in 1..k - 1 : F[i].role # F[i + 1].role /\ Matched(F, i) BY <1>8, <2>10
        <2> HIDE DEF cut, k
        <2>5. cut # <<>> /\ cut[1] = F[1] /\ cut[k] = F[k] BY <2>1, <2>2
        <2>6. Reroute(F) = cut BY <2>3, <2>5 DEF Reroute
        <2>7. Opened(cut) = cut
            <3>1. \A j \in 1..(1 - 1) : cut[j].role = "system" OBVIOUS
            <3>2. cut[1].role = "user" /\ 1 \in 1..Len(cut) BY <1>8, <2>1, <2>2, <2>5
            <3> QED BY <2>2, <3>1, <3>2, OpenedIs
        <2>8. LastRole(cut) = "user" BY <2>2, <2>4, <2>5 DEF LastRole
        <2>9. \A i \in 1..Len(cut) - 1 : cut[i].role # cut[i + 1].role /\ IdsIn(cut[i].calls) = IdsIn(cut[i + 1].results)
            BY <2>2, <2>10, <2>11 DEF Matched
        <2>12. AnthropicLegal(cut) BY <1>8, <2>5, <2>8, <2>9 DEF AnthropicLegal
        <2>13. m.role \notin {"user", "tool"} BY <1>7, <1>8, <1>14
        <2> QED BY <1>3, <2>6, <2>7, <2>12, <2>13 DEF m
    <1> QED BY <1>13, <1>14

\* What a Responses model is sent of a proper list.
LEMMA ResponsesSound ==
    ASSUME NEW ms, Proper(ms)
    PROVE  /\ \A i \in DOMAIN ResponsesRequest(ms) : Answered(ResponsesRequest(ms), i)
           /\ ms[Len(ms)].says \subseteq Says(ResponsesRequest(ms))
    <1> DEFINE q == ResponsesRequest(ms)
               n == Len(q)
    <1>1. q = WithoutSystem(ms) BY DEF ResponsesRequest
    <1>2. Unowing(q) /\ n = Len(ms) - 1 /\ \A i \in 1..n : q[i] = ms[1 + i] BY <1>1, RestIs
    <1>3. Len(ms) \in Nat /\ Len(ms) >= 2 BY ProperIs
    <1>4. DOMAIN q = 1..n /\ \A i \in 1..n : Answered(q, i) BY <1>2, UnowingIs
    <1> HIDE DEF q, n
    <1>5. n \in 1..n /\ 1 + n = Len(ms) BY <1>2, <1>3
    <1>6. q[n] = ms[Len(ms)] BY <1>2, <1>5
    <1>7. ms[Len(ms)].says \subseteq Says(q) BY <1>4, <1>5, <1>6 DEF Says
    <1> QED BY <1>4, <1>7 DEF q

----------------------------------------------------------------------------
(* The steps of a turn keep its exchanges whole. *)

LEMMA NoneUnowing == Unowing(<<>>) /\ RowsSo(<<>>)
    <1> DEFINE d == [i \in 0..0 |-> <<>>]
               q == <<>>
    <1>1. d \in [0..0 -> Seq(Nat)] /\ d[0] = <<>> OBVIOUS
    <1>2. q \in Seq(Msg) /\ Len(q) = 0 /\ \A i \in 1..0 : FALSE OBVIOUS
    <1> HIDE DEF d, q
    <1>3. Debts(q, d) /\ d[Len(q)] = <<>> BY <1>1, <1>2 DEF Debts
    <1>4. Unowing(q) BY <1>3 DEF Unowing
    <1>5. RowsSo(q) BY <1>2, <1>4 DEF RowsSo, q
    <1> QED BY <1>4, <1>5 DEF q

LEMMA RowsAre ==
    ASSUME NEW q, RowsSo(q)
    PROVE  /\ q \in Seq(Msg) /\ Len(q) \in Nat /\ DOMAIN q = 1..Len(q) /\ Unowing(q) /\ (q # <<>> => q[1].role = "user")
           /\ \A i \in 1..Len(q) : q[i] \in Msg /\ q[i].role # "system"
    <1>1. Unowing(q) /\ (q # <<>> => q[1].role = "user") /\ \A i \in 1..Len(q) : q[i].role # "system" BY DEF RowsSo
    <1> QED BY <1>1, UnowingIs

\* Text of a user or of an assistant.
LEMMA TextIs ==
    ASSUME NEW r \in {"user", "assistant"}, NEW k \in Nat, NEW z \in Nat
    PROVE  /\ Text(r, k, z) \in Msg /\ Text(r, k, z).role = r /\ Text(r, k, z).calls = <<>> /\ Text(r, k, z).results = <<>>
           /\ Unowing(<<Text(r, k, z)>>)
    <1> DEFINE m == Text(r, k, z)
    <1>1. m \in Msg /\ m.role = r /\ m.calls = <<>> /\ m.results = <<>> BY DEF Text, Message, Msg, Roles
    <1> HIDE DEF m
    <1>2. Unowing(<<m>>) BY <1>1, OneUnowing
    <1> QED BY <1>1, <1>2 DEF m

\* Rows that more are added to.
LEMMA RowsJoin ==
    ASSUME NEW p, NEW q, RowsSo(p), Unowing(q), \A i \in 1..Len(q) : q[i].role # "system",
           p = <<>> /\ q # <<>> => q[1].role = "user"
    PROVE  RowsSo(p \o q)
    <1> DEFINE r == p \o q
    <1>1. p \in Seq(Msg) /\ (p # <<>> => p[1].role = "user") /\ \A i \in 1..Len(p) : p[i].role # "system" BY RowsAre
    <1>2. q \in Seq(Msg) BY UnowingIs
    <1>3. /\ r \in Seq(Msg) /\ Len(r) = Len(p) + Len(q) /\ Len(p) \in Nat /\ Len(q) \in Nat
          /\ (\A i \in 1..Len(p) : r[i] = p[i]) /\ \A i \in 1..Len(q) : r[Len(p) + i] = q[i]
        BY <1>1, <1>2, JoinIs
    <1>4. Unowing(p) BY DEF RowsSo
    <1>5. Unowing(r) BY <1>4, UnowingJoin
    <1>6. p = <<>> => r = q BY <1>2
    <1>7. p # <<>> => 1 \in 1..Len(p) BY <1>1
    <1> HIDE DEF r
    <1>8. \A i \in 1..Len(r) : r[i].role # "system"
        <2> TAKE i \in 1..Len(r)
        <2>1. i \in 1..Len(p) \/ (i - Len(p) \in 1..Len(q) /\ Len(p) + (i - Len(p)) = i) BY <1>3
        <2> QED BY <1>1, <1>3, <2>1
    <1>9. r # <<>> => r[1].role = "user" BY <1>1, <1>3, <1>6, <1>7
    <1>10. RowsSo(r) BY <1>5, <1>8, <1>9 DEF RowsSo
    <1> QED BY <1>10 DEF r

\* The history of rows that a user's message begins is all of them.
LEMMA HistoryIs ==
    ASSUME NEW q, RowsSo(q)
    PROVE  History(q) = q
    <1>1. /\ q \in Seq(Msg) /\ Len(q) \in Nat /\ DOMAIN q = 1..Len(q) /\ Unowing(q) /\ (q # <<>> => q[1].role = "user") BY RowsAre
    <1>2. AtLegalStart(q) = q BY <1>1, LegalFromStart
    <1>3. CASE Users(q) = {} BY <1>2, <1>3 DEF History
    <1>4. CASE Users(q) # {}
        <2>1. Users(q) \in SUBSET (1..Len(q)) BY <1>1 DEF Users
        <2>2. q # <<>> BY <1>1, <1>4 DEF Users
        <2>3. 1 \in Users(q) BY <1>1, <2>2 DEF Users
        <2>4. First(Users(q)) \in Users(q) /\ First(Users(q)) <= 1 BY <1>1, <1>4, <2>1, <2>3, FirstIs
        <2>5. First(Users(q)) = 1 BY <2>1, <2>4
        <2>6. From(q, 1) = q BY <1>1, WholeIs
        <2> QED BY <1>2, <1>4, <2>5, <2>6 DEF History
    <1> QED BY <1>3, <1>4

\* The list a turn begins with: the rows behind the system prompt, and the new message.
LEMMA BuiltIs ==
    ASSUME NEW q, RowsSo(q), NEW m \in Msg, m.role \in {"user", "assistant"}, m.calls = <<>>, m.results = <<>>,
           q = <<>> => m.role = "user"
    PROVE  Proper(BuildMessages(q, m))
    <1> DEFINE s == <<System>>
               ms == s \o q
               n == Len(ms)
               t == <<m>>
    <1>1. /\ q \in Seq(Msg) /\ Len(q) \in Nat /\ Unowing(q) /\ (q # <<>> => q[1].role = "user")
          /\ \A i \in 1..Len(q) : q[i].role # "system"
        BY RowsAre
    <1>2. s \in Seq(Msg) /\ Len(s) = 1 /\ s[1] = System /\ Unowing(s) BY SystemUnowing
    <1>3. t \in Seq(Msg) /\ Len(t) = 1 /\ t[1] = m /\ Unowing(t)
        <2>1. m.role # "tool" OBVIOUS
        <2>2. Unowing(<<m>>) BY <2>1, OneUnowing
        <2> QED BY <2>2
    <1>4. BuildMessages(q, m) = IF LastRole(ms) = m.role THEN [ms EXCEPT ![n] = WithText(ms[n], m)] ELSE Append(ms, m)
        BY DEF BuildMessages
    <1> HIDE DEF s, t
    <1>5. ms \in Seq(Msg) /\ n = 1 + Len(q) /\ ms[1] = System /\ \A i \in 1..Len(q) : ms[1 + i] = q[i]
        <2>1. 1 \in 1..Len(s) BY <1>2
        <2>4. s \in Seq(Msg) /\ q \in Seq(Msg) BY <1>1, <1>2
        <2>2. /\ ms \in Seq(Msg) /\ Len(ms) = Len(s) + Len(q)
              /\ (\A i \in 1..Len(s) : ms[i] = s[i]) /\ \A i \in 1..Len(q) : ms[Len(s) + i] = q[i]
            BY <2>4, JoinIs
        <2> HIDE DEF ms
        <2> QED BY <1>2, <2>1, <2>2
    <1>6. Unowing(ms) BY <1>1, <1>2, UnowingJoin
    <1> HIDE DEF ms, n
    <1>7. n \in Nat /\ n >= 1 /\ n \in 1..n /\ ms[n] \in Msg /\ n = Len(ms)
        <2>1. n \in Nat /\ n >= 1 /\ n \in 1..n BY <1>1, <1>5
        <2>2. n = Len(ms) BY DEF n
        <2> QED BY <1>5, <2>1, <2>2
    <1>8. \A i \in 2..n : ms[i].role # "system"
        <2> TAKE i \in 2..n
        <2>1. i - 1 \in 1..Len(q) /\ 1 + (i - 1) = i BY <1>1, <1>5
        <2> QED BY <1>1, <1>5, <2>1
    <1>9. n # 1 => ms[2].role = "user"
        <2> SUFFICES ASSUME n # 1 PROVE ms[2].role = "user" OBVIOUS
        <2>1. Len(q) # 0 /\ 1 \in 1..Len(q) /\ 1 + 1 = 2 BY <1>1, <1>5
        <2>2. q # <<>> BY <2>1
        <2>3. ms[1 + 1] = q[1] BY <1>5, <2>1
        <2> QED BY <1>1, <2>1, <2>2, <2>3
    <1>10. CASE LastRole(ms) = m.role
        <2> DEFINE w == WithText(ms[n], m)
                   r == [ms EXCEPT ![n] = w]
        <2>1. w \in Msg /\ w.role = ms[n].role /\ w.calls = ms[n].calls /\ w.results = ms[n].results BY <1>7, WithTextIs
        <2>2. BuildMessages(q, m) = r BY <1>4, <1>10
        <2>3. ms[n].role = m.role
            <3>1. ms # <<>> BY <1>7
            <3> QED BY <1>7, <1>10, <3>1 DEF LastRole
        <2>4. n # 1 BY <1>5, <2>3, SystemUnowing
        <2> HIDE DEF w
        <2>5. r \in Seq(Msg) /\ Len(r) = n /\ r[n] = w /\ \A i \in 1..n : i # n => r[i] = ms[i] BY <1>5, <1>7, <2>1
        <2> HIDE DEF r
        <2>6. \A i \in 1..n : r[i].role = ms[i].role /\ r[i].calls = ms[i].calls /\ r[i].results = ms[i].results BY <2>1, <2>5
        <2>7. Unowing(r) BY <1>6, <1>7, <2>5, <2>6, ShapeKept DEF SameShape
        <2>8. n >= 2 /\ 1 \in 1..n /\ 2 \in 1..n BY <1>7, <2>4
        <2>9. \A i \in 2..n : i \in 1..n BY <1>7
        <2>10. Proper(r) BY <1>5, <1>8, <1>9, <2>4, <2>5, <2>6, <2>7, <2>8, <2>9 DEF Proper
        <2> QED BY <2>2, <2>10
    <1>11. CASE LastRole(ms) # m.role
        <2> DEFINE r == ms \o t
        <2>1. BuildMessages(q, m) = r
            <3>1. Append(ms, m) = ms \o <<m>> BY <1>5
            <3> QED BY <1>4, <1>11, <3>1 DEF t
        <2>2. Unowing(r) BY <1>3, <1>6, UnowingJoin
        <2>3. Len(r) = n + 1 /\ (\A i \in 1..n : r[i] = ms[i]) /\ r[n + 1] = m
            <3>1. 1 \in 1..Len(t) BY <1>3
            <3>4. ms \in Seq(Msg) /\ t \in Seq(Msg) BY <1>3, <1>5
            <3>2. /\ Len(r) = Len(ms) + Len(t)
                  /\ (\A i \in 1..Len(ms) : r[i] = ms[i]) /\ \A i \in 1..Len(t) : r[Len(ms) + i] = t[i]
                BY <3>4, JoinIs
            <3> HIDE DEF r
            <3> QED BY <1>3, <1>7, <3>1, <3>2
        <2> HIDE DEF r
        <2>4. r[2].role = "user"
            <3>1. CASE n = 1
                <4>1. q = <<>> BY <1>1, <1>5, <3>1
                <4> QED BY <2>3, <3>1, <4>1
            <3>2. CASE n # 1
                <4>1. 2 \in 1..n BY <1>7, <3>2
                <4> QED BY <1>9, <2>3, <3>2, <4>1
            <3> QED BY <3>1, <3>2
        <2>5. \A i \in 2..n + 1 : r[i].role # "system"
            <3>1. \A i \in 2..n + 1 : i = n + 1 \/ (i \in 1..n /\ i \in 2..n) BY <1>7
            <3> QED BY <1>8, <2>3, <3>1
        <2>6. n + 1 >= 2 /\ 1 \in 1..n BY <1>7
        <2>7. Proper(r) BY <1>5, <2>2, <2>3, <2>4, <2>5, <2>6 DEF Proper
        <2> QED BY <2>1, <2>7
    <1> QED BY <1>10, <1>11

\* Lists of messages, one after the other.
LEMMA JoinMsg ==
    ASSUME NEW p \in Seq(Msg), NEW q \in Seq(Msg)
    PROVE  /\ p \o q \in Seq(Msg) /\ Len(p \o q) = Len(p) + Len(q)
           /\ \A i \in 1..Len(p) : (p \o q)[i] = p[i]
           /\ \A i \in 1..Len(q) : (p \o q)[Len(p) + i] = q[i]
    <1> DEFINE M == Msg
    <1>1. p \in Seq(M) /\ q \in Seq(M) OBVIOUS
    <1> HIDE DEF M
    <1>2. /\ p \o q \in Seq(M) /\ Len(p \o q) = Len(p) + Len(q)
          /\ \A i \in 1..Len(p) : (p \o q)[i] = p[i]
          /\ \A i \in 1..Len(q) : (p \o q)[Len(p) + i] = q[i]
        BY <1>1, JoinIs
    <1> QED BY <1>2 DEF M

LEMMA TailFrom ==
    ASSUME NEW M, NEW q \in Seq(M), NEW k \in 1..Len(q)
    PROVE  From(q, k) # <<>> /\ Head(From(q, k)) = q[k] /\ Tail(From(q, k)) = From(q, k + 1)
    <1> DEFINE a == From(q, k)
               b == From(q, k + 1)
               n == Len(q)
    <1>1. n \in Nat /\ k \in Nat /\ k >= 1 /\ k <= n /\ k \in 1..n + 1 /\ k + 1 \in 1..n + 1 OBVIOUS
    <1>2. a \in Seq(M) /\ Len(a) = n - k + 1 /\ \A i \in 1..n - k + 1 : a[i] = q[k - 1 + i] BY <1>1, FromIs
    <1>3. b \in Seq(M) /\ Len(b) = n - (k + 1) + 1 /\ \A i \in 1..n - (k + 1) + 1 : b[i] = q[(k + 1) - 1 + i] BY <1>1, FromIs
    <1> HIDE DEF a, b, n
    <1>4. Len(a) # 0 /\ 1 \in 1..n - k + 1 /\ k - 1 + 1 = k BY <1>1, <1>2
    <1>5. a # <<>> /\ a[1] = q[k] BY <1>2, <1>4
    <1>6. Head(a) = q[k] /\ Tail(a) \in Seq(M) /\ Len(Tail(a)) = Len(a) - 1 /\ \A i \in 1..Len(a) - 1 : Tail(a)[i] = a[i + 1]
        BY <1>2, <1>5
    <1>7. Len(b) = Len(a) - 1 BY <1>1, <1>2, <1>3
    <1>8. \A i \in 1..Len(a) - 1 : Tail(a)[i] = b[i]
        <2> TAKE i \in 1..Len(a) - 1
        <2>1. i \in 1..n - (k + 1) + 1 /\ i + 1 \in 1..n - k + 1 /\ k - 1 + (i + 1) = (k + 1) - 1 + i BY <1>1, <1>2
        <2> QED BY <1>2, <1>3, <1>6, <2>1
    <1>9. Tail(a) = b BY <1>3, <1>6, <1>7, <1>8, SameList
    <1> QED BY <1>5, <1>6, <1>9 DEF a, b

\* A call of tools, and their results: a whole exchange.
LEMMA ToolsUnowing ==
    ASSUME NEW a \in Msg, a.role = "assistant", a.results = <<>>, NEW ts \in Seq(Msg), Len(ts) = Len(a.calls),
           \A i \in 1..Len(ts) : ts[i].role = "tool" /\ ts[i].calls = <<>> /\ ts[i].results = <<a.calls[i]>>
    PROVE  Unowing(<<a>> \o ts) /\ \A i \in 1..Len(<<a>> \o ts) : (<<a>> \o ts)[i].role # "system"
    <1> DEFINE ids == a.calls
               k == Len(ids)
               s == <<a>>
               g == s \o ts
               d == [i \in 0..k + 1 |-> IF i = 0 THEN <<>> ELSE From(ids, i)]
    <1>1. ids \in Seq(Nat) /\ k \in Nat BY DEF Msg
    <1>2. s \in Seq(Msg) /\ Len(s) = 1 /\ s[1] = a OBVIOUS
    <1> HIDE DEF s, ids, k
    <1>3. g \in Seq(Msg) /\ Len(g) = k + 1 /\ g[1] = a /\ \A i \in 1..k : g[1 + i] = ts[i]
        <2>1. s \in Seq(Msg) /\ ts \in Seq(Msg) BY <1>2
        <2>2. /\ g \in Seq(Msg) /\ Len(g) = Len(s) + Len(ts)
              /\ (\A i \in 1..Len(s) : g[i] = s[i]) /\ \A i \in 1..Len(ts) : g[Len(s) + i] = ts[i]
            BY <2>1, JoinMsg
        <2>3. 1 \in 1..Len(s) /\ Len(ts) = k BY <1>2 DEF k, ids
        <2> HIDE DEF g
        <2> QED BY <1>1, <1>2, <2>2, <2>3
    <1>4. \A i \in 1..k + 1 : From(ids, i) \in Seq(Nat) BY <1>1, FromIs DEF k
    <1>5. d \in [0..k + 1 -> Seq(Nat)] /\ d[0] = <<>> /\ \A i \in 1..k + 1 : d[i] = From(ids, i)
        <2>1. \A i \in 0..k + 1 : i = 0 \/ i \in 1..k + 1 BY <1>1
        <2>2. \A i \in 1..k + 1 : i \in 0..k + 1 /\ i # 0 BY <1>1
        <2>3. 0 \in 0..k + 1 BY <1>1
        <2> QED BY <1>4, <2>1, <2>2, <2>3
    <1> HIDE DEF d, g
    <1>6. d[k + 1] = <<>>
        <2>1. k + 1 \in 1..k + 1 BY <1>1
        <2>2. Len(From(ids, k + 1)) = 0 /\ From(ids, k + 1) \in Seq(Nat)
            <3>1. Len(From(ids, k + 1)) = k - (k + 1) + 1 /\ From(ids, k + 1) \in Seq(Nat) BY <1>1, <2>1, FromIs DEF k
            <3> QED BY <1>1, <3>1
        <2> QED BY <1>5, <2>1, <2>2
    <1>7. ASSUME NEW i \in 1..k + 1 PROVE Leaves(g[i], d[i - 1], d[i])
        <2>1. CASE i = 1
            <3>1. 1 \in 1..k + 1 /\ 1 - 1 = 0 BY <1>1
            <3>2. d[1] = ids BY <1>1, <1>5, <3>1, WholeIs
            <3> QED BY <1>3, <1>5, <2>1, <3>1, <3>2 DEF Leaves, ids
        <2>2. CASE i # 1
            <3> DEFINE j == i - 1
            <3>1. j \in 1..k /\ 1 + j = i /\ j \in 1..k + 1 /\ j + 1 = i BY <1>1, <2>2
            <3>2. g[i] = ts[j] BY <1>3, <3>1
            <3>3. d[i - 1] = From(ids, j) /\ d[i] = From(ids, j + 1) BY <1>5, <3>1
            <3> HIDE DEF j
            <3>4. From(ids, j) # <<>> /\ Head(From(ids, j)) = ids[j] /\ Tail(From(ids, j)) = From(ids, j + 1)
                BY <1>1, <3>1, TailFrom DEF k
            <3>5. ts[j].role = "tool" /\ ts[j].calls = <<>> /\ ts[j].results = <<ids[j]>> BY <3>1 DEF k, ids
            <3> QED BY <3>2, <3>3, <3>4, <3>5 DEF Leaves
        <2> QED BY <2>1, <2>2
    <1>8. Debts(g, d) /\ d[Len(g)] = <<>> BY <1>3, <1>5, <1>6, <1>7 DEF Debts
    <1>9. Unowing(g) BY <1>8 DEF Unowing
    <1>10. \A i \in 1..Len(g) : g[i].role # "system"
        <2> TAKE i \in 1..Len(g)
        <2>1. CASE i = 1 BY <1>3, <2>1
        <2>2. CASE i # 1
            <3>1. i - 1 \in 1..k /\ 1 + (i - 1) = i /\ Len(ts) = k BY <1>1, <1>3, <2>2 DEF k, ids
            <3>2. g[i] = ts[i - 1] BY <1>3, <3>1
            <3>3. ts[i - 1].role = "tool" BY <3>1
            <3> QED BY <3>2, <3>3
        <2> QED BY <2>1, <2>2
    <1> QED BY <1>9, <1>10 DEF g, s

\* A turn that whole exchanges are added to.
LEMMA TurnGrows ==
    ASSUME NEW ms, NEW skip, TurnSo(ms, skip), NEW g, Unowing(g), \A i \in 1..Len(g) : g[i].role # "system"
    PROVE  TurnSo(ms \o g, skip)
    <1> DEFINE r == ms \o g
               n == Len(ms)
               k == skip + 1
    <1>1. Proper(ms) /\ skip \in 2..n /\ Unowing(From(ms, k)) BY DEF TurnSo
    <1>2. /\ ms \in Seq(Msg) /\ n \in Nat /\ n >= 2 /\ ms[1] = System /\ ms[2].role = "user" /\ Unowing(ms)
          /\ \A i \in 1..n : i # 1 => ms[i].role # "system"
        BY <1>1, ProperIs
    <1>3. g \in Seq(Msg) BY UnowingIs
    <1>4. /\ r \in Seq(Msg) /\ Len(r) = n + Len(g) /\ Len(g) \in Nat
          /\ (\A i \in 1..n : r[i] = ms[i]) /\ \A i \in 1..Len(g) : r[n + i] = g[i]
        BY <1>2, <1>3, JoinIs
    <1>5. Unowing(r) BY <1>2, UnowingJoin
    <1>6. k \in Nat /\ k >= 1 /\ k <= n + 1 /\ k \in 1..n + 1 /\ k \in 1..n + Len(g) + 1 BY <1>1, <1>2, <1>4
    <1> DEFINE h == From(ms, k)
               u == h \o g
               v == From(r, k)
    <1>7. h \in Seq(Msg) /\ Len(h) = n - k + 1 /\ \A i \in 1..n - k + 1 : h[i] = ms[k - 1 + i] BY <1>2, <1>6, FromIs
    <1> HIDE DEF r, h, n, k
    <1>8. v \in Seq(Msg) /\ Len(v) = Len(r) - k + 1 /\ \A i \in 1..Len(r) - k + 1 : v[i] = r[k - 1 + i]
        <2>1. k \in 1..Len(r) + 1 BY <1>4, <1>6
        <2> QED BY <1>4, <2>1, FromIs
    <1>9. /\ u \in Seq(Msg) /\ Len(u) = Len(h) + Len(g)
          /\ (\A i \in 1..Len(h) : u[i] = h[i]) /\ \A i \in 1..Len(g) : u[Len(h) + i] = g[i]
        <2>1. h \in Seq(Msg) /\ g \in Seq(Msg) BY <1>3, <1>7
        <2> QED BY <2>1, JoinMsg
    <1>10. Unowing(u) BY <1>1, UnowingJoin DEF h
    <1> HIDE DEF u, v
    <1>11. Len(u) = Len(v) BY <1>2, <1>4, <1>6, <1>7, <1>8, <1>9
    <1>12. \A i \in 1..Len(u) : u[i] = v[i]
        <2> TAKE i \in 1..Len(u)
        <2>1. i \in 1..Len(r) - k + 1 /\ i \in 1..n + Len(g) - k + 1 BY <1>2, <1>4, <1>6, <1>8, <1>11
        <2>2. CASE i <= n - k + 1
            <3>1. i \in 1..n - k + 1 /\ k - 1 + i \in 1..n BY <1>2, <1>6, <2>2
            <3> QED BY <1>4, <1>7, <1>8, <1>9, <2>1, <3>1
        <2>3. CASE ~(i <= n - k + 1)
            <3> DEFINE j == i - (n - k + 1)
            <3>1. j \in 1..Len(g) /\ (n - k + 1) + j = i /\ n + j = k - 1 + i BY <1>2, <1>4, <1>6, <2>1, <2>3
            <3> HIDE DEF j
            <3>2. u[i] = g[j] BY <1>7, <1>9, <3>1
            <3>3. v[i] = g[j] BY <1>4, <1>8, <2>1, <3>1
            <3> QED BY <3>2, <3>3
        <2> QED BY <2>2, <2>3
    <1>13. u = v BY <1>8, <1>9, <1>11, <1>12, SameList
    <1>14. Len(r) >= 2 /\ 1 \in 1..n /\ 2 \in 1..n BY <1>2, <1>4
    <1>15. \A i \in 2..Len(r) : r[i].role # "system"
        <2> TAKE i \in 2..Len(r)
        <2>1. i # 1 /\ (i \in 1..n \/ (i - n \in 1..Len(g) /\ n + (i - n) = i)) BY <1>2, <1>4
        <2>2. i \in 1..n => r[i].role # "system" BY <1>2, <1>4, <2>1
        <2>3. i - n \in 1..Len(g) => r[n + (i - n)].role # "system" BY <1>4
        <2> HIDE DEF n
        <2> QED BY <2>1, <2>2, <2>3
    <1>16. Proper(r) BY <1>2, <1>4, <1>5, <1>14, <1>15 DEF Proper
    <1>17. skip \in 2..Len(r) BY <1>1, <1>2, <1>4
    <1>18. Unowing(From(r, skip + 1)) BY <1>10, <1>13 DEF v, k
    <1> QED BY <1>16, <1>17, <1>18 DEF TurnSo, r

\* What a turn saves has no system prompt in it.
LEMMA TailSaved ==
    ASSUME NEW ms, NEW skip, TurnSo(ms, skip)
    PROVE  /\ SubSeq(ms, skip + 1, Len(ms)) = From(ms, skip + 1) /\ Unowing(From(ms, skip + 1))
           /\ \A i \in 1..Len(From(ms, skip + 1)) : From(ms, skip + 1)[i].role # "system"
    <1> DEFINE n == Len(ms)
               k == skip + 1
               h == From(ms, k)
    <1>1. Proper(ms) /\ skip \in 2..n /\ Unowing(h) BY DEF TurnSo
    <1>2. ms \in Seq(Msg) /\ n \in Nat /\ n >= 2 /\ \A i \in 1..n : i # 1 => ms[i].role # "system" BY <1>1, ProperIs
    <1>3. k \in 1..n + 1 /\ k >= 1 /\ k \in Nat BY <1>1, <1>2
    <1>4. h \in Seq(Msg) /\ Len(h) = n - k + 1 /\ \A i \in 1..n - k + 1 : h[i] = ms[k - 1 + i] BY <1>2, <1>3, FromIs
    <1>5. k >= 3 BY <1>1, <1>2
    <1> HIDE DEF n, k, h
    <1>6. \A i \in 1..Len(h) : h[i].role # "system"
        <2> TAKE i \in 1..Len(h)
        <2>1. i \in 1..n - k + 1 /\ k - 1 + i \in 1..n /\ k - 1 + i # 1 BY <1>2, <1>3, <1>4, <1>5
        <2> QED BY <1>2, <1>4, <2>1
    <1>7. SubSeq(ms, k, n) = h BY DEF From, h, n
    <1> QED BY <1>1, <1>6, <1>7 DEF h, k, n

\* Nothing is left to save of a list that has just been built.
LEMMA BeginIsSo == ASSUME NEW ms, Proper(ms) PROVE TurnSo(ms, Len(ms))
    <1> DEFINE n == Len(ms)
               h == From(ms, n + 1)
    <1>1. ms \in Seq(Msg) /\ n \in Nat /\ n >= 2 BY ProperIs
    <1>2. n + 1 \in 1..n + 1 /\ n \in 2..n BY <1>1
    <1>3. h \in Seq(Msg) /\ Len(h) = n - (n + 1) + 1 BY <1>1, <1>2, FromIs
    <1> HIDE DEF n, h
    <1>4. Len(h) = 0 BY <1>1, <1>3
    <1>5. h = <<>> BY <1>3, <1>4
    <1>6. Unowing(h) BY <1>5, NoneUnowing
    <1> QED BY <1>2, <1>6 DEF TurnSo, n, h

\* In the beginning there is no message.
LEMMA ShapeBegins == ShapeInit => ShapeInv
    BY NoneUnowing DEF ShapeInit, ShapeInv

\* A user's message begins a turn.
LEMMA BeginsTurn ==
    ASSUME ShapeAssumption, ShapeInv, NEW z \in Sizes, BeginTurn(z)
    PROVE  ShapeInv'
    <1> DEFINE m == Text("user", count + 1, z)
               ms == BuildMessages(History(rows), m)
               h == <<m>>
    <1>1. count \in Nat /\ z \in Nat /\ RowsSo(rows) BY DEF ShapeInv, ShapeAssumption
    <1>2. messages' = ms /\ rows' = Append(rows, m) /\ saved' = Len(messages') /\ count' = count + 1 BY DEF BeginTurn, Made
    <1>3. count + 1 \in Nat BY <1>1
    <1>4. m \in Msg /\ m.role = "user" /\ m.calls = <<>> /\ m.results = <<>> /\ Unowing(h) BY <1>1, <1>3, TextIs
    <1>5. rows \in Seq(Msg) /\ History(rows) = rows BY <1>1, RowsAre, HistoryIs
    <1> HIDE DEF m
    <1>6. Proper(BuildMessages(rows, m)) BY <1>1, <1>4, BuiltIs
    <1>7. Proper(ms) BY <1>5, <1>6
    <1>8. h \in Seq(Msg) /\ Len(h) = 1 /\ h[1] = m BY <1>4
    <1>9. rows' = rows \o h BY <1>2, <1>5
    <1> HIDE DEF h, ms
    <1>10. \A i \in 1..Len(h) : h[i].role # "system" BY <1>4, <1>8
    <1>11. RowsSo(rows \o h) BY <1>1, <1>4, <1>8, <1>10, RowsJoin
    <1>12. rows \o h # <<>> BY <1>5, <1>8
    <1>13. TurnSo(ms, Len(ms)) BY <1>7, BeginIsSo
    <1> QED BY <1>2, <1>3, <1>9, <1>11, <1>12, <1>13 DEF ShapeInv

\* A subagent's result begins one.
LEMMA BeginsFollowUp ==
    ASSUME ShapeAssumption, ShapeInv, NEW z \in Sizes, BeginFollowUp(z)
    PROVE  ShapeInv'
    <1> DEFINE m == Text("assistant", count + 1, z)
               e == Message("assistant", <<>>, <<>>, {}, 1)
               h == <<m>>
               all == rows \o h
               ms == BuildMessages(all, e)
    <1>1. count \in Nat /\ z \in Nat /\ RowsSo(rows) BY DEF ShapeInv, ShapeAssumption
    <1>2. /\ messages' = BuildMessages(History(rows'), e) /\ rows' = Append(rows, m) /\ saved' = Len(messages')
          /\ count' = count + 1 /\ rows # <<>>
        BY DEF BeginFollowUp, Made
    <1>3. count + 1 \in Nat BY <1>1
    <1>4. m \in Msg /\ m.role = "assistant" /\ m.calls = <<>> /\ m.results = <<>> /\ Unowing(h) BY <1>1, <1>3, TextIs
    <1>5. e \in Msg /\ e.role = "assistant" /\ e.calls = <<>> /\ e.results = <<>> BY DEF Message, Msg, Roles
    <1>6. rows \in Seq(Msg) BY <1>1, RowsAre
    <1>7. h \in Seq(Msg) /\ Len(h) = 1 /\ h[1] = m BY <1>4
    <1>8. rows' = all BY <1>2, <1>6
    <1> HIDE DEF m, e, h
    <1>9. \A i \in 1..Len(h) : h[i].role # "system" BY <1>4, <1>7
    <1>10. RowsSo(all) BY <1>1, <1>2, <1>4, <1>9, RowsJoin
    <1>11. all # <<>> BY <1>6, <1>7
    <1> HIDE DEF all
    <1>12. Proper(ms) BY <1>5, <1>10, <1>11, BuiltIs
    <1>13. History(all) = all BY <1>10, HistoryIs
    <1> HIDE DEF ms
    <1>14. messages' = ms BY <1>2, <1>8, <1>13 DEF ms
    <1>15. TurnSo(ms, Len(ms)) BY <1>12, BeginIsSo
    <1> QED BY <1>2, <1>3, <1>8, <1>10, <1>11, <1>14, <1>15 DEF ShapeInv

\* What a step adds to the list of a running turn.
LEMMA Grows ==
    ASSUME ShapeInv, messages # <<>>, NEW g, Unowing(g), \A i \in 1..Len(g) : g[i].role # "system",
           messages' = messages \o g, UNCHANGED <<rows, saved>>, count' \in Nat
    PROVE  ShapeInv'
    <1>1. RowsSo(rows) /\ rows # <<>> /\ TurnSo(messages, saved) BY DEF ShapeInv
    <1> DEFINE ms == messages \o g
    <1>2. TurnSo(ms, saved) BY <1>1, TurnGrows
    <1> HIDE DEF ms
    <1>3. messages' = ms BY DEF ms
    <1> QED BY <1>1, <1>2, <1>3 DEF ShapeInv

LEMMA UsesTools ==
    ASSUME ShapeInv, ShapeAssumption, NEW k \in 1..2, NEW z \in Sizes, UseTools(k, z)
    PROVE  ShapeInv'
    <1> DEFINE ids == [i \in 1..k |-> count + 1 + i]
               a == Message("assistant", ids, <<>>, {count + 1}, 1)
               s == <<a>>
               ts == [i \in 1..k |-> Message("tool", <<>>, <<ids[i]>>, {ids[i]}, z)]
               g == s \o ts
    <1>1. messages # <<>> /\ count' = count + (k + 1) /\ messages' = messages \o s \o ts /\ UNCHANGED <<rows, saved>>
        BY DEF UseTools, Made
    <1>2. count \in Nat /\ z \in Nat /\ k \in Nat BY DEF ShapeInv, ShapeAssumption
    <1>3. \A i \in 1..k : ids[i] \in Nat /\ ids[i] = count + 1 + i BY <1>2
    <1>4. ids \in Seq(Nat) /\ Len(ids) = k
        <2>1. ids \in [1..k -> Nat] BY <1>3
        <2> HIDE DEF ids
        <2> QED BY <1>2, <2>1
    <1> HIDE DEF ids
    <1>5. a \in Msg /\ a.role = "assistant" /\ a.results = <<>> /\ a.calls = ids BY <1>2, <1>4 DEF Message, Msg, Roles
    <1> DEFINE Result(i) == Message("tool", <<>>, <<ids[i]>>, {ids[i]}, z)
    <1>6. \A i \in 1..k : /\ Result(i) \in Msg /\ Result(i).role = "tool" /\ Result(i).calls = <<>>
                          /\ Result(i).results = <<ids[i]>>
        BY <1>2, <1>3 DEF Message, Msg, Roles
    <1> HIDE DEF Result, a
    <1>7. ts = [i \in 1..k |-> Result(i)] BY DEF Result
    <1> HIDE DEF ts
    <1>8. ts \in Seq(Msg) /\ Len(ts) = k /\ \A i \in 1..k : ts[i] = Result(i)
        <2>1. ts \in [1..k -> Msg] BY <1>6, <1>7
        <2> QED BY <1>2, <1>7, <2>1
    <1>9. \A i \in 1..Len(ts) : ts[i].role = "tool" /\ ts[i].calls = <<>> /\ ts[i].results = <<a.calls[i]>>
        BY <1>5, <1>6, <1>8
    <1>10. Unowing(g) /\ \A i \in 1..Len(g) : g[i].role # "system"
        <2>1. Len(ts) = Len(a.calls) BY <1>4, <1>5, <1>8
        <2> QED BY <1>5, <1>8, <1>9, <2>1, ToolsUnowing
    <1>11. messages \in Seq(Msg) /\ s \in Seq(Msg)
        <2>1. Proper(messages) BY <1>1 DEF ShapeInv, TurnSo
        <2> QED BY <1>5, <2>1, ProperIs
    <1> HIDE DEF s
    <1>12. messages \o s \o ts = messages \o g BY <1>8, <1>11
    <1> HIDE DEF g
    <1>13. messages' = messages \o g /\ count' \in Nat BY <1>1, <1>2, <1>12
    <1> QED BY <1>1, <1>10, <1>13, Grows

\* Text that comes during the turn.
LEMMA Injects ==
    ASSUME ShapeInv, ShapeAssumption, NEW z \in Sizes, Inject(z)
    PROVE  ShapeInv'
    <1> DEFINE m == Text("user", count + 1, z)
               g == <<m>>
    <1>1. messages # <<>> /\ LastRole(messages) = "tool" /\ messages' = Injected(messages, m) /\ UNCHANGED <<rows, saved>>
          /\ count' = count + 1
        BY DEF Inject, Made
    <1>2. count \in Nat /\ z \in Nat BY DEF ShapeInv, ShapeAssumption
    <1>3. count + 1 \in Nat BY <1>2
    <1>4. m \in Msg /\ m.role = "user" /\ Unowing(g) BY <1>2, <1>3, TextIs
    <1> HIDE DEF m
    <1>5. messages \in Seq(Msg)
        <2>1. Proper(messages) BY <1>1 DEF ShapeInv, TurnSo
        <2> QED BY <2>1, ProperIs
    <1>6. Injected(messages, m) = Append(messages, m) BY <1>1 DEF Injected
    <1>7. Append(messages, m) = messages \o <<m>> BY <1>4, <1>5
    <1>8. Len(g) = 1 /\ g[1] = m OBVIOUS
    <1>9. messages' = messages \o g BY <1>1, <1>6, <1>7
    <1> HIDE DEF g
    <1>10. \A i \in 1..Len(g) : g[i].role # "system" BY <1>4, <1>8
    <1> QED BY <1>1, <1>3, <1>4, <1>9, <1>10, Grows

LEMMA GoesOn ==
    ASSUME ShapeInv, ShapeAssumption, NEW z \in Sizes, GoOn(z)
    PROVE  ShapeInv'
    <1> DEFINE a == Text("assistant", count + 1, 1)
               b == Text("user", count + 2, z)
               p == <<a>>
               q == <<b>>
               g == p \o q
    <1>1. messages # <<>> /\ messages' = Append(Append(messages, a), b) /\ UNCHANGED <<rows, saved>> /\ count' = count + 2
        BY DEF GoOn, Made
    <1>2. count \in Nat /\ z \in Nat BY DEF ShapeInv, ShapeAssumption
    <1>3. count + 1 \in Nat /\ count + 2 \in Nat /\ 1 \in Nat BY <1>2
    <1>4. a \in Msg /\ a.role = "assistant" /\ Unowing(p) BY <1>3, TextIs
    <1>5. b \in Msg /\ b.role = "user" /\ Unowing(q) BY <1>2, <1>3, TextIs
    <1> HIDE DEF a, b
    <1>6. messages \in Seq(Msg)
        <2>1. Proper(messages) BY <1>1 DEF ShapeInv, TurnSo
        <2> QED BY <2>1, ProperIs
    <1>7. Append(Append(messages, a), b) = messages \o g
        <2> DEFINE r == Append(messages, a)
        <2>1. r = messages \o p BY <1>4, <1>6
        <2>5. r \in Seq(Msg) BY <1>4, <1>6
        <2>2. p \in Seq(Msg) /\ q \in Seq(Msg) BY <1>4, <1>5
        <2> HIDE DEF r
        <2>3. Append(r, b) = r \o q BY <1>5, <2>5
        <2> HIDE DEF p, q
        <2>4. (messages \o p) \o q = messages \o (p \o q) BY <1>6, <2>2
        <2> QED BY <2>1, <2>3, <2>4 DEF r
    <1>8. p \in Seq(Msg) /\ Len(p) = 1 /\ p[1] = a /\ q \in Seq(Msg) /\ Len(q) = 1 /\ q[1] = b BY <1>4, <1>5
    <1>9. Len(g) = 2 /\ g[1] = a /\ g[2] = b BY <1>4, <1>5
    <1>10. messages' = messages \o g BY <1>1, <1>7
    <1> HIDE DEF p, q
    <1>11. Unowing(g) BY <1>4, <1>5, UnowingJoin
    <1> HIDE DEF g
    <1>12. \A i \in 1..Len(g) : g[i].role # "system"
        <2>1. \A i \in 1..2 : i = 1 \/ i = 2 OBVIOUS
        <2> QED BY <1>4, <1>5, <1>9, <2>1
    <1> QED BY <1>1, <1>3, <1>10, <1>11, <1>12, Grows

\* What is saved when a turn is over.
LEMMA Closes ==
    ASSUME ShapeInv, messages # <<>>, NEW new, Unowing(new), \A i \in 1..Len(new) : new[i].role # "system",
           Closed(new), count' \in Nat
    PROVE  ShapeInv'
    <1> DEFINE h == From(messages, saved + 1)
    <1>1. RowsSo(rows) /\ rows # <<>> /\ TurnSo(messages, saved) BY DEF ShapeInv
    <1>2. rows' = rows \o SubSeq(messages, saved + 1, Len(messages)) \o new /\ messages' = <<>> BY DEF Closed
    <1>3. SubSeq(messages, saved + 1, Len(messages)) = h /\ Unowing(h) /\ \A i \in 1..Len(h) : h[i].role # "system"
        BY <1>1, TailSaved
    <1> HIDE DEF h
    <1> DEFINE p == rows \o h
               q == p \o new
    <1>4. RowsSo(p) BY <1>1, <1>3, RowsJoin
    <1>5. p # <<>>
        <2>1. rows \in Seq(Msg) /\ h \in Seq(Msg) BY <1>1, <1>3, RowsAre, UnowingIs
        <2> QED BY <1>1, <2>1
    <1>6. rows' = q BY <1>2, <1>3
    <1> HIDE DEF p
    <1>7. RowsSo(q) BY <1>4, <1>5, RowsJoin
    <1> HIDE DEF q
    <1> QED BY <1>2, <1>6, <1>7 DEF ShapeInv

LEMMA Finishes ==
    ASSUME ShapeInv, ShapeAssumption, NEW z \in Sizes, Finish(z)
    PROVE  ShapeInv'
    <1> DEFINE m == Text("assistant", count + 1, z)
               g == <<m>>
    <1>1. messages # <<>> /\ count' = count + 1 /\ Closed(g) BY DEF Finish, Made
    <1>2. count \in Nat /\ z \in Nat BY DEF ShapeInv, ShapeAssumption
    <1>3. count + 1 \in Nat BY <1>2
    <1>4. m \in Msg /\ m.role = "assistant" /\ Unowing(g) BY <1>2, <1>3, TextIs
    <1> HIDE DEF m
    <1>5. Len(g) = 1 /\ g[1] = m OBVIOUS
    <1> HIDE DEF g
    <1>6. \A i \in 1..Len(g) : g[i].role # "system" BY <1>4, <1>5
    <1> QED BY <1>1, <1>3, <1>4, <1>6, Closes

LEMMA Stops ==
    ASSUME ShapeInv, StopTurn
    PROVE  ShapeInv'
    <1> DEFINE m == Text("assistant", count + 1, 1)
               g == <<m>>
               new == IF LastRole(messages) = "user" THEN g ELSE <<>>
    <1>1. messages # <<>> /\ count' = count + 1 /\ Closed(new) BY DEF StopTurn, Made
    <1>2. count \in Nat BY DEF ShapeInv
    <1>3. count + 1 \in Nat /\ 1 \in Nat BY <1>2
    <1>4. m \in Msg /\ m.role = "assistant" /\ Unowing(g) BY <1>3, TextIs
    <1> HIDE DEF m
    <1>5. Len(g) = 1 /\ g[1] = m OBVIOUS
    <1> HIDE DEF g
    <1>6. \A i \in 1..Len(g) : g[i].role # "system" BY <1>4, <1>5
    <1>7. \A i \in 1..Len(<<>>) : <<>>[i].role # "system" OBVIOUS
    <1>8. Unowing(new) /\ \A i \in 1..Len(new) : new[i].role # "system"
        <2>1. CASE LastRole(messages) = "user" BY <1>4, <1>6, <2>1
        <2>2. CASE LastRole(messages) # "user" BY <2>2, NoneUnowing, <1>7
        <2> QED BY <2>1, <2>2
    <1> HIDE DEF new
    <1> QED BY <1>1, <1>3, <1>8, Closes

\* Rows from the beginning of a turn on.
LEMMA Consolidates ==
    ASSUME ShapeInv, Consolidate
    PROVE  ShapeInv'
    <1>1. messages = <<>> /\ UNCHANGED <<messages, saved, cause, count>> BY DEF Consolidate
    <1>2. PICK i \in Users(rows) : i > 1 /\ rows' = From(rows, i) BY DEF Consolidate
    <1>3. RowsSo(rows) /\ count \in Nat BY DEF ShapeInv
    <1> DEFINE n == Len(rows)
               q == From(rows, i)
    <1>4. rows \in Seq(Msg) /\ n \in Nat /\ DOMAIN rows = 1..n /\ Unowing(rows) /\ \A j \in 1..n : rows[j].role # "system"
        BY <1>3, RowsAre
    <1>5. i \in 1..n /\ rows[i].role = "user" BY <1>2, <1>4 DEF Users
    <1>6. Unowing(q)
        <2>1. rows[i].role # "tool" BY <1>5
        <2> QED BY <1>4, <1>5, <2>1, UnowingUser
    <1>7. q \in Seq(Msg) /\ Len(q) = n - i + 1 /\ \A j \in 1..n - i + 1 : q[j] = rows[i - 1 + j]
        <2>1. i \in 1..n + 1 BY <1>4, <1>5
        <2> QED BY <1>4, <2>1, FromIs
    <1> HIDE DEF q, n
    <1>8. \A j \in 1..Len(q) : q[j].role # "system"
        <2> TAKE j \in 1..Len(q)
        <2>1. j \in 1..n - i + 1 /\ i - 1 + j \in 1..n BY <1>4, <1>5, <1>7
        <2> QED BY <1>4, <1>7, <2>1
    <1>9. q[1].role = "user"
        <2>1. 1 \in 1..n - i + 1 /\ i - 1 + 1 = i BY <1>4, <1>5
        <2> QED BY <1>5, <1>7, <2>1
    <1>10. RowsSo(q) BY <1>6, <1>8, <1>9 DEF RowsSo
    <1> QED BY <1>1, <1>2, <1>3, <1>10 DEF ShapeInv, q

LEMMA ShapeStays ==
    ASSUME ShapeInv, ShapeAssumption, [ShapeNext]_shapeVars
    PROVE  ShapeInv'
    <1>1. ASSUME NEW z \in Sizes, BeginTurn(z) PROVE ShapeInv' BY <1>1, BeginsTurn
    <1>2. ASSUME NEW z \in Sizes, BeginFollowUp(z) PROVE ShapeInv' BY <1>2, BeginsFollowUp
    <1>3. ASSUME NEW z \in Sizes, Inject(z) PROVE ShapeInv' BY <1>3, Injects
    <1>4. ASSUME NEW z \in Sizes, GoOn(z) PROVE ShapeInv' BY <1>4, GoesOn
    <1>5. ASSUME NEW z \in Sizes, Finish(z) PROVE ShapeInv' BY <1>5, Finishes
    <1>6. ASSUME NEW k \in 1..2, NEW z \in Sizes, UseTools(k, z) PROVE ShapeInv' BY <1>6, UsesTools
    <1>7. CASE StopTurn BY <1>7, Stops
    <1>8. CASE Consolidate BY <1>8, Consolidates
    <1>9. CASE UNCHANGED shapeVars BY <1>9 DEF shapeVars, ShapeInv
    <1> QED BY <1>1, <1>2, <1>3, <1>4, <1>5, <1>6, <1>7, <1>8, <1>9 DEF ShapeNext

\* A turn whose exchanges are whole sends what each client's API accepts, and what is new.
LEMMA ShapeSays == ASSUME ShapeInv, ShapeAssumption PROVE RequestSound
    <1> DEFINE q == Prepared(messages)
    <1>1. ASSUME messages # <<>>
          PROVE  /\ ChatLegal(ChatRequest(q)) /\ AnthropicLegal(AnthropicRequest(q))
                 /\ \A i \in DOMAIN ResponsesRequest(q) : Answered(ResponsesRequest(q), i)
                 /\ LastRole(messages) \in {"user", "tool"} =>
                        LET new == messages[Len(messages)].says
                        IN new \subseteq Says(ChatRequest(q)) /\ new \subseteq Says(AnthropicRequest(q))
                           /\ new \subseteq Says(ResponsesRequest(q))
        <2>1. Proper(messages) BY <1>1 DEF ShapeInv, TurnSo
        <2>2. Proper(q) /\ q[Len(q)] = messages[Len(messages)] BY <2>1, PreparedIs
        <2>3. LastRole(messages) = messages[Len(messages)].role BY <1>1 DEF LastRole
        <2> HIDE DEF q
        <2> DEFINE new == messages[Len(messages)].says
                   last == LastRole(messages) \in {"user", "tool"}
        <2>4. ChatLegal(ChatRequest(q)) /\ (last => new \subseteq Says(ChatRequest(q))) BY <2>2, <2>3, ChatSound
        <2>5. AnthropicLegal(AnthropicRequest(q)) /\ (last => new \subseteq Says(AnthropicRequest(q)))
            BY <2>2, <2>3, AnthropicSound
        <2>6. (\A i \in DOMAIN ResponsesRequest(q) : Answered(ResponsesRequest(q), i)) /\ new \subseteq Says(ResponsesRequest(q))
            BY <2>2, ResponsesSound
        <2> QED BY <2>4, <2>5, <2>6
    <1> HIDE DEF q
    <1>2. RequestLegal BY <1>1 DEF RequestLegal, q
    <1>3. NewestSent BY <1>1 DEF NewestSent, q
    <1> QED BY <1>2, <1>3 DEF RequestSound

\* Whatever was said, cut and repaired before, each client sends a list its API accepts: roles
\* alternate, it begins and ends with the user or a tool, every tool call is followed at once by
\* its results and no others; and what a user or a tool said last is in it
\* (_prepare_messages_for_model, _snip_history, _enforce_role_alternation, _merge_consecutive).
THEOREM RequestsKept == ShapeSpec => []RequestSound
    <1>1. ShapeInit => ShapeInv BY ShapeBegins
    <1>2. ShapeInv /\ [ShapeNext]_shapeVars => ShapeInv' BY ShapeAssumption, ShapeStays
    <1>3. ShapeInv => RequestSound BY ShapeAssumption, ShapeSays
    <1> QED BY <1>1, <1>2, <1>3, PTL DEF ShapeSpec
================================================================================
