----------------------------- MODULE BrowserSessions -----------------------------
(* BrowserSessionManager and the browser tool: one browser, one context per session,     *)
(* made on first use, closed by the tool, by /new or when idle.  A session has one actor  *)
(* (its turns are serial, TurnDispatch).  What runs between two awaits is one action.    *)
EXTENDS Naturals, FiniteSets, Functions

CONSTANTS
    Chats,       \* effective keys
    IdleClose,   \* disconnect_on_idle
    MaxBrowser   \* bound: browsers launched

\* No session has the key that stands for nobody, nor that of the eviction.
ASSUME BrowserAssumption ==
    IdleClose \in BOOLEAN /\ MaxBrowser \in Nat /\ Chats \cap {"none", "evictor"} = {}

NoBrowser == 0
Evictor == "evictor"
Actors == Chats \cup {Evictor}

VARIABLES
    browser,    \* _browser
    running,    \* browsers that run
    launched,   \* how many were launched
    installed,  \* Chromium is there
    noticeOnce, \* _notice_once
    states,     \* _states: the context of each session that has one
    connector,  \* who holds _connect_lock
    installer,  \* who holds _provision_lock
    actor,      \* what each session, and evict_idle, is at
    todo,       \* the list of evict_idle
    owed,       \* history: sessions that lost a context and were not told
    silent,     \* history: sessions that worked on a new one and were not told
    crossed     \* history: a browser was forgotten for another one that ended

browserVars == <<browser, running, launched, installed, noticeOnce, states, connector, installer,
                 actor, todo, owed, silent, crossed>>

Rest == [pc |-> "idle", try |-> 0, got |-> NoBrowser, carry |-> FALSE]

BrowserInit ==
    /\ browser = NoBrowser /\ running = {} /\ launched = 0 /\ installed = FALSE /\ noticeOnce = FALSE
    /\ states = [k \in {} |-> 0] /\ connector = "none" /\ installer = "none"
    /\ actor = [a \in Actors |-> Rest] /\ todo = {}
    /\ owed = {} /\ silent = {} /\ crossed = FALSE

At(a, pc) == actor[a].pc = pc
Moves(a, pc) == actor' = [actor EXCEPT ![a].pc = pc]
Rests(a) == actor' = [actor EXCEPT ![a] = Rest]
Dropped(st, k) == Restrict(st, DOMAIN st \ {k})
WithContext(st, k, new) == [x \in DOMAIN st \cup {k} |-> IF x = k THEN new ELSE st[x]]
Usable(k) == k \in DOMAIN states /\ ~states[k].dead

----------------------------------------------------------------------------
(* acquire *)

\* A context that lives is used at once; its lock is free, the session has one actor.
AcquireContext(k) ==
    /\ At(k, "idle")
    /\ IF Usable(k) THEN Moves(k, "act") /\ UNCHANGED states
       ELSE /\ actor' = [actor EXCEPT ![k] = [Rest EXCEPT !.pc = "ensure",
                                               !.carry = k \in DOMAIN states /\ states[k].notice]]
            /\ states' = Dropped(states, k)
    /\ UNCHANGED <<browser, running, launched, installed, noticeOnce, connector, installer, todo,
                   owed, silent, crossed>>

\* Mutant: the lock does not cover the launch.
EnsureUnlocked(k) ==
    /\ At(k, "ensure") /\ connector = "none"
    /\ IF browser # NoBrowser THEN actor' = [actor EXCEPT ![k].pc = "context", ![k].got = browser]
                              ELSE Moves(k, "launch")
    /\ UNCHANGED <<browser, running, launched, installed, noticeOnce, states, connector, installer,
                   todo, owed, silent, crossed>>

\* _ensure_browser, under the lock: the browser that is there, or a launch.
Ensure(k) ==
    /\ At(k, "ensure") /\ connector = "none"
    /\ IF browser # NoBrowser
       THEN actor' = [actor EXCEPT ![k].pc = "context", ![k].got = browser] /\ UNCHANGED connector
       ELSE Moves(k, "launch") /\ connector' = k
    /\ UNCHANGED <<browser, running, launched, installed, noticeOnce, states, installer, todo,
                   owed, silent, crossed>>

Unlock(a) == connector' = IF connector = a THEN "none" ELSE connector

\* The launch succeeds, fails (and takes the notice with it), or finds no Chromium.
Launch(k) ==
    /\ At(k, "launch") /\ Unlock(k)
    /\ \/ /\ installed /\ launched < MaxBrowser /\ launched' = launched + 1
          /\ browser' = launched' /\ running' = running \cup {launched'}
          /\ actor' = [actor EXCEPT ![k].pc = "context", ![k].got = launched']
          /\ UNCHANGED owed
       \/ Rests(k) /\ owed' = owed \ {k} /\ UNCHANGED <<browser, running, launched>>
       \/ ~installed /\ actor[k].try = 0 /\ Moves(k, "missing")
          /\ UNCHANGED <<browser, running, launched, owed>>
    /\ UNCHANGED <<installed, noticeOnce, states, installer, todo, silent, crossed>>

\* _provision_chromium, one at a time.
Provision(k) ==
    /\ At(k, "missing") /\ installer = "none" /\ installer' = k /\ Moves(k, "install")
    /\ UNCHANGED <<browser, running, launched, installed, noticeOnce, states, connector, todo,
                   owed, silent, crossed>>

Provisioned(k) ==
    /\ At(k, "install") /\ installer' = "none" /\ UNCHANGED connector
    /\ \/ /\ installed' = TRUE /\ noticeOnce' = TRUE /\ UNCHANGED owed
          /\ actor' = [actor EXCEPT ![k].pc = "ensure", ![k].try = 1]
       \/ Rests(k) /\ owed' = owed \ {k} /\ UNCHANGED <<installed, noticeOnce>>
    /\ UNCHANGED <<browser, running, launched, states, todo, silent, crossed>>

\* The context is made and entered, or its browser has gone.
OpenContext(k) ==
    /\ At(k, "context") /\ noticeOnce' = FALSE
    /\ IF actor[k].got \in running
       THEN /\ states' = WithContext(states, k, [dead |-> FALSE, notice |-> actor[k].carry \/ noticeOnce])
            /\ Moves(k, "act") /\ UNCHANGED owed
       ELSE Rests(k) /\ owed' = owed \ {k} /\ UNCHANGED states
    /\ UNCHANGED <<browser, running, launched, installed, connector, installer, todo, silent, crossed>>

\* The action ends; with an error when its context was closed or died meanwhile.
Act(k) ==
    /\ At(k, "act") /\ Rests(k)
    /\ IF Usable(k)
       THEN /\ states' = [states EXCEPT ![k].notice = FALSE]
            /\ silent' = IF states[k].notice THEN silent ELSE silent \cup ({k} \cap owed)
            /\ owed' = owed \ {k}
       ELSE UNCHANGED <<states, silent, owed>>
    /\ UNCHANGED <<browser, running, launched, installed, noticeOnce, connector, installer, todo,
                   crossed>>

\* /stop, wherever the tool waits; a notice it carries is lost.
StopActor(k) ==
    /\ ~At(k, "idle") /\ Rests(k)
    /\ owed' = IF At(k, "act") THEN owed ELSE owed \ {k}
    /\ connector' = IF connector = k THEN "none" ELSE connector
    /\ installer' = IF installer = k THEN "none" ELSE installer
    /\ UNCHANGED <<browser, running, launched, installed, noticeOnce, states, todo, silent, crossed>>

----------------------------------------------------------------------------
(* close_session, evict_idle, _close_browser, and the end of a browser *)

CloseSession(k) ==
    /\ At(k, "idle") /\ k \in DOMAIN states
    /\ states' = Dropped(states, k) /\ Moves(k, "save") /\ owed' = owed \ {k}
    /\ UNCHANGED <<browser, running, launched, installed, noticeOnce, connector, installer, todo,
                   silent, crossed>>

\* evict_idle lists the idle contexts and closes the first.
EvictIdle ==
    /\ At(Evictor, "idle")
    /\ \E keys \in SUBSET {k \in DOMAIN states : ~states[k].dead /\ ~At(k, "act")} : \E k \in keys :
          todo' = keys \ {k} /\ states' = Dropped(states, k) /\ owed' = owed \ {k}
    /\ Moves(Evictor, "save")
    /\ UNCHANGED <<browser, running, launched, installed, noticeOnce, connector, installer, silent,
                   crossed>>

\* The next of the list, in use by now or not.
EvictNext ==
    /\ At(Evictor, "save") /\ todo # {}
    /\ \E k \in todo : todo' = todo \ {k} /\ states' = Dropped(states, k) /\ owed' = owed \ {k}
    /\ UNCHANGED <<browser, running, launched, installed, noticeOnce, connector, installer, actor,
                   silent, crossed>>

\* Saved and closed; the last one takes the browser along.
Saved(a) ==
    /\ At(a, "save") /\ (a = Evictor => todo = {})
    /\ IF IdleClose /\ DOMAIN states = {} /\ browser # NoBrowser
       THEN actor' = [actor EXCEPT ![a].pc = "quit", ![a].got = browser]
       ELSE Rests(a)
    /\ UNCHANGED <<browser, running, launched, installed, noticeOnce, states, connector, installer,
                   todo, owed, silent, crossed>>

\* _on_disconnected: a browser that was closed, or crashed.
Disconnected(b) ==
    /\ b \in running /\ running' = running \ {b}
    /\ states' = [k \in DOMAIN states |-> [dead |-> TRUE, notice |-> TRUE]]
    /\ owed' = owed \cup DOMAIN states
    /\ browser' = NoBrowser /\ crossed' = (crossed \/ browser \notin {b, NoBrowser})
    /\ UNCHANGED <<launched, installed, noticeOnce, connector, installer, actor, todo, silent>>

\* browser.close() has returned.
Quit(a) ==
    /\ At(a, "quit") /\ actor[a].got \notin running /\ Rests(a)
    /\ browser' = NoBrowser /\ crossed' = (crossed \/ browser # NoBrowser)
    /\ UNCHANGED <<running, launched, installed, noticeOnce, states, connector, installer, todo,
                   owed, silent>>

BrowserNext ==
    \/ \E k \in Chats :
          \/ AcquireContext(k) \/ Ensure(k) \/ Launch(k) \/ Provision(k) \/ Provisioned(k)
          \/ OpenContext(k) \/ Act(k) \/ StopActor(k) \/ CloseSession(k)
    \/ EvictIdle \/ EvictNext
    \/ \E a \in Actors : Saved(a) \/ Quit(a)
    \/ \E b \in 1..MaxBrowser : Disconnected(b)

\* A launch and the making of a context end, an installation may take its time.  The lock is
\* given in the order of the requests: who waits for it gets it if it is free again and again.
BrowserFair == \A k \in Chats : WF_browserVars(Launch(k) \/ OpenContext(k)) /\ SF_browserVars(Ensure(k))

BrowserSpec == BrowserInit /\ [][BrowserNext]_browserVars /\ BrowserFair

----------------------------------------------------------------------------
(* Properties. *)

BrowserTypeOK ==
    /\ browser \in 0..MaxBrowser /\ running \subseteq 1..launched /\ launched \in 0..MaxBrowser
    /\ DOMAIN states \subseteq Chats /\ todo \subseteq Chats
    /\ \A k \in Chats : /\ connector = k => At(k, "launch")
                        /\ installer = k <=> At(k, "install")
                        /\ Usable(k) => browser # NoBrowser \/ crossed
    /\ todo # {} => At(Evictor, "save")

\* There is one browser, and the manager knows it: no two launches, no context in a browser
\* that nobody will close.  The exception: while _close_browser waits for the end of one,
\* another session may launch the next, which is forgotten when the wait is over.
OneBrowser == crossed \/ running \subseteq {browser}

\* A session whose context was lost with its browser is told with its next successful action
\* (unless making the next context failed or was stopped, which drops the notice).
LossIsTold == silent = {}

\* An installation of Chromium, however long, does not keep a session waiting for the lock.
EnsureEnds == \A k \in Chats : At(k, "ensure") ~> ~At(k, "ensure")

\* One browser, and its loss is told, whoever launches, closes or is cancelled.
BrowserSound == BrowserTypeOK /\ OneBrowser /\ LossIsTold
================================================================================
