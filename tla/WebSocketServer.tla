---------------------------- MODULE WebSocketServer ----------------------------
(* WebSocketChannel: tokens minted over HTTP admit connections; each connection has a loop    *)
(* that handles one envelope at a time, and one task fans what the agent says out to the      *)
(* subscribers of a chat.  Both find out about closed peers and clean the same tables.  The   *)
(* sessions of the chats are read and changed over HTTP meanwhile, and the activity of a turn *)
(* is kept in a transcript that a client that attaches late replays.                          *)
EXTENDS Naturals, Sequences, FiniteSets, SequencesExt

CONSTANTS
    Conns,      \* connections, in the order they are made
    WsChats,    \* chat ids clients attach to; a connection also gets one of its own
    Tokens,     \* tokens that get minted, in order
    NeedToken,  \* websocket_requires_token
    MaxTokens,  \* _MAX_ISSUED_TOKENS
    MaxFrames,  \* envelopes in all
    MaxSends,   \* messages the agent publishes
    MaxTurns,   \* turns of each chat
    MaxLines    \* records the transcript is trimmed to

ASSUME WebSocketAssumption ==
    /\ Conns \subseteq Nat \ {0} /\ Tokens \subseteq Nat \ {0} /\ WsChats \cap Conns = {}
    /\ {MaxTokens, MaxFrames, MaxSends, MaxTurns, MaxLines} \subseteq Nat

\* The chat a connection is given.
Own(c) == c
NoToken == 0
Rooms == WsChats \cup {Own(c) : c \in Conns}

VARIABLES
    serving,    \* up, closing (the server waits for its handlers), down
    issued,     \* _issued_tokens
    api,        \* _api_tokens
    minted,     \* history: tokens there were
    phase,      \* of a connection: none, greeting, open, busy, ended
    gone,       \* connections whose peer has closed
    admins,     \* _admin_connections
    subs,       \* _subs
    joined,     \* _conn_chats
    fan,        \* the message being fanned out: whom of the snapshot it is still to be sent to
    buffers,    \* _stream_text_buffers: chats with pieces of an open stream
    stored,     \* chats with a session file
    turn,       \* of a chat: the number of its turn, and whether it runs
    lines,      \* activity transcript: turn numbers, or Boundary
    cut,        \* history: turns that were stopped or raised, or whose boundary was not recorded
    frames, sends

wsVars == <<serving, issued, api, minted, phase, gone, admins, subs, joined, fan, buffers, stored,
            turn, lines, cut, frames, sends>>
tokenVars == <<issued, api, minted>>
connVars == <<phase, gone, admins, subs, joined, frames>>
fanVars == <<fan, buffers, sends>>
sessionVars == <<stored, turn, lines, cut>>

NoFan == [room |-> 0, left |-> {}]
Boundary == 0

WsInit ==
    /\ serving = "up" /\ issued = {} /\ api = {} /\ minted = {}
    /\ phase = [c \in Conns |-> "none"] /\ gone = {} /\ admins = {}
    /\ subs = [h \in Rooms |-> {}] /\ joined = [c \in Conns |-> {}]
    /\ fan = NoFan /\ buffers = {} /\ stored = {}
    /\ turn = [h \in WsChats |-> [n |-> 0, on |-> FALSE]]
    /\ lines = [h \in WsChats |-> <<>>] /\ cut = [h \in WsChats |-> {}]
    /\ frames = 0 /\ sends = 0

Attach(c, h) ==
    /\ subs' = [subs EXCEPT ![h] = @ \cup {c}] /\ joined' = [joined EXCEPT ![c] = @ \cup {h}]

\* _cleanup_connection, by whoever finds the peer gone.
Cleanup(c) ==
    /\ subs' = [h \in Rooms |-> IF h \in joined[c] THEN subs[h] \ {c} ELSE subs[h]]
    /\ joined' = [joined EXCEPT ![c] = {}] /\ admins' = admins \ {c}

----------------------------------------------------------------------------
(* Tokens and HTTP. *)

Mint(t) ==
    /\ serving = "up" /\ t \notin minted /\ \A u \in Tokens : u < t => u \in minted
    /\ minted' = minted \cup {t} /\ Cardinality(issued) < MaxTokens

\* _handle_token_issue_http: a token for one handshake.
Issue(t) ==
    /\ Mint(t) /\ issued' = issued \cup {t}
    /\ UNCHANGED <<serving, api>> /\ UNCHANGED <<connVars, fanVars, sessionVars>>

\* _handle_webui_bootstrap: one for a handshake and for the REST surface.
Bootstrap(t) ==
    /\ Mint(t) /\ Cardinality(api) < MaxTokens
    /\ issued' = issued \cup {t} /\ api' = api \cup {t}
    /\ UNCHANGED serving /\ UNCHANGED <<connVars, fanVars, sessionVars>>

Expire(t) ==
    /\ t \in issued \cup api /\ issued' = issued \ {t} /\ api' = api \ {t}
    /\ UNCHANGED <<serving, minted>> /\ UNCHANGED <<connVars, fanVars, sessionVars>>

\* _authorize_websocket_handshake takes the token; _connection_loop begins.
Handshake(c, t) ==
    /\ serving = "up" /\ phase[c] = "none" /\ \A d \in Conns : d < c => phase[d] # "none"
    /\ IF t = NoToken THEN ~NeedToken ELSE t \in issued
    /\ issued' = issued \ {t} /\ phase' = [phase EXCEPT ![c] = "greeting"]
    /\ admins' = IF t \in api THEN admins \cup {c} ELSE admins
    /\ UNCHANGED <<serving, api, minted, gone, subs, joined, frames>> /\ UNCHANGED <<fanVars, sessionVars>>

\* _handle_session_delete.
RestDelete(h) ==
    /\ serving = "up" /\ api # {} /\ h \in stored /\ stored' = stored \ {h}
    /\ UNCHANGED <<serving, turn, lines, cut>> /\ UNCHANGED <<tokenVars, connVars, fanVars>>

EndTurn(h) == turn' = [turn EXCEPT ![h].on = FALSE]

\* A turn that is cancelled or raises.
CutTurn(h) == turn[h].on /\ EndTurn(h) /\ cut' = [cut EXCEPT ![h] = @ \cup {turn[h].n}]

\* _handle_admin_session_stop.
RestStop(h) ==
    /\ serving = "up" /\ api # {} /\ CutTurn(h)
    /\ UNCHANGED <<serving, stored, lines>> /\ UNCHANGED <<tokenVars, connVars, fanVars>>

\* _handle_admin_session_restart: the stored session is also saved without its checkpoint.
RestRestart(h) ==
    /\ serving = "up" /\ api # {}
    /\ IF turn[h].on THEN CutTurn(h) ELSE UNCHANGED <<turn, cut>>
    /\ UNCHANGED <<serving, stored, lines>> /\ UNCHANGED <<tokenVars, connVars, fanVars>>

----------------------------------------------------------------------------
(* The loop of a connection. *)

\* `ready' was sent: only then is the connection known; or it was not.
Greeted(c) ==
    /\ phase[c] = "greeting"
    /\ IF c \in gone THEN Cleanup(c) /\ phase' = [phase EXCEPT ![c] = "ended"]
       ELSE Attach(c, Own(c)) /\ phase' = [phase EXCEPT ![c] = "open"] /\ UNCHANGED admins
    /\ UNCHANGED <<serving, gone, frames>> /\ UNCHANGED <<tokenVars, fanVars, sessionVars>>

Frame(c) == phase[c] = "open" /\ frames < MaxFrames /\ frames' = frames + 1
Await(c) == phase' = [phase EXCEPT ![c] = "busy"]

\* new_chat, attach: subscribed, then told so, then shown the active goal.
Subscribe(c, h) ==
    /\ Frame(c) /\ Attach(c, h) /\ Await(c)
    /\ UNCHANGED <<serving, gone, admins>> /\ UNCHANGED <<tokenVars, fanVars, sessionVars>>

\* message, stop, regenerate, edit: subscribed, and published; a first message starts a turn.
Say(c, h) ==
    /\ Frame(c) /\ Attach(c, h)
    /\ \/ /\ ~turn[h].on /\ turn[h].n < MaxTurns
          /\ turn' = [turn EXCEPT ![h] = [n |-> @.n + 1, on |-> TRUE]] /\ stored' = stored \cup {h}
          /\ UNCHANGED cut
       \/ CutTurn(h) /\ UNCHANGED stored
       \/ UNCHANGED <<turn, stored, cut>>
    /\ UNCHANGED <<serving, gone, phase, admins, lines>> /\ UNCHANGED <<tokenVars, fanVars>>

\* set_model saves the session before the connection is subscribed and answered.
SetModel(c, h) ==
    /\ Frame(c) /\ stored' = stored \cup {h} /\ Attach(c, h) /\ Await(c)
    /\ UNCHANGED <<serving, gone, admins, turn, lines, cut>> /\ UNCHANGED <<tokenVars, fanVars>>

\* An envelope that is answered with an event of its own, and changes nothing here: the loop
\* takes no other frame meanwhile.
Ask(c) ==
    /\ Frame(c) /\ Await(c)
    /\ UNCHANGED <<serving, gone, admins, subs, joined>> /\ UNCHANGED <<tokenVars, fanVars, sessionVars>>

\* File reads, configuration and probes: for admins; others are refused.
AskAdmin(c) == c \in admins /\ Ask(c)
Refused(c) == c \notin admins /\ Ask(c)

\* A recording is kept in a file of its own until the provider has answered.
Transcribe(c) == Ask(c)

\* The answer is sent; a closed peer is cleaned up and the loop goes on to its end.
Answered(c) ==
    /\ phase[c] = "busy" /\ phase' = [phase EXCEPT ![c] = "open"]
    /\ IF c \in gone THEN Cleanup(c) ELSE UNCHANGED <<subs, joined, admins>>
    /\ UNCHANGED <<serving, gone, frames>> /\ UNCHANGED <<tokenVars, fanVars, sessionVars>>

PeerCloses(c) ==
    /\ phase[c] \notin {"none", "ended"} /\ c \notin gone /\ gone' = gone \cup {c}
    /\ UNCHANGED <<serving, phase, admins, subs, joined, frames>>
    /\ UNCHANGED <<tokenVars, fanVars, sessionVars>>

\* The end of _connection_loop: no more frames, or one that raised.
LoopEnds(c) ==
    /\ phase[c] = "open" /\ c \in gone /\ phase' = [phase EXCEPT ![c] = "ended"] /\ Cleanup(c)
    /\ UNCHANGED <<serving, gone, frames>> /\ UNCHANGED <<tokenVars, fanVars, sessionVars>>

----------------------------------------------------------------------------
(* What the agent says. *)

\* send: a snapshot of the subscribers; with none the message is dropped.
Publish(h) ==
    /\ fan = NoFan /\ sends < MaxSends /\ sends' = sends + 1
    /\ fan' = IF subs[h] = {} THEN NoFan ELSE [room |-> h, left |-> subs[h]]
    /\ UNCHANGED <<serving, buffers>> /\ UNCHANGED <<tokenVars, connVars, sessionVars>>

\* send_delta: a piece is also kept for the text of the stream's end.
PublishDelta(h) ==
    /\ fan = NoFan /\ sends < MaxSends /\ sends' = sends + 1
    /\ IF subs[h] = {} THEN UNCHANGED <<fan, buffers>>
       ELSE /\ fan' = [room |-> h, left |-> subs[h]]
            /\ buffers' = IF h \in buffers THEN buffers \ {h} ELSE buffers \cup {h}
    /\ UNCHANGED serving /\ UNCHANGED <<tokenVars, connVars, sessionVars>>

\* _safe_send_to the next of the snapshot, which has the order of a set.
FanStep ==
    /\ \E c \in fan.left :
          /\ IF c \in gone THEN Cleanup(c) ELSE UNCHANGED <<subs, joined, admins>>
          /\ fan' = IF fan.left = {c} THEN NoFan ELSE [fan EXCEPT !.left = @ \ {c}]
    /\ UNCHANGED <<serving, phase, gone, frames, buffers, sends>> /\ UNCHANGED <<tokenVars, sessionVars>>

----------------------------------------------------------------------------
(* Turns and their transcript. *)

\* _trim_in_place: a file that has grown too long keeps its end.
Trimmed(s) == IF Len(s) > 2 * MaxLines THEN SubSeq(s, Len(s) - MaxLines + 1, Len(s)) ELSE s

\* append_webui_activity.
Record(h, what) == lines' = [lines EXCEPT ![h] = Trimmed(Append(@, what))]

\* _bus_file_activity, _bus_provider_failover.
Activity(h) ==
    /\ turn[h].on /\ Len(SelectSeq(lines[h], LAMBDA x : x = turn[h].n)) < 2 * MaxLines
    /\ Record(h, turn[h].n)
    /\ UNCHANGED <<serving, stored, turn, cut>> /\ UNCHANGED <<tokenVars, connVars, fanVars>>

\* Mutant: the session is saved, the boundary not recorded.
TurnUnmarked(h) ==
    /\ turn[h].on /\ EndTurn(h) /\ stored' = stored \cup {h}
    /\ UNCHANGED <<serving, cut, lines>> /\ UNCHANGED <<tokenVars, connVars, fanVars>>

\* The end of _process_message: the session is saved, then the boundary recorded; or it cannot be
\* appended, or joins the torn end of a record that could not, and nobody is told.
TurnSaves(h) ==
    /\ turn[h].on /\ stored' = stored \cup {h}
    /\ \/ EndTurn(h) /\ Record(h, Boundary) /\ UNCHANGED cut
       \/ CutTurn(h) /\ UNCHANGED lines
    /\ UNCHANGED serving /\ UNCHANGED <<tokenVars, connVars, fanVars>>

\* The model, a tool or the disk raises out of the turn.
TurnRaises(h) ==
    /\ CutTurn(h)
    /\ UNCHANGED <<serving, stored, lines>> /\ UNCHANGED <<tokenVars, connVars, fanVars>>

\* _handle_activity_replay_envelope: the records after the last boundary.
Replay(h) ==
    LET s == lines[h]
        last == {i \in DOMAIN s : s[i] = Boundary}
    IN {s[i] : i \in {j \in DOMAIN s : \A k \in last : k < j}}

----------------------------------------------------------------------------
(* stop. *)

\* The server closes every connection and waits for the handlers.
StopServing ==
    /\ serving = "up" /\ serving' = "closing"
    /\ gone' = gone \cup {c \in Conns : phase[c] # "none"}
    /\ UNCHANGED <<phase, admins, subs, joined, frames>> /\ UNCHANGED <<tokenVars, fanVars, sessionVars>>

Stopped ==
    /\ serving = "closing" /\ \A c \in Conns : phase[c] \in {"none", "ended"}
    /\ serving' = "down" /\ issued' = {} /\ api' = {}
    /\ subs' = [h \in Rooms |-> {}] /\ joined' = [c \in Conns |-> {}]
    /\ UNCHANGED <<minted, phase, gone, admins, frames>> /\ UNCHANGED <<fanVars, sessionVars>>

WsNext ==
    \/ \E t \in Tokens : Issue(t) \/ Bootstrap(t) \/ Expire(t)
    \/ \E c \in Conns, t \in Tokens \cup {NoToken} : Handshake(c, t)
    \/ \E c \in Conns : \/ Greeted(c) \/ AskAdmin(c) \/ Refused(c) \/ Transcribe(c) \/ Answered(c)
                        \/ PeerCloses(c) \/ LoopEnds(c)
                        \/ \E h \in WsChats : Subscribe(c, h) \/ Say(c, h) \/ SetModel(c, h)
    \/ \E h \in Rooms : Publish(h) \/ PublishDelta(h)
    \/ FanStep
    \/ \E h \in WsChats : \/ RestDelete(h) \/ RestStop(h) \/ RestRestart(h)
                          \/ Activity(h) \/ TurnSaves(h) \/ TurnRaises(h)
    \/ StopServing \/ Stopped

WsSpec == WsInit /\ [][WsNext]_wsVars

----------------------------------------------------------------------------
(* Properties. *)

\* The two subscription tables say the same, and a connection whose loop is over is in none:
\* whoever finds the peer gone first, nothing is subscribed after the last clean-up.
SubsAgree ==
    /\ \A c \in Conns, h \in Rooms : c \in subs[h] <=> h \in joined[c]
    /\ \A c \in Conns : phase[c] \in {"none", "ended"} => joined[c] = {} /\ (phase[c] = "ended" => c \notin admins)

\* What a client replays belongs to the running turn, or to turns that were cut, or whose boundary
\* could not be recorded, since the last one that ended with its boundary.
ReplayRecent ==
    \A h \in WsChats : \A n \in Replay(h) :
        (turn[h].on /\ n = turn[h].n) \/ (n \in cut[h] /\ n..turn[h].n \ cut[h] \subseteq {turn[h].n})

\* channel.py:1663 "Returns only events recorded *after* the most recent turn boundary -
\* completed turns already have their assistant content": nothing but the running turn.
ReplayCurrent == \A h \in WsChats : \A n \in Replay(h) : turn[h].on /\ n = turn[h].n

\* The subscription tables and what they replay.
SocketsSound == SubsAgree /\ ReplayRecent
================================================================================
