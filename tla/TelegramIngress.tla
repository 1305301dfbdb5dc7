---------------------------- MODULE TelegramIngress ----------------------------
(* The way in of TelegramChannel: updates are staged for each session behind a short       *)
(* window, sorted by message id and handled one at a time by a worker that lives while     *)
(* there is something to do; the parts of an album are put together; a typing indicator    *)
(* runs.  Other tasks of the library bring the updates, not always in order.               *)
EXTENDS Naturals, Sequences, FiniteSets, FiniteSetsExt, SequencesExt

CONSTANTS
    Updates,    \* message ids
    KeyOfUpdate,\* the session of each: its chat or topic
    KindOf,     \* command, text, or part (of the one album of its session)
    MaxStaged   \* _INBOUND_BUFFER_MAX

ASSUME IngressAssumption == Updates \subseteq Nat /\ MaxStaged \in Nat \ {0}

Keys == {KeyOfUpdate[u] : u \in Updates}
NoUpdate == 0

VARIABLES
    alive,     \* _running
    arrived,   \* updates the library has handed over
    staged,    \* _inbound_buffers
    worker,    \* _inbound_workers: none, asleep, or handling its batch
    batch,     \* what a worker has taken
    handling,  \* the update it awaits something for
    album,     \* _media_group_buffers: its parts
    flushing,  \* _media_group_tasks
    typingKeys, \* _typing_tasks
    turns,     \* what went to the bus: sets of updates
    late,      \* history: updates that came when a later one had been taken
    shed,      \* history: updates dropped by the limit, by an error, or by the stop
    refused    \* history: updates that are not for the bot

ingressVars == <<alive, arrived, staged, worker, batch, handling, album, flushing, typingKeys, turns,
                 late, shed, refused>>

IngressInit ==
    /\ alive = TRUE /\ arrived = {}
    /\ staged = [k \in Keys |-> <<>>] /\ worker = [k \in Keys |-> "none"]
    /\ batch = [k \in Keys |-> <<>>] /\ handling = [k \in Keys |-> NoUpdate]
    /\ album = [k \in Keys |-> <<>>] /\ flushing = {} /\ typingKeys = {} /\ turns = <<>>
    /\ late = {} /\ shed = {} /\ refused = {}

Forward(us) == turns' = Append(turns, us)
Taken(k) == ToSet(batch[k]) \cup {handling[k]} \cup (UNION ToSet(turns)) \cup ToSet(album[k]) \cup refused

\* _enqueue_ordered_update: the oldest staged one makes room.
Stage(u) ==
    LET k == KeyOfUpdate[u]
        full == Len(staged[k]) >= MaxStaged
        rest == IF full THEN Tail(staged[k]) ELSE staged[k]
    IN
    /\ u \notin arrived /\ arrived' = arrived \cup {u}
    /\ alive
    /\ staged' = [staged EXCEPT ![k] = Append(rest, u)]
    /\ shed' = IF full THEN shed \cup {Head(staged[k])} ELSE shed
    /\ worker' = IF worker[k] = "none" THEN [worker EXCEPT ![k] = "asleep"] ELSE worker
    /\ late' = IF \E v \in Taken(k) : v > u /\ KeyOfUpdate[v] = k THEN late \cup {u} ELSE late
    /\ UNCHANGED <<alive, batch, handling, album, flushing, typingKeys, turns, refused>>

\* Mutant: the batch is taken as it came.
WakeUnsorted(k) ==
    /\ worker[k] = "asleep" /\ staged[k] # <<>>
    /\ batch' = [batch EXCEPT ![k] = staged[k]] /\ staged' = [staged EXCEPT ![k] = <<>>]
    /\ worker' = [worker EXCEPT ![k] = "busy"]
    /\ UNCHANGED <<alive, arrived, handling, album, flushing, typingKeys, turns, late, shed, refused>>

\* batch.sort by message id.
InIdOrder(s) ==
    {b \in [DOMAIN s -> ToSet(s)] : ToSet(b) = ToSet(s) /\ \A i, j \in DOMAIN b : i < j => b[i] < b[j]}

\* _drain_ordered_updates after its sleep: the batch, in order; or the end of the worker.
WakeWorker(k) ==
    /\ worker[k] = "asleep"
    /\ worker' = [worker EXCEPT ![k] = IF staged[k] = <<>> THEN "none" ELSE "busy"]
    /\ \E b \in InIdOrder(staged[k]) : batch' = [batch EXCEPT ![k] = b]
    /\ staged' = [staged EXCEPT ![k] = <<>>]
    /\ UNCHANGED <<alive, arrived, handling, album, flushing, typingKeys, turns, late, shed, refused>>

\* Mutant: the worker ends with its batch, without a look at what was staged meanwhile.
HandleOnce(k) ==
    /\ worker[k] = "busy" /\ handling[k] = NoUpdate
    /\ IF batch[k] = <<>>
       THEN worker' = [worker EXCEPT ![k] = "none"] /\ UNCHANGED <<batch, handling>>
       ELSE /\ handling' = [handling EXCEPT ![k] = Head(batch[k])]
            /\ batch' = [batch EXCEPT ![k] = Tail(@)] /\ UNCHANGED worker
    /\ UNCHANGED <<alive, arrived, staged, album, flushing, typingKeys, turns, late, shed, refused>>

\* The next of the batch: a command, or a message up to its downloads and reactions.
HandleNext(k) ==
    /\ worker[k] = "busy" /\ handling[k] = NoUpdate
    /\ IF batch[k] = <<>>
       THEN worker' = [worker EXCEPT ![k] = "asleep"] /\ UNCHANGED <<batch, handling>>
       ELSE /\ handling' = [handling EXCEPT ![k] = Head(batch[k])]
            /\ batch' = [batch EXCEPT ![k] = Tail(@)] /\ UNCHANGED worker
    /\ UNCHANGED <<alive, arrived, staged, album, flushing, typingKeys, turns, late, shed, refused>>

\* is_allowed and _is_group_message_for_bot say no.
Refuse(u) == refused' = refused \cup {u} /\ UNCHANGED <<turns, album, flushing, typingKeys, shed>>

\* _start_typing: one loop for each chat.
TypeIn(k) == typingKeys' = typingKeys \cup {k}

\* _process_forward_command and _process_message_update: to the bus, or to the album, whose
\* first part starts the loop; or a step raises.
Process(u, k) ==
    \/ KindOf[u] = "command" /\ Forward({u}) /\ UNCHANGED <<album, flushing, typingKeys, shed, refused>>
    \/ KindOf[u] = "text" /\ Forward({u}) /\ TypeIn(k) /\ UNCHANGED <<album, flushing, shed, refused>>
    \/ /\ KindOf[u] = "part"
       /\ album' = [album EXCEPT ![k] = Append(@, u)] /\ flushing' = flushing \cup {k}
       /\ IF album[k] = <<>> THEN TypeIn(k) ELSE UNCHANGED typingKeys
       /\ UNCHANGED <<turns, shed, refused>>
    \/ Refuse(u)
    \/ shed' = shed \cup {u} /\ UNCHANGED <<turns, album, flushing, typingKeys, refused>>

Handled(k) ==
    /\ handling[k] # NoUpdate /\ handling' = [handling EXCEPT ![k] = NoUpdate]
    /\ Process(handling[k], k)
    /\ UNCHANGED <<alive, arrived, staged, worker, batch, late>>

\* _flush_media_group: one turn for the parts there are.
Flush(k) ==
    /\ k \in flushing /\ flushing' = flushing \ {k}
    /\ Forward(ToSet(album[k])) /\ album' = [album EXCEPT ![k] = <<>>]
    /\ UNCHANGED <<alive, arrived, staged, worker, batch, handling, typingKeys, late, shed, refused>>

\* _stop_typing, on the final reply or the end of its stream; the loop also ends with the bot.
Replied(k) ==
    /\ k \in typingKeys /\ typingKeys' = typingKeys \ {k}
    /\ UNCHANGED <<alive, arrived, staged, worker, batch, handling, album, flushing, turns, late,
                   shed, refused>>

\* stop: workers and flushes are cancelled, what they held is gone.
StopIngress ==
    /\ alive /\ alive' = FALSE
    /\ shed' = shed \cup UNION {ToSet(staged[k]) \cup ToSet(batch[k]) \cup ToSet(album[k])
                                 \cup ({handling[k]} \ {NoUpdate}) : k \in Keys}
    /\ staged' = [k \in Keys |-> <<>>] /\ worker' = [k \in Keys |-> "none"]
    /\ batch' = [k \in Keys |-> <<>>] /\ handling' = [k \in Keys |-> NoUpdate]
    /\ album' = [k \in Keys |-> <<>>] /\ flushing' = {} /\ typingKeys' = {}
    /\ UNCHANGED <<arrived, turns, late, refused>>

\* What arrives while the channel stops is processed in the library's own task.
Straight(u) ==
    /\ ~alive /\ u \notin arrived /\ arrived' = arrived \cup {u} /\ late' = late \cup {u}
    /\ Process(u, KeyOfUpdate[u])
    /\ UNCHANGED <<alive, staged, worker, batch, handling>>

IngressNext ==
    \/ \E u \in Updates : Stage(u) \/ Straight(u)
    \/ \E k \in Keys : WakeWorker(k) \/ HandleNext(k) \/ Handled(k) \/ Flush(k) \/ Replied(k)
    \/ StopIngress

\* Sleeps end; downloads have timeouts.
IngressFair ==
    \A k \in Keys : WF_ingressVars(WakeWorker(k) \/ HandleNext(k) \/ Handled(k)) /\ WF_ingressVars(Flush(k))

IngressSpec == IngressInit /\ [][IngressNext]_ingressVars /\ IngressFair

----------------------------------------------------------------------------
(* Properties. *)

Turn(u) == {i \in DOMAIN turns : u \in turns[i]}

\* The turns of a session come in the order of its messages, each in one turn, unless one
\* arrived when a later one had already been taken up.  An album counts by its last part.
TurnsInOrder ==
    \A u \in arrived : /\ Cardinality(Turn(u)) <= 1
        /\ \A v \in arrived \ late :
              KeyOfUpdate[u] = KeyOfUpdate[v] /\ v > u /\ u \notin late /\ KindOf[u] # "part"
                 => \A i \in Turn(u), j \in Turn(v) : i < j

\* Every update reaches the bus, or was shed or refused: no staged one stays behind a worker
\* that ended, no album behind a flush that is over.
UpdatesTaken == \A u \in Updates : u \in arrived ~> Turn(u) # {} \/ u \in shed \cup refused
================================================================================
