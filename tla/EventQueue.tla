----------------------------- MODULE EventQueue -----------------------------
(***************************************************************************)
(* The in-memory event queue: lists of messages per topic, shared by every *)
(* adapter of the process, and generators that read them.                  *)
(*                                                                         *)
(* A generator runs until it yields a message or sleeps, and nothing else  *)
(* runs in between: one action goes from one of these points to the next.  *)
(* Generators of the same topics share one flag that keeps them running.   *)
(* The events and the commands are two storages with the same code; a      *)
(* topic stands for its name together with its storage.                    *)
(***************************************************************************)
EXTENDS Integers, Sequences, FiniteSetsExt

CONSTANTS
    Messages,        \* what is published
    Unreadable,      \* the messages that from_dict raises on
    EventTopics,     \* the topics of the events storage
    CommandTopics,   \* the topics of the commands storage
    Consumers,       \* the calls of consume_event and consume_command
    TopicsOf,        \* the topics each of them is given, in order
    MaxPublished,    \* bound on the calls that publish
    MaxStarts,       \* bound on the generators that are started
    MaxClears        \* bound on the calls of clear_all_topics

Topics == EventTopics \cup CommandTopics

ASSUME EventQueueConstants ==
    /\ Unreadable \subseteq Messages
    /\ EventTopics \cap CommandTopics = {}
    /\ TopicsOf \in [Consumers -> Seq(Topics)]
    /\ \A c \in Consumers : TopicsOf[c] # <<>>
    /\ MaxPublished \in Nat
    /\ MaxStarts \in Nat
    /\ MaxClears \in Nat

VARIABLES
    storage,   \* _events_storage and _commands_storage
    running,   \* _consumers_running: a flag for every tuple of topics
    consumer,  \* where each generator waits
    offsets,   \* its offset in every topic
    given,     \* what it has yielded of every topic
    ended,     \* generators that run while one of the same topics has ended
    astray,    \* generators that run while the topics have been cleared
    published, \* calls that published so far
    starts,    \* generators started so far
    clears     \* calls of clear_all_topics so far

history == <<given, ended, astray, starts, clears>>
vars == <<storage, running, consumer, offsets, history, published>>

(* consumer_key *)
Key(c) == TopicsOf[c]

Keys == {Key(c) : c \in Consumers}

Nothing == [t \in Topics |-> <<>>]

Beginning == [t \in Topics |-> 0]

At(pc) == [pc |-> pc, topic |-> 0, rest |-> <<>>]

(* Suspended at a yield: in which topic, and what is left of the range.    *)
InBody(k, rest) == [pc |-> "body", topic |-> k, rest |-> rest]

Init ==
    /\ storage = Nothing
    /\ running = [k \in Keys |-> FALSE]
    /\ consumer = [c \in Consumers |-> At("new")]
    /\ offsets = [c \in Consumers |-> Beginning]
    /\ given = [c \in Consumers |-> Nothing]
    /\ ended = {}
    /\ astray = {}
    /\ published = 0
    /\ starts = 0
    /\ clears = 0

-----------------------------------------------------------------------------
(* One call appends to every topic it is given. *)
Publish(m, ts) ==
    /\ published < MaxPublished
    /\ published' = published + 1
    /\ storage' = [t \in Topics |-> IF t \in ts THEN Append(storage[t], m) ELSE storage[t]]
    /\ UNCHANGED <<running, consumer, offsets, history>>

PublishEvent == \E m \in Messages, ts \in SUBSET EventTopics \ {{}} : Publish(m, ts)

PublishCommand == \E m \in Messages, ts \in SUBSET CommandTopics \ {{}} : Publish(m, ts)

-----------------------------------------------------------------------------
(* The generators. *)

Live(c) == consumer[c].pc \in {"body", "asleep"}

Siblings(c) == {d \in Consumers \ {c} : Live(d) /\ Key(d) = Key(c)}

(* A slip: the flags of all generators are taken down. *)
FinishAll(c) ==
    /\ running' = [k \in Keys |-> FALSE]
    /\ consumer' = [consumer EXCEPT ![c] = At("stopped")]
    /\ ended' = (ended \ {c}) \cup Siblings(c)
    /\ astray' = astray \ {c}

(* The finally clause, whatever ended the generator. *)
Finish(c) ==
    /\ running' = [running EXCEPT ![Key(c)] = FALSE]
    /\ consumer' = [consumer EXCEPT ![c] = At("stopped")]
    /\ ended' = (ended \ {c}) \cup Siblings(c)
    /\ astray' = astray \ {c}

(* The local state of a generator and its flag, as it runs on.             *)
Here(c) == [flag |-> running[Key(c)], offsets |-> offsets[c], given |-> given[c]]

Fresh == [flag |-> TRUE, offsets |-> Beginning, given |-> Nothing]

Suspend(c, g, where) ==
    /\ running' = [running EXCEPT ![Key(c)] = g.flag]
    /\ consumer' = [consumer EXCEPT ![c] = where]
    /\ offsets' = [offsets EXCEPT ![c] = g.offsets]
    /\ given' = [given EXCEPT ![c] = g.given]
    /\ UNCHANGED <<ended, astray>>

Stop(c, g) ==
    /\ Finish(c)
    /\ offsets' = [offsets EXCEPT ![c] = g.offsets]
    /\ given' = [given EXCEPT ![c] = g.given]

(* A slip: a message that from_dict raises on is yielded as it is.         *)
YieldUnread(c, g, k, messages) ==
    LET t == TopicsOf[c][k] IN
      Suspend(c, [g EXCEPT !.offsets[t] = g.offsets[t] + 1,
                           !.given[t] = Append(g.given[t], Head(messages))],
              InBody(k, Tail(messages)))

(* A slip: the offset moves on only with the last message of the range.    *)
YieldOffsetLate(c, g, k, messages) ==
    LET t == TopicsOf[c][k]
        m == Head(messages)
    IN  IF m \in Unreadable THEN Stop(c, g)
        ELSE Suspend(c,
                [g EXCEPT !.offsets[t] = g.offsets[t] + (IF Len(messages) = 1 THEN 1 ELSE 0),
                          !.given[t] = Append(g.given[t], m)],
                InBody(k, Tail(messages)))

(* The first of the messages is yielded, or from_dict raises on it.        *)
Yield(c, g, k, messages) ==
    LET t == TopicsOf[c][k]
        m == Head(messages)
    IN  IF m \in Unreadable THEN Stop(c, g)
        ELSE Suspend(c,
                [g EXCEPT !.offsets[t] = g.offsets[t] + 1, !.given[t] = Append(g.given[t], m)],
                InBody(k, Tail(messages)))

(* What the k-th topic has beyond the offset. *)
New(c, g, k) ==
    LET t == TopicsOf[c][k] IN SubSeq(storage[t], g.offsets[t] + 1, Len(storage[t]))

(* A slip: the pass ends with the topic it starts with.                    *)
NewFromOne(c, g, k) == {j \in {k} \cap DOMAIN TopicsOf[c] : New(c, g, j) # <<>>}

(* The topics of the pass, from the k-th on, that have something new.      *)
NewFrom(c, g, k) == {j \in k .. Len(TopicsOf[c]) : New(c, g, j) # <<>>}

YieldFirst(c, g, js) == Yield(c, g, Min(js), New(c, g, Min(js)))

(* The test of while, then a pass over the topics. *)
NextPass(c, g) ==
    IF ~g.flag THEN Stop(c, g)
    ELSE IF NewFrom(c, g, 1) # {} THEN YieldFirst(c, g, NewFrom(c, g, 1))
    ELSE Suspend(c, g, At("asleep"))

(* A worker begins to read: its generator runs to its first message or its *)
(* first sleep.                                                            *)
Start(c) ==
    /\ ~Live(c)
    /\ starts < MaxStarts
    /\ starts' = starts + 1
    /\ NextPass(c, Fresh)
    /\ UNCHANGED <<storage, published, clears>>

(* The worker asks for the next message. *)
Resume(c) ==
    /\ consumer[c].pc = "body"
    /\ LET k == consumer[c].topic
           rest == consumer[c].rest
       IN  IF rest # <<>> THEN Yield(c, Here(c), k, rest)
           ELSE IF NewFrom(c, Here(c), k + 1) # {}
                THEN YieldFirst(c, Here(c), NewFrom(c, Here(c), k + 1))
                ELSE NextPass(c, Here(c))
    /\ UNCHANGED <<storage, published, starts, clears>>

(* asyncio.sleep returns. *)
Wake(c) ==
    /\ consumer[c].pc = "asleep"
    /\ NextPass(c, Here(c))
    /\ UNCHANGED <<storage, published, starts, clears>>

(* The task is cancelled, or the worker leaves its loop. *)
Close(c) ==
    /\ Live(c)
    /\ Stop(c, Here(c))
    /\ UNCHANGED <<storage, published, starts, clears>>

(* A range that is being read keeps the list it was computed from.         *)
ClearAllTopics ==
    /\ clears < MaxClears
    /\ clears' = clears + 1
    /\ storage' = Nothing
    /\ running' = [k \in Keys |-> FALSE]
    /\ astray' = {c \in Consumers : Live(c)}
    /\ UNCHANGED <<consumer, offsets, given, ended, published, starts>>

-----------------------------------------------------------------------------
Next ==
    \/ PublishEvent \/ PublishCommand
    \/ \E c \in Consumers : Start(c) \/ Resume(c) \/ Wake(c) \/ Close(c)
    \/ ClearAllTopics

Spec == Init /\ [][Next]_vars

(* The workers handle what they are given and ask again; sleep returns.    *)
Fairness == \A c \in Consumers : WF_vars(Resume(c) \/ Wake(c))

LiveSpec == Spec /\ Fairness

-----------------------------------------------------------------------------
Waiting ==
    [pc : {"new", "asleep", "stopped"}, topic : {0}, rest : {<<>>}]
        \cup [pc : {"body"}, topic : Nat \ {0}, rest : Seq(Messages)]

(* Every variable has its type, and an offset counts what was yielded.     *)
TypeOK ==
    /\ storage \in [Topics -> Seq(Messages)]
    /\ running \in [Keys -> BOOLEAN]
    /\ consumer \in [Consumers -> Waiting]
    /\ \A c \in Consumers, t \in Topics :
          given[c][t] \in Seq(Messages \ Unreadable) /\ offsets[c][t] = Len(given[c][t])
    /\ ended \cup astray \subseteq {c \in Consumers : Live(c)}
    /\ published \in 0 .. MaxPublished
    /\ starts \in 0 .. MaxStarts
    /\ clears \in 0 .. MaxClears

(* The flag that keeps a generator running is down only if a generator of  *)
(* the same topics has ended since it began, or the topics were cleared:   *)
(* nothing else makes a worker stop reading.                               *)
RunsUntilAnotherEnds ==
    \A c \in Consumers : Live(c) /\ ~running[Key(c)] => c \in ended \cup astray

(* What the port promises, to all generators but those that were running   *)
(* when the topics were cleared.                                           *)
Port == INSTANCE TopicLog WITH Readers <- Consumers, log <- storage

IsTopicLog == Port!Spec

(* What a running generator has still to give its worker.                  *)
Unread(c) == \E k \in DOMAIN TopicsOf[c] : New(c, Here(c), k) # <<>>

(* A worker that goes on asking is given all that its topics hold, however *)
(* many generators come and go, unless its own generator ends.             *)
AllIsRead == \A c \in Consumers : Live(c) /\ Unread(c) ~> ~(Live(c) /\ Unread(c))
=============================================================================
