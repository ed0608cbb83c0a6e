--------------------------- MODULE EventQueueProofs ---------------------------
(***************************************************************************)
(* Theorems about the in-memory event queue: it implements the log that    *)
(* the event queue port promises, and a generator runs until another of    *)
(* its topics ends, for any topics, messages and generators and any number *)
(* of calls.                                                               *)
(***************************************************************************)
EXTENDS EventQueue, SequenceTheorems, WellFoundedInduction, TLAPS

(***************************************************************************)
(* The inductive invariant.  The offset of a generator counts what it was  *)
(* given; what is left of the range it is suspended in follows, in the     *)
(* topic, on what it was given, unless the topics were cleared under it.   *)
(***************************************************************************)
LocalState ==
    [flag : BOOLEAN, offsets : [Topics -> Nat], given : [Topics -> Seq(Messages \ Unreadable)]]

Counted(g) == g \in LocalState /\ \A t \in Topics : g.offsets[t] = Len(g.given[t])

Typed ==
    /\ TypeOK
    /\ offsets \in [Consumers -> [Topics -> Nat]]
    /\ given \in [Consumers -> [Topics -> Seq(Messages \ Unreadable)]]
    /\ \A c \in Consumers : consumer[c].pc = "body" => consumer[c].topic \in DOMAIN TopicsOf[c]

Follows(received, log, messages) ==
    /\ Len(received) + Len(messages) <= Len(log)
    /\ \A n \in 1 .. Len(messages) : messages[n] = log[Len(received) + n]

TopicOf(c) == TopicsOf[c][consumer[c].topic]

RestFollows ==
    \A c \in Consumers \ astray : consumer[c].pc = "body" =>
        Follows(given[c][TopicOf(c)], storage[TopicOf(c)], consumer[c].rest)

-----------------------------------------------------------------------------
(* The first of a set of positions. *)
LEMMA LeastPosition ==
    ASSUME NEW S \in SUBSET Nat, S # {}
    PROVE  Min(S) \in S
  <1>1. PICK n \in S : \A m \in S : <<m, n>> \notin OpToRel(<, Nat)
    BY NatLessThanWellFounded, WFMin
  <1>2. \A m \in S : ~(m < n)
    BY <1>1 DEF OpToRel
  <1>3. \A m \in S : n <= m
    BY <1>2
  <1> QED
    BY <1>3 DEF Min

LEMMA TopicsTyped ==
    ASSUME NEW c \in Consumers
    PROVE  /\ Key(c) \in Keys
           /\ Len(TopicsOf[c]) \in Nat
           /\ DOMAIN TopicsOf[c] = 1 .. Len(TopicsOf[c])
           /\ \A k \in DOMAIN TopicsOf[c] : TopicsOf[c][k] \in Topics
  <1>1. TopicsOf[c] \in Seq(Topics)
    BY EventQueueConstants
  <1> QED
    BY <1>1, LenProperties, ElementOfSeq DEF Key, Keys

LEMMA LocalStates ==
    ASSUME Typed, NEW c \in Consumers
    PROVE  /\ Counted(Here(c)) /\ Here(c).flag = running[Key(c)]
           /\ Here(c).offsets = offsets[c] /\ Here(c).given = given[c]
           /\ Counted(Fresh) /\ Fresh.flag /\ Fresh.given = Nothing
  <1>1. Key(c) \in Keys
    BY TopicsTyped
  <1>2. Here(c) \in LocalState
    BY <1>1 DEF Here, LocalState, Typed, TypeOK
  <1>3. \A t \in Topics : offsets[c][t] = Len(given[c][t])
    BY DEF Typed, TypeOK
  <1>4. Nothing \in [Topics -> Seq(Messages \ Unreadable)] /\ Beginning \in [Topics -> Nat]
    BY EmptySeq DEF Nothing, Beginning
  <1>5. Fresh \in LocalState
    BY <1>4 DEF Fresh, LocalState
  <1>6. \A t \in Topics : Beginning[t] = Len(Nothing[t])
    BY DEF Nothing, Beginning
  <1> QED
    BY <1>2, <1>3, <1>5, <1>6 DEF Counted, Here, Fresh

(***************************************************************************)
(* A stretch of a generator that had g ends it, puts it to sleep, or gives *)
(* its worker the first of some messages of a topic.                       *)
(***************************************************************************)
Gives(c, g, k, messages) ==
    \E h : /\ Counted(h) /\ h.flag = g.flag
           /\ h.given = [g.given EXCEPT ![TopicsOf[c][k]] =
                            Append(g.given[TopicsOf[c][k]], Head(messages))]
           /\ Suspend(c, h, InBody(k, Tail(messages)))

Goes(c, g) ==
    \/ Stop(c, g)
    \/ Suspend(c, g, At("asleep"))
    \/ \E k \in DOMAIN TopicsOf[c], messages \in Seq(Messages) \ {<<>>} :
          /\ \/ c \in astray
             \/ Follows(g.given[TopicsOf[c][k]], storage[TopicsOf[c][k]], messages)
          /\ Gives(c, g, k, messages)

LEMMA YieldGives ==
    ASSUME NEW c \in Consumers, NEW g, Counted(g), NEW k \in DOMAIN TopicsOf[c],
           NEW messages \in Seq(Messages) \ {<<>>}, Yield(c, g, k, messages)
    PROVE  Stop(c, g) \/ Gives(c, g, k, messages)
  <1> DEFINE t == TopicsOf[c][k]
             m == Head(messages)
             h == [g EXCEPT !.offsets[t] = g.offsets[t] + 1, !.given[t] = Append(g.given[t], m)]
             moved == [g.offsets EXCEPT ![t] = g.offsets[t] + 1]
             more == [g.given EXCEPT ![t] = Append(g.given[t], m)]
  <1>1. CASE m \in Unreadable
    BY <1>1 DEF Yield
  <1>2. CASE m \notin Unreadable
    <2>1. t \in Topics
      BY TopicsTyped
    <2>2. m \in Messages \ Unreadable
      BY <1>2, HeadTailProperties
    <2>3. /\ g.flag \in BOOLEAN /\ g.offsets \in [Topics -> Nat]
          /\ g.given \in [Topics -> Seq(Messages \ Unreadable)]
      BY DEF Counted, LocalState
    <2>4. h = [flag |-> g.flag, offsets |-> moved, given |-> more]
      <3>1. g.flag \in BOOLEAN /\ g \in [flag : BOOLEAN, offsets : {g.offsets}, given : {g.given}]
        BY DEF Counted, LocalState
      <3>2. h \in [flag : BOOLEAN, offsets : {moved}, given : {more}]
        BY <3>1
      <3>3. h.flag = g.flag
        BY <3>1
      <3> HIDE DEF h, moved, more
      <3> QED
        BY <3>2, <3>3
    <2>5. moved \in [Topics -> Nat]
      BY <2>1, <2>3
    <2>6. /\ Append(g.given[t], m) \in Seq(Messages \ Unreadable)
          /\ Len(Append(g.given[t], m)) = Len(g.given[t]) + 1
      BY <2>1, <2>2, <2>3, AppendProperties
    <2>7. more \in [Topics -> Seq(Messages \ Unreadable)]
      BY <2>1, <2>3, <2>6
    <2>8. \A u \in Topics : moved[u] = Len(more[u])
      BY <2>1, <2>3, <2>6 DEF Counted
    <2>9. Suspend(c, h, InBody(k, Tail(messages)))
      BY <1>2 DEF Yield
    <2> HIDE DEF h, moved, more
    <2>10. Counted(h)
      BY <2>3, <2>4, <2>5, <2>7, <2>8 DEF Counted, LocalState
    <2>11. h.flag = g.flag /\ h.given = more
      BY <2>4
    <2> QED
      BY <2>9, <2>10, <2>11 DEF Gives, more
  <1> QED
    BY <1>1, <1>2

(* The messages of a log beyond the first n of them. *)
LEMMA RangeBeyond ==
    ASSUME NEW log \in Seq(Messages), NEW n \in Nat, NEW messages,
           messages = SubSeq(log, n + 1, Len(log))
    PROVE  /\ messages \in Seq(Messages)
           /\ messages # <<>> => n + Len(messages) <= Len(log)
           /\ \A i \in 1 .. Len(messages) : messages[i] = log[n + i]
  <1>1. Len(log) \in Nat /\ \A i \in 1 .. Len(log) : log[i] \in Messages
    BY LenProperties, ElementOfSeq
  <1>2. PICK m \in Int, len \in Int : m = n + 1 /\ len = Len(log)
    BY <1>1
  <1>3. \A i \in m .. len : log[i] \in Messages
    BY <1>1, <1>2
  <1>4. /\ messages \in Seq(Messages)
        /\ Len(messages) = IF m <= len THEN len - m + 1 ELSE 0
        /\ \A i \in 1 .. len - m + 1 : messages[i] = log[m + i - 1]
    BY <1>2, <1>3, SubSeqProperties
  <1>5. messages # <<>> => Len(messages) # 0
    BY <1>4, EmptySeq
  <1>6. messages # <<>> => n + Len(messages) <= Len(log)
    BY <1>1, <1>2, <1>4, <1>5
  <1>7. ASSUME NEW i \in 1 .. Len(messages) PROVE messages[i] = log[n + i]
    <2>1. i \in 1 .. len - m + 1 /\ m + i - 1 = n + i
      BY <1>2, <1>4
    <2> QED
      BY <1>4, <2>1
  <1> QED
    BY <1>4, <1>6, <1>7

(* What a topic has beyond the offset follows on what was given of it. *)
LEMMA NewFollows ==
    ASSUME Typed, NEW c \in Consumers, NEW g, Counted(g), NEW k \in DOMAIN TopicsOf[c]
    PROVE  /\ New(c, g, k) \in Seq(Messages)
           /\ New(c, g, k) # <<>> =>
                Follows(g.given[TopicsOf[c][k]], storage[TopicsOf[c][k]], New(c, g, k))
  <1> DEFINE t == TopicsOf[c][k]
             n == g.offsets[t]
             log == storage[t]
  <1>1. t \in Topics
    BY TopicsTyped
  <1>2. log \in Seq(Messages) /\ n \in Nat /\ n = Len(g.given[t]) /\ Len(log) \in Nat
    BY <1>1, LenProperties DEF Typed, TypeOK, Counted, LocalState
  <1>3. New(c, g, k) = SubSeq(log, n + 1, Len(log))
    BY DEF New
  <1> HIDE DEF t, n, log
  <1>4. New(c, g, k) \in Seq(Messages)
    BY <1>2, <1>3, RangeBeyond
  <1>5. ASSUME New(c, g, k) # <<>> PROVE Follows(g.given[t], log, New(c, g, k))
    BY <1>2, <1>3, <1>5, RangeBeyond DEF Follows
  <1> QED
    BY <1>4, <1>5 DEF t, log

LEMMA YieldFirstGoes ==
    ASSUME Typed, NEW c \in Consumers, NEW g, Counted(g), NEW k \in Nat \ {0},
           NewFrom(c, g, k) # {}, YieldFirst(c, g, NewFrom(c, g, k))
    PROVE  Goes(c, g)
  <1> DEFINE j == Min(NewFrom(c, g, k))
  <1>1. Len(TopicsOf[c]) \in Nat /\ DOMAIN TopicsOf[c] = 1 .. Len(TopicsOf[c])
    BY TopicsTyped
  <1>2. NewFrom(c, g, k) \in SUBSET Nat /\ NewFrom(c, g, k) \subseteq DOMAIN TopicsOf[c]
    BY <1>1 DEF NewFrom
  <1>3. j \in NewFrom(c, g, k)
    BY <1>2, LeastPosition
  <1>4. Yield(c, g, j, New(c, g, j))
    BY DEF YieldFirst
  <1> HIDE DEF j
  <1>5. j \in DOMAIN TopicsOf[c] /\ New(c, g, j) # <<>>
    BY <1>2, <1>3 DEF NewFrom
  <1>6. /\ New(c, g, j) \in Seq(Messages) \ {<<>>}
        /\ Follows(g.given[TopicsOf[c][j]], storage[TopicsOf[c][j]], New(c, g, j))
    BY <1>5, NewFollows
  <1>7. Stop(c, g) \/ Gives(c, g, j, New(c, g, j))
    BY <1>4, <1>5, <1>6, YieldGives
  <1> QED
    BY <1>5, <1>6, <1>7 DEF Goes

LEMMA NextPassGoes ==
    ASSUME Typed, NEW c \in Consumers, NEW g, Counted(g), NextPass(c, g)
    PROVE  Goes(c, g)
  <1>1. CASE ~g.flag
    BY <1>1 DEF NextPass, Goes
  <1>2. CASE g.flag /\ NewFrom(c, g, 1) # {}
    <2>1. YieldFirst(c, g, NewFrom(c, g, 1))
      BY <1>2 DEF NextPass
    <2> QED
      BY <1>2, <2>1, YieldFirstGoes
  <1>3. CASE g.flag /\ NewFrom(c, g, 1) = {}
    BY <1>3 DEF NextPass, Goes
  <1> QED
    BY <1>1, <1>2, <1>3

(* Every step of a generator is such a stretch, from where it waited or    *)
(* from the beginning.                                                     *)
GeneratorGoes(c) ==
    /\ UNCHANGED <<storage, published, clears>>
    /\ starts' \in 0 .. MaxStarts
    /\ \E g : /\ Counted(g) /\ Goes(c, g)
              /\ \/ Live(c) /\ g.flag = running[Key(c)] /\ g.given = given[c]
                 \/ ~Live(c) /\ g.flag /\ g.given = Nothing

LEMMA GeneratorStepGoes ==
    ASSUME Typed, RestFollows, NEW c \in Consumers,
           Start(c) \/ Resume(c) \/ Wake(c) \/ Close(c)
    PROVE  GeneratorGoes(c)
  <1>1. CASE Start(c)
    <2>1. ~Live(c) /\ NextPass(c, Fresh) /\ UNCHANGED <<storage, published, clears>>
      BY <1>1 DEF Start
    <2>2. starts' \in 0 .. MaxStarts
      BY <1>1, EventQueueConstants DEF Start, Typed, TypeOK
    <2>3. Goes(c, Fresh)
      BY <2>1, LocalStates, NextPassGoes
    <2> QED
      BY <2>1, <2>2, <2>3, LocalStates DEF GeneratorGoes
  <1>2. ASSUME Resume(c) \/ Wake(c) \/ Close(c), Live(c), Goes(c, Here(c)) PROVE GeneratorGoes(c)
    <2>1. UNCHANGED <<storage, published, starts, clears>>
      BY <1>2 DEF Resume, Wake, Close
    <2> QED
      BY <1>2, <2>1, LocalStates DEF GeneratorGoes, Typed, TypeOK
  <1>3. CASE Wake(c)
    BY <1>2, <1>3, LocalStates, NextPassGoes DEF Wake, Live
  <1>4. CASE Close(c)
    BY <1>2, <1>4 DEF Close, Goes
  <1>5. CASE Resume(c)
    <2> DEFINE k == consumer[c].topic
               rest == consumer[c].rest
    <2>1. /\ consumer[c].pc = "body" /\ Live(c) /\ k \in DOMAIN TopicsOf[c]
          /\ rest \in Seq(Messages)
      BY <1>5 DEF Resume, Live, Typed, TypeOK, Waiting
    <2>2. Counted(Here(c)) /\ Here(c).given = given[c]
      BY LocalStates
    <2>3. CASE rest # <<>>
      <3>1. Yield(c, Here(c), k, rest)
        BY <1>5, <2>3 DEF Resume
      <3>2. Stop(c, Here(c)) \/ Gives(c, Here(c), k, rest)
        BY <2>1, <2>2, <2>3, <3>1, YieldGives
      <3>3. \/ c \in astray
            \/ Follows(Here(c).given[TopicsOf[c][k]], storage[TopicsOf[c][k]], rest)
        BY <2>1, <2>2 DEF RestFollows, TopicOf
      <3>4. Goes(c, Here(c))
        BY <2>1, <2>3, <3>2, <3>3 DEF Goes
      <3> QED
        BY <1>2, <1>5, <2>1, <3>4
    <2>4. CASE rest = <<>> /\ NewFrom(c, Here(c), k + 1) # {}
      <3>1. YieldFirst(c, Here(c), NewFrom(c, Here(c), k + 1))
        BY <1>5, <2>4 DEF Resume
      <3>2. k + 1 \in Nat \ {0}
        BY <2>1, TopicsTyped
      <3>3. Goes(c, Here(c))
        BY <2>2, <2>4, <3>1, <3>2, YieldFirstGoes
      <3> QED
        BY <1>2, <1>5, <2>1, <3>3
    <2>5. CASE rest = <<>> /\ NewFrom(c, Here(c), k + 1) = {}
      <3>1. NextPass(c, Here(c))
        BY <1>5, <2>5 DEF Resume
      <3>2. Goes(c, Here(c))
        BY <2>2, <3>1, NextPassGoes
      <3> QED
        BY <1>2, <1>5, <2>1, <3>2
    <2> QED
      BY <2>3, <2>4, <2>5
  <1> QED
    BY <1>1, <1>3, <1>4, <1>5

-----------------------------------------------------------------------------
(* How a stretch leaves the generator. *)
LEMMA StopLeaves ==
    ASSUME Typed, NEW c \in Consumers, NEW g, Counted(g), Stop(c, g)
    PROVE  /\ running' \in [Keys -> BOOLEAN]
           /\ \A d \in Consumers : Key(d) # Key(c) => running'[Key(d)] = running[Key(d)]
           /\ consumer' \in [Consumers -> Waiting] /\ consumer'[c].pc = "stopped"
           /\ offsets' \in [Consumers -> [Topics -> Nat]] /\ offsets'[c] = g.offsets
           /\ given' \in [Consumers -> [Topics -> Seq(Messages \ Unreadable)]]
           /\ given' = [given EXCEPT ![c] = g.given] /\ given'[c] = g.given
           /\ \A d \in Consumers \ {c} :
                 consumer'[d] = consumer[d] /\ offsets'[d] = offsets[d] /\ given'[d] = given[d]
           /\ ended' = (ended \ {c}) \cup Siblings(c) /\ astray' = astray \ {c}
  <1>1. /\ At("stopped") \in Waiting /\ At("stopped").pc = "stopped"
        /\ g.offsets \in [Topics -> Nat] /\ g.given \in [Topics -> Seq(Messages \ Unreadable)]
        /\ \A d \in Consumers : Key(d) \in Keys
    BY TopicsTyped DEF At, Waiting, Counted, LocalState
  <1>2. running' = [running EXCEPT ![Key(c)] = FALSE] /\ running \in [Keys -> BOOLEAN]
    BY DEF Stop, Finish, Typed, TypeOK
  <1>3. /\ consumer' = [consumer EXCEPT ![c] = At("stopped")] /\ consumer \in [Consumers -> Waiting]
        /\ offsets' = [offsets EXCEPT ![c] = g.offsets] /\ given' = [given EXCEPT ![c] = g.given]
        /\ ended' = (ended \ {c}) \cup Siblings(c) /\ astray' = astray \ {c}
    BY DEF Stop, Finish, Typed, TypeOK
  <1>4. /\ running' \in [Keys -> BOOLEAN]
        /\ \A d \in Consumers : Key(d) # Key(c) => running'[Key(d)] = running[Key(d)]
    BY <1>1, <1>2
  <1> QED
    BY <1>1, <1>3, <1>4 DEF Typed

LEMMA SuspendLeaves ==
    ASSUME Typed, NEW c \in Consumers, NEW g, Counted(g), NEW where \in Waiting, Suspend(c, g, where)
    PROVE  /\ running' \in [Keys -> BOOLEAN] /\ running'[Key(c)] = g.flag
           /\ \A d \in Consumers : Key(d) # Key(c) => running'[Key(d)] = running[Key(d)]
           /\ consumer' \in [Consumers -> Waiting] /\ consumer'[c] = where
           /\ offsets' \in [Consumers -> [Topics -> Nat]] /\ offsets'[c] = g.offsets
           /\ given' \in [Consumers -> [Topics -> Seq(Messages \ Unreadable)]]
           /\ given' = [given EXCEPT ![c] = g.given] /\ given'[c] = g.given
           /\ \A d \in Consumers \ {c} :
                 consumer'[d] = consumer[d] /\ offsets'[d] = offsets[d] /\ given'[d] = given[d]
           /\ UNCHANGED <<ended, astray>>
  <1>1. /\ g.flag \in BOOLEAN
        /\ g.offsets \in [Topics -> Nat] /\ g.given \in [Topics -> Seq(Messages \ Unreadable)]
        /\ \A d \in Consumers : Key(d) \in Keys
    BY TopicsTyped DEF Counted, LocalState
  <1>2. running' = [running EXCEPT ![Key(c)] = g.flag] /\ running \in [Keys -> BOOLEAN]
    BY DEF Suspend, Typed, TypeOK
  <1>3. /\ consumer' = [consumer EXCEPT ![c] = where] /\ consumer \in [Consumers -> Waiting]
        /\ offsets' = [offsets EXCEPT ![c] = g.offsets] /\ given' = [given EXCEPT ![c] = g.given]
        /\ UNCHANGED <<ended, astray>>
    BY DEF Suspend, Typed, TypeOK
  <1>4. /\ running' \in [Keys -> BOOLEAN] /\ running'[Key(c)] = g.flag
        /\ \A d \in Consumers : Key(d) # Key(c) => running'[Key(d)] = running[Key(d)]
    BY <1>1, <1>2
  <1> QED
    BY <1>1, <1>3, <1>4 DEF Typed

(* One message of a range is given; what is left follows on it. *)
LEMMA TailFollows ==
    ASSUME NEW received \in Seq(Messages), NEW log \in Seq(Messages),
           NEW messages \in Seq(Messages) \ {<<>>}, Follows(received, log, messages)
    PROVE  /\ Len(received) + 1 <= Len(log) /\ Head(messages) = log[Len(received) + 1]
           /\ Follows(Append(received, Head(messages)), log, Tail(messages))
  <1>1. /\ Len(received) \in Nat /\ Len(log) \in Nat /\ Len(messages) \in Nat \ {0}
        /\ Head(messages) = messages[1] /\ Head(messages) \in Messages
        /\ Len(Tail(messages)) = Len(messages) - 1
        /\ \A n \in 1 .. Len(Tail(messages)) : Tail(messages)[n] = messages[n + 1]
    BY LenProperties, EmptySeq, HeadTailProperties
  <1>2. Len(Append(received, Head(messages))) = Len(received) + 1
    BY <1>1, AppendProperties
  <1>3. ASSUME NEW n \in 1 .. Len(Tail(messages))
        PROVE  Tail(messages)[n] = log[(Len(received) + 1) + n]
    <2>1. n + 1 \in 1 .. Len(messages) /\ Len(received) + (n + 1) = (Len(received) + 1) + n
      BY <1>1
    <2> QED
      BY <1>1, <2>1 DEF Follows
  <1>4. (Len(received) + 1) + Len(Tail(messages)) <= Len(log)
    BY <1>1 DEF Follows
  <1>5. Head(messages) = log[Len(received) + 1] /\ Len(received) + 1 <= Len(log)
    BY <1>1 DEF Follows
  <1> QED
    BY <1>2, <1>3, <1>4, <1>5 DEF Follows

LEMMA GivesLeaves ==
    ASSUME Typed, NEW c \in Consumers, NEW g, Counted(g), NEW k \in DOMAIN TopicsOf[c],
           NEW messages \in Seq(Messages) \ {<<>>}, Gives(c, g, k, messages)
    PROVE  \E h : /\ Counted(h) /\ h.flag = g.flag
                  /\ h.given = [g.given EXCEPT ![TopicsOf[c][k]] =
                                   Append(g.given[TopicsOf[c][k]], Head(messages))]
                  /\ h.given[TopicsOf[c][k]] = Append(g.given[TopicsOf[c][k]], Head(messages))
                  /\ InBody(k, Tail(messages)) \in Waiting
                  /\ Suspend(c, h, InBody(k, Tail(messages)))
  <1>1. PICK h : /\ Counted(h) /\ h.flag = g.flag
                 /\ h.given = [g.given EXCEPT ![TopicsOf[c][k]] =
                                  Append(g.given[TopicsOf[c][k]], Head(messages))]
                 /\ Suspend(c, h, InBody(k, Tail(messages)))
    BY DEF Gives
  <1>2. TopicsOf[c][k] \in Topics /\ g.given \in [Topics -> Seq(Messages \ Unreadable)]
    BY TopicsTyped DEF Counted, LocalState
  <1>3. h.given[TopicsOf[c][k]] = Append(g.given[TopicsOf[c][k]], Head(messages))
    BY <1>1, <1>2
  <1>4. k \in Nat \ {0} /\ Tail(messages) \in Seq(Messages)
    BY TopicsTyped, HeadTailProperties
  <1>5. InBody(k, Tail(messages)) \in Waiting
    BY <1>4 DEF InBody, Waiting
  <1> QED
    BY <1>1, <1>3, <1>5

(* What any stretch does to the flags and to the other generators, and to  *)
(* its own: it has ended, or goes on with the flag it had.                 *)
LEMMA GoesLeaves ==
    ASSUME Typed, NEW c \in Consumers, NEW g, Counted(g), Goes(c, g)
    PROVE  /\ running' \in [Keys -> BOOLEAN]
           /\ \A d \in Consumers : Key(d) # Key(c) => running'[Key(d)] = running[Key(d)]
           /\ consumer' \in [Consumers -> Waiting]
           /\ consumer'[c].pc = "body" => consumer'[c].topic \in DOMAIN TopicsOf[c]
           /\ offsets' \in [Consumers -> [Topics -> Nat]]
           /\ given' \in [Consumers -> [Topics -> Seq(Messages \ Unreadable)]]
           /\ \A t \in Topics : offsets'[c][t] = Len(given'[c][t])
           /\ \A d \in Consumers \ {c} :
                 consumer'[d] = consumer[d] /\ offsets'[d] = offsets[d] /\ given'[d] = given[d]
           /\ \/ /\ consumer'[c].pc = "stopped"
                 /\ ended' = (ended \ {c}) \cup Siblings(c) /\ astray' = astray \ {c}
              \/ /\ consumer'[c].pc \in {"asleep", "body"} /\ running'[Key(c)] = g.flag
                 /\ UNCHANGED <<ended, astray>>
  <1>1. CASE Stop(c, g)
    <2>1. offsets'[c] = g.offsets /\ consumer'[c].pc = "stopped"
      BY <1>1, StopLeaves
    <2>2. given'[c] = g.given
      BY <1>1, StopLeaves
    <2>3. \A t \in Topics : offsets'[c][t] = Len(given'[c][t])
      BY <2>1, <2>2 DEF Counted
    <2> QED
      BY <1>1, <2>1, <2>3, StopLeaves
  <1>2. CASE Suspend(c, g, At("asleep"))
    <2>1. At("asleep") \in Waiting /\ At("asleep").pc = "asleep"
      BY DEF At, Waiting
    <2> QED
      BY <1>2, <2>1, SuspendLeaves DEF Counted
  <1>3. CASE \E k \in DOMAIN TopicsOf[c], messages \in Seq(Messages) \ {<<>>} :
                Gives(c, g, k, messages)
    <2>1. PICK k \in DOMAIN TopicsOf[c], messages \in Seq(Messages) \ {<<>>} :
             Gives(c, g, k, messages)
      BY <1>3
    <2>2. PICK h : /\ Counted(h) /\ h.flag = g.flag
                   /\ InBody(k, Tail(messages)) \in Waiting
                   /\ Suspend(c, h, InBody(k, Tail(messages)))
      BY <2>1, GivesLeaves
    <2>3. InBody(k, Tail(messages)).pc = "body" /\ InBody(k, Tail(messages)).topic = k
      BY DEF InBody
    <2> QED
      BY <2>2, <2>3, SuspendLeaves DEF Counted
  <1>4. \/ Stop(c, g) \/ Suspend(c, g, At("asleep"))
        \/ \E k \in DOMAIN TopicsOf[c], messages \in Seq(Messages) \ {<<>>} :
              Gives(c, g, k, messages)
    BY DEF Goes
  <1> QED
    BY <1>1, <1>2, <1>3, <1>4

LEMMA GeneratorTyped ==
    ASSUME Typed, NEW c \in Consumers, GeneratorGoes(c)
    PROVE  Typed'
  <1>1. PICK g : Counted(g) /\ Goes(c, g)
    BY DEF GeneratorGoes
  <1>2. UNCHANGED <<storage, published, clears>> /\ starts' \in 0 .. MaxStarts
    BY DEF GeneratorGoes
  <1>3. \A d \in Consumers, t \in Topics :
           given'[d][t] \in Seq(Messages \ Unreadable) /\ offsets'[d][t] = Len(given'[d][t])
    <2> SUFFICES ASSUME NEW d \in Consumers, NEW t \in Topics
                 PROVE  /\ given'[d][t] \in Seq(Messages \ Unreadable)
                        /\ offsets'[d][t] = Len(given'[d][t])
      OBVIOUS
    <2>1. given'[d][t] \in Seq(Messages \ Unreadable)
      BY <1>1, GoesLeaves
    <2>2. CASE d = c
      BY <1>1, <2>1, <2>2, GoesLeaves
    <2>3. CASE d # c
      BY <1>1, <2>1, <2>3, GoesLeaves DEF Typed, TypeOK
    <2> QED
      BY <2>2, <2>3
  <1>4. ended' \cup astray' \subseteq {d \in Consumers : Live(d)'}
    <2>1. \A d \in Consumers \ {c} : Live(d)' <=> Live(d)
      BY <1>1, GoesLeaves DEF Live
    <2>2. /\ ended' \cup astray' \subseteq ended \cup astray \cup Siblings(c)
          /\ c \in ended' \cup astray' => Live(c)'
      BY <1>1, GoesLeaves DEF Siblings, Live
    <2>3. Siblings(c) \cup ended \cup astray \subseteq {d \in Consumers : Live(d)}
      BY DEF Siblings, Typed, TypeOK
    <2> QED
      BY <2>1, <2>2, <2>3
  <1>5. \A d \in Consumers : consumer'[d].pc = "body" => consumer'[d].topic \in DOMAIN TopicsOf[d]
    BY <1>1, GoesLeaves DEF Typed
  <1>6. /\ running' \in [Keys -> BOOLEAN] /\ consumer' \in [Consumers -> Waiting]
        /\ offsets' \in [Consumers -> [Topics -> Nat]]
        /\ given' \in [Consumers -> [Topics -> Seq(Messages \ Unreadable)]]
    BY <1>1, GoesLeaves
  <1> QED
    BY <1>2, <1>3, <1>4, <1>5, <1>6 DEF Typed, TypeOK, Live

LEMMA PublishGrows ==
    ASSUME Typed, PublishEvent \/ PublishCommand
    PROVE  /\ UNCHANGED <<running, consumer, offsets, given, ended, astray, starts, clears>>
           /\ storage' \in [Topics -> Seq(Messages)] /\ published' \in 0 .. MaxPublished
           /\ \E m \in Messages, ts \in SUBSET Topics :
                 storage' = [t \in Topics |-> IF t \in ts THEN Append(storage[t], m) ELSE storage[t]]
           /\ \A t \in Topics :
                 /\ Len(storage[t]) <= Len(storage'[t])
                 /\ \A n \in 1 .. Len(storage[t]) : storage'[t][n] = storage[t][n]
  <1>1. PICK m \in Messages, ts \in SUBSET Topics : Publish(m, ts)
    BY DEF PublishEvent, PublishCommand, Topics
  <1>2. /\ storage' = [t \in Topics |-> IF t \in ts THEN Append(storage[t], m) ELSE storage[t]]
        /\ UNCHANGED <<running, consumer, offsets, given, ended, astray, starts, clears>>
    BY <1>1 DEF Publish, history
  <1>3. published' \in 0 .. MaxPublished
    BY <1>1, EventQueueConstants DEF Publish, Typed, TypeOK
  <1>4. \A t \in Topics :
           /\ Append(storage[t], m) \in Seq(Messages)
           /\ Len(Append(storage[t], m)) = Len(storage[t]) + 1 /\ Len(storage[t]) \in Nat
           /\ \A n \in 1 .. Len(storage[t]) : Append(storage[t], m)[n] = storage[t][n]
    <2> SUFFICES ASSUME NEW t \in Topics, NEW log, log = storage[t]
                 PROVE  /\ Append(log, m) \in Seq(Messages)
                        /\ Len(Append(log, m)) = Len(log) + 1 /\ Len(log) \in Nat
                        /\ \A n \in 1 .. Len(log) : Append(log, m)[n] = log[n]
      OBVIOUS
    <2>1. log \in Seq(Messages)
      BY DEF Typed, TypeOK
    <2> QED
      BY <2>1, AppendProperties, LenProperties
  <1>5. storage' \in [Topics -> Seq(Messages)]
    BY <1>2, <1>4 DEF Typed, TypeOK
  <1>6. ASSUME NEW t \in Topics
        PROVE  /\ Len(storage[t]) <= Len(storage'[t])
               /\ \A n \in 1 .. Len(storage[t]) : storage'[t][n] = storage[t][n]
    <2>1. storage'[t] = storage[t] \/ storage'[t] = Append(storage[t], m)
      BY <1>2
    <2> QED
      BY <1>4, <2>1
  <1> QED
    BY <1>2, <1>3, <1>5, <1>6

LEMMA InitTyped == Init => Typed
  <1> SUFFICES ASSUME Init PROVE Typed
    OBVIOUS
  <1>1. /\ Nothing \in [Topics -> Seq(Messages)]
        /\ Nothing \in [Topics -> Seq(Messages \ Unreadable)]
        /\ Beginning \in [Topics -> Nat]
        /\ \A t \in Topics : Beginning[t] = Len(Nothing[t])
    BY EmptySeq DEF Nothing, Beginning
  <1>2. At("new") \in Waiting /\ At("new").pc = "new"
    BY DEF At, Waiting
  <1>3. /\ consumer \in [Consumers -> Waiting] /\ \A c \in Consumers : consumer[c].pc = "new"
        /\ offsets \in [Consumers -> [Topics -> Nat]]
        /\ given \in [Consumers -> [Topics -> Seq(Messages \ Unreadable)]]
        /\ storage \in [Topics -> Seq(Messages)]
        /\ \A c \in Consumers : offsets[c] = Beginning /\ given[c] = Nothing
    BY <1>1, <1>2 DEF Init
  <1>4. \A c \in Consumers, t \in Topics :
           given[c][t] \in Seq(Messages \ Unreadable) /\ offsets[c][t] = Len(given[c][t])
    BY <1>1, <1>3
  <1>5. /\ running \in [Keys -> BOOLEAN] /\ ended = {} /\ astray = {}
        /\ published \in 0 .. MaxPublished /\ starts \in 0 .. MaxStarts /\ clears \in 0 .. MaxClears
    BY EventQueueConstants DEF Init
  <1> QED
    BY <1>3, <1>4, <1>5 DEF Typed, TypeOK

LEMMA ClearTyped ==
    ASSUME Typed, ClearAllTopics PROVE Typed'
  <1>1. /\ UNCHANGED <<consumer, offsets, given, ended, published, starts>>
        /\ storage' = Nothing /\ running' = [k \in Keys |-> FALSE]
        /\ astray' = {c \in Consumers : Live(c)}
    BY DEF ClearAllTopics
  <1>2. Nothing \in [Topics -> Seq(Messages)]
    BY EmptySeq DEF Nothing
  <1>3. clears' \in 0 .. MaxClears
    BY EventQueueConstants DEF ClearAllTopics, Typed, TypeOK
  <1> QED
    BY <1>1, <1>2, <1>3 DEF Typed, TypeOK, Live

LEMMA NextTyped ==
    ASSUME Typed, RestFollows, [Next]_vars PROVE Typed'
  <1>1. CASE PublishEvent \/ PublishCommand
    BY <1>1, PublishGrows DEF Typed, TypeOK, Live
  <1>2. ASSUME NEW c \in Consumers, Start(c) \/ Resume(c) \/ Wake(c) \/ Close(c) PROVE Typed'
    BY <1>2, GeneratorStepGoes, GeneratorTyped
  <1>3. CASE ClearAllTopics
    BY <1>3, ClearTyped
  <1>4. CASE UNCHANGED vars
    BY <1>4 DEF vars, history, Typed, TypeOK, Live
  <1> QED
    BY <1>1, <1>2, <1>3, <1>4 DEF Next

-----------------------------------------------------------------------------
(* What is left of a range goes on where the worker is. *)
LEMMA GeneratorKeepsRest ==
    ASSUME Typed, RestFollows, NEW c \in Consumers, GeneratorGoes(c)
    PROVE  RestFollows'
  <1>1. PICK g : Counted(g) /\ Goes(c, g)
    BY DEF GeneratorGoes
  <1>2. UNCHANGED storage
    BY DEF GeneratorGoes
  <1> SUFFICES ASSUME NEW d \in Consumers \ astray', consumer'[d].pc = "body"
               PROVE  Follows(given'[d][TopicOf(d)'], storage[TopicOf(d)'], consumer'[d].rest)
    BY <1>2 DEF RestFollows, Follows
  <1>3. CASE d # c
    <2>1. consumer'[d] = consumer[d] /\ given'[d] = given[d] /\ d \notin astray
      BY <1>1, <1>3, GoesLeaves
    <2> QED
      BY <2>1 DEF RestFollows, TopicOf
  <1>4. CASE d = c
    <2>1. ~Stop(c, g)
      BY <1>1, <1>4, StopLeaves
    <2>2. ~Suspend(c, g, At("asleep"))
      <3>1. At("asleep") \in Waiting /\ At("asleep").pc = "asleep"
        BY DEF At, Waiting
      <3> QED
        BY <1>1, <1>4, <3>1, SuspendLeaves
    <2>3. PICK k \in DOMAIN TopicsOf[c], messages \in Seq(Messages) \ {<<>>} :
             /\ \/ c \in astray
                \/ Follows(g.given[TopicsOf[c][k]], storage[TopicsOf[c][k]], messages)
             /\ Gives(c, g, k, messages)
      BY <1>1, <2>1, <2>2 DEF Goes
    <2> DEFINE t == TopicsOf[c][k]
    <2>4. PICK h : /\ Counted(h)
                   /\ h.given[t] = Append(g.given[t], Head(messages))
                   /\ InBody(k, Tail(messages)) \in Waiting
                   /\ Suspend(c, h, InBody(k, Tail(messages)))
      BY <1>1, <2>3, GivesLeaves
    <2>5. /\ consumer'[c] = InBody(k, Tail(messages)) /\ given'[c] = h.given
          /\ UNCHANGED astray
      BY <2>4, SuspendLeaves
    <2>6. TopicOf(c)' = t /\ consumer'[c].rest = Tail(messages)
      BY <2>5 DEF TopicOf, InBody
    <2>7. g.given[t] \in Seq(Messages) /\ storage[t] \in Seq(Messages)
      <3>1. t \in Topics
        BY TopicsTyped
      <3>2. g.given[t] \in Seq(Messages \ Unreadable) /\ Messages \ Unreadable \subseteq Messages
        BY <1>1, <3>1 DEF Counted, LocalState
      <3> QED
        BY <3>1, <3>2, SeqMonotonic DEF Typed, TypeOK
    <2>8. Follows(g.given[t], storage[t], messages)
      BY <1>4, <2>3, <2>5
    <2> HIDE DEF t
    <2>9. Follows(h.given[t], storage[t], Tail(messages))
      BY <2>4, <2>7, <2>8, TailFollows
    <2> QED
      BY <1>4, <2>5, <2>6, <2>9
  <1> QED
    BY <1>3, <1>4

LEMMA LongerLogFollows ==
    ASSUME NEW received \in Seq(Messages \ Unreadable), NEW messages \in Seq(Messages),
           NEW log \in Seq(Messages), NEW longer \in Seq(Messages), Len(log) <= Len(longer),
           \A n \in 1 .. Len(log) : longer[n] = log[n],
           Follows(received, log, messages)
    PROVE  Follows(received, longer, messages)
  <1>1. /\ Len(received) \in Nat /\ Len(messages) \in Nat /\ Len(log) \in Nat
        /\ Len(longer) \in Nat
    BY LenProperties
  <1>2. /\ Len(received) + Len(messages) <= Len(log)
        /\ \A n \in 1 .. Len(messages) : messages[n] = log[Len(received) + n]
    BY DEF Follows
  <1>3. \A n \in 1 .. Len(messages) : Len(received) + n \in 1 .. Len(log)
    BY <1>1, <1>2
  <1>4. Len(received) + Len(messages) <= Len(longer)
    BY <1>1, <1>2
  <1> QED
    BY <1>2, <1>3, <1>4 DEF Follows

LEMMA NextKeepsRest ==
    ASSUME Typed, RestFollows, [Next]_vars PROVE RestFollows'
  <1>1. CASE PublishEvent \/ PublishCommand
    <2>1. /\ UNCHANGED <<consumer, given, astray>>
          /\ storage' \in [Topics -> Seq(Messages)]
          /\ \A t \in Topics :
                /\ Len(storage[t]) <= Len(storage'[t])
                /\ \A n \in 1 .. Len(storage[t]) : storage'[t][n] = storage[t][n]
      BY <1>1, PublishGrows
    <2>2. ASSUME NEW c \in Consumers \ astray, consumer[c].pc = "body",
                 NEW t, t = TopicOf(c)
          PROVE  Follows(given[c][t], storage'[t], consumer[c].rest)
      <3>1. t \in Topics
        BY <2>2, TopicsTyped DEF TopicOf, Typed
      <3>2. /\ given[c][t] \in Seq(Messages \ Unreadable) /\ consumer[c].rest \in Seq(Messages)
            /\ storage[t] \in Seq(Messages) /\ storage'[t] \in Seq(Messages)
        BY <2>1, <2>2, <3>1 DEF Typed, TypeOK, Waiting
      <3>3. Follows(given[c][t], storage[t], consumer[c].rest)
        BY <2>2 DEF RestFollows
      <3> QED
        BY <2>1, <3>1, <3>2, <3>3, LongerLogFollows
    <2>3. ASSUME NEW c \in Consumers \ astray', consumer'[c].pc = "body"
          PROVE  Follows(given[c][TopicOf(c)], storage'[TopicOf(c)], consumer[c].rest)
      BY <2>1, <2>2, <2>3
    <2> QED
      BY <2>1, <2>3 DEF RestFollows, Follows, TopicOf
  <1>2. ASSUME NEW c \in Consumers, Start(c) \/ Resume(c) \/ Wake(c) \/ Close(c) PROVE RestFollows'
    BY <1>2, GeneratorStepGoes, GeneratorKeepsRest
  <1>3. CASE ClearAllTopics
    BY <1>3 DEF ClearAllTopics, RestFollows, Live
  <1>4. CASE UNCHANGED vars
    BY <1>4 DEF vars, history, RestFollows, TopicOf, Follows
  <1> QED
    BY <1>1, <1>2, <1>3, <1>4 DEF Next

LEMMA InitRest == Init => RestFollows
  BY DEF Init, RestFollows, At

LEMMA InvariantHolds == Spec => [](Typed /\ RestFollows)
  BY InitTyped, InitRest, NextTyped, NextKeepsRest, PTL DEF Spec

(***************************************************************************)
(* Every variable keeps its type, whatever is published, read, cancelled   *)
(* and cleared; the offset a generator keeps per topic counts the messages *)
(* its worker was given, and no worker is given one from_dict raises on.   *)
(***************************************************************************)
THEOREM TypeCorrect == Spec => []TypeOK
  BY InvariantHolds, PTL DEF Typed

-----------------------------------------------------------------------------
(* The flags that generators of the same topics share. *)
LEMMA NextKeepsFlags ==
    ASSUME Typed, RestFollows, RunsUntilAnotherEnds, [Next]_vars
    PROVE  RunsUntilAnotherEnds'
  <1>1. ASSUME NEW c \in Consumers, GeneratorGoes(c) PROVE RunsUntilAnotherEnds'
    <2>1. PICK g : /\ Counted(g) /\ Goes(c, g)
                   /\ \/ Live(c) /\ g.flag = running[Key(c)]
                      \/ ~Live(c) /\ g.flag
      BY <1>1 DEF GeneratorGoes
    <2> SUFFICES ASSUME NEW d \in Consumers, Live(d)', ~running'[Key(d)]
                 PROVE  d \in ended' \cup astray'
      BY DEF RunsUntilAnotherEnds, Key
    <2>2. \A e \in Consumers \ {c} : Live(e)' <=> Live(e)
      BY <2>1, GoesLeaves DEF Live
    <2>3. CASE /\ consumer'[c].pc = "stopped"
               /\ ended' = (ended \ {c}) \cup Siblings(c) /\ astray' = astray \ {c}
      <3>1. d # c /\ Live(d)
        BY <2>2, <2>3 DEF Live
      <3>2. CASE Key(d) = Key(c)
        BY <2>3, <3>1, <3>2 DEF Siblings
      <3>3. CASE Key(d) # Key(c)
        <4>1. ~running[Key(d)]
          BY <2>1, <3>3, GoesLeaves
        <4> QED
          BY <2>3, <3>1, <4>1 DEF RunsUntilAnotherEnds
      <3> QED
        BY <3>2, <3>3
    <2>4. CASE running'[Key(c)] = g.flag /\ UNCHANGED <<ended, astray>>
      <3>1. ~running[Key(d)]
        <4>1. CASE Key(d) = Key(c)
          BY <2>1, <2>4, <4>1, GoesLeaves
        <4>2. CASE Key(d) # Key(c)
          BY <2>1, <4>2, GoesLeaves
        <4> QED
          BY <4>1, <4>2
      <3> QED
        BY <2>1, <2>2, <2>4, <3>1 DEF RunsUntilAnotherEnds
    <2> QED
      BY <2>1, <2>3, <2>4, GoesLeaves
  <1>2. ASSUME NEW c \in Consumers, Start(c) \/ Resume(c) \/ Wake(c) \/ Close(c)
        PROVE  RunsUntilAnotherEnds'
    BY <1>1, <1>2, GeneratorStepGoes
  <1>3. CASE PublishEvent \/ PublishCommand \/ UNCHANGED vars
    <2>1. UNCHANGED <<running, consumer, ended, astray>>
      BY <1>3, PublishGrows DEF vars, history
    <2> QED
      BY <2>1 DEF RunsUntilAnotherEnds, Live
  <1>4. CASE ClearAllTopics
    BY <1>4 DEF ClearAllTopics, RunsUntilAnotherEnds, Live
  <1> QED
    BY <1>2, <1>3, <1>4 DEF Next

LEMMA InitFlags == Init => RunsUntilAnotherEnds
  BY DEF Init, RunsUntilAnotherEnds, Live, At

(***************************************************************************)
(* The flag that the generators of the same topics share is taken down     *)
(* under a running one only by the finally clause of another of them or by *)
(* clear_all_topics: starting, waking, cancelling and failing in any order *)
(* stops no generator of other topics.                                     *)
(***************************************************************************)
THEOREM GeneratorsRunUntilAnotherEnds == Spec => []RunsUntilAnotherEnds
  <1>1. Typed /\ RestFollows /\ RunsUntilAnotherEnds /\ [Next]_vars
          => Typed' /\ RestFollows' /\ RunsUntilAnotherEnds'
    BY NextTyped, NextKeepsRest, NextKeepsFlags
  <1> QED
    BY <1>1, InitTyped, InitRest, InitFlags, PTL DEF Spec

-----------------------------------------------------------------------------
(* Every step is one of the log's, or none. *)
LEMMA GivesInOrder ==
    ASSUME Typed, NEW c \in Consumers, NEW g, Counted(g), NEW k \in DOMAIN TopicsOf[c],
           NEW messages \in Seq(Messages) \ {<<>>}, Gives(c, g, k, messages),
           Follows(g.given[TopicsOf[c][k]], storage[TopicsOf[c][k]], messages)
    PROVE  /\ UNCHANGED astray
           /\ \E t \in Topics :
                LET n == Len(g.given[t]) + 1 IN
                  /\ n <= Len(storage[t])
                  /\ given' = [given EXCEPT ![c] =
                                 [g.given EXCEPT ![t] = Append(g.given[t], storage[t][n])]]
  <1> DEFINE t == TopicsOf[c][k]
             n == Len(g.given[t]) + 1
  <1>1. t \in Topics
    BY TopicsTyped
  <1>2. g.given[t] \in Seq(Messages) /\ storage[t] \in Seq(Messages)
    <2>1. g.given[t] \in Seq(Messages \ Unreadable) /\ Messages \ Unreadable \subseteq Messages
      BY <1>1 DEF Counted, LocalState
    <2> QED
      BY <1>1, <2>1, SeqMonotonic DEF Typed, TypeOK
  <1>3. n <= Len(storage[t]) /\ Head(messages) = storage[t][n]
    <2> HIDE DEF t
    <2>1. Follows(g.given[t], storage[t], messages)
      BY DEF t
    <2> QED
      BY <1>2, <2>1, TailFollows
  <1>4. PICK h : /\ Counted(h)
                 /\ h.given = [g.given EXCEPT ![t] = Append(g.given[t], Head(messages))]
                 /\ InBody(k, Tail(messages)) \in Waiting
                 /\ Suspend(c, h, InBody(k, Tail(messages)))
    BY GivesLeaves
  <1>5. given' = [given EXCEPT ![c] = h.given] /\ UNCHANGED astray
    BY <1>4, SuspendLeaves
  <1>6. h.given = [g.given EXCEPT ![t] = Append(g.given[t], storage[t][n])]
    BY <1>3, <1>4
  <1>7. given' = [given EXCEPT ![c] =
                    [g.given EXCEPT ![t] = Append(g.given[t], storage[t][n])]]
    BY <1>5, <1>6
  <1> HIDE DEF t
  <1> QED
    BY <1>1, <1>3, <1>5, <1>7

LEMMA GeneratorIsAReader ==
    ASSUME Typed, NEW c \in Consumers, GeneratorGoes(c)
    PROVE  [Port!Next]_(Port!vars)
  <1>1. PICK g : /\ Counted(g) /\ Goes(c, g)
                 /\ \/ Live(c) /\ g.given = given[c]
                    \/ ~Live(c) /\ g.given = Nothing
    BY DEF GeneratorGoes
  <1>2. UNCHANGED storage
    BY DEF GeneratorGoes
  <1>3. given \in [Consumers -> [Topics -> Seq(Messages \ Unreadable)]]
    BY DEF Typed
  <1>4. CASE c \in astray
    <2>1. \A d \in Consumers \ {c} : given'[d] = given[d]
      BY <1>1, GoesLeaves
    <2>2. astray' \in {astray, astray \ {c}}
      BY <1>1, GoesLeaves
    <2>3. Port!Stray
      BY <1>2, <1>4, <2>1, <2>2 DEF Port!Stray
    <2> QED
      BY <2>3 DEF Port!Next
  <1>5. CASE c \notin astray
    <2>1. Port!Nothing = Nothing
      BY DEF Port!Nothing, Nothing
    <2>2. ASSUME UNCHANGED astray, given' = [given EXCEPT ![c] = g.given]
          PROVE  [Port!Next]_(Port!vars)
      <3>1. CASE g.given = given[c]
        <4>1. UNCHANGED given
          BY <1>3, <2>2, <3>1
        <4> QED
          BY <1>2, <2>2, <4>1 DEF Port!vars
      <3>2. CASE g.given = Nothing
        <4>1. given' = [given EXCEPT ![c] = Port!Nothing]
          BY <2>1, <2>2, <3>2
        <4>2. Port!StartOver
          BY <1>2, <1>5, <2>2, <4>1 DEF Port!StartOver
        <4> QED
          BY <4>2 DEF Port!Next
      <3> QED
        BY <1>1, <3>1, <3>2
    <2>3. CASE Stop(c, g)
      <3>1. given' = [given EXCEPT ![c] = g.given] /\ UNCHANGED astray
        <4>1. given' = [given EXCEPT ![c] = g.given] /\ astray' = astray \ {c}
          BY <1>1, <2>3, StopLeaves
        <4> QED
          BY <1>5, <4>1
      <3> QED
        BY <2>2, <3>1
    <2>4. CASE Suspend(c, g, At("asleep"))
      <3>1. At("asleep") \in Waiting
        BY DEF At, Waiting
      <3>2. given' = [given EXCEPT ![c] = g.given] /\ UNCHANGED astray
        BY <1>1, <2>4, <3>1, SuspendLeaves
      <3> QED
        BY <2>2, <3>2
    <2>5. CASE \E k \in DOMAIN TopicsOf[c], messages \in Seq(Messages) \ {<<>>} :
                  /\ Follows(g.given[TopicsOf[c][k]], storage[TopicsOf[c][k]], messages)
                  /\ Gives(c, g, k, messages)
      <3>1. UNCHANGED astray
        BY <1>1, <2>5, GivesInOrder
      <3>2. PICK t \in Topics :
               /\ Len(g.given[t]) + 1 <= Len(storage[t])
               /\ given' = [given EXCEPT ![c] =
                     [g.given EXCEPT ![t] = Append(g.given[t], storage[t][Len(g.given[t]) + 1])]]
        BY <1>1, <2>5, GivesInOrder
      <3>3. CASE g.given = given[c]
        <4>1. /\ Len(given[c][t]) + 1 <= Len(storage[t])
              /\ given' = [given EXCEPT ![c][t] =
                             Append(given[c][t], storage[t][Len(given[c][t]) + 1])]
          BY <3>2, <3>3
        <4>2. Port!Give
          BY <1>2, <3>1, <4>1 DEF Port!Give
        <4> QED
          BY <4>2 DEF Port!Next
      <3>4. CASE g.given = Nothing
        <4>1. Nothing[t] = <<>> /\ Len(Nothing[t]) = 0 /\ Append(Nothing[t], storage[t][1]) = <<storage[t][1]>>
          BY DEF Nothing
        <4>2. storage[t] # <<>>
          BY <3>2, <3>4, <4>1
        <4>3. given' = [given EXCEPT ![c] = [Port!Nothing EXCEPT ![t] = <<storage[t][1]>>]]
          BY <2>1, <3>2, <3>4, <4>1
        <4>4. Port!StartOver
          BY <1>2, <1>5, <3>1, <4>2, <4>3 DEF Port!StartOver
        <4> QED
          BY <4>4 DEF Port!Next
      <3> QED
        BY <1>1, <3>3, <3>4
    <2> QED
      BY <1>1, <1>5, <2>3, <2>4, <2>5 DEF Goes
  <1> QED
    BY <1>4, <1>5

LEMMA NextIsPortNext ==
    ASSUME Typed, RestFollows, [Next]_vars
    PROVE  [Port!Next]_(Port!vars)
  <1>1. CASE PublishEvent \/ PublishCommand
    <2>1. Port!Publish
      BY <1>1, PublishGrows DEF Port!Publish
    <2> QED
      BY <2>1 DEF Port!Next
  <1>2. ASSUME NEW c \in Consumers, Start(c) \/ Resume(c) \/ Wake(c) \/ Close(c)
        PROVE  [Port!Next]_(Port!vars)
    BY <1>2, GeneratorStepGoes, GeneratorIsAReader
  <1>3. CASE ClearAllTopics
    <2>1. storage' = Port!Nothing
      BY <1>3 DEF ClearAllTopics, Nothing, Port!Nothing
    <2>2. astray' \in SUBSET Consumers /\ UNCHANGED given
      BY <1>3 DEF ClearAllTopics
    <2>3. Port!Clear
      BY <2>1, <2>2 DEF Port!Clear
    <2> QED
      BY <2>3 DEF Port!Next
  <1>4. CASE UNCHANGED vars
    BY <1>4 DEF vars, history, Port!vars
  <1> QED
    BY <1>1, <1>2, <1>3, <1>4 DEF Next

LEMMA InitIsPortInit == Init => Port!Init
  BY DEF Init, Nothing, Port!Init, Port!Nothing

(***************************************************************************)
(* The in-memory queue keeps what its port promises: a topic only grows,   *)
(* and a worker is given its messages in the order they were published,    *)
(* none left out and none twice, while others publish, read the same       *)
(* topics, are cancelled or fail; nothing is promised to those that were   *)
(* running when the topics were cleared.                                   *)
(***************************************************************************)
THEOREM QueueImplementsTopicLog == Spec => IsTopicLog
  <1>1. Typed /\ RestFollows /\ [Next]_vars => [Port!Next]_(Port!vars)
    BY NextIsPortNext
  <1> QED
    BY <1>1, InvariantHolds, InitIsPortInit, PTL DEF Spec, IsTopicLog, Port!Spec
=============================================================================
