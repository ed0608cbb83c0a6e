------------------------------ MODULE TopicLog ------------------------------
(***************************************************************************)
(* What the event queue port promises: every topic is a log that only      *)
(* grows, and a reader of a topic is given its messages in the order they  *)
(* were published, none left out and none twice.  A reader that comes back *)
(* after it stopped starts from the beginning.                             *)
(***************************************************************************)
EXTENDS Naturals, Sequences

CONSTANTS
    Topics,
    Messages,
    Readers

VARIABLES
    log,     \* the messages of every topic
    given,   \* what each reader has been given of every topic
    astray   \* the readers nothing is promised to

vars == <<log, given, astray>>

Nothing == [t \in Topics |-> <<>>]

Init ==
    /\ log = Nothing
    /\ given = [r \in Readers |-> Nothing]
    /\ astray = {}

(* One call publishes a message to several topics. *)
Publish ==
    /\ \E m \in Messages, ts \in SUBSET Topics :
          log' = [t \in Topics |-> IF t \in ts THEN Append(log[t], m) ELSE log[t]]
    /\ UNCHANGED <<given, astray>>

Give ==
    /\ \E r \in Readers, t \in Topics :
          LET n == Len(given[r][t]) + 1 IN
             /\ n <= Len(log[t])
             /\ given' = [given EXCEPT ![r][t] = Append(given[r][t], log[t][n])]
    /\ UNCHANGED <<log, astray>>

(* A reader starts; it may be given its first message at once. *)
StartOver ==
    /\ \E r \in Readers \ astray :
          \/ given' = [given EXCEPT ![r] = Nothing]
          \/ \E t \in Topics :
                /\ log[t] # <<>>
                /\ given' = [given EXCEPT ![r] = [Nothing EXCEPT ![t] = <<log[t][1]>>]]
    /\ UNCHANGED <<log, astray>>

(* All topics are cleared under some readers.  *)
Clear ==
    /\ log' = Nothing
    /\ astray' \in SUBSET Readers
    /\ UNCHANGED given

(* Nothing is promised to a reader that is astray until it starts over.    *)
Stray ==
    /\ \E r \in astray :
          /\ \A q \in Readers \ {r} : given'[q] = given[q]
          /\ astray' \in {astray, astray \ {r}}
    /\ UNCHANGED log

Next == Publish \/ Give \/ StartOver \/ Clear \/ Stray

Spec == Init /\ [][Next]_vars
=============================================================================
