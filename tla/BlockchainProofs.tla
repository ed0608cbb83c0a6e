--------------------------- MODULE BlockchainProofs ---------------------------
(***************************************************************************)
(* Theorems about the blockchain service: what is sent is watched, what is *)
(* confirmed is deep in the chain, and without faults no nonce is skipped, *)
(* for any number of events, instances and monitors, any confirmations and *)
(* any number of faults.                                                   *)
(***************************************************************************)
EXTENDS Blockchain, FiniteSetTheorems, TLAPS

(***************************************************************************)
(* The inductive invariant.  Every transaction that is held anywhere in    *)
(* the service has been accepted by the node.                              *)
(***************************************************************************)
Watched ==
    /\ IsFiniteSet(sent)
    /\ monitor \in [Instances -> SUBSET CallState]
    /\ \A i \in Instances : At(i, "save") => TxOf(i) \in sent
    /\ \A k \in DOMAIN records : records[k].tx \in sent
    /\ \A i \in Instances : \A c \in monitor[i] : c.tx \in sent

Typed == TypeOK /\ Watched

Known == pool \cup Mined

Used == Nonces(Known)

(* A transaction is in one block or in the pool, and no two share a nonce. *)
OnePlace ==
    /\ \A b, c \in blocks : b.tx = c.tx => b = c
    /\ pool \cap Mined = {}
    /\ \A t, u \in Known : t.nonce = u.nonce => t = u

(* What a call read of the node is still so, unless the block was taken    *)
(* back since, which leaves a trace.                                       *)
StillThere(c) == \E b \in blocks : b.tx = c.tx /\ b.ok = c.ok /\ b.depth >= c.depth

Settleable(t) == (\E b \in blocks : b.tx = t /\ b.ok /\ b.depth >= Required) \/ t \in stale

CallsAreFresh ==
    \A i \in Instances : \A c \in monitor[i] :
        /\ c.pc = "latest" => StillThere(c) \/ c.tx \in stale
        /\ c.pc = "confirm" => Settleable(c.tx)

ConfirmedAreSettleable ==
    \A k \in DOMAIN records : records[k].status = "CONFIRMED" => Settleable(records[k].tx)

(* The nonces the node has and those on their way to it; without a fault   *)
(* nothing is left out below any of them, nor below the counter once an    *)
(* instance has set it.                                                    *)
InHand == {worker[i].nonce : i \in {j \in Instances : At(j, "send")}}

GivenOut == Used \cup InHand

NoneSkipped ==
    faults = 0 =>
        /\ \A n \in GivenOut : 0 .. n - 1 \subseteq GivenOut
        /\ (\E i \in Instances : ~Synchronising(i)) => 0 .. counter \subseteq GivenOut
        /\ \A i \in Instances : At(i, "set") => 0 .. worker[i].nonce - 1 \subseteq Used

-----------------------------------------------------------------------------
(* Finite sets of natural numbers. *)
LEMMA LeastNatural ==
    ASSUME NEW S \in SUBSET Nat, NEW x \in S
    PROVE  \E n \in S : \A m \in S : n <= m
  <1>1. PICK n \in S : \A m \in S : <<m, n>> \notin OpToRel(<, Nat)
    BY NatLessThanWellFounded, WFMin
  <1>2. \A m \in S : ~(m < n)
    BY <1>1 DEF OpToRel
  <1> QED
    BY <1>2

(* A finite set of naturals has a first one it lacks, within its size. *)
LEMMA FirstFree ==
    ASSUME NEW S \in SUBSET Nat, IsFiniteSet(S), NEW bound \in Nat, Cardinality(S) <= bound
    PROVE  \E n \in 0 .. bound : n \notin S /\ \A m \in 0 .. n - 1 : m \in S
  <1> DEFINE Free == {n \in 0 .. bound : n \notin S}
  <1>1. Free # {}
    <2> SUFFICES ASSUME Free = {} PROVE FALSE
      OBVIOUS
    <2>1. 0 .. bound \in SUBSET S
      OBVIOUS
    <2>2. Cardinality(0 .. bound) <= Cardinality(S)
      BY <2>1, FS_Subset
    <2>3. Cardinality(0 .. bound) = bound + 1
      BY FS_Interval
    <2>4. Cardinality(S) \in Nat
      BY FS_CardinalityType
    <2> QED
      BY <2>2, <2>3, <2>4
  <1>2. Free \in SUBSET Nat
    OBVIOUS
  <1>3. \E n \in Free : \A m \in Free : n <= m
    <2> HIDE DEF Free
    <2> QED
      BY <1>1, <1>2, LeastNatural
  <1>4. PICK n \in Free : \A m \in Free : n <= m
    BY <1>3
  <1>5. \A m \in 0 .. n - 1 : m \in S
    BY <1>4
  <1> QED
    BY <1>4, <1>5

(* The nonces of finitely many transactions. *)
LEMMA CountNonces ==
    ASSUME NEW S \in SUBSET Tx, IsFiniteSet(S)
    PROVE  /\ Nonces(S) \in SUBSET Nat
           /\ IsFiniteSet(Nonces(S))
           /\ Cardinality(Nonces(S)) <= Cardinality(S)
           /\ (\A t, u \in S : t.nonce = u.nonce => t = u)
                 => Cardinality(Nonces(S)) = Cardinality(S)
  <1> DEFINE f == [t \in S |-> t.nonce]
  <1>1. f \in Surjection(S, Nonces(S))
    BY DEF Surjection, Nonces
  <1>2. Nonces(S) \in SUBSET Nat
    BY DEF Nonces, Tx
  <1>3. ASSUME \A t, u \in S : t.nonce = u.nonce => t = u
        PROVE  f \in Injection(S, Nonces(S))
    BY <1>1, <1>3 DEF Surjection, Injection, IsInjective
  <1> HIDE DEF f
  <1> QED
    BY <1>1, <1>2, <1>3, FS_Surjection

LEMMA TheNodeIsFinite ==
    ASSUME Typed
    PROVE  /\ Known \in SUBSET Tx /\ IsFiniteSet(Known)
           /\ Cardinality(Known) <= Cardinality(sent) /\ Cardinality(sent) \in Nat
           /\ Used \in SUBSET Nat /\ IsFiniteSet(Used)
           /\ Cardinality(Used) <= Cardinality(Known) /\ Cardinality(Used) \in Nat
           /\ Cardinality(Known) \in Nat
  <1>1. Known \in SUBSET sent /\ sent \in SUBSET Tx /\ IsFiniteSet(sent)
    BY DEF Typed, TypeOK, Watched, Known
  <1>2. IsFiniteSet(Known) /\ Cardinality(Known) <= Cardinality(sent)
    BY <1>1, FS_Subset
  <1>3. Known \in SUBSET Tx
    BY <1>1
  <1>4. Used \in SUBSET Nat /\ IsFiniteSet(Used) /\ Cardinality(Used) <= Cardinality(Known)
    BY <1>2, <1>3, CountNonces DEF Used
  <1> QED
    BY <1>1, <1>2, <1>3, <1>4, FS_CardinalityType

(* The node's count is the first nonce it does not have. *)
LEMMA CountIsFirstFree ==
    ASSUME Typed
    PROVE  /\ TransactionCount \in Nat
           /\ TransactionCount \notin Used
           /\ 0 .. TransactionCount - 1 \subseteq Used
  <1>1. Cardinality(Used) <= Cardinality(sent) /\ Cardinality(sent) \in Nat
    BY TheNodeIsFinite
  <1>2. \E n \in 0 .. Cardinality(sent) : n \notin Used /\ \A m \in 0 .. n - 1 : m \in Used
    BY <1>1, TheNodeIsFinite, FirstFree
  <1>3. TransactionCount = CHOOSE n \in 0 .. Cardinality(sent) :
                              n \notin Used /\ \A m \in 0 .. n - 1 : m \in Used
    BY DEF TransactionCount, Used, Known
  <1>4. /\ TransactionCount \in 0 .. Cardinality(sent)
        /\ TransactionCount \notin Used /\ \A m \in 0 .. TransactionCount - 1 : m \in Used
    BY <1>2, <1>3
  <1> QED
    BY <1>1, <1>4

-----------------------------------------------------------------------------
(* The blocks and the calls of the monitor one block later. *)
Block == [tx : Tx, depth : Nat, ok : BOOLEAN]

LEMMA DeeperBlock ==
    ASSUME NEW b \in Block
    PROVE  /\ Deeper(b) \in Block
           /\ Deeper(b).tx = b.tx /\ Deeper(b).ok = b.ok
           /\ Deeper(b).depth = IF b.depth < Required THEN b.depth + 1 ELSE b.depth
  BY BlockchainConstants DEF Block, Deeper

LEMMA DeeperCall ==
    ASSUME NEW c \in CallState
    PROVE  /\ Deeper(c) \in CallState
           /\ Deeper(c).tx = c.tx /\ Deeper(c).ok = c.ok /\ Deeper(c).pc = c.pc
           /\ Deeper(c).depth = IF c.depth < Required THEN c.depth + 1 ELSE c.depth
  BY BlockchainConstants DEF CallState, Deeper

LEMMA GrowKeepsCalls ==
    ASSUME Typed, Grow
    PROVE  /\ monitor' \in [Instances -> SUBSET CallState]
           /\ \A i \in Instances : \A c \in monitor'[i] :
                \E d \in monitor[i] :
                   c.pc = d.pc /\ c.tx = d.tx /\ c = IF d.pc = "latest" THEN Deeper(d) ELSE d
  <1>1. \A i \in Instances : \A d \in monitor[i] : d \in CallState
    BY DEF Typed, Watched
  <1>2. ASSUME NEW i \in Instances, NEW c \in monitor'[i]
        PROVE  \E d \in monitor[i] :
                  /\ c \in CallState /\ c.pc = d.pc /\ c.tx = d.tx
                  /\ c = IF d.pc = "latest" THEN Deeper(d) ELSE d
    <2>1. PICK d \in monitor[i] : c = IF d.pc = "latest" THEN Deeper(d) ELSE d
      BY <1>2 DEF Grow
    <2> QED
      BY <1>1, <2>1, DeeperCall
  <1>3. monitor' = [i \in Instances |-> monitor'[i]]
    BY DEF Grow
  <1>4. \A i \in Instances : monitor'[i] \in SUBSET CallState
    BY <1>2
  <1> QED
    BY <1>2, <1>3, <1>4

LEMMA NodeTyped ==
    ASSUME Typed, MineTx \/ EmptyBlock \/ Reorganise
    PROVE  Typed'
  <1>1. /\ pool \subseteq Tx /\ blocks \subseteq Block /\ Known \subseteq sent /\ sent \subseteq Tx
        /\ IsFiniteSet(sent)
    BY DEF Typed, TypeOK, Watched, Known, Block
  <1>2. UNCHANGED <<events, counter, worker, records, sent, orphans, announced, unannounced>>
    BY DEF MineTx, EmptyBlock, Reorganise, service, history
  <1>3. pool' \subseteq Tx /\ blocks' \subseteq Block /\ Known' \subseteq Known
    <2>1. CASE MineTx
      <3>1. PICK t \in pool, ok \in BOOLEAN :
               /\ pool' = pool \ {t}
               /\ blocks' = {Deeper(b) : b \in blocks} \cup {[tx |-> t, depth |-> 0, ok |-> ok]}
        BY <2>1 DEF MineTx
      <3>2. [tx |-> t, depth |-> 0, ok |-> ok] \in Block
        BY <1>1 DEF Block
      <3>3. \A b \in blocks' : \/ b = [tx |-> t, depth |-> 0, ok |-> ok]
                               \/ \E d \in blocks : b = Deeper(d)
        BY <3>1
      <3>4. blocks' \subseteq Block
        BY <1>1, <3>2, <3>3, DeeperBlock
      <3>5. \A b \in blocks' : b.tx = t \/ b.tx \in Mined
        BY <1>1, <3>3, DeeperBlock DEF Mined
      <3> QED
        BY <1>1, <3>1, <3>4, <3>5 DEF Known, Mined
    <2>2. CASE EmptyBlock
      <3>1. blocks' \subseteq Block /\ Mined' \subseteq Mined
        BY <1>1, <2>2, DeeperBlock DEF EmptyBlock, Mined
      <3> QED
        BY <1>1, <2>2, <3>1 DEF EmptyBlock, Known
    <2>3. CASE Reorganise
      <3>1. PICK n \in 1 .. Required :
               /\ blocks' = blocks \ {b \in blocks : b.depth < n}
               /\ pool' = pool \cup {b.tx : b \in {d \in blocks : d.depth < n}}
        BY <2>3 DEF Reorganise
      <3>2. Known' \subseteq Known
        BY <3>1 DEF Known, Mined
      <3> QED
        BY <1>1, <3>1, <3>2 DEF Block
    <2> QED
      BY <2>1, <2>2, <2>3
  <1>4. /\ monitor' \in [Instances -> SUBSET CallState]
        /\ \A i \in Instances : \A c \in monitor'[i] : c.tx \in sent
    <2>1. CASE Reorganise
      BY <2>1 DEF Reorganise, service, Typed, Watched
    <2>2. CASE Grow
      BY <2>2, GrowKeepsCalls DEF Typed, Watched
    <2> QED
      BY <2>1, <2>2 DEF MineTx, EmptyBlock
  <1>5. stale' \subseteq sent /\ faults' \in 0 .. MaxFaults
    <2>1. CASE Reorganise
      <3>1. stale' \subseteq stale \cup Mined
        BY <2>1 DEF Reorganise, Mined
      <3>2. faults < MaxFaults /\ faults' = faults + 1
        BY <2>1 DEF Reorganise
      <3> QED
        BY <1>1, <3>1, <3>2, BlockchainConstants DEF Typed, TypeOK, Known
    <2>2. CASE MineTx \/ EmptyBlock
      BY <2>2 DEF Typed, TypeOK, MineTx, EmptyBlock, history
    <2> QED
      BY <2>1, <2>2
  <1>6. TypeOK'
    BY <1>1, <1>2, <1>3, <1>4, <1>5 DEF Typed, TypeOK, Known, Block
  <1>7. Watched'
    BY <1>1, <1>2, <1>4 DEF Typed, Watched, At, TxOf
  <1> QED
    BY <1>6, <1>7 DEF Typed

-----------------------------------------------------------------------------
(* The local state of a worker. *)
LEMMA WorkerCases ==
    ASSUME worker \in [Instances -> WorkerState], NEW i \in Instances
    PROVE  /\ worker[i] = [pc |-> worker[i].pc, event |-> worker[i].event,
                           nonce |-> worker[i].nonce, retried |-> worker[i].retried]
           /\ worker[i].pc \in {"count", "set", "idle", "nonce", "send", "save"}
           /\ worker[i].nonce \in Nat
           /\ worker[i].retried \in BOOLEAN
           /\ worker[i].event = None => worker[i].pc \in {"count", "set", "idle"} /\ ~worker[i].retried
           /\ worker[i].event # None => worker[i].event \in Events
           /\ worker[i].event # None /\ worker[i].pc \in {"count", "set"} => worker[i].retried
           /\ worker[i].pc = "idle" => worker[i].event = None
  BY BlockchainConstants DEF WorkerState

(* The states a worker may be put in. *)
LEMMA WorkerStates ==
    ASSUME NEW e \in Events, NEW n \in Nat, NEW r \in BOOLEAN
    PROVE  /\ \A pc \in {"nonce", "send", "save"} :
                [pc |-> pc, event |-> e, nonce |-> n, retried |-> r] \in WorkerState
           /\ \A pc \in {"count", "set"} :
                [pc |-> pc, event |-> e, nonce |-> n, retried |-> TRUE] \in WorkerState
  BY DEF WorkerState

LEMMA WorkerWaits ==
    ASSUME NEW n \in Nat
    PROVE  \A pc \in {"count", "set", "idle"} :
             [pc |-> pc, event |-> None, nonce |-> n, retried |-> FALSE] \in WorkerState
  BY DEF WorkerState

LEMMA WorkerExcept ==
    ASSUME NEW w \in WorkerState, NEW pc
    PROVE  /\ [w EXCEPT !.pc = pc] =
                [pc |-> pc, event |-> w.event, nonce |-> w.nonce, retried |-> w.retried]
           /\ \A n : [w EXCEPT !.pc = pc, !.nonce = n] =
                [pc |-> pc, event |-> w.event, nonce |-> n, retried |-> w.retried]
           /\ \A e : [w EXCEPT !.pc = pc, !.event = e] =
                [pc |-> pc, event |-> e, nonce |-> w.nonce, retried |-> w.retried]
           /\ [w EXCEPT !.pc = pc, !.retried = TRUE] =
                [pc |-> pc, event |-> w.event, nonce |-> w.nonce, retried |-> TRUE]
  <1> DEFINE AnyState == [pc : {"count", "set", "idle", "nonce", "send", "save"},
                          event : Events \cup {None}, nonce : Nat, retried : BOOLEAN]
  <1>1. w \in AnyState
    BY DEF WorkerState
  <1>2. [w EXCEPT !.pc = pc] =
          [pc |-> pc, event |-> w.event, nonce |-> w.nonce, retried |-> w.retried]
    BY <1>1
  <1>3. ASSUME NEW n
        PROVE  [w EXCEPT !.pc = pc, !.nonce = n] =
                  [pc |-> pc, event |-> w.event, nonce |-> n, retried |-> w.retried]
    <2> DEFINE x == [w EXCEPT !.pc = pc, !.nonce = n]
    <2>1. x \in [pc : {pc}, event : Events \cup {None}, nonce : {n}, retried : BOOLEAN]
      BY <1>1
    <2>2. x.event = w.event /\ x.nonce = n /\ x.retried = w.retried
      BY <1>1
    <2> HIDE DEF x
    <2>3. x = [pc |-> x.pc, event |-> x.event, nonce |-> x.nonce, retried |-> x.retried]
      BY <2>1
    <2>4. x = [pc |-> pc, event |-> w.event, nonce |-> n, retried |-> w.retried]
      BY <2>1, <2>2, <2>3
    <2> QED
      BY <2>4 DEF x
  <1>4. ASSUME NEW e
        PROVE  [w EXCEPT !.pc = pc, !.event = e] =
                  [pc |-> pc, event |-> e, nonce |-> w.nonce, retried |-> w.retried]
    <2> DEFINE x == [w EXCEPT !.pc = pc, !.event = e]
    <2>1. x \in [pc : {pc}, event : {e}, nonce : Nat, retried : BOOLEAN]
      BY <1>1
    <2>2. x.event = e /\ x.nonce = w.nonce /\ x.retried = w.retried
      BY <1>1
    <2> HIDE DEF x
    <2>3. x = [pc |-> x.pc, event |-> x.event, nonce |-> x.nonce, retried |-> x.retried]
      BY <2>1
    <2>4. x = [pc |-> pc, event |-> e, nonce |-> w.nonce, retried |-> w.retried]
      BY <2>1, <2>2, <2>3
    <2> QED
      BY <2>4 DEF x
  <1>5. [w EXCEPT !.pc = pc, !.retried = TRUE] =
                  [pc |-> pc, event |-> w.event, nonce |-> w.nonce, retried |-> TRUE]
    <2> DEFINE x == [w EXCEPT !.pc = pc, !.retried = TRUE]
    <2>1. x \in [pc : {pc}, event : Events \cup {None}, nonce : Nat, retried : BOOLEAN]
      BY <1>1
    <2>2. x.event = w.event /\ x.nonce = w.nonce /\ x.retried = TRUE
      BY <1>1
    <2> HIDE DEF x
    <2>3. x = [pc |-> x.pc, event |-> x.event, nonce |-> x.nonce, retried |-> x.retried]
      BY <2>1
    <2>4. x = [pc |-> pc, event |-> w.event, nonce |-> w.nonce, retried |-> TRUE]
      BY <2>1, <2>2, <2>3
    <2> QED
      BY <2>4 DEF x
  <1> QED
    BY <1>2, <1>3, <1>4, <1>5

(* What each step of a worker leaves in its local state. *)
LEMMA SyncCountMoves ==
    ASSUME Typed, NEW i \in Instances, SyncCount(i)
    PROVE  /\ worker' \in [Instances -> WorkerState]
           /\ \A j \in Instances \ {i} : worker'[j] = worker[j]
           /\ worker'[i] = [pc |-> "set", event |-> worker[i].event,
                            nonce |-> TransactionCount, retried |-> worker[i].retried]
  <1> DEFINE w == [pc |-> "set", event |-> worker[i].event,
                   nonce |-> TransactionCount, retried |-> worker[i].retried]
  <1>1. worker \in [Instances -> WorkerState] /\ worker[i].pc = "count"
    BY DEF Typed, TypeOK, SyncCount, At
  <1>2. TransactionCount \in Nat
    BY CountIsFirstFree
  <1>3. [worker[i] EXCEPT !.pc = "set", !.nonce = TransactionCount] = w
    BY <1>1, WorkerExcept
  <1>4. worker' = [worker EXCEPT ![i] = w]
    BY <1>1, <1>3 DEF SyncCount
  <1>5. w \in WorkerState
    <2>1. CASE worker[i].event = None
      BY <1>1, <1>2, <2>1, WorkerCases, WorkerWaits
    <2>2. CASE worker[i].event # None
      BY <1>1, <1>2, <2>2, WorkerCases, WorkerStates
    <2> QED
      BY <2>1, <2>2
  <1> HIDE DEF w
  <1>6. /\ worker' \in [Instances -> WorkerState] /\ worker'[i] = w
        /\ \A j \in Instances \ {i} : worker'[j] = worker[j]
    BY <1>1, <1>4, <1>5
  <1> QED
    BY <1>6 DEF w

LEMMA SyncSetMoves ==
    ASSUME Typed, NEW i \in Instances, SyncSet(i)
    PROVE  /\ worker' \in [Instances -> WorkerState]
           /\ \A j \in Instances \ {i} : worker'[j] = worker[j]
           /\ worker'[i].pc = IF worker[i].event = None THEN "idle" ELSE "nonce"
           /\ worker'[i].event = worker[i].event
  <1> DEFINE w == [pc |-> IF worker[i].event = None THEN "idle" ELSE "nonce",
                   event |-> worker[i].event, nonce |-> 0, retried |-> worker[i].retried]
  <1>1. worker \in [Instances -> WorkerState] /\ worker[i].pc = "set"
    BY DEF Typed, TypeOK, SyncSet, At
  <1>2. [worker[i] EXCEPT !.pc = IF worker[i].event = None THEN "idle" ELSE "nonce",
                          !.nonce = 0] = w
    BY <1>1, WorkerExcept
  <1>3. worker' = [worker EXCEPT ![i] = w]
    BY <1>1, <1>2 DEF SyncSet
  <1>4. w \in WorkerState
    <2>1. CASE worker[i].event = None
      BY <1>1, <2>1, WorkerCases, WorkerWaits
    <2>2. CASE worker[i].event # None
      BY <1>1, <2>2, WorkerCases, WorkerStates
    <2> QED
      BY <2>1, <2>2
  <1>5. /\ w.pc = IF worker[i].event = None THEN "idle" ELSE "nonce"
        /\ w.event = worker[i].event
    OBVIOUS
  <1> HIDE DEF w
  <1> QED
    BY <1>1, <1>3, <1>4, <1>5

LEMMA TakeEventMoves ==
    ASSUME Typed, NEW i \in Instances, TakeEvent(i)
    PROVE  /\ worker' \in [Instances -> WorkerState]
           /\ \A j \in Instances \ {i} : worker'[j] = worker[j]
           /\ worker'[i].pc \in {"nonce", "idle"}
           /\ events' \in [Events -> {"queued", "taken", "done"}]
  <1>1. worker \in [Instances -> WorkerState] /\ worker[i].pc = "idle"
    BY DEF Typed, TypeOK, TakeEvent, At
  <1>2. PICK e \in Events :
           IF TakesIds
           THEN /\ events' = [events EXCEPT ![e] = "taken"]
                /\ worker' = [worker EXCEPT ![i].pc = "nonce", ![i].event = e]
           ELSE /\ events' = [events EXCEPT ![e] = "done"]
                /\ UNCHANGED worker
    BY DEF TakeEvent
  <1>3. events' \in [Events -> {"queued", "taken", "done"}]
    BY <1>2 DEF Typed, TypeOK
  <1>4. CASE TakesIds
    <2> DEFINE w == [pc |-> "nonce", event |-> e, nonce |-> worker[i].nonce,
                     retried |-> worker[i].retried]
    <2>1. [worker[i] EXCEPT !.pc = "nonce", !.event = e] = w
      <3>1. worker[i] \in WorkerState
        BY <1>1
      <3>2. \A d : [worker[i] EXCEPT !.pc = "nonce", !.event = d] =
               [pc |-> "nonce", event |-> d, nonce |-> worker[i].nonce, retried |-> worker[i].retried]
        BY <3>1, WorkerExcept
      <3> QED
        BY <3>2
    <2>2. worker' = [worker EXCEPT ![i] = w]
      BY <1>1, <1>2, <1>4, <2>1
    <2>3. w \in WorkerState /\ w.pc = "nonce"
      BY <1>1, WorkerCases, WorkerStates
    <2> HIDE DEF w
    <2> QED
      BY <1>1, <1>3, <2>2, <2>3
  <1>5. CASE ~TakesIds
    BY <1>1, <1>2, <1>3, <1>5
  <1> QED
    BY <1>4, <1>5

LEMMA NextNonceMoves ==
    ASSUME Typed, NEW i \in Instances, NextNonce(i)
    PROVE  /\ worker' \in [Instances -> WorkerState]
           /\ \A j \in Instances \ {i} : worker'[j] = worker[j]
           /\ worker'[i].pc = "send" /\ worker'[i].nonce = counter + 1
  <1> DEFINE w == [pc |-> "send", event |-> worker[i].event, nonce |-> counter + 1,
                   retried |-> worker[i].retried]
  <1>1. /\ worker \in [Instances -> WorkerState] /\ worker[i].pc = "nonce"
        /\ counter + 1 \in Nat
    BY DEF Typed, TypeOK, NextNonce, At
  <1>2. [worker[i] EXCEPT !.pc = "send", !.nonce = counter + 1] = w
    BY <1>1, WorkerExcept
  <1>3. worker' = [worker EXCEPT ![i] = w]
    BY <1>1, <1>2 DEF NextNonce
  <1>4. w \in WorkerState
    <2>1. worker[i].event \in Events /\ worker[i].retried \in BOOLEAN
      BY <1>1, WorkerCases
    <2> QED
      BY <1>1, <2>1, WorkerStates
  <1>5. w.pc = "send" /\ w.nonce = counter + 1
    OBVIOUS
  <1> HIDE DEF w
  <1> QED
    BY <1>1, <1>3, <1>4, <1>5

LEMMA HandledMoves ==
    ASSUME Typed, NEW i \in Instances, Handled(i), worker[i].event # None
    PROVE  /\ worker' \in [Instances -> WorkerState]
           /\ events' \in [Events -> {"queued", "taken", "done"}]
           /\ \A j \in Instances \ {i} : worker'[j] = worker[j]
           /\ worker'[i] = IdleWorker
  <1>1. IdleWorker \in WorkerState
    BY DEF WorkerState, IdleWorker
  <1>2. worker[i].event \in Events
    BY WorkerCases DEF Typed, TypeOK
  <1> QED
    BY <1>1, <1>2 DEF Handled, Typed, TypeOK

LEMMA RefusedMoves ==
    ASSUME Typed, NEW i \in Instances, At(i, "send"), Refused(i)
    PROVE  /\ worker' \in [Instances -> WorkerState]
           /\ events' \in [Events -> {"queued", "taken", "done"}]
           /\ \A j \in Instances \ {i} : worker'[j] = worker[j]
           /\ \/ worker'[i] = IdleWorker
              \/ worker'[i].pc = "count" /\ worker'[i].event # None
  <1>1. worker \in [Instances -> WorkerState] /\ worker[i].pc = "send"
    BY DEF Typed, TypeOK, At
  <1>2. worker[i].event # None /\ worker[i].event \in Events /\ worker[i].nonce \in Nat
    BY <1>1, WorkerCases
  <1>3. CASE Handled(i)
    BY <1>2, <1>3, HandledMoves
  <1>4. CASE /\ worker' = [worker EXCEPT ![i].pc = "count", ![i].retried = TRUE]
             /\ UNCHANGED events
    <2> DEFINE w == [pc |-> "count", event |-> worker[i].event, nonce |-> worker[i].nonce,
                     retried |-> TRUE]
    <2>1. [worker[i] EXCEPT !.pc = "count", !.retried = TRUE] = w
      BY <1>1, WorkerExcept
    <2>2. worker' = [worker EXCEPT ![i] = w]
      BY <1>1, <1>4, <2>1
    <2>3. w \in WorkerState /\ w.pc = "count" /\ w.event # None
      BY <1>2, WorkerStates
    <2> HIDE DEF w
    <2> QED
      BY <1>1, <1>4, <2>2, <2>3 DEF Typed, TypeOK
  <1> QED
    BY <1>3, <1>4 DEF Refused

LEMMA SendMoves ==
    ASSUME Typed, NEW i \in Instances, At(i, "send"), Goto(i, "save")
    PROVE  /\ worker' \in [Instances -> WorkerState]
           /\ \A j \in Instances \ {i} : worker'[j] = worker[j]
           /\ worker'[i].pc = "save" /\ TxOf(i)' = TxOf(i)
           /\ TxOf(i) \in Tx
  <1> DEFINE w == [pc |-> "save", event |-> worker[i].event, nonce |-> worker[i].nonce,
                   retried |-> worker[i].retried]
  <1>1. worker \in [Instances -> WorkerState] /\ worker[i].pc = "send"
    BY DEF Typed, TypeOK, At
  <1>2. /\ worker[i].event \in Events /\ worker[i].nonce \in Nat
        /\ worker[i].retried \in BOOLEAN
    BY <1>1, WorkerCases
  <1>3. [worker[i] EXCEPT !.pc = "save"] = w
    BY <1>1, WorkerExcept
  <1>4. worker' = [worker EXCEPT ![i] = w]
    BY <1>1, <1>3 DEF Goto
  <1>5. /\ w \in WorkerState /\ w.pc = "save"
        /\ w.event = worker[i].event /\ w.nonce = worker[i].nonce
    BY <1>2, WorkerStates
  <1>6. TxOf(i) \in Tx
    BY <1>2 DEF TxOf, Tx
  <1> HIDE DEF w
  <1>7. /\ worker' \in [Instances -> WorkerState] /\ worker'[i] = w
        /\ \A j \in Instances \ {i} : worker'[j] = worker[j]
    BY <1>1, <1>4, <1>5
  <1> QED
    BY <1>5, <1>6, <1>7 DEF TxOf

-----------------------------------------------------------------------------
(* The table. *)
LEMMA AppendRecord ==
    ASSUME records \in Seq(Record), NEW r \in Record, records' = Append(records, r)
    PROVE  /\ records' \in Seq(Record)
           /\ DOMAIN records' = DOMAIN records \cup {Len(records) + 1}
           /\ \A k \in DOMAIN records : records'[k] = records[k]
           /\ records'[Len(records) + 1] = r
  <1>1. Len(records) \in Nat /\ DOMAIN records = 1 .. Len(records)
    OBVIOUS
  <1>2. /\ records' \in Seq(Record) /\ Len(records') = Len(records) + 1
        /\ DOMAIN records' = 1 .. Len(records')
    OBVIOUS
  <1>3. \A k \in 1 .. Len(records') :
           records'[k] = IF k = Len(records) + 1 THEN r ELSE records[k]
    BY <1>1, <1>2
  <1> QED
    BY <1>1, <1>2, <1>3

LEMMA SettleRecord ==
    ASSUME records \in Seq(Record), NEW t, NEW status \in TransactionStatus, Settle(t, status)
    PROVE  /\ records' \in Seq(Record)
           /\ DOMAIN records' = DOMAIN records
           /\ \A k \in DOMAIN records :
                /\ records'[k].tx = records[k].tx
                /\ records'[k].status = IF records[k].tx = t THEN status ELSE records[k].status
  <1>1. Len(records) \in Nat /\ DOMAIN records = 1 .. Len(records)
    OBVIOUS
  <1>2. \A k \in DOMAIN records : records[k] \in Record
    BY <1>1
  <1>3. DOMAIN records' = DOMAIN records
    BY DEF Settle
  <1>4. ASSUME NEW k \in DOMAIN records
        PROVE  /\ records'[k] \in Record
               /\ records'[k].tx = records[k].tx
               /\ records'[k].status = IF records[k].tx = t THEN status ELSE records[k].status
    <2>1. records'[k] = IF records[k].tx = t THEN [records[k] EXCEPT !.status = status]
                        ELSE records[k]
      BY DEF Settle
    <2> QED
      BY <1>2, <2>1 DEF Record
  <1>5. records' \in [1 .. Len(records) -> Record]
    <2>1. records' = [k \in DOMAIN records |-> records'[k]]
      BY DEF Settle
    <2> QED
      BY <1>1, <1>4, <2>1
  <1>6. records' \in Seq(Record)
    BY <1>1, <1>5
  <1> QED
    BY <1>3, <1>4, <1>6

LEMMA ExecuteTxMoves ==
    ASSUME Typed, NEW i \in Instances, ExecuteTx(i)
    PROVE  /\ worker' \in [Instances -> WorkerState]
           /\ events' \in [Events -> {"queued", "taken", "done"}]
           /\ \A j \in Instances \ {i} : worker'[j] = worker[j]
           /\ worker[i].pc = "send"
           /\ \/ /\ worker'[i].pc = "save" /\ TxOf(i)' = TxOf(i) /\ TxOf(i) \in Tx
                 /\ sent' = sent \cup {TxOf(i)}
                 /\ \/ Holders(TxOf(i).nonce) = {} /\ pool' = pool \cup {TxOf(i)}
                    \/ \E old \in Holders(TxOf(i).nonce) \cap pool :
                          old # TxOf(i) /\ pool' = (pool \ {old}) \cup {TxOf(i)}
              \/ /\ worker'[i].pc \in {"idle", "count"} /\ UNCHANGED <<pool, sent>>
                 /\ worker'[i].pc = "count" => worker'[i].event # None
                 /\ Holders(TxOf(i).nonce) # {}
  <1> DEFINE t == TxOf(i)
  <1>1. At(i, "send") /\ worker[i].pc = "send"
    BY DEF ExecuteTx, At
  <1>2. CASE Holders(t.nonce) = {} /\ Accepted(i, t)
    BY <1>1, <1>2, SendMoves DEF Accepted, Typed, TypeOK
  <1>3. ASSUME NEW old \in Holders(t.nonce) \cap pool, old # t, Replaced(i, t, old)
        PROVE  /\ worker'[i].pc = "save" /\ t' = t /\ t \in Tx
               /\ sent' = sent \cup {t} /\ pool' = (pool \ {old}) \cup {t}
               /\ worker' \in [Instances -> WorkerState]
               /\ events' \in [Events -> {"queued", "taken", "done"}]
               /\ \A j \in Instances \ {i} : worker'[j] = worker[j]
    BY <1>1, <1>3, SendMoves DEF Replaced, Typed, TypeOK
  <1>4. CASE Holders(t.nonce) # {} /\ Refused(i)
    BY <1>1, <1>4, RefusedMoves DEF Refused, IdleWorker
  <1> QED
    BY <1>1, <1>2, <1>3, <1>4 DEF ExecuteTx

LEMMA WorkerTyped ==
    ASSUME Typed, NEW i \in Instances, Worker(i)
    PROVE  Typed'
  <1> USE DEF Typed, TypeOK, Watched, At
  <1>1. CASE SyncCount(i)
    <2>1. /\ worker' \in [Instances -> WorkerState]
          /\ \A j \in Instances \ {i} : worker'[j] = worker[j]
          /\ worker'[i] = [pc |-> "set", event |-> worker[i].event,
                           nonce |-> TransactionCount, retried |-> worker[i].retried]
      BY <1>1, SyncCountMoves
    <2>2. worker'[i].pc # "save"
      BY <2>1
    <2>3. UNCHANGED <<events, counter, monitor, records, node, history, faults>>
      BY <1>1 DEF SyncCount
    <2> QED
      BY <2>1, <2>2, <2>3 DEF node, history, TxOf, Mined
  <1>2. CASE SyncSet(i)
    <2>1. /\ worker' \in [Instances -> WorkerState] /\ worker'[i].pc # "save"
          /\ \A j \in Instances \ {i} : worker'[j] = worker[j]
      BY <1>2, SyncSetMoves
    <2>2. counter' \in Nat \cup {-1}
      BY <1>2, WorkerCases DEF SyncSet
    <2> QED
      BY <1>2, <2>1, <2>2 DEF SyncSet, node, history, TxOf, Mined
  <1>3. CASE TakeEvent(i)
    BY <1>3, TakeEventMoves DEF TakeEvent, node, history, TxOf, Mined
  <1>4. CASE NextNonce(i)
    <2>1. /\ worker' \in [Instances -> WorkerState] /\ worker'[i].pc # "save"
          /\ \A j \in Instances \ {i} : worker'[j] = worker[j]
      BY <1>4, NextNonceMoves
    <2>2. /\ UNCHANGED <<events, monitor, records, node, history, faults>>
          /\ counter' = counter + 1
      BY <1>4 DEF NextNonce
    <2> QED
      BY <2>1, <2>2 DEF node, history, TxOf, Mined
  <1>5. CASE ExecuteTx(i)
    <2>1. /\ worker' \in [Instances -> WorkerState]
          /\ events' \in [Events -> {"queued", "taken", "done"}]
          /\ \A j \in Instances \ {i} : worker'[j] = worker[j]
      BY <1>5, ExecuteTxMoves
    <2>2. UNCHANGED <<counter, monitor, records, blocks, orphans, announced, unannounced, stale, faults>>
      BY <1>5 DEF ExecuteTx, history
    <2>3. CASE worker'[i].pc = "save"
      <3>1. /\ TxOf(i)' = TxOf(i) /\ TxOf(i) \in Tx /\ sent' = sent \cup {TxOf(i)}
            /\ pool' \subseteq pool \cup {TxOf(i)}
        BY <1>5, <2>3, ExecuteTxMoves
      <3>2. IsFiniteSet(sent')
        BY <3>1, FS_AddElement
      <3> QED
        BY <2>1, <2>2, <3>1, <3>2 DEF Mined, TxOf
    <2>4. CASE worker'[i].pc # "save"
      <3>1. UNCHANGED <<pool, sent>>
        BY <1>5, <2>4, ExecuteTxMoves
      <3> QED
        BY <2>1, <2>2, <2>4, <3>1 DEF Mined, TxOf
    <2> QED
      BY <2>3, <2>4
  <1>6. CASE SaveRecord(i)
    <2> DEFINE rec == [tx |-> TxOf(i), status |-> "PENDING"]
    <2>1. worker[i].pc = "save" /\ worker[i].event # None /\ TxOf(i) \in sent
      BY <1>6, WorkerCases DEF SaveRecord
    <2>2. /\ worker' \in [Instances -> WorkerState] /\ worker'[i].pc # "save"
          /\ events' \in [Events -> {"queued", "taken", "done"}]
          /\ \A j \in Instances \ {i} : worker'[j] = worker[j]
      BY <1>6, <2>1, HandledMoves DEF SaveRecord, IdleWorker
    <2>3. rec \in Record /\ rec.tx \in sent
      BY <2>1 DEF Record, TransactionStatus
    <2>4. records' = records \/ records' = Append(records, rec)
      BY <1>6 DEF SaveRecord
    <2> HIDE DEF rec
    <2>5. records' \in Seq(Record) /\ \A k \in DOMAIN records' : records'[k].tx \in sent
      BY <2>3, <2>4, AppendRecord
    <2> QED
      BY <1>6, <2>2, <2>5 DEF SaveRecord, node, history, TxOf, Mined
  <1> QED
    BY <1>1, <1>2, <1>3, <1>4, <1>5, <1>6 DEF Worker

-----------------------------------------------------------------------------
(* The calls of the monitor after each of its steps. *)
LEMMA ContinueMoves ==
    ASSUME Typed, NEW i \in Instances, NEW c, NEW next \in SUBSET CallState, Continue(i, c, next)
    PROVE  /\ monitor' \in [Instances -> SUBSET CallState]
           /\ \A j \in Instances : \A d \in monitor'[j] : d \in monitor[j] \/ (j = i /\ d \in next)
  <1>1. monitor \in [Instances -> SUBSET CallState]
    BY DEF Typed, Watched
  <1>2. monitor' = [monitor EXCEPT ![i] = (monitor[i] \ {c}) \cup next]
    BY DEF Continue
  <1> QED
    BY <1>1, <1>2

LEMMA CallMade ==
    ASSUME NEW t \in Tx
    PROVE  Call(t) \in CallState /\ Call(t).tx = t /\ Call(t).pc = "receipt"
  BY DEF Call, CallState

(* What a step of the monitor may leave behind of a call, and in the table. *)
GetPendingMoves(i) ==
    /\ UNCHANGED <<records, announced>>
    /\ \A j \in Instances : \A d \in monitor'[j] :
          d \in monitor[j] \/ (d.pc = "receipt" /\ \E k \in DOMAIN records : d.tx = records[k].tx)

GetReceiptMoves(i) ==
    /\ UNCHANGED <<records, announced>>
    /\ \E c \in monitor[i] :
          \A j \in Instances : \A d \in monitor'[j] :
             \/ d \in monitor[j]
             \/ d.tx = c.tx /\ d.pc = "latest" /\ StillThere(d)

GetLatestMoves(i) ==
    /\ UNCHANGED <<records, announced>>
    /\ \E c \in monitor[i] :
          /\ c.pc = "latest"
          /\ \A j \in Instances : \A d \in monitor'[j] :
                \/ d \in monitor[j]
                \/ d.tx = c.tx /\ d.pc = "fail"
                \/ d.tx = c.tx /\ d.pc = "confirm" /\ c.ok /\ c.depth >= Required

SettleMoves(i, pc, status) ==
    /\ UNCHANGED announced
    /\ \E c \in monitor[i] :
          /\ c.pc = pc /\ Settle(c.tx, status)
          /\ \A j \in Instances : \A d \in monitor'[j] :
                d \in monitor[j] \/ (d.tx = c.tx /\ d.pc = "publish")

PublishMoves(i) ==
    /\ UNCHANGED records
    /\ \E c \in monitor[i] : announced' = announced \cup {c.tx}
    /\ \A j \in Instances : monitor'[j] \subseteq monitor[j]

MonitorMoves(i) ==
    /\ monitor' \in [Instances -> SUBSET CallState]
    /\ UNCHANGED <<events, counter, worker, pool, blocks, sent, orphans, unannounced, stale, faults>>
    /\ \/ GetPendingMoves(i) \/ GetReceiptMoves(i) \/ GetLatestMoves(i)
       \/ SettleMoves(i, "confirm", "CONFIRMED") \/ SettleMoves(i, "fail", "FAILED")
       \/ PublishMoves(i)

LEMMA MonitorStepMoves ==
    ASSUME Typed, NEW i \in Instances, Monitor(i)
    PROVE  MonitorMoves(i)
  <1>1. /\ monitor \in [Instances -> SUBSET CallState]
        /\ \A c \in monitor[i] : c \in CallState /\ c.tx \in Tx
    BY DEF Typed, Watched, CallState
  <1>2. UNCHANGED <<events, counter, worker, pool, blocks, sent, orphans, unannounced, stale, faults>>
    BY DEF Monitor, GetPending, GetReceipt, GetLatest, ConfirmTransaction, FailTransaction,
           PublishVerified, node, history
  <1>3. CASE GetPending(i)
    <2>1. monitor' = [monitor EXCEPT ![i] = {Call(records[k].tx) : k \in Oldest}]
      BY <1>3 DEF GetPending
    <2>2. \A k \in Oldest : k \in DOMAIN records
      BY DEF Oldest, Pending
    <2>3. \A k \in DOMAIN records : records[k].tx \in Tx
      BY DEF Typed, TypeOK, Watched
    <2>4. \A j \in Instances : \A d \in monitor'[j] :
             d \in monitor[j] \/ \E k \in DOMAIN records : d = Call(records[k].tx)
      BY <1>1, <2>1, <2>2
    <2>5. \A j \in Instances : \A d \in monitor'[j] :
             \/ d \in monitor[j]
             \/ /\ d \in CallState /\ d.pc = "receipt"
                /\ \E k \in DOMAIN records : d.tx = records[k].tx
      BY <2>3, <2>4, CallMade
    <2>6. monitor' \in [Instances -> SUBSET CallState]
      <3>1. \A j \in Instances : monitor'[j] \in SUBSET CallState
        BY <1>1, <2>5
      <3> QED
        BY <1>1, <2>1, <3>1
    <2> QED
      BY <1>2, <1>3, <2>5, <2>6 DEF GetPending, MonitorMoves, GetPendingMoves, history
  <1>4. CASE GetReceipt(i)
    <2>1. PICK c \in monitor[i] :
             Continue(i, c,
                IF c.tx \in Mined
                THEN {[c EXCEPT !.pc = "latest", !.depth = InBlock(c.tx).depth, !.ok = InBlock(c.tx).ok]}
                ELSE {})
      BY <1>4 DEF GetReceipt
    <2> DEFINE next == IF c.tx \in Mined
                       THEN {[c EXCEPT !.pc = "latest", !.depth = InBlock(c.tx).depth,
                                       !.ok = InBlock(c.tx).ok]}
                       ELSE {}
    <2>2. ASSUME NEW d \in next
          PROVE  d \in CallState /\ d.tx = c.tx /\ d.pc = "latest" /\ StillThere(d)
      <3> DEFINE b == InBlock(c.tx)
      <3>1. d = [c EXCEPT !.pc = "latest", !.depth = b.depth, !.ok = b.ok] /\ c.tx \in Mined
        BY <2>2
      <3>2. b \in blocks /\ b.tx = c.tx
        BY <3>1 DEF InBlock, Mined
      <3>3. b \in Block
        BY <3>2 DEF Typed, TypeOK, Block
      <3> HIDE DEF b
      <3>4. /\ d \in CallState /\ d.tx = c.tx /\ d.pc = "latest"
            /\ d.depth = b.depth /\ d.ok = b.ok
        BY <1>1, <3>1, <3>3 DEF CallState, Block
      <3> QED
        BY <3>2, <3>3, <3>4 DEF StillThere, Block
    <2> HIDE DEF next
    <2>3. Continue(i, c, next)
      BY <2>1 DEF next
    <2>4. /\ monitor' \in [Instances -> SUBSET CallState]
          /\ \A j \in Instances : \A d \in monitor'[j] : d \in monitor[j] \/ (j = i /\ d \in next)
      BY <2>2, <2>3, ContinueMoves
    <2>5. UNCHANGED <<records, announced>>
      BY <1>4 DEF GetReceipt, history
    <2> QED
      BY <1>2, <2>2, <2>4, <2>5 DEF MonitorMoves, GetReceiptMoves
  <1>5. CASE GetLatest(i)
    <2>1. PICK c \in monitor[i] : c.pc = "latest" /\ Continue(i, c, AfterReceipt(c))
      BY <1>5 DEF GetLatest
    <2>2. ASSUME NEW d \in AfterReceipt(c)
          PROVE  /\ d \in CallState /\ d.tx = c.tx
                 /\ d.pc = "fail" \/ (d.pc = "confirm" /\ c.ok /\ c.depth >= Required)
      <3>1. CASE ~c.ok
        <4>1. d = [Call(c.tx) EXCEPT !.pc = "fail"]
          BY <2>2, <3>1 DEF AfterReceipt
        <4>2. c.tx \in Tx
          BY <1>1
        <4>3. d \in CallState /\ d.tx = c.tx /\ d.pc = "fail"
          BY <4>1, <4>2 DEF Call, CallState
        <4> QED
          BY <4>3
      <3>2. CASE c.ok
        <4>1. d = [Call(c.tx) EXCEPT !.pc = "confirm"] /\ c.depth >= Required
          BY <2>2, <3>2 DEF AfterReceipt, Enough
        <4>2. c.tx \in Tx
          BY <1>1
        <4>3. d \in CallState /\ d.tx = c.tx /\ d.pc = "confirm"
          BY <4>1, <4>2 DEF Call, CallState
        <4> QED
          BY <3>2, <4>1, <4>3
      <3> QED
        BY <3>1, <3>2
    <2>3. /\ monitor' \in [Instances -> SUBSET CallState]
          /\ \A j \in Instances : \A d \in monitor'[j] :
               d \in monitor[j] \/ (j = i /\ d \in AfterReceipt(c))
      BY <2>1, <2>2, ContinueMoves
    <2>4. UNCHANGED <<records, announced>>
      BY <1>5 DEF GetLatest, history
    <2> QED
      BY <1>2, <2>1, <2>2, <2>3, <2>4 DEF MonitorMoves, GetLatestMoves
  <1>6. CASE ConfirmTransaction(i)
    <2>1. PICK c \in monitor[i] :
             /\ c.pc = "confirm" /\ Settle(c.tx, "CONFIRMED")
             /\ Continue(i, c, {[c EXCEPT !.pc = "publish"]})
      BY <1>6 DEF ConfirmTransaction
    <2>2. /\ [c EXCEPT !.pc = "publish"] \in CallState
          /\ [c EXCEPT !.pc = "publish"].tx = c.tx /\ [c EXCEPT !.pc = "publish"].pc = "publish"
      BY <1>1 DEF CallState
    <2>3. /\ monitor' \in [Instances -> SUBSET CallState]
          /\ \A j \in Instances : \A d \in monitor'[j] :
               d \in monitor[j] \/ (j = i /\ d \in {[c EXCEPT !.pc = "publish"]})
      BY <2>1, <2>2, ContinueMoves
    <2>4. UNCHANGED announced
      BY <1>6 DEF ConfirmTransaction, history
    <2> QED
      BY <1>2, <2>1, <2>2, <2>3, <2>4 DEF MonitorMoves, SettleMoves
  <1>7. CASE FailTransaction(i)
    <2>1. PICK c \in monitor[i] :
             /\ c.pc = "fail" /\ Settle(c.tx, "FAILED") /\ Continue(i, c, {})
      BY <1>7 DEF FailTransaction
    <2>2. /\ monitor' \in [Instances -> SUBSET CallState]
          /\ \A j \in Instances : \A d \in monitor'[j] : d \in monitor[j]
      BY <2>1, ContinueMoves
    <2>3. UNCHANGED announced
      BY <1>7 DEF FailTransaction, history
    <2> QED
      BY <1>2, <2>1, <2>2, <2>3 DEF MonitorMoves, SettleMoves
  <1>8. CASE PublishVerified(i)
    <2>1. PICK c \in monitor[i] : announced' = announced \cup {c.tx} /\ Continue(i, c, {})
      BY <1>8 DEF PublishVerified
    <2>2. /\ monitor' \in [Instances -> SUBSET CallState]
          /\ \A j \in Instances : monitor'[j] \subseteq monitor[j]
      BY <2>1, ContinueMoves
    <2>3. UNCHANGED records
      BY <1>8 DEF PublishVerified
    <2> QED
      BY <1>2, <2>1, <2>2, <2>3 DEF MonitorMoves, PublishMoves
  <1> QED
    BY <1>3, <1>4, <1>5, <1>6, <1>7, <1>8 DEF Monitor

LEMMA MonitorTyped ==
    ASSUME Typed, NEW i \in Instances, Monitor(i)
    PROVE  Typed'
  <1>1. MonitorMoves(i)
    BY MonitorStepMoves
  <1>2. /\ monitor' \in [Instances -> SUBSET CallState]
        /\ UNCHANGED <<events, counter, worker, pool, blocks, sent, orphans, unannounced, stale, faults>>
    BY <1>1 DEF MonitorMoves
  <1>3. /\ \A c \in monitor[i] : c.tx \in sent
        /\ \A k \in DOMAIN records : records[k].tx \in sent
        /\ records \in Seq(Record)
        /\ announced \subseteq sent
        /\ \A j \in Instances : \A d \in monitor[j] : d.tx \in sent
    BY DEF Typed, TypeOK, Watched
  <1>4. /\ records' \in Seq(Record) /\ announced' \subseteq sent
        /\ \A k \in DOMAIN records' : records'[k].tx \in sent
        /\ \A j \in Instances : \A d \in monitor'[j] : d.tx \in sent
    <2>1. CASE GetPendingMoves(i)
      BY <1>3, <2>1 DEF GetPendingMoves
    <2>2. CASE GetReceiptMoves(i)
      BY <1>3, <2>2 DEF GetReceiptMoves
    <2>3. CASE GetLatestMoves(i)
      BY <1>3, <2>3 DEF GetLatestMoves
    <2>4. ASSUME NEW pc, NEW status \in TransactionStatus, SettleMoves(i, pc, status)
          PROVE  /\ records' \in Seq(Record) /\ UNCHANGED announced
                 /\ \A k \in DOMAIN records' : records'[k].tx \in sent
                 /\ \A j \in Instances : \A d \in monitor'[j] : d.tx \in sent
      BY <1>3, <2>4, SettleRecord DEF SettleMoves
    <2>5. CASE PublishMoves(i)
      BY <1>2, <1>3, <2>5 DEF PublishMoves
    <2> QED
      BY <1>1, <1>3, <2>1, <2>2, <2>3, <2>4, <2>5 DEF MonitorMoves, TransactionStatus
  <1> QED
    BY <1>2, <1>4 DEF Typed, TypeOK, Watched, At, TxOf, Mined

-----------------------------------------------------------------------------
(* What goes wrong. *)
LEMMA OneMoreFault ==
    ASSUME Typed, faults < MaxFaults, faults' = faults + 1
    PROVE  faults' \in 0 .. MaxFaults
  BY BlockchainConstants DEF Typed, TypeOK

LEMMA RestartMoves ==
    ASSUME Typed, NEW i \in Instances, Restart(i)
    PROVE  /\ worker' \in [Instances -> WorkerState]
           /\ events' \in [Events -> {"queued", "taken", "done"}]
           /\ \A j \in Instances \ {i} : worker'[j] = worker[j]
           /\ worker'[i] = Starting
           /\ monitor' \in [Instances -> SUBSET CallState]
           /\ \A j \in Instances : monitor'[j] \subseteq monitor[j]
  <1>1. Starting \in WorkerState
    BY DEF WorkerState, Starting
  <1>2. worker[i].event # None => worker[i].event \in Events
    BY WorkerCases DEF Typed, TypeOK
  <1>3. events' \in [Events -> {"queued", "taken", "done"}]
    <2>1. CASE worker[i].event = None
      BY <2>1 DEF Restart, Typed, TypeOK
    <2>2. CASE worker[i].event # None
      <3>1. PICK s \in {"queued", "done"} : events' = [events EXCEPT ![worker[i].event] = s]
        BY <2>2 DEF Restart
      <3> QED
        BY <1>2, <2>2, <3>1 DEF Typed, TypeOK
    <2> QED
      BY <2>1, <2>2
  <1> QED
    BY <1>1, <1>3 DEF Restart, Typed, TypeOK, Watched

LEMMA FaultTyped ==
    ASSUME Typed,
           \/ Redeliver
           \/ \E i \in Instances : HandlerRaises(i) \/ CallRaises(i) \/ Restart(i)
    PROVE  Typed'
  <1>1. faults' \in 0 .. MaxFaults
    BY OneMoreFault DEF Redeliver, HandlerRaises, CallRaises, Restart
  <1>2. CASE Redeliver
    BY <1>1, <1>2 DEF Redeliver, service, node, history, Typed, TypeOK, Watched, At, TxOf, Mined
  <1>3. ASSUME NEW i \in Instances, HandlerRaises(i) PROVE Typed'
    <2>1. /\ worker' \in [Instances -> WorkerState]
          /\ events' \in [Events -> {"queued", "taken", "done"}]
          /\ \A j \in Instances \ {i} : worker'[j] = worker[j]
          /\ worker'[i] = IdleWorker
      BY <1>3, HandledMoves DEF HandlerRaises
    <2>2. worker'[i].pc # "save"
      BY <2>1 DEF IdleWorker
    <2>3. orphans' \subseteq sent
      BY <1>3 DEF HandlerRaises, LoseRecord, Typed, TypeOK, Watched
    <2>4. UNCHANGED <<counter, monitor, records, node, announced, unannounced, stale>>
      BY <1>3 DEF HandlerRaises
    <2> QED
      BY <1>1, <2>1, <2>2, <2>3, <2>4 DEF node, Typed, TypeOK, Watched, At, TxOf, Mined
  <1>4. ASSUME NEW i \in Instances, CallRaises(i) PROVE Typed'
    <2>1. PICK c \in monitor[i] : LoseEvents({c}) /\ Continue(i, c, {})
      BY <1>4 DEF CallRaises
    <2>2. /\ monitor' \in [Instances -> SUBSET CallState]
          /\ \A j \in Instances : \A d \in monitor'[j] : d \in monitor[j]
      BY <2>1, ContinueMoves
    <2>3. unannounced' \subseteq unannounced \cup {c.tx}
      BY <2>1 DEF LoseEvents
    <2>4. UNCHANGED <<events, counter, worker, records, node, orphans, announced, stale>>
      BY <1>4 DEF CallRaises
    <2> QED
      BY <1>1, <2>2, <2>3, <2>4 DEF node, Typed, TypeOK, Watched, At, TxOf, Mined
  <1>5. ASSUME NEW i \in Instances, Restart(i) PROVE Typed'
    <2>1. /\ worker' \in [Instances -> WorkerState]
          /\ events' \in [Events -> {"queued", "taken", "done"}]
          /\ \A j \in Instances \ {i} : worker'[j] = worker[j]
          /\ worker'[i] = Starting
          /\ monitor' \in [Instances -> SUBSET CallState]
          /\ \A j \in Instances : monitor'[j] \subseteq monitor[j]
      BY <1>5, RestartMoves
    <2>2. worker'[i].pc # "save"
      BY <2>1 DEF Starting
    <2>3. orphans' \subseteq sent
      BY <1>5 DEF Restart, LoseRecord, Typed, TypeOK, Watched
    <2>4. unannounced' \subseteq sent
      BY <1>5 DEF Restart, LoseEvents, Typed, TypeOK, Watched
    <2>5. UNCHANGED <<counter, records, node, announced, stale>>
      BY <1>5 DEF Restart
    <2> QED
      BY <1>1, <2>1, <2>2, <2>3, <2>4, <2>5 DEF node, Typed, TypeOK, Watched, At, TxOf, Mined
  <1> QED
    BY <1>2, <1>3, <1>4, <1>5

LEMMA InitTyped == Init => Typed
  <1> SUFFICES ASSUME Init PROVE Typed
    OBVIOUS
  <1>1. Starting \in WorkerState /\ Starting.pc = "count"
    BY DEF WorkerState, Starting
  <1>2. records \in Seq(Record) /\ DOMAIN records = {}
    BY DEF Init
  <1>3. IsFiniteSet(sent)
    BY FS_EmptySet DEF Init
  <1> QED
    BY <1>1, <1>2, <1>3, BlockchainConstants DEF Init, Typed, TypeOK, Watched, At, Mined

LEMMA NextTyped == Typed /\ [Next]_vars => Typed'
  <1> SUFFICES ASSUME Typed, [Next]_vars PROVE Typed'
    OBVIOUS
  <1>1. CASE UNCHANGED vars
    BY <1>1 DEF vars, service, node, history, Typed, TypeOK, Watched, At, TxOf, Mined
  <1> QED
    BY <1>1, NodeTyped, WorkerTyped, MonitorTyped, FaultTyped DEF Next

(***************************************************************************)
(* Every variable keeps its type, whatever raises, stops, comes twice or   *)
(* is taken back: no worker ever holds a negative nonce, and everything    *)
(* the service records, loses or announces is a transaction the node took. *)
(***************************************************************************)
THEOREM TypeCorrect == Spec => []TypeOK
  <1>1. Typed => TypeOK
    BY DEF Typed
  <1> QED
    BY <1>1, InitTyped, NextTyped, PTL DEF Spec

-----------------------------------------------------------------------------
(* Every transaction that was paid for is watched. *)
Accounted(t) ==
    Recorded(t) \/ t \in orphans \/ \E i \in Instances : At(i, "save") /\ TxOf(i) = t

LEMMA SaveRecordStores ==
    ASSUME Typed, NEW i \in Instances, SaveRecord(i)
    PROVE  /\ \A t : Recorded(t) \/ t = TxOf(i) => Recorded(t)'
           /\ \A j \in Instances \ {i} : worker'[j] = worker[j]
           /\ worker'[i] = IdleWorker
           /\ UNCHANGED <<sent, orphans>>
  <1> DEFINE rec == [tx |-> TxOf(i), status |-> "PENDING"]
  <1>1. worker[i].event # None /\ worker[i].pc = "save" /\ records \in Seq(Record)
    BY WorkerCases DEF SaveRecord, At, Typed, TypeOK
  <1>2. /\ \A j \in Instances \ {i} : worker'[j] = worker[j]
        /\ worker'[i] = IdleWorker
        /\ UNCHANGED <<sent, orphans>>
    BY <1>1, HandledMoves DEF SaveRecord, node, history
  <1>3. CASE \E k \in DOMAIN records : records[k].tx = TxOf(i)
    BY <1>2, <1>3 DEF SaveRecord, Recorded
  <1>4. CASE ~ \E k \in DOMAIN records : records[k].tx = TxOf(i)
    <2>1. records' = Append(records, rec)
      BY <1>4 DEF SaveRecord
    <2>2. rec \in Record /\ rec.tx = TxOf(i)
      BY <1>1 DEF Record, TransactionStatus, Typed, TypeOK, Watched, At
    <2> HIDE DEF rec
    <2>3. /\ DOMAIN records' = DOMAIN records \cup {Len(records) + 1}
          /\ \A k \in DOMAIN records : records'[k] = records[k]
          /\ records'[Len(records) + 1] = rec
      BY <1>1, <2>1, <2>2, AppendRecord
    <2> QED
      BY <1>2, <2>2, <2>3 DEF Recorded
  <1> QED
    BY <1>3, <1>4

LEMMA MonitorLeavesRecorded ==
    ASSUME Typed, NEW i \in Instances, Monitor(i)
    PROVE  \A t : Recorded(t) => Recorded(t)'
  <1>1. MonitorMoves(i) /\ records \in Seq(Record)
    BY MonitorStepMoves DEF Typed, TypeOK
  <1>2. \/ UNCHANGED records
        \/ \E t : Settle(t, "CONFIRMED") \/ Settle(t, "FAILED")
    BY <1>1 DEF MonitorMoves, GetPendingMoves, GetReceiptMoves, GetLatestMoves, SettleMoves,
                PublishMoves
  <1>3. ASSUME NEW t, NEW status \in TransactionStatus, Settle(t, status)
        PROVE  \A u : Recorded(u) => Recorded(u)'
    <2>1. /\ DOMAIN records' = DOMAIN records
          /\ \A k \in DOMAIN records : records'[k].tx = records[k].tx
      BY <1>1, <1>3, SettleRecord
    <2> QED
      BY <2>1 DEF Recorded
  <1> QED
    BY <1>2, <1>3 DEF Recorded, TransactionStatus

LEMMA ExecuteTxAccounts ==
    ASSUME Typed, NEW i \in Instances, ExecuteTx(i), NEW t, Accounted(t) \/ t \in sent' \ sent
    PROVE  Accounted(t)'
  <1>1. UNCHANGED <<records, orphans>>
    BY DEF ExecuteTx, history
  <1>2. /\ worker[i].pc = "send"
        /\ \A j \in Instances \ {i} : worker'[j] = worker[j]
        /\ \/ UNCHANGED sent
           \/ worker'[i].pc = "save" /\ TxOf(i)' = TxOf(i) /\ sent' = sent \cup {TxOf(i)}
    BY ExecuteTxMoves
  <1>3. CASE t \in sent' \ sent
    BY <1>2, <1>3 DEF Accounted, At
  <1>4. CASE Accounted(t)
    <2>1. CASE Recorded(t) \/ t \in orphans
      BY <1>1, <2>1 DEF Accounted, Recorded
    <2>2. ASSUME NEW j \in Instances, At(j, "save"), TxOf(j) = t PROVE Accounted(t)'
      BY <1>2, <2>2 DEF Accounted, At, TxOf
    <2> QED
      BY <1>4, <2>1, <2>2 DEF Accounted
  <1> QED
    BY <1>3, <1>4

(* A worker that gives up its transaction leaves its trace in orphans. *)
LEMMA LoserLeavesTrace ==
    ASSUME Typed, NEW i \in Instances, LoseRecord(i), UNCHANGED records,
           \A j \in Instances \ {i} : worker'[j] = worker[j],
           NEW t, Accounted(t)
    PROVE  Accounted(t)'
  <1>1. CASE Recorded(t) \/ t \in orphans
    BY <1>1 DEF LoseRecord, Accounted, Recorded
  <1>2. ASSUME NEW j \in Instances, At(j, "save"), TxOf(j) = t PROVE Accounted(t)'
    <2>1. CASE j = i
      BY <1>2, <2>1 DEF LoseRecord, Accounted
    <2>2. CASE j # i
      BY <1>2, <2>2 DEF Accounted, At, TxOf
    <2> QED
      BY <2>1, <2>2
  <1> QED
    BY <1>1, <1>2 DEF Accounted

LEMMA NextAccounts ==
    ASSUME Typed, SentIsRecorded, [Next]_vars PROVE SentIsRecorded'
  <1> SUFFICES ASSUME NEW t \in sent' PROVE Accounted(t)'
    BY DEF SentIsRecorded, Accounted
  <1>0. t \in sent => Accounted(t)
    BY DEF SentIsRecorded, Accounted
  <1>1. CASE UNCHANGED <<worker, records, orphans, sent>>
    BY <1>0, <1>1 DEF Accounted, Recorded, At, TxOf
  <1>2. ASSUME NEW i \in Instances, SyncCount(i) \/ SyncSet(i) \/ TakeEvent(i) \/ NextNonce(i)
        PROVE  Accounted(t)'
    <2>1. UNCHANGED <<records, orphans, sent>> /\ worker[i].pc # "save"
      BY <1>2 DEF SyncCount, SyncSet, TakeEvent, NextNonce, node, history, At
    <2>2. \A j \in Instances \ {i} : worker'[j] = worker[j]
      BY <1>2, SyncCountMoves, SyncSetMoves, TakeEventMoves, NextNonceMoves
    <2> QED
      BY <1>0, <2>1, <2>2 DEF Accounted, Recorded, At, TxOf
  <1>3. ASSUME NEW i \in Instances, ExecuteTx(i) PROVE Accounted(t)'
    BY <1>0, <1>3, ExecuteTxAccounts
  <1>4. ASSUME NEW i \in Instances, SaveRecord(i) PROVE Accounted(t)'
    <2>1. /\ Recorded(t) \/ t = TxOf(i) => Recorded(t)'
          /\ \A j \in Instances \ {i} : worker'[j] = worker[j]
          /\ UNCHANGED <<sent, orphans>>
      BY <1>4, SaveRecordStores
    <2> QED
      BY <1>0, <2>1 DEF Accounted, At, TxOf
  <1>5. ASSUME NEW i \in Instances, Monitor(i) PROVE Accounted(t)'
    <2>1. UNCHANGED <<worker, sent, orphans>>
      BY <1>5, MonitorStepMoves DEF MonitorMoves
    <2> QED
      BY <1>0, <1>5, <2>1, MonitorLeavesRecorded DEF Accounted, At, TxOf
  <1>6. ASSUME NEW i \in Instances, HandlerRaises(i) PROVE Accounted(t)'
    <2>1. \A j \in Instances \ {i} : worker'[j] = worker[j]
      BY <1>6, HandledMoves DEF HandlerRaises
    <2>2. LoseRecord(i) /\ UNCHANGED <<records, sent>>
      BY <1>6 DEF HandlerRaises, node
    <2> QED
      BY <1>0, <2>1, <2>2, LoserLeavesTrace
  <1>7. ASSUME NEW i \in Instances, Restart(i) PROVE Accounted(t)'
    <2>1. \A j \in Instances \ {i} : worker'[j] = worker[j]
      BY <1>7, RestartMoves
    <2>2. LoseRecord(i) /\ UNCHANGED <<records, sent>>
      BY <1>7 DEF Restart, node
    <2> QED
      BY <1>0, <2>1, <2>2, LoserLeavesTrace
  <1>8. CASE UNCHANGED vars
    BY <1>1, <1>8 DEF vars, service, node, history
  <1>9. CASE Redeliver \/ MineTx \/ EmptyBlock \/ Reorganise
    BY <1>1, <1>9 DEF Redeliver, MineTx, EmptyBlock, Reorganise, service, node, history
  <1>10. ASSUME NEW i \in Instances, CallRaises(i) PROVE Accounted(t)'
    BY <1>1, <1>10 DEF CallRaises, node
  <1> QED
    BY <1>2, <1>3, <1>4, <1>5, <1>6, <1>7, <1>8, <1>9, <1>10 DEF Next, Worker

(***************************************************************************)
(* Every transaction the node accepted has a record, or its worker is      *)
(* about to store it, or an error or a stop came between the two steps of  *)
(* register_event: neither a retry after a nonce error, nor a replacement, *)
(* nor another instance makes the service forget one.                      *)
(***************************************************************************)
THEOREM SentTransactionsAreRecorded == Spec => []SentIsRecorded
  <1>1. Init => SentIsRecorded
    BY DEF Init, SentIsRecorded
  <1>2. Typed /\ SentIsRecorded /\ [Next]_vars => SentIsRecorded'
    BY NextAccounts
  <1> QED
    BY <1>1, <1>2, InitTyped, NextTyped, PTL DEF Spec

-----------------------------------------------------------------------------
(* One place and one nonce for a transaction. *)
LEMMA ChainGrows ==
    ASSUME Typed, OnePlace, MineTx \/ EmptyBlock
    PROVE  /\ OnePlace'
           /\ Known' = Known
           /\ \A b \in blocks : Deeper(b) \in blocks'
           /\ UNCHANGED <<worker, records, stale, counter, faults>>
           /\ Grow
  <1>0. \A b \in blocks : b \in Block
    BY DEF Typed, TypeOK, Block
  <1>1. UNCHANGED <<worker, records, stale, counter, faults>> /\ Grow
    BY DEF MineTx, EmptyBlock, history
  <1>2. CASE MineTx
    <2>1. PICK t \in pool, ok \in BOOLEAN :
             /\ pool' = pool \ {t}
             /\ blocks' = {Deeper(b) : b \in blocks} \cup {[tx |-> t, depth |-> 0, ok |-> ok]}
      BY <1>2 DEF MineTx
    <2> DEFINE new == [tx |-> t, depth |-> 0, ok |-> ok]
    <2>2. new.tx = t
      OBVIOUS
    <2>3. blocks' = {Deeper(b) : b \in blocks} \cup {new}
      BY <2>1
    <2> HIDE DEF new
    <2>4. \A b \in blocks' : b = new \/ \E d \in blocks : b = Deeper(d) /\ b.tx = d.tx
      BY <1>0, <2>3, DeeperBlock
    <2>5. \A b \in blocks : Deeper(b) \in blocks' /\ Deeper(b).tx = b.tx
      BY <1>0, <2>3, DeeperBlock
    <2>6. Mined' = Mined \cup {t}
      BY <2>2, <2>3, <2>4, <2>5 DEF Mined
    <2>7. t \notin Mined
      BY DEF OnePlace
    <2>8. \A b, c \in blocks' : b.tx = c.tx => b = c
      BY <2>2, <2>4, <2>7 DEF OnePlace, Mined
    <2>9. Known' = Known
      BY <2>1, <2>6 DEF Known
    <2> QED
      BY <1>1, <2>1, <2>5, <2>6, <2>8, <2>9 DEF OnePlace
  <1>3. CASE EmptyBlock
    <2>1. blocks' = {Deeper(b) : b \in blocks} /\ pool' = pool
      BY <1>3 DEF EmptyBlock
    <2>2. \A b \in blocks' : \E d \in blocks : b = Deeper(d) /\ b.tx = d.tx
      BY <1>0, <2>1, DeeperBlock
    <2>3. \A b \in blocks : Deeper(b) \in blocks' /\ Deeper(b).tx = b.tx
      BY <1>0, <2>1, DeeperBlock
    <2>4. Mined' = Mined
      BY <2>2, <2>3 DEF Mined
    <2>5. \A b, c \in blocks' : b.tx = c.tx => b = c
      BY <2>2 DEF OnePlace
    <2>6. Known' = Known
      BY <2>1, <2>4 DEF Known
    <2> QED
      BY <1>1, <2>1, <2>3, <2>4, <2>5, <2>6 DEF OnePlace
  <1> QED
    BY <1>2, <1>3

LEMMA ChainShrinks ==
    ASSUME Typed, OnePlace, Reorganise
    PROVE  /\ OnePlace'
           /\ Known' = Known
           /\ stale \subseteq stale' /\ stale' \subseteq stale \cup Mined
           /\ \A b \in blocks : \/ b \in blocks'
                                \/ b.depth < Required /\ (b.tx \in HeldReceipts => b.tx \in stale')
           /\ UNCHANGED <<worker, monitor, records, counter>>
           /\ faults' = faults + 1
  <1>1. PICK n \in 1 .. Required :
           /\ blocks' = blocks \ {b \in blocks : b.depth < n}
           /\ pool' = pool \cup {b.tx : b \in {d \in blocks : d.depth < n}}
           /\ stale' = stale \cup (HeldReceipts \cap {b.tx : b \in {d \in blocks : d.depth < n}})
    BY DEF Reorganise
  <1>2. UNCHANGED <<worker, monitor, records, counter>> /\ faults' = faults + 1
    BY DEF Reorganise, service
  <1>3. \A b \in blocks : b.depth \in Nat
    BY DEF Typed, TypeOK
  <1>4. Known' = Known
    BY <1>1 DEF Known, Mined
  <1>5. pool' \cap Mined' = {}
    BY <1>1 DEF OnePlace, Mined
  <1>6. OnePlace'
    BY <1>1, <1>4, <1>5 DEF OnePlace
  <1>7. \A b \in blocks : \/ b \in blocks'
                          \/ b.depth < Required /\ (b.tx \in HeldReceipts => b.tx \in stale')
    BY <1>1, <1>3, BlockchainConstants
  <1> QED
    BY <1>1, <1>2, <1>4, <1>6, <1>7 DEF Mined

LEMMA ExecuteTxKeepsPlace ==
    ASSUME Typed, OnePlace, NEW i \in Instances, ExecuteTx(i)
    PROVE  /\ OnePlace'
           /\ \/ /\ Used' = Used \cup {worker[i].nonce} /\ worker'[i].pc = "save"
              \/ /\ Used' = Used /\ worker[i].nonce \in Used
                 /\ worker'[i].pc \in {"idle", "count"}
                 /\ worker'[i].pc = "count" => worker'[i].event # None
  <1> DEFINE t == TxOf(i)
  <1>1. t.nonce = worker[i].nonce
    BY DEF TxOf
  <1>2. UNCHANGED blocks /\ Mined' = Mined
    BY DEF ExecuteTx, Mined
  <1> HIDE DEF t
  <1>3. CASE Holders(t.nonce) = {} /\ pool' = pool \cup {t} /\ worker'[i].pc = "save"
    <2>1. t.nonce \notin Used /\ t \notin Known
      BY <1>3 DEF Holders, Used, Nonces, Known
    <2>2. Known' = Known \cup {t}
      BY <1>2, <1>3 DEF Known
    <2>3. OnePlace'
      BY <1>2, <1>3, <2>1, <2>2 DEF OnePlace, Used, Nonces, Known
    <2>4. Used' = Used \cup {t.nonce}
      BY <2>2 DEF Used, Nonces
    <2> QED
      BY <1>1, <1>3, <2>3, <2>4
  <1>4. ASSUME NEW old \in Holders(t.nonce) \cap pool, old # t,
               pool' = (pool \ {old}) \cup {t}, worker'[i].pc = "save"
        PROVE  OnePlace' /\ Used' = Used \cup {t.nonce}
    <2>1. old \in Known /\ old.nonce = t.nonce /\ old \notin Mined
      BY <1>4 DEF Holders, Known, OnePlace
    <2>2. t \notin Known
      BY <1>4, <2>1 DEF OnePlace
    <2>3. Known' = (Known \ {old}) \cup {t}
      BY <1>2, <1>4, <2>1 DEF Known
    <2>4. OnePlace'
      BY <1>2, <1>4, <2>1, <2>2, <2>3 DEF OnePlace, Known
    <2>5. Used' = Used \cup {t.nonce}
      BY <2>1, <2>3 DEF Used, Nonces
    <2> QED
      BY <2>4, <2>5
  <1>5. CASE UNCHANGED pool /\ Holders(t.nonce) # {}
    <2>1. Known' = Known /\ OnePlace'
      BY <1>2, <1>5 DEF OnePlace, Known
    <2>2. t.nonce \in Used
      BY <1>5 DEF Holders, Used, Nonces, Known
    <2> QED
      BY <1>1, <1>5, <2>1, <2>2, ExecuteTxMoves DEF Used
  <1> QED
    BY <1>1, <1>3, <1>4, <1>5, ExecuteTxMoves DEF t

(* Every other step leaves the node alone. *)
OffChain == \/ UNCHANGED vars
            \/ Redeliver
            \/ \E i \in Instances : HandlerRaises(i) \/ CallRaises(i) \/ Restart(i)
            \/ \E i \in Instances : \/ SyncCount(i) \/ SyncSet(i) \/ TakeEvent(i) \/ NextNonce(i)
                                    \/ SaveRecord(i)
                                    \/ Monitor(i)

LEMMA OffChainLeavesNode ==
    ASSUME Typed, OffChain
    PROVE  /\ UNCHANGED <<pool, blocks, stale>>
           /\ Known' = Known
           /\ OnePlace => OnePlace'
  <1>1. UNCHANGED <<pool, blocks, stale>>
    <2>1. ASSUME NEW i \in Instances, Monitor(i) PROVE UNCHANGED <<pool, blocks, stale>>
      BY <2>1, MonitorStepMoves DEF MonitorMoves
    <2> QED
      BY <2>1 DEF OffChain, vars, service, node, history, Redeliver, HandlerRaises, CallRaises,
                  Restart, SyncCount, SyncSet, TakeEvent, NextNonce, SaveRecord
  <1>2. Known' = Known
    BY <1>1 DEF Known, Mined
  <1> QED
    BY <1>1, <1>2 DEF OnePlace, Mined

LEMMA NextIsOnOrOffChain ==
    ASSUME [Next]_vars
    PROVE  \/ MineTx \/ EmptyBlock \/ Reorganise \/ OffChain
           \/ \E i \in Instances : ExecuteTx(i)
  BY DEF Next, OffChain, Worker

LEMMA NextKeepsPlace ==
    ASSUME Typed, OnePlace, [Next]_vars PROVE OnePlace'
  BY NextIsOnOrOffChain, ChainGrows, ChainShrinks, ExecuteTxKeepsPlace, OffChainLeavesNode

-----------------------------------------------------------------------------
(* What is deep stays deep. *)
LEMMA SettleableStays ==
    ASSUME Typed, OnePlace, [Next]_vars, NEW t, Settleable(t)
    PROVE  Settleable(t)'
  <1>0. \A b \in blocks : b \in Block /\ b.depth \in Nat
    BY DEF Typed, TypeOK, Block
  <1>1. CASE MineTx \/ EmptyBlock
    <2>1. UNCHANGED stale /\ \A b \in blocks : Deeper(b) \in blocks'
      BY <1>1, ChainGrows
    <2>2. ASSUME NEW b \in blocks, b.tx = t, b.ok, b.depth >= Required
          PROVE  Deeper(b).tx = t /\ Deeper(b).ok /\ Deeper(b).depth >= Required
      BY <1>0, <2>2, DeeperBlock, BlockchainConstants
    <2> QED
      BY <2>1, <2>2 DEF Settleable
  <1>2. CASE Reorganise
    <2>1. /\ stale \subseteq stale'
          /\ \A b \in blocks : b \in blocks' \/ b.depth < Required
      BY <1>2, ChainShrinks
    <2>2. \A b \in blocks : b.depth >= Required => b \in blocks'
      BY <1>0, <2>1, BlockchainConstants
    <2> QED
      BY <2>1, <2>2 DEF Settleable
  <1>3. ASSUME NEW i \in Instances, ExecuteTx(i) PROVE Settleable(t)'
    BY <1>3 DEF ExecuteTx, Settleable, history
  <1>4. CASE OffChain
    BY <1>4, OffChainLeavesNode DEF Settleable
  <1> QED
    BY <1>1, <1>2, <1>3, <1>4, NextIsOnOrOffChain

(* What a call has read stays so, or the transaction is stale. *)
CallIsFresh(c) ==
    /\ c.pc = "latest" => StillThere(c) \/ c.tx \in stale
    /\ c.pc = "confirm" => Settleable(c.tx)

LEMMA ChainKeepsFresh ==
    ASSUME Typed, OnePlace, CallsAreFresh, MineTx \/ EmptyBlock \/ Reorganise
    PROVE  CallsAreFresh'
  <1> SUFFICES ASSUME NEW i \in Instances, NEW c \in monitor'[i] PROVE CallIsFresh(c)'
    BY DEF CallsAreFresh, CallIsFresh, StillThere, Settleable
  <1>0. /\ \A b \in blocks : b \in Block /\ b.depth \in Nat
        /\ \A d \in monitor[i] : d \in CallState /\ d.depth \in Nat /\ CallIsFresh(d)
    BY DEF Typed, TypeOK, Watched, Block, CallState, CallsAreFresh, CallIsFresh
  <1>00. [Next]_vars
    BY DEF Next
  <1>1. CASE MineTx \/ EmptyBlock
    <2>1. UNCHANGED stale /\ Grow /\ \A b \in blocks : Deeper(b) \in blocks'
      BY <1>1, ChainGrows
    <2>2. PICK d \in monitor[i] :
             c.pc = d.pc /\ c.tx = d.tx /\ c = IF d.pc = "latest" THEN Deeper(d) ELSE d
      BY <2>1, GrowKeepsCalls
    <2>3. CASE c.pc = "latest"
      <3>1. /\ c.ok = d.ok /\ d.pc = "latest"
            /\ c.depth = IF d.depth < Required THEN d.depth + 1 ELSE d.depth
        BY <1>0, <2>2, <2>3, DeeperCall
      <3>2. CASE d.tx \in stale
        BY <2>1, <2>2, <2>3, <3>2 DEF CallIsFresh
      <3>3. ASSUME NEW b \in blocks, b.tx = d.tx, b.ok = d.ok, b.depth >= d.depth
            PROVE  StillThere(c)'
        <4>1. /\ Deeper(b) \in blocks' /\ Deeper(b).tx = c.tx /\ Deeper(b).ok = c.ok
              /\ Deeper(b).depth = IF b.depth < Required THEN b.depth + 1 ELSE b.depth
          BY <1>0, <2>1, <2>2, <3>1, <3>3, DeeperBlock
        <4>2. Deeper(b).depth >= c.depth
          BY <1>0, <3>1, <3>3, <4>1, BlockchainConstants
        <4> QED
          BY <4>1, <4>2 DEF StillThere
      <3> QED
        BY <1>0, <2>3, <3>1, <3>2, <3>3 DEF CallIsFresh, StillThere
    <2>4. CASE c.pc = "confirm"
      BY <1>0, <1>00, <2>2, <2>4, SettleableStays DEF CallIsFresh
    <2> QED
      BY <2>3, <2>4 DEF CallIsFresh
  <1>2. CASE Reorganise
    <2>1. /\ stale \subseteq stale' /\ UNCHANGED monitor
          /\ \A b \in blocks : b \in blocks' \/ (b.tx \in HeldReceipts => b.tx \in stale')
      BY <1>2, ChainShrinks
    <2>2. CASE c.pc = "latest"
      <3>1. CASE c.tx \in stale
        BY <2>1, <2>2, <3>1 DEF CallIsFresh
      <3>2. ASSUME NEW b \in blocks, b.tx = c.tx, b.ok = c.ok, b.depth >= c.depth
            PROVE  StillThere(c)' \/ c.tx \in stale'
        <4>1. c.tx \in HeldReceipts
          BY <2>1, <2>2 DEF HeldReceipts
        <4> QED
          BY <2>1, <3>2, <4>1 DEF StillThere
      <3> QED
        BY <1>0, <2>1, <2>2, <3>1, <3>2 DEF CallIsFresh, StillThere
    <2>3. CASE c.pc = "confirm"
      BY <1>0, <1>00, <2>1, <2>3, SettleableStays DEF CallIsFresh
    <2> QED
      BY <2>2, <2>3 DEF CallIsFresh
  <1> QED
    BY <1>1, <1>2

(* A step of the monitor acts on what a call holds. *)
LEMMA MonitorKeepsFresh ==
    ASSUME Typed, CallsAreFresh, ConfirmedAreSettleable, NEW i \in Instances, Monitor(i)
    PROVE  CallsAreFresh' /\ ConfirmedAreSettleable'
  <1>1. MonitorMoves(i) /\ UNCHANGED <<blocks, stale>>
    BY MonitorStepMoves DEF MonitorMoves
  <1>2. /\ records \in Seq(Record)
        /\ \A j \in Instances : \A d \in monitor[j] : CallIsFresh(d)
        /\ \A d : CallIsFresh(d)' <=> CallIsFresh(d)
        /\ \A t : Settleable(t)' <=> Settleable(t)
    BY <1>1 DEF Typed, TypeOK, CallsAreFresh, CallIsFresh, StillThere, Settleable
  <1>3. \A j \in Instances : \A d \in monitor'[j] : CallIsFresh(d)
    <2>1. CASE GetPendingMoves(i)
      BY <1>2, <2>1 DEF GetPendingMoves, CallIsFresh
    <2>2. CASE GetReceiptMoves(i)
      BY <1>2, <2>2 DEF GetReceiptMoves, CallIsFresh
    <2>3. CASE GetLatestMoves(i)
      <3>1. PICK c \in monitor[i] :
               /\ c.pc = "latest"
               /\ \A j \in Instances : \A d \in monitor'[j] :
                     \/ d \in monitor[j]
                     \/ d.tx = c.tx /\ d.pc = "fail"
                     \/ d.tx = c.tx /\ d.pc = "confirm" /\ c.ok /\ c.depth >= Required
        BY <2>3 DEF GetLatestMoves
      <3>2. c.ok /\ c.depth >= Required => Settleable(c.tx)
        <4>1. StillThere(c) \/ c.tx \in stale
          BY <1>2, <3>1 DEF CallIsFresh
        <4>2. \A b \in blocks : b.depth \in Nat
          BY DEF Typed, TypeOK
        <4>3. c.depth \in Nat
          BY DEF Typed, Watched, CallState
        <4>4. ASSUME c.ok, c.depth >= Required,
                     NEW b \in blocks, b.tx = c.tx, b.ok = c.ok, b.depth >= c.depth
              PROVE  Settleable(c.tx)
          <5>1. b.depth >= Required
            BY <4>2, <4>3, <4>4, BlockchainConstants
          <5> QED
            BY <4>4, <5>1 DEF Settleable
        <4> QED
          BY <4>1, <4>4 DEF StillThere, Settleable
      <3> QED
        BY <1>2, <3>1, <3>2 DEF CallIsFresh
    <2>4. ASSUME NEW pc, NEW status, SettleMoves(i, pc, status)
          PROVE  \A j \in Instances : \A d \in monitor'[j] : CallIsFresh(d)
      BY <1>2, <2>4 DEF SettleMoves, CallIsFresh
    <2>5. CASE PublishMoves(i)
      BY <1>2, <2>5 DEF PublishMoves
    <2> QED
      BY <1>1, <2>1, <2>2, <2>3, <2>4, <2>5 DEF MonitorMoves
  <1>4. CallsAreFresh'
    <2>1. \A j \in Instances : \A d \in monitor'[j] : CallIsFresh(d)'
      BY <1>2, <1>3
    <2> QED
      BY <2>1 DEF CallsAreFresh, CallIsFresh
  <1>5. ConfirmedAreSettleable'
    <2>1. CASE UNCHANGED records
      BY <1>2, <2>1 DEF ConfirmedAreSettleable
    <2>2. ASSUME NEW c \in monitor[i], NEW status \in TransactionStatus, Settle(c.tx, status),
                 status = "CONFIRMED" => c.pc = "confirm"
          PROVE  ConfirmedAreSettleable'
      <3>1. /\ DOMAIN records' = DOMAIN records
            /\ \A k \in DOMAIN records :
                 /\ records'[k].tx = records[k].tx
                 /\ records'[k].status = IF records[k].tx = c.tx THEN status ELSE records[k].status
        BY <1>2, <2>2, SettleRecord
      <3>2. status = "CONFIRMED" => Settleable(c.tx)
        BY <1>2, <2>2 DEF CallIsFresh
      <3> QED
        BY <1>2, <3>1, <3>2 DEF ConfirmedAreSettleable
    <2>3. CASE SettleMoves(i, "confirm", "CONFIRMED")
      BY <2>2, <2>3 DEF SettleMoves, TransactionStatus
    <2>4. CASE SettleMoves(i, "fail", "FAILED")
      BY <2>2, <2>4 DEF SettleMoves, TransactionStatus
    <2> QED
      BY <1>1, <2>1, <2>3, <2>4
      DEF MonitorMoves, GetPendingMoves, GetReceiptMoves, GetLatestMoves, PublishMoves
  <1> QED
    BY <1>4, <1>5

LEMMA NextKeepsFresh ==
    ASSUME Typed, OnePlace, CallsAreFresh, ConfirmedAreSettleable, [Next]_vars
    PROVE  CallsAreFresh' /\ ConfirmedAreSettleable'
  <1>1. ASSUME UNCHANGED records PROVE ConfirmedAreSettleable'
    BY <1>1, SettleableStays DEF ConfirmedAreSettleable
  <1>2. ASSUME UNCHANGED <<blocks, stale>>, \A i \in Instances : monitor'[i] \subseteq monitor[i]
        PROVE  CallsAreFresh'
    BY <1>2 DEF CallsAreFresh, StillThere, Settleable
  <1>3. CASE MineTx \/ EmptyBlock \/ Reorganise
    BY <1>1, <1>3, ChainKeepsFresh DEF MineTx, EmptyBlock, Reorganise, service
  <1>4. ASSUME NEW i \in Instances, Monitor(i)
        PROVE  CallsAreFresh' /\ ConfirmedAreSettleable'
    BY <1>4, MonitorKeepsFresh
  <1>5. ASSUME NEW i \in Instances, SaveRecord(i)
        PROVE  CallsAreFresh' /\ ConfirmedAreSettleable'
    <2> DEFINE rec == [tx |-> TxOf(i), status |-> "PENDING"]
    <2>1. CallsAreFresh'
      BY <1>2, <1>5 DEF SaveRecord, node, history
    <2>2. worker[i].pc = "save" /\ TxOf(i) \in Tx /\ records \in Seq(Record)
      BY <1>5 DEF SaveRecord, At, Typed, TypeOK, Watched
    <2>3. rec \in Record /\ rec.status = "PENDING"
      BY <2>2 DEF Record, TransactionStatus
    <2>4. records' = records \/ records' = Append(records, rec)
      BY <1>5 DEF SaveRecord
    <2> HIDE DEF rec
    <2>5. CASE records' = Append(records, rec)
      <3>1. /\ DOMAIN records' = DOMAIN records \cup {Len(records) + 1}
            /\ \A k \in DOMAIN records : records'[k] = records[k]
            /\ records'[Len(records) + 1] = rec
        BY <2>2, <2>3, <2>5, AppendRecord
      <3>2. ASSUME NEW k \in DOMAIN records', NEW t, t = records'[k].tx,
                   records'[k].status = "CONFIRMED"
            PROVE  Settleable(t)'
        <4>1. k \in DOMAIN records /\ records'[k] = records[k]
          BY <2>3, <3>1, <3>2
        <4>2. Settleable(t)
          BY <3>2, <4>1 DEF ConfirmedAreSettleable
        <4>3. UNCHANGED <<blocks, stale>>
          BY <1>5 DEF SaveRecord, node, history
        <4> QED
          BY <4>2, <4>3 DEF Settleable
      <3>3. \A k \in DOMAIN records' : records'[k].status = "CONFIRMED" =>
              \/ \E b \in blocks' : b.tx = records'[k].tx /\ b.ok /\ b.depth >= Required
              \/ records'[k].tx \in stale'
        BY <3>2 DEF Settleable
      <3> QED
        BY <2>1, <3>3 DEF ConfirmedAreSettleable, Settleable
    <2> QED
      BY <1>1, <2>1, <2>4, <2>5
  <1>6. ASSUME NEW i \in Instances,
               \/ SyncCount(i) \/ SyncSet(i) \/ TakeEvent(i) \/ NextNonce(i)
               \/ ExecuteTx(i) \/ HandlerRaises(i)
        PROVE  CallsAreFresh' /\ ConfirmedAreSettleable'
    <2>1. UNCHANGED <<blocks, stale, monitor, records>>
      BY <1>6 DEF SyncCount, SyncSet, TakeEvent, NextNonce, ExecuteTx, HandlerRaises, node, history
    <2> QED
      BY <1>1, <1>2, <2>1
  <1>7. ASSUME NEW i \in Instances, CallRaises(i)
        PROVE  CallsAreFresh' /\ ConfirmedAreSettleable'
    <2>1. PICK c \in monitor[i] : Continue(i, c, {})
      BY <1>7 DEF CallRaises
    <2>2. \A j \in Instances : monitor'[j] \subseteq monitor[j]
      BY <2>1, ContinueMoves
    <2>3. UNCHANGED <<blocks, stale, records>>
      BY <1>7 DEF CallRaises, node
    <2> QED
      BY <1>1, <1>2, <2>2, <2>3
  <1>8. ASSUME NEW i \in Instances, Restart(i)
        PROVE  CallsAreFresh' /\ ConfirmedAreSettleable'
    <2>1. UNCHANGED <<blocks, stale, records>>
      BY <1>8 DEF Restart, node
    <2> QED
      BY <1>1, <1>2, <1>8, <2>1, RestartMoves
  <1>9. CASE Redeliver \/ UNCHANGED vars
    <2>1. UNCHANGED <<blocks, stale, monitor, records>>
      BY <1>9 DEF Redeliver, vars, service, node, history
    <2> QED
      BY <1>1, <1>2, <2>1
  <1> QED
    BY <1>3, <1>4, <1>5, <1>6, <1>7, <1>8, <1>9 DEF Next, Worker

LEMMA InitPlaceAndFresh == Init => OnePlace /\ CallsAreFresh /\ ConfirmedAreSettleable
  BY DEF Init, OnePlace, Known, Mined, CallsAreFresh, ConfirmedAreSettleable

LEMMA SettleableIsDeep ==
    ASSUME OnePlace, NEW t, Settleable(t) PROVE Deep(t) \/ t \in stale
  <1>1. ASSUME NEW b \in blocks, b.tx = t, b.ok, b.depth >= Required PROVE Deep(t)
    <2>1. t \in Mined
      BY <1>1 DEF Mined
    <2>2. InBlock(t) \in blocks /\ InBlock(t).tx = t
      BY <1>1 DEF InBlock
    <2>3. InBlock(t) = b
      BY <1>1, <2>2 DEF OnePlace
    <2> QED
      BY <1>1, <2>1, <2>3 DEF Deep
  <1> QED
    BY <1>1 DEF Settleable

(***************************************************************************)
(* A record that says CONFIRMED has a successful transaction Required      *)
(* blocks deep, unless its block was taken back between the two reads of   *)
(* get_receipt or before the save: two monitors may settle one record in   *)
(* any order, and what is deep is never taken back.                        *)
(***************************************************************************)
THEOREM ConfirmedTransactionsAreDeep == Spec => []ConfirmedIsDeep
  <1>1. Typed /\ OnePlace /\ CallsAreFresh /\ ConfirmedAreSettleable /\ [Next]_vars
          => Typed' /\ OnePlace' /\ CallsAreFresh' /\ ConfirmedAreSettleable'
    BY NextTyped, NextKeepsPlace, NextKeepsFresh
  <1>2. OnePlace /\ ConfirmedAreSettleable => ConfirmedIsDeep
    BY SettleableIsDeep DEF ConfirmedAreSettleable, ConfirmedIsDeep
  <1> QED
    BY <1>1, <1>2, InitTyped, InitPlaceAndFresh, PTL DEF Spec

-----------------------------------------------------------------------------
(* The nonces that have been given out, step by step. *)
LEMMA InHandStays ==
    ASSUME NEW i \in Instances, worker[i].pc # "send", worker'[i].pc # "send",
           \A j \in Instances \ {i} : worker'[j] = worker[j]
    PROVE  InHand' = InHand
  <1>1. \A j \in Instances : (worker'[j].pc = "send" <=> worker[j].pc = "send")
                             /\ (worker[j].pc = "send" => worker'[j] = worker[j])
    OBVIOUS
  <1> QED
    BY <1>1 DEF InHand, At

(* A step that gives out no nonce and sets no counter. *)
LEMMA NoncesKept ==
    ASSUME Typed, NoneSkipped, faults = 0, UNCHANGED counter,
           Used \subseteq Used', GivenOut' = GivenOut,
           \A i \in Instances :
              /\ worker'[i].pc = "set" => worker[i].pc = "set" /\ worker'[i] = worker[i]
              /\ Synchronising(i) => worker'[i] = worker[i]
    PROVE  NoneSkipped'
  <1>1. \A i \in Instances : Synchronising(i) => Synchronising(i)'
    BY DEF Synchronising
  <1>2. \A i \in Instances : worker'[i].pc = "set" => 0 .. worker'[i].nonce - 1 \subseteq Used'
    BY DEF NoneSkipped, At
  <1>3. (\E i \in Instances : ~Synchronising(i)') => 0 .. counter \subseteq GivenOut
    BY <1>1 DEF NoneSkipped
  <1> QED
    BY <1>2, <1>3 DEF NoneSkipped, At

(* sync_from_chain counts what the node has. *)
LEMMA SyncCountKeepsNonces ==
    ASSUME Typed, NoneSkipped, faults = 0, NEW i \in Instances, SyncCount(i)
    PROVE  NoneSkipped'
  <1>1. /\ \A j \in Instances \ {i} : worker'[j] = worker[j]
        /\ worker'[i].pc = "set" /\ worker'[i].event = worker[i].event
        /\ worker'[i].nonce = TransactionCount
    <2>1. /\ \A j \in Instances \ {i} : worker'[j] = worker[j]
          /\ worker'[i] = [pc |-> "set", event |-> worker[i].event,
                           nonce |-> TransactionCount, retried |-> worker[i].retried]
      BY SyncCountMoves
    <2> QED
      BY <2>1
  <1>2. worker[i].pc = "count" /\ UNCHANGED <<counter, pool, blocks, faults>>
    <2>1. At(i, "count") /\ UNCHANGED <<counter, node, faults>>
      BY DEF SyncCount
    <2> QED
      BY <2>1 DEF At, node
  <1>3. Used' = Used
    BY <1>2 DEF Used, Known, Mined
  <1>4. GivenOut' = GivenOut
    BY <1>1, <1>2, <1>3, InHandStays DEF GivenOut
  <1>5. \A j \in Instances : Synchronising(j)' <=> Synchronising(j)
    BY <1>1, <1>2 DEF Synchronising
  <1>6. (\E j \in Instances : ~Synchronising(j)') => 0 .. counter \subseteq GivenOut
    BY <1>5 DEF NoneSkipped
  <1>7. ASSUME NEW j \in Instances, worker'[j].pc = "set"
        PROVE  0 .. worker'[j].nonce - 1 \subseteq Used
    <2>1. CASE j = i
      BY <1>1, <2>1, CountIsFirstFree
    <2>2. CASE j # i
      BY <1>1, <1>7, <2>2 DEF NoneSkipped, At
    <2> QED
      BY <2>1, <2>2
  <1> QED
    BY <1>2, <1>3, <1>4, <1>6, <1>7 DEF NoneSkipped, At

(* The counter is set to the last nonce of those counted. *)
LEMMA SyncSetKeepsNonces ==
    ASSUME Typed, NoneSkipped, faults = 0, NEW i \in Instances, SyncSet(i)
    PROVE  NoneSkipped'
  <1>1. /\ \A j \in Instances \ {i} : worker'[j] = worker[j]
        /\ worker'[i].pc \in {"idle", "nonce"}
    BY SyncSetMoves
  <1>2. /\ worker[i].pc = "set" /\ UNCHANGED <<pool, blocks, faults>>
        /\ counter' = worker[i].nonce - 1
    BY DEF SyncSet, At, node
  <1>3. Used' = Used
    BY <1>2 DEF Used, Known, Mined
  <1>4. GivenOut' = GivenOut
    BY <1>1, <1>2, <1>3, InHandStays DEF GivenOut
  <1>5. 0 .. counter' \subseteq Used
    BY <1>2 DEF NoneSkipped, At
  <1>6. \A j \in Instances : worker'[j].pc = "set" => 0 .. worker'[j].nonce - 1 \subseteq Used
    BY <1>1 DEF NoneSkipped, At
  <1> QED
    BY <1>2, <1>3, <1>4, <1>5, <1>6 DEF NoneSkipped, At, GivenOut

(* INCR gives out the nonce above all those the counter stands for. *)
LEMMA NextNonceKeepsNonces ==
    ASSUME Typed, NoneSkipped, faults = 0, NEW i \in Instances, NextNonce(i)
    PROVE  NoneSkipped'
  <1>1. /\ \A j \in Instances \ {i} : worker'[j] = worker[j]
        /\ worker'[i].pc = "send" /\ worker'[i].nonce = counter + 1
    BY NextNonceMoves
  <1>2. /\ worker[i].pc = "nonce" /\ UNCHANGED <<pool, blocks, faults>>
        /\ counter' = counter + 1
    BY DEF NextNonce, At, node
  <1>3. Used' = Used /\ counter \in Nat \cup {-1}
    BY <1>2 DEF Used, Known, Mined, Typed, TypeOK
  <1>4. InHand' = InHand \cup {counter + 1}
    BY <1>1, <1>2 DEF InHand, At
  <1>5. GivenOut' = GivenOut \cup {counter + 1}
    BY <1>3, <1>4 DEF GivenOut
  <1>6. 0 .. counter \subseteq GivenOut
    BY <1>2 DEF NoneSkipped, Synchronising
  <1>7. 0 .. counter' \subseteq GivenOut'
    BY <1>2, <1>3, <1>5, <1>6
  <1>8. \A n \in GivenOut' : 0 .. n - 1 \subseteq GivenOut'
    <2>1. \A n \in GivenOut : 0 .. n - 1 \subseteq GivenOut
      BY DEF NoneSkipped
    <2>2. 0 .. (counter + 1) - 1 \subseteq GivenOut
      BY <1>3, <1>6
    <2> QED
      BY <1>5, <2>1, <2>2
  <1>9. \A j \in Instances : worker'[j].pc = "set" => 0 .. worker'[j].nonce - 1 \subseteq Used
    BY <1>1 DEF NoneSkipped, At
  <1> QED
    BY <1>3, <1>7, <1>8, <1>9 DEF NoneSkipped, At

(* A nonce that leaves the worker's hand has reached the node, or was there. *)
LEMMA ExecuteTxKeepsNonces ==
    ASSUME Typed, OnePlace, NoneSkipped, faults = 0, NEW i \in Instances, ExecuteTx(i)
    PROVE  NoneSkipped'
  <1>1. /\ \A j \in Instances \ {i} : worker'[j] = worker[j]
        /\ worker[i].pc = "send" /\ worker'[i].pc \in {"save", "idle", "count"}
    BY ExecuteTxMoves
  <1>2. UNCHANGED counter
    BY DEF ExecuteTx
  <1>3. Used' = Used \cup {worker[i].nonce}
    BY ExecuteTxKeepsPlace
  <1>4. InHand \subseteq InHand' \cup {worker[i].nonce} /\ InHand' \subseteq InHand
    BY <1>1 DEF InHand, At
  <1>5. worker[i].nonce \in InHand
    BY <1>1 DEF InHand, At
  <1>6. GivenOut' = GivenOut
    BY <1>3, <1>4, <1>5 DEF GivenOut
  <1> QED
    BY <1>1, <1>2, <1>3, <1>6, NoncesKept DEF Synchronising

(* The steps that move neither a nonce nor the counter. *)
LEMMA OtherStepsKeepNonces ==
    ASSUME Typed, OnePlace, NoneSkipped, faults = 0,
           \/ MineTx \/ EmptyBlock \/ UNCHANGED vars
           \/ \E i \in Instances : TakeEvent(i) \/ SaveRecord(i) \/ Monitor(i)
    PROVE  NoneSkipped'
  <1>1. ASSUME UNCHANGED <<worker, counter>>, Known' = Known PROVE NoneSkipped'
    <2>1. Used' = Used /\ GivenOut' = GivenOut
      BY <1>1 DEF Used, GivenOut, InHand, At
    <2> QED
      BY <1>1, <2>1, NoncesKept
  <1>2. CASE MineTx \/ EmptyBlock
    BY <1>1, <1>2, ChainGrows
  <1>3. ASSUME UNCHANGED vars \/ \E i \in Instances : Monitor(i) PROVE NoneSkipped'
    <2>1. UNCHANGED <<worker, counter, pool, blocks>>
      BY <1>3, MonitorStepMoves DEF MonitorMoves, vars, service, node
    <2> QED
      BY <1>1, <2>1 DEF Known, Mined
  <1>4. ASSUME NEW i \in Instances, TakeEvent(i) \/ SaveRecord(i) PROVE NoneSkipped'
    <2>1. /\ UNCHANGED <<counter, pool, blocks>>
          /\ worker[i].pc \in {"idle", "save"}
      BY <1>4 DEF TakeEvent, SaveRecord, At, node
    <2>2. /\ \A j \in Instances \ {i} : worker'[j] = worker[j]
          /\ worker'[i].pc \in {"nonce", "idle"}
      <3>1. CASE TakeEvent(i)
        BY <3>1, TakeEventMoves
      <3>2. CASE SaveRecord(i)
        <4>1. Handled(i) /\ worker[i].event # None
          BY <3>2, WorkerCases DEF SaveRecord, At, Typed, TypeOK
        <4> QED
          BY <4>1, HandledMoves DEF IdleWorker
      <3> QED
        BY <1>4, <3>1, <3>2
    <2>3. Used' = Used
      BY <2>1 DEF Used, Known, Mined
    <2>4. GivenOut' = GivenOut
      BY <2>1, <2>2, <2>3, InHandStays DEF GivenOut
    <2> QED
      BY <2>1, <2>2, <2>3, <2>4, NoncesKept DEF Synchronising
  <1> QED
    BY <1>2, <1>3, <1>4

(* After a fault nothing is claimed. *)
LEMMA FaultsAreCounted ==
    ASSUME Typed,
           \/ Redeliver \/ Reorganise
           \/ \E i \in Instances : HandlerRaises(i) \/ CallRaises(i) \/ Restart(i)
    PROVE  faults' # 0
  <1>1. faults \in Nat /\ faults' = faults + 1
    BY BlockchainConstants
    DEF Typed, TypeOK, Redeliver, Reorganise, HandlerRaises, CallRaises, Restart
  <1> QED
    BY <1>1

LEMMA NextKeepsNonces ==
    ASSUME Typed, OnePlace, NoneSkipped, [Next]_vars PROVE NoneSkipped'
  <1>1. CASE \/ Redeliver \/ Reorganise
             \/ \E i \in Instances : HandlerRaises(i) \/ CallRaises(i) \/ Restart(i)
    BY <1>1, FaultsAreCounted DEF NoneSkipped
  <1>2. CASE \/ MineTx \/ EmptyBlock \/ UNCHANGED vars
             \/ \E i \in Instances : Worker(i) \/ Monitor(i)
    <2>1. UNCHANGED faults
      <3>1. ASSUME NEW i \in Instances, Monitor(i) PROVE UNCHANGED faults
        BY <3>1, MonitorStepMoves DEF MonitorMoves
      <3>2. ASSUME NEW i \in Instances, Worker(i) PROVE UNCHANGED faults
        BY <3>2 DEF Worker, SyncCount, SyncSet, TakeEvent, NextNonce, ExecuteTx, SaveRecord
      <3> QED
        BY <1>2, <3>1, <3>2 DEF MineTx, EmptyBlock, vars
    <2>2. CASE faults # 0
      BY <2>1, <2>2 DEF NoneSkipped
    <2>3. CASE faults = 0
      BY <1>2, <2>3, SyncCountKeepsNonces, SyncSetKeepsNonces, NextNonceKeepsNonces,
         ExecuteTxKeepsNonces, OtherStepsKeepNonces DEF Worker
    <2> QED
      BY <2>2, <2>3
  <1> QED
    BY <1>1, <1>2 DEF Next

LEMMA InitNonces == Init => NoneSkipped
  <1> SUFFICES ASSUME Init PROVE NoneSkipped
    OBVIOUS
  <1>1. \A i \in Instances : worker[i].pc = "count" /\ worker[i].event = None
    BY DEF Init, Starting
  <1>2. Used = {} /\ InHand = {}
    BY <1>1 DEF Init, Used, Nonces, Known, Mined, InHand, At
  <1> QED
    BY <1>1, <1>2 DEF NoneSkipped, GivenOut, Synchronising, At

(* A finite set that has everything below its members is an interval. *)
LEMMA DownwardClosed ==
    ASSUME NEW S \in SUBSET Nat, IsFiniteSet(S), \A n \in S : 0 .. n - 1 \subseteq S
    PROVE  S = 0 .. Cardinality(S) - 1
  <1>1. Cardinality(S) \in Nat
    BY FS_CardinalityType
  <1>2. PICK n \in 0 .. Cardinality(S) : n \notin S /\ \A m \in 0 .. n - 1 : m \in S
    BY <1>1, FirstFree
  <1>3. ASSUME NEW x \in S PROVE x \in 0 .. n - 1
    <2>1. n < x => n \in 0 .. x - 1
      OBVIOUS
    <2> QED
      BY <1>2, <2>1
  <1>4. S = 0 .. n - 1
    BY <1>2, <1>3
  <1>5. Cardinality(0 .. n - 1) = n
    BY FS_Interval
  <1> QED
    BY <1>4, <1>5

LEMMA NoneSkippedLeavesNoGap == Typed /\ OnePlace /\ NoneSkipped => NoGap
  <1> SUFFICES ASSUME Typed, OnePlace, NoneSkipped, faults = 0,
                      \A i \in Instances : ~At(i, "send")
               PROVE  Used = 0 .. Cardinality(Known) - 1
    BY DEF NoGap, Used, Known
  <1>1. GivenOut = Used
    BY DEF GivenOut, InHand
  <1>2. \A n \in Used : 0 .. n - 1 \subseteq Used
    BY <1>1 DEF NoneSkipped
  <1>3. Used = 0 .. Cardinality(Used) - 1
    BY <1>2, TheNodeIsFinite, DownwardClosed
  <1>4. \A t, u \in Known : t.nonce = u.nonce => t = u
    BY DEF OnePlace
  <1>5. Cardinality(Used) = Cardinality(Known)
    BY <1>4, TheNodeIsFinite, CountNonces DEF Used
  <1> QED
    BY <1>3, <1>5

(***************************************************************************)
(* As long as nothing fails, the nonces the node has are 0, 1, 2, ...      *)
(* whenever none is on its way: however many workers call                  *)
(* get_next_nonce and sync_from_chain in any order, a nonce is skipped by  *)
(* none of them, and one given out twice is refused and drawn again.       *)
(***************************************************************************)
THEOREM NoncesLeaveNoGap == Spec => []NoGap
  <1>1. Typed /\ OnePlace /\ NoneSkipped /\ [Next]_vars => Typed' /\ OnePlace' /\ NoneSkipped'
    BY NextTyped, NextKeepsPlace, NextKeepsNonces
  <1> QED
    BY <1>1, InitTyped, InitPlaceAndFresh, InitNonces, NoneSkippedLeavesNoGap, PTL DEF Spec
=============================================================================
