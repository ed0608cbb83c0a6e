----------------------------- MODULE Blockchain -----------------------------
(***************************************************************************)
(* The blockchain service: the worker of every running instance, which     *)
(* sends a transaction for an event and records it, the nonce counter they *)
(* share in Redis, and the monitor of every instance, which settles the    *)
(* pending records from the receipts of the node.                          *)
(*                                                                         *)
(* The node is outside the repository: it takes a transaction whose nonce  *)
(* is free, may let a dearer one replace a waiting one, executes nonces in *)
(* order, and may take back blocks that are not Required deep.  Whatever   *)
(* raises, stops or comes twice is counted in faults.                      *)
(***************************************************************************)
EXTENDS Integers, FiniteSets, Sequences

CONSTANTS
    Events,     \* the events of other services that are to be recorded
    Instances,  \* running instances of the service
    Monitors,   \* bound: the instances whose monitor takes part
    Required,   \* required_confirmations
    BatchSize,  \* records the monitor takes at once
    TakesIds,   \* whether UUID(event.aggregate_id) takes the UUID an Event holds
    MaxFaults,  \* bound on errors, stops, redeliveries and reorganisations
    None        \* no event

ASSUME BlockchainConstants ==
    /\ None \notin Events
    /\ Monitors \subseteq Instances
    /\ Required \in Nat \ {0}
    /\ BatchSize \in Nat \ {0}
    /\ TakesIds \in BOOLEAN
    /\ MaxFaults \in Nat

Tx == [event : Events, nonce : Nat]

TransactionStatus == {"PENDING", "CONFIRMED", "FAILED"}

VARIABLES
    events,       \* the topics: queued, taken or done
    counter,      \* the nonce counter in Redis: the last nonce given out
    worker,       \* the local state of each instance's worker
    monitor,      \* the update_confirmation calls of each instance's monitor
    records,      \* the blockchain_records table in the order of created_at
    pool,         \* the node: transactions that wait
    blocks,       \* the node: transactions in a block, and the blocks on top
    sent,         \* every transaction the node has accepted
    orphans,      \* transactions whose record an error or a stop prevented
    announced,    \* transactions BlockchainVerified was published for
    unannounced,  \* confirmed ones whose event an error or a stop prevented
    stale,        \* transactions whose block was taken back under a reader
    faults        \* what has gone wrong so far

service == <<counter, worker, monitor, records>>
node == <<pool, blocks, sent>>
history == <<orphans, announced, unannounced, stale>>
vars == <<events, service, node, history, faults>>

Settling == <<monitor, records, announced, unannounced>>

Starting == [pc |-> "count", event |-> None, nonce |-> 0, retried |-> FALSE]

IdleWorker == [pc |-> "idle", event |-> None, nonce |-> 0, retried |-> FALSE]

Init ==
    /\ events = [e \in Events |-> "queued"]
    /\ counter = 0
    /\ worker = [i \in Instances |-> Starting]
    /\ monitor = [i \in Instances |-> {}]
    /\ records = <<>>
    /\ pool = {}
    /\ blocks = {}
    /\ sent = {}
    /\ orphans = {}
    /\ announced = {}
    /\ unannounced = {}
    /\ stale = {}
    /\ faults = 0

-----------------------------------------------------------------------------
(* The node. *)

Mined == {b.tx : b \in blocks}
InBlock(t) == CHOOSE b \in blocks : b.tx = t

Nonces(txs) == {t.nonce : t \in txs}

(* get_transaction_count(address, 'pending') *)
TransactionCount ==
    CHOOSE n \in 0 .. Cardinality(sent) :
        /\ n \notin Nonces(pool \cup Mined)
        /\ \A m \in 0 .. n - 1 : m \in Nonces(pool \cup Mined)

Deep(t) == t \in Mined /\ InBlock(t).ok /\ InBlock(t).depth >= Required

(* One more block: bound, depth is told apart up to Required only. *)
Deeper(x) == [x EXCEPT !.depth = IF @ < Required THEN @ + 1 ELSE @]

(* A receipt names its block; the calls that hold one see the chain grow.  *)
Grow ==
    monitor' = [i \in Instances |->
                  {IF c.pc = "latest" THEN Deeper(c) ELSE c : c \in monitor[i]}]

MineTx ==
    /\ \E t \in pool, ok \in BOOLEAN :
          /\ t.nonce = Cardinality(blocks)
          /\ pool' = pool \ {t}
          /\ blocks' = {Deeper(b) : b \in blocks} \cup {[tx |-> t, depth |-> 0, ok |-> ok]}
    /\ Grow
    /\ UNCHANGED <<events, counter, worker, records, sent, history, faults>>

(* Another block; bound: only while a transaction waits for confirmations. *)
EmptyBlock ==
    /\ \E b \in blocks : b.depth < Required
    /\ blocks' = {Deeper(b) : b \in blocks}
    /\ Grow
    /\ UNCHANGED <<events, counter, worker, records, pool, sent, history, faults>>

(* Whoever holds the receipt of a block that is taken back holds a stale one. *)
HeldReceipts == {c.tx : c \in {d \in UNION {monitor[i] : i \in Instances} : d.pc # "receipt"}}

Reorganise ==
    /\ faults < MaxFaults
    /\ faults' = faults + 1
    /\ \E n \in 1 .. Required :
          LET lost == {b \in blocks : b.depth < n} IN
             /\ lost # {}
             /\ blocks' = blocks \ lost
             /\ pool' = pool \cup {b.tx : b \in lost}
             /\ stale' = stale \cup (HeldReceipts \cap {b.tx : b \in lost})
    /\ UNCHANGED <<events, service, sent, orphans, announced, unannounced>>

-----------------------------------------------------------------------------
(* The nonce manager and the worker. *)

At(i, pc) == worker[i].pc = pc

Goto(i, pc) == worker' = [worker EXCEPT ![i].pc = pc]

(* The event was handled or its error logged; the loop goes on. *)
Handled(i) ==
    /\ worker' = [worker EXCEPT ![i] = IdleWorker]
    /\ events' = [events EXCEPT ![worker[i].event] = "done"]

(* sync_from_chain, at the start of main and after a nonce error. *)
SyncCount(i) ==
    /\ At(i, "count")
    /\ worker' = [worker EXCEPT ![i].pc = "set", ![i].nonce = TransactionCount]
    /\ UNCHANGED <<events, counter, monitor, records, node, history, faults>>

(* A slip: one too many is taken off, as if the count were a position. *)
SyncSetBelow(i) ==
    /\ At(i, "set")
    /\ counter' = worker[i].nonce - 2
    /\ worker' = [worker EXCEPT ![i].pc = IF worker[i].event = None THEN "idle" ELSE "nonce",
                                ![i].nonce = 0]
    /\ UNCHANGED <<events, monitor, records, node, history, faults>>

(* A slip: the counter is set to the next nonce instead of the last one. *)
SyncSetToCount(i) ==
    /\ At(i, "set")
    /\ counter' = worker[i].nonce
    /\ worker' = [worker EXCEPT ![i].pc = IF worker[i].event = None THEN "idle" ELSE "nonce",
                                ![i].nonce = 0]
    /\ UNCHANGED <<events, monitor, records, node, history, faults>>

SyncSet(i) ==
    /\ At(i, "set")
    /\ counter' = worker[i].nonce - 1
    /\ worker' = [worker EXCEPT ![i].pc = IF worker[i].event = None THEN "idle" ELSE "nonce",
                                ![i].nonce = 0]
    /\ UNCHANGED <<events, monitor, records, node, history, faults>>

(* When the identifier is refused the error is logged and the event done.  *)
TakeEvent(i) ==
    /\ At(i, "idle")
    /\ \E e \in Events :
          /\ events[e] = "queued"
          /\ IF TakesIds
             THEN /\ events' = [events EXCEPT ![e] = "taken"]
                  /\ worker' = [worker EXCEPT ![i].pc = "nonce", ![i].event = e]
             ELSE /\ events' = [events EXCEPT ![e] = "done"]
                  /\ UNCHANGED worker
    /\ UNCHANGED <<counter, monitor, records, node, history, faults>>

(* get_next_nonce: INCR *)
NextNonce(i) ==
    /\ At(i, "nonce")
    /\ counter' = counter + 1
    /\ worker' = [worker EXCEPT ![i].pc = "send", ![i].nonce = counter + 1]
    /\ UNCHANGED <<events, monitor, records, node, history, faults>>

Accepted(i, t) ==
    /\ pool' = pool \cup {t}
    /\ sent' = sent \cup {t}
    /\ Goto(i, "save")
    /\ UNCHANGED events

(* The same nonce with a higher gas price takes the place of one that waits. *)
Replaced(i, t, old) ==
    /\ pool' = (pool \ {old}) \cup {t}
    /\ sent' = sent \cup {t}
    /\ Goto(i, "save")
    /\ UNCHANGED events

(* "nonce too low" or "replacement underpriced": one resync and one retry. *)
Refused(i) ==
    /\ IF worker[i].retried
       THEN Handled(i)
       ELSE /\ worker' = [worker EXCEPT ![i].pc = "count", ![i].retried = TRUE]
            /\ UNCHANGED events
    /\ UNCHANGED <<pool, sent>>

TxOf(i) == [event |-> worker[i].event, nonce |-> worker[i].nonce]

Holders(n) == {t \in pool \cup Mined : t.nonce = n}

(* A slip: the hash of the second attempt is not returned. *)
ExecuteTxLosingRetry(i) ==
    /\ At(i, "send")
    /\ LET t == TxOf(i) IN
          \/ Holders(t.nonce) = {} /\ ~worker[i].retried /\ Accepted(i, t)
          \/ /\ Holders(t.nonce) = {} /\ worker[i].retried
             /\ pool' = pool \cup {t}
             /\ sent' = sent \cup {t}
             /\ Handled(i)
          \/ Holders(t.nonce) # {} /\ Refused(i)
    /\ UNCHANGED <<counter, monitor, records, blocks, history, faults>>

(* send_raw_transaction *)
ExecuteTx(i) ==
    /\ At(i, "send")
    /\ LET t == TxOf(i) IN
          \/ Holders(t.nonce) = {} /\ Accepted(i, t)
          \/ \E old \in Holders(t.nonce) \cap pool : old # t /\ Replaced(i, t, old)
          \/ Holders(t.nonce) # {} /\ Refused(i)
    /\ UNCHANGED <<counter, monitor, records, blocks, history, faults>>

(* The UNIQUE index on tx_hash lets a transaction in once. *)
SaveRecord(i) ==
    /\ At(i, "save")
    /\ records' = IF \E k \in DOMAIN records : records[k].tx = TxOf(i) THEN records
                  ELSE Append(records, [tx |-> TxOf(i), status |-> "PENDING"])
    /\ Handled(i)
    /\ UNCHANGED <<counter, monitor, node, history, faults>>

LoseRecord(i) == orphans' = orphans \cup (IF At(i, "save") THEN {TxOf(i)} ELSE {})

(* Any other error is logged; the event is not tried again. *)
HandlerRaises(i) ==
    /\ worker[i].event # None
    /\ faults < MaxFaults
    /\ faults' = faults + 1
    /\ LoseRecord(i)
    /\ Handled(i)
    /\ UNCHANGED <<counter, monitor, records, node, announced, unannounced, stale>>

(* The offset of a handled event was not committed when the group changed. *)
Redeliver ==
    /\ faults < MaxFaults
    /\ faults' = faults + 1
    /\ \E e \in Events : events[e] = "done" /\ events' = [events EXCEPT ![e] = "queued"]
    /\ UNCHANGED <<service, node, history>>

-----------------------------------------------------------------------------
(* The monitor. *)

(* The pending records, by their place in the order of created_at, and the *)
(* oldest of them.                                                         *)
Pending == {k \in DOMAIN records : records[k].status = "PENDING"}

Oldest == {k \in Pending : Cardinality({j \in Pending : j < k}) < BatchSize}

Call(t) == [tx |-> t, pc |-> "receipt", depth |-> 0, ok |-> FALSE]

(* main has not built the tasks yet. *)
Synchronising(i) == worker[i].event = None /\ worker[i].pc \in {"count", "set"}

(* get_pending_records, once every call of the last batch has returned. *)
GetPending(i) ==
    /\ i \in Monitors
    /\ ~Synchronising(i)
    /\ monitor[i] = {}
    /\ Pending # {}
    /\ monitor' = [monitor EXCEPT ![i] = {Call(records[k].tx) : k \in Oldest}]
    /\ UNCHANGED <<events, counter, worker, records, node, history, faults>>

Continue(i, c, next) == monitor' = [monitor EXCEPT ![i] = (@ \ {c}) \cup next]

(* get_transaction_receipt *)
GetReceipt(i) ==
    /\ \E c \in monitor[i] :
          /\ c.pc = "receipt"
          /\ Continue(i, c,
                IF c.tx \in Mined
                THEN LET b == InBlock(c.tx) IN
                       {[c EXCEPT !.pc = "latest", !.depth = b.depth, !.ok = b.ok]}
                ELSE {})
    /\ UNCHANGED <<events, counter, worker, records, node, history, faults>>

(* A slip: the block of the transaction counts as a confirmation. *)
EnoughCountingOwnBlock(c) == c.depth + 1 >= Required

Enough(c) == c.depth >= Required

(* A slip: a reverted transaction is left to the next round. *)
AfterReceiptGivingUp(c) ==
    IF c.ok /\ Enough(c) THEN {[Call(c.tx) EXCEPT !.pc = "confirm"]} ELSE {}

AfterReceipt(c) ==
    IF ~c.ok THEN {[Call(c.tx) EXCEPT !.pc = "fail"]}
    ELSE IF Enough(c) THEN {[Call(c.tx) EXCEPT !.pc = "confirm"]} ELSE {}

(* The number of the latest block gives the confirmations. *)
GetLatest(i) ==
    /\ \E c \in monitor[i] : c.pc = "latest" /\ Continue(i, c, AfterReceipt(c))
    /\ UNCHANGED <<events, counter, worker, records, node, history, faults>>

(* The upsert of a record that was read as pending. *)
Settle(t, status) ==
    records' = [k \in DOMAIN records |->
                  IF records[k].tx = t THEN [records[k] EXCEPT !.status = status] ELSE records[k]]

ConfirmTransaction(i) ==
    /\ \E c \in monitor[i] :
          /\ c.pc = "confirm"
          /\ Settle(c.tx, "CONFIRMED")
          /\ Continue(i, c, {[c EXCEPT !.pc = "publish"]})
    /\ UNCHANGED <<events, counter, worker, node, history, faults>>

FailTransaction(i) ==
    /\ \E c \in monitor[i] :
          /\ c.pc = "fail"
          /\ Settle(c.tx, "FAILED")
          /\ Continue(i, c, {})
    /\ UNCHANGED <<events, counter, worker, node, history, faults>>

(* A slip: only the first announcement of an instance's batch is sent. *)
PublishVerifiedAlone(i) ==
    /\ \E c \in monitor[i] :
          /\ c.pc = "publish"
          /\ announced' = IF monitor[i] = {c} THEN announced \cup {c.tx} ELSE announced
          /\ Continue(i, c, {})
    /\ UNCHANGED <<events, counter, worker, records, node, orphans, unannounced, stale, faults>>

PublishVerified(i) ==
    /\ \E c \in monitor[i] :
          /\ c.pc = "publish"
          /\ announced' = announced \cup {c.tx}
          /\ Continue(i, c, {})
    /\ UNCHANGED <<events, counter, worker, records, node, orphans, unannounced, stale, faults>>

LoseEvents(calls) ==
    unannounced' = unannounced \cup {c.tx : c \in {d \in calls : d.pc = "publish"}}

(* update_confirmation logs any error; get_receipt answers it with None. *)
CallRaises(i) ==
    /\ faults < MaxFaults
    /\ faults' = faults + 1
    /\ \E c \in monitor[i] : LoseEvents({c}) /\ Continue(i, c, {})
    /\ UNCHANGED <<events, counter, worker, records, node, orphans, announced, stale>>

(* The instance stops and starts again; what it held is lost, and the      *)
(* event is delivered again unless its offset was committed.               *)
Restart(i) ==
    /\ faults < MaxFaults
    /\ faults' = faults + 1
    /\ LoseRecord(i)
    /\ LoseEvents(monitor[i])
    /\ monitor' = [monitor EXCEPT ![i] = {}]
    /\ worker' = [worker EXCEPT ![i] = Starting]
    /\ IF worker[i].event = None
       THEN UNCHANGED events
       ELSE \E s \in {"queued", "done"} : events' = [events EXCEPT ![worker[i].event] = s]
    /\ UNCHANGED <<counter, records, node, announced, stale>>

-----------------------------------------------------------------------------
Worker(i) ==
    \/ SyncCount(i) \/ SyncSet(i) \/ TakeEvent(i) \/ NextNonce(i)
    \/ ExecuteTx(i) \/ SaveRecord(i)

Monitor(i) ==
    \/ GetPending(i) \/ GetReceipt(i) \/ GetLatest(i)
    \/ ConfirmTransaction(i) \/ FailTransaction(i) \/ PublishVerified(i)

Next ==
    \/ Redeliver
    \/ \E i \in Instances : Worker(i) \/ Monitor(i)
    \/ \E i \in Instances : HandlerRaises(i) \/ CallRaises(i) \/ Restart(i)
    \/ MineTx \/ EmptyBlock \/ Reorganise

Spec == Init /\ [][Next]_vars

(* gather gives both tasks of an instance their turn; the chain goes on.   *)
Fairness ==
    /\ \A i \in Instances : WF_vars(Worker(i)) /\ WF_vars(Monitor(i))
    /\ WF_vars(MineTx) /\ WF_vars(EmptyBlock)

LiveSpec == Spec /\ Fairness

-----------------------------------------------------------------------------
WorkerState ==
    [pc : {"count", "set", "idle"}, event : {None}, nonce : Nat, retried : {FALSE}]
        \cup [pc : {"nonce", "send", "save"}, event : Events, nonce : Nat, retried : BOOLEAN]
        \cup [pc : {"count", "set"}, event : Events, nonce : Nat, retried : {TRUE}]

CallState ==
    [tx : Tx, pc : {"receipt", "latest", "confirm", "fail", "publish"},
     depth : Nat, ok : BOOLEAN]

Record == [tx : Tx, status : TransactionStatus]

(* Every variable has its type: no worker ever holds a negative nonce, and *)
(* what is sent is what the node knows or knew.                            *)
TypeOK ==
    /\ events \in [Events -> {"queued", "taken", "done"}]
    /\ counter \in Nat \cup {-1}
    /\ worker \in [Instances -> WorkerState]
    /\ \A i \in Instances : monitor[i] \subseteq CallState
    /\ records \in Seq(Record)
    /\ pool \subseteq Tx
    /\ blocks \subseteq [tx : Tx, depth : Nat, ok : BOOLEAN]
    /\ pool \cup Mined \subseteq sent
    /\ sent \subseteq Tx
    /\ orphans \cup announced \cup unannounced \cup stale \subseteq sent
    /\ faults \in 0 .. MaxFaults

Recorded(t) == \E k \in DOMAIN records : records[k].tx = t

(* Every transaction that was paid for is watched: it has a record, or its *)
(* worker is about to store it, or an error or a stop came between the two *)
(* steps of register_event.                                                *)
SentIsRecorded ==
    \A t \in sent :
        Recorded(t) \/ t \in orphans \/ \E i \in Instances : At(i, "save") /\ TxOf(i) = t

(* As long as nothing fails, racing workers and resyncs leave no gap in    *)
(* the nonces once every nonce that was given out has been used: a gap     *)
(* would hold up every later transaction.                                  *)
NoGap ==
    faults = 0 /\ (\A i \in Instances : ~At(i, "send")) =>
        Nonces(pool \cup Mined) = 0 .. Cardinality(pool \cup Mined) - 1

(* A record that says CONFIRMED has a successful transaction Required      *)
(* blocks deep, whichever instance settled it, unless its block was taken  *)
(* back between the two reads of get_receipt or before the save.           *)
ConfirmedIsDeep ==
    \A k \in DOMAIN records :
        records[k].status = "CONFIRMED" => Deep(records[k].tx) \/ records[k].tx \in stale

Status(t, status) == \E k \in DOMAIN records : records[k] = [tx |-> t, status |-> status]

(* The recorded transactions that have reached a block and are not settled. *)
Unsettled == {t \in Mined : Status(t, "PENDING")}

(* A recorded transaction that reaches a block is settled by some monitor, *)
(* whatever is taken back and sent again.                                  *)
PendingIsSettled == Unsettled # {} ~> Unsettled = {}

(* The confirmed transactions whose event is still to be published.        *)
Unpublished == {t \in sent : Status(t, "CONFIRMED")} \ (announced \cup unannounced)

(* BlockchainVerified follows every confirmation unless publishing it      *)
(* raised or the instance stopped: the record is not looked at again.      *)
ConfirmedIsAnnounced == Unpublished # {} ~> Unpublished = {}
=============================================================================
