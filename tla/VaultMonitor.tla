--------------------------- MODULE VaultMonitor ---------------------------
(***************************************************************************)
(* VaultMonitor of ward/vault_monitor.py: one coroutine that subscribes to *)
(* the ledger over a WebSocket, counts a candidate default towards its     *)
(* confirmation, verifies it on the ledger and calls back.                 *)
(*                                                                         *)
(* Messages are handled one at a time, but the handler awaits the ledger   *)
(* for each candidate and the callbacks for each event, and meanwhile the  *)
(* ledger moves, the stream grows and the connection breaks.  Each loan is *)
(* managed by a broker of its own, and stands for it.                      *)
(***************************************************************************)
EXTENDS Integers, Sequences, FiniteSets

CONSTANTS
  Loans,        \* loans, each with its broker
  ConfirmCount, \* confirm_count: DEFAULT_CONFIRM_COUNT
  MaxStream     \* bound on undelivered messages

ASSUME MonitorAssumption == ConfirmCount \in Nat \ {0} /\ MaxStream \in Nat \ {0}

VARIABLES
  chain,      \* external: each loan's object: "current", "default", "gone"
  link,       \* "closed", "open" (connected, not yet subscribed), "subscribed"
  stream,     \* external: messages on their way to the monitor
  brokers,    \* _broker_addresses
  subscribed, \* the brokers the server was asked about on this connection
  pending,    \* _pending: the candidates
  count,      \* confirm_count of each candidate, as far as ConfirmCount
  task,       \* "waiting" for a message, "confirming", "firing", "ended"
  todo,       \* candidates that the ledger message in hand has still to count
  confirmed,  \* candidates it has verified
  stopped,    \* _stop_event
  closes,     \* history: ledger messages each candidate was counted at, capped
  defaulted   \* history: loans in default at some moment of the message in hand

vars == <<chain, link, stream, brokers, subscribed, pending, count, task, todo,
          confirmed, stopped, closes, defaulted>>
batch == <<todo, confirmed>>
counts == <<pending, count, closes>>

TxMessage(l, flagged) == [type |-> "tx", loan |-> l, flagged |-> flagged]
LedgerMessage == [type |-> "ledger"]
Upto(n) == IF n < ConfirmCount THEN n ELSE ConfirmCount

Init ==
  /\ chain \in [Loans -> {"current", "default"}]
  /\ link = "closed" /\ stream = <<>>
  /\ brokers = {} /\ subscribed = {}
  /\ pending = {} /\ count = [l \in Loans |-> 0]
  /\ task = "waiting" /\ todo = {} /\ confirmed = {}
  /\ stopped = FALSE
  /\ closes = [l \in Loans |-> 0] /\ defaulted = {}

----------------------------------------------------------------------------
(* The ledger and the connection.                                          *)

\* LoanManage sets the default flag; a loan paid off or written off is deleted.
LoanMoves(l) ==
  /\ \/ chain[l] = "current" /\ chain' = [chain EXCEPT ![l] = "default"]
     \/ chain[l] # "gone" /\ chain' = [chain EXCEPT ![l] = "gone"]
  /\ defaulted' = defaulted \cup {k \in Loans : chain'[k] = "default"}
  /\ UNCHANGED <<link, stream, brokers, subscribed, counts, task, batch, stopped>>

Send(message) ==
  /\ link = "subscribed" /\ Len(stream) < MaxStream
  /\ stream' = Append(stream, message)
  /\ UNCHANGED <<chain, link, brokers, subscribed, counts, task, batch, stopped, defaulted>>

\* A transaction of a subscribed broker.  The handler reads the flags of the first
\* affected node, which need not be the loan: they may say default of any loan.
BrokerTransaction(l) == l \in subscribed /\ \E f \in BOOLEAN : Send(TxMessage(l, f))

LedgerCloses == Send(LedgerMessage)

\* What was on its way is lost, and with it the ledgers until the next subscription.
Disconnect ==
  /\ link # "closed"
  /\ link' = "closed" /\ stream' = <<>> /\ subscribed' = {}
  /\ UNCHANGED <<chain, brokers, counts, task, batch, stopped, defaulted>>

AddLoanBroker(l) ==
  /\ l \notin brokers
  /\ brokers' = brokers \cup {l}
  /\ UNCHANGED <<chain, link, stream, subscribed, counts, task, batch, stopped, defaulted>>

Stop ==
  /\ ~stopped
  /\ stopped' = TRUE
  /\ UNCHANGED <<chain, link, stream, brokers, subscribed, counts, task, batch, defaulted>>

----------------------------------------------------------------------------
(* run.                                                                    *)

Ready == task = "waiting"
Quiet == UNCHANGED <<chain, brokers, counts, batch, stopped, defaulted>>

\* The loop connects unless it is to stop, and subscribes to the brokers it has.
Connect ==
  /\ Ready /\ link = "closed" /\ ~stopped
  /\ link' = "open"
  /\ UNCHANGED <<stream, subscribed, task>> /\ Quiet

Subscribe ==
  /\ Ready /\ link = "open"
  /\ link' = "subscribed" /\ subscribed' = brokers
  /\ UNCHANGED <<stream, task>> /\ Quiet

\* A message that arrives after stop() is not handled, and closes the connection.
ReturnOnMessage ==
  /\ Ready /\ link = "subscribed" /\ stream # <<>> /\ stopped
  /\ link' = "closed" /\ stream' = <<>> /\ subscribed' = {}
  /\ UNCHANGED task /\ Quiet

\* Mutant: no timeout on the wait for a message.
NoTimeout == FALSE

\* MONITOR_HEARTBEAT_TIMEOUT_S passes without a message.
Silent == stream = <<>>

HeartbeatTimeout ==
  /\ Ready /\ link = "subscribed" /\ Silent
  /\ link' = "closed" /\ subscribed' = {}
  /\ UNCHANGED <<stream, task>> /\ Quiet

EndRun ==
  /\ Ready /\ link = "closed" /\ stopped
  /\ task' = "ended"
  /\ UNCHANGED <<link, stream, subscribed>> /\ Quiet

----------------------------------------------------------------------------
(* _handle_message.                                                        *)

Receive(type) ==
  /\ Ready /\ link = "subscribed" /\ stream # <<>> /\ ~stopped
  /\ Head(stream).type = type
  /\ stream' = Tail(stream)
  /\ UNCHANGED <<chain, link, brokers, subscribed, stopped>>

Arm(l) ==
  /\ pending' = pending \cup {l}
  /\ count' = [count EXCEPT ![l] = 0]
  /\ closes' = [closes EXCEPT ![l] = 0]

\* A flagged transaction arms its loan, or counts as a confirmation if it is armed.
HandleTransaction ==
  /\ Receive("tx")
  /\ LET l == Head(stream).loan
     IN  IF l \notin brokers \/ ~Head(stream).flagged THEN UNCHANGED counts
         ELSE IF l \in pending
         THEN count' = [count EXCEPT ![l] = Upto(@ + 1)] /\ UNCHANGED <<pending, closes>>
         ELSE Arm(l)
  /\ UNCHANGED <<task, batch, defaulted>>

\* Mutant: every broker's loan is counted.
EveryLoan == brokers
Candidates == pending

\* _process_pending_confirmations takes the candidates that are there now.
HandleLedger ==
  /\ Receive("ledger")
  /\ task' = "confirming" /\ todo' = Candidates /\ confirmed' = {}
  /\ defaulted' = {l \in Loans : chain[l] = "default"}
  /\ UNCHANGED counts

\* Mutant: the candidate is believed.
VerifiesBlindly(l) == TRUE

Verifies(l) == chain[l] = "default" /\ link = "subscribed"

\* Each candidate in turn is counted and, once it has its count, verified by a
\* request.  A request that fails, or finds no flag, leaves it pending.
ConfirmPending(l) ==
  /\ task = "confirming" /\ l \in todo
  /\ todo' = todo \ {l}
  /\ count' = [count EXCEPT ![l] = Upto(@ + 1)]
  /\ closes' = [closes EXCEPT ![l] = Upto(@ + 1)]
  /\ \/ count'[l] = ConfirmCount /\ Verifies(l) /\ confirmed' = confirmed \cup {l}
     \/ UNCHANGED confirmed
  /\ UNCHANGED <<chain, link, stream, brokers, subscribed, pending, task, stopped, defaulted>>

StartFiring ==
  /\ task = "confirming" /\ todo = {}
  /\ task' = "firing"
  /\ UNCHANGED <<chain, link, stream, brokers, subscribed, counts, batch, stopped, defaulted>>

\* Mutants: all candidates are dropped with the one reported, or none is.
DropAll(l) == {}
DropNone(l) == pending

Drop(l) == pending \ {l}

\* The callbacks run one event at a time; what they raise is only logged.
Fire(l) ==
  /\ task = "firing" /\ l \in confirmed
  /\ confirmed' = confirmed \ {l}
  /\ pending' = Drop(l)
  /\ UNCHANGED <<chain, link, stream, brokers, subscribed, count, closes, task, todo,
                 stopped, defaulted>>

HandlerReturns ==
  /\ task = "firing" /\ confirmed = {}
  /\ task' = "waiting"
  /\ UNCHANGED <<chain, link, stream, brokers, subscribed, counts, batch, stopped, defaulted>>

----------------------------------------------------------------------------

Environment ==
  \/ \E l \in Loans : LoanMoves(l) \/ BrokerTransaction(l) \/ AddLoanBroker(l)
  \/ LedgerCloses \/ Disconnect \/ Stop

Run == Connect \/ Subscribe \/ ReturnOnMessage \/ HeartbeatTimeout \/ EndRun

Handle ==
  \/ HandleTransaction \/ HandleLedger \/ StartFiring \/ HandlerReturns
  \/ \E l \in Loans : ConfirmPending(l) \/ Fire(l)

Next == Environment \/ Run \/ Handle

Spec == Init /\ [][Next]_vars

\* The event loop runs whatever is ready; a subscription is answered or the connection
\* breaks.
Fairness ==
  /\ WF_vars(Connect) /\ WF_vars(Subscribe)
  /\ WF_vars(ReturnOnMessage \/ HeartbeatTimeout) /\ WF_vars(EndRun)
  /\ WF_vars(Handle)

FairSpec == Spec /\ Fairness

\* What DefaultReported asks of the ledger besides: it keeps closing, and a server that
\* is asked again and again answers in the end before the connection breaks.
LedgerFairness ==
  /\ SF_vars(Subscribe) /\ SF_vars(LedgerCloses) /\ SF_vars(HandleLedger)
  /\ \A l \in Loans : SF_vars(ConfirmPending(l) /\ l \in confirmed')

----------------------------------------------------------------------------
(* Properties.                                                             *)

\* Every variable has its type; what is confirmed is pending, and a candidate's
\* ledger messages are among those that counted.
TypeOK ==
  /\ chain \in [Loans -> {"current", "default", "gone"}]
  /\ link \in {"closed", "open", "subscribed"}
  /\ stream \in Seq([type : {"tx"}, loan : Loans, flagged : BOOLEAN] \cup {LedgerMessage})
  /\ brokers \subseteq Loans /\ subscribed \subseteq brokers
  /\ count \in [Loans -> 0 .. ConfirmCount] /\ closes \in [Loans -> 0 .. ConfirmCount]
  /\ task \in {"waiting", "confirming", "firing", "ended"}
  /\ todo \cup confirmed \subseteq pending /\ pending \subseteq brokers
  /\ todo \cap confirmed = {}
  /\ stopped \in BOOLEAN /\ defaulted \subseteq Loans
  /\ \A l \in pending : closes[l] <= count[l]

\* An event is fired only for a loan that was in default on the ledger at some moment
\* of the ledger message that confirmed it, although its candidate may rest on flags
\* of another ledger object (_handle_transaction, _verify_default_on_chain).
NoFalseDefault == [][\A l \in Loans : Fire(l) => l \in defaulted]_vars

\* A candidate leaves the pending set only by its own event: reconnecting, a failed
\* verification, another loan's event or stop() lose none.
NoCandidateLost == [][\A l \in pending : l \notin pending' => Fire(l)]_vars

\* A candidate whose loan is in default and stays there is reported in the end,
\* through lost connections, missed ledgers and failed requests, unless the monitor
\* is stopped, provided the ledger and its server do their part.
DefaultReported ==
  LedgerFairness => \A l \in Loans :
    l \in pending /\ chain[l] = "default" ~> l \notin pending \/ chain[l] = "gone" \/ stopped

\* run() returns after stop(), even if no message arrives any more.
StopReturns == stopped ~> task = "ended"
============================================================================
