---------------------------- MODULE MonitorProofs ----------------------------
(***************************************************************************)
(* Theorems of VaultMonitor, for any loans and any confirmation count:     *)
(* what the monitor may report, and that it forgets nothing.  That it      *)
(* reports in the end is checked by TLC only.                              *)
(***************************************************************************)
EXTENDS VaultMonitor, SequenceTheorems, TLAPS

----------------------------------------------------------------------------
(* Types.                                                                  *)

Message == [type : {"tx"}, loan : Loans, flagged : BOOLEAN] \cup {LedgerMessage}

LEMMA Counting ==
  /\ \A n \in 0 .. ConfirmCount : Upto(n + 1) \in 0 .. ConfirmCount
  /\ \A n, k \in 0 .. ConfirmCount : n <= k => Upto(n + 1) <= Upto(k + 1)
  /\ \A n, k \in 0 .. ConfirmCount : n <= k => n <= Upto(k + 1)
  /\ 0 \in 0 .. ConfirmCount
BY MonitorAssumption DEF Upto

LEMMA TypesInit == Init => TypeOK
BY Counting, EmptySeq DEF Init, TypeOK

\* Sending and losing messages, and all that leaves the candidates alone.
LEMMA LinkStep ==
  ASSUME TypeOK, UNCHANGED <<counts, batch>>, chain' \in [Loans -> {"current", "default", "gone"}],
         link' \in {"closed", "open", "subscribed"}, stream' \in Seq(Message),
         brokers' \in SUBSET Loans, brokers \subseteq brokers', subscribed' \subseteq brokers',
         task' \in {"waiting", "confirming", "firing", "ended"},
         stopped' \in BOOLEAN, defaulted' \subseteq Loans
  PROVE  TypeOK'
BY DEF TypeOK, counts, batch, Message

LEMMA EnvironmentTypes == ASSUME TypeOK, Environment PROVE TypeOK'
<1> USE DEF Message
<1>0. TypeOK => stream \in Seq(Message) /\ brokers \in SUBSET Loans
  BY DEF TypeOK
<1>1. ASSUME NEW l \in Loans, LoanMoves(l) PROVE TypeOK'
  <2>1. chain' \in [Loans -> {"current", "default", "gone"}]
    BY <1>1 DEF LoanMoves, TypeOK
  <2> QED
    BY <1>0, <1>1, <2>1, LinkStep DEF LoanMoves, TypeOK
<1>2. ASSUME NEW m \in Message, Send(m) PROVE TypeOK'
  <2>1. stream' \in Seq(Message)
    BY <1>0, <1>2, AppendProperties DEF Send
  <2> QED
    BY <1>0, <1>2, <2>1, LinkStep DEF Send, TypeOK
<1>3. \A l \in Loans, f \in BOOLEAN : TxMessage(l, f) \in Message
  BY DEF TxMessage
<1>4. CASE Disconnect
  <2>1. stream' \in Seq(Message)
    BY <1>4, EmptySeq DEF Disconnect
  <2> QED
    BY <1>0, <1>4, <2>1, LinkStep DEF Disconnect, TypeOK
<1>5. ASSUME NEW l \in Loans, AddLoanBroker(l) PROVE TypeOK'
  BY <1>0, <1>5, LinkStep DEF AddLoanBroker, TypeOK
<1>6. CASE Stop
  BY <1>0, <1>6, LinkStep DEF Stop, TypeOK
<1>7. LedgerMessage \in Message
  OBVIOUS
<1> QED
  BY <1>1, <1>2, <1>3, <1>4, <1>5, <1>6, <1>7
  DEF Environment, BrokerTransaction, LedgerCloses

LEMMA RunTypes == ASSUME TypeOK, Run PROVE TypeOK'
<1>1. stream \in Seq(Message) /\ << >> \in Seq(Message) /\ brokers \in SUBSET Loans
  BY EmptySeq DEF TypeOK, Message
<1>2. UNCHANGED <<chain, brokers, counts, batch, stopped, defaulted>>
  BY DEF Run, Connect, Subscribe, ReturnOnMessage, HeartbeatTimeout, EndRun, Quiet
<1>3. /\ link' \in {"closed", "open", "subscribed"} /\ stream' \in {stream, << >>}
      /\ subscribed' \in {subscribed, brokers, {}} /\ task' \in {task, "ended"}
  BY DEF Run, Connect, Subscribe, ReturnOnMessage, HeartbeatTimeout, EndRun, TypeOK
<1> QED
  BY <1>1, <1>2, <1>3, LinkStep DEF TypeOK

\* Receiving a message leaves the rest of the stream.
LEMMA ReceiveTypes ==
  ASSUME TypeOK, NEW type, Receive(type)
  PROVE  /\ Head(stream) \in Message /\ stream' \in Seq(Message)
         /\ Head(stream).type = type
BY HeadTailProperties DEF TypeOK, Receive, Message

LEMMA HandleTypes == ASSUME TypeOK, Handle PROVE TypeOK'
<1>1. CASE HandleTransaction
  <2> DEFINE l == Head(stream).loan
  <2>1. /\ Head(stream) \in Message /\ stream' \in Seq(Message)
        /\ Head(stream).type = "tx" /\ l \in Loans
    BY <1>1, ReceiveTypes DEF HandleTransaction, Message, LedgerMessage
  <2>2. UNCHANGED <<chain, link, brokers, subscribed, stopped, task, batch, defaulted>>
    BY <1>1 DEF HandleTransaction, Receive
  <2> HIDE DEF l
  <2>3. CASE UNCHANGED counts
    BY <2>1, <2>2, <2>3 DEF TypeOK, counts, batch, Message
  <2>4. CASE /\ l \in pending /\ count' = [count EXCEPT ![l] = Upto(@ + 1)]
             /\ UNCHANGED <<pending, closes>>
    <3>1. count' \in [Loans -> 0 .. ConfirmCount]
      BY <2>1, <2>4, Counting DEF TypeOK
    <3>2. \A k \in pending : closes[k] <= count'[k]
      BY <2>1, <2>4, Counting DEF TypeOK
    <3> QED
      BY <2>1, <2>2, <2>4, <3>1, <3>2 DEF TypeOK, batch, Message
  <2>5. CASE l \in brokers /\ Arm(l)
    <3>1. /\ pending' = pending \cup {l}
          /\ count' = [count EXCEPT ![l] = 0] /\ closes' = [closes EXCEPT ![l] = 0]
      BY <2>5 DEF Arm
    <3>2. 0 \in 0 .. ConfirmCount
      BY Counting
    <3>3. count' \in [Loans -> 0 .. ConfirmCount] /\ closes' \in [Loans -> 0 .. ConfirmCount]
      BY <2>1, <3>1, <3>2 DEF TypeOK
    <3>4. ASSUME NEW k \in pending' PROVE closes'[k] <= count'[k]
      <4>1. k \in Loans
        BY <2>1, <3>1 DEF TypeOK
      <4>2. CASE k = l
        BY <2>1, <3>1, <4>2 DEF TypeOK
      <4>3. CASE k # l
        BY <2>1, <3>1, <4>1, <4>3 DEF TypeOK
      <4> QED
        BY <4>2, <4>3
    <3>5. todo' \cup confirmed' \subseteq pending' /\ pending' \subseteq brokers'
      BY <2>2, <2>5, <3>1 DEF TypeOK, batch
    <3> QED
      BY <2>1, <2>2, <3>3, <3>4, <3>5 DEF TypeOK, batch, Message
  <2> QED
    BY <1>1, <2>3, <2>4, <2>5 DEF HandleTransaction, l
<1>2. CASE HandleLedger
  <2>1. stream' \in Seq(Message)
    BY <1>2, ReceiveTypes DEF HandleLedger
  <2> QED
    BY <1>2, <2>1 DEF HandleLedger, Receive, Candidates, TypeOK, counts, Message
<1>3. ASSUME NEW l \in Loans, ConfirmPending(l) PROVE TypeOK'
  <2>1. /\ count' \in [Loans -> 0 .. ConfirmCount] /\ closes' \in [Loans -> 0 .. ConfirmCount]
        /\ \A k \in pending : closes'[k] <= count'[k]
    BY <1>3, Counting DEF ConfirmPending, TypeOK
  <2>2. /\ todo' = todo \ {l} /\ l \in todo
        /\ confirmed' \in {confirmed, confirmed \cup {l}}
    BY <1>3 DEF ConfirmPending
  <2> QED
    BY <1>3, <2>1, <2>2 DEF ConfirmPending, TypeOK
<1>4. CASE StartFiring
  BY <1>4 DEF StartFiring, TypeOK, counts, batch
<1>5. ASSUME NEW l \in Loans, Fire(l) PROVE TypeOK'
  BY <1>5 DEF Fire, Drop, TypeOK
<1>6. CASE HandlerReturns
  BY <1>6 DEF HandlerReturns, TypeOK, counts, batch
<1> QED
  BY <1>1, <1>2, <1>3, <1>4, <1>5, <1>6 DEF Handle

\* Every variable of the monitor keeps its type, whatever happens to the connection.
THEOREM TypeCorrect == Spec => []TypeOK
<1>1. TypeOK /\ [Next]_vars => TypeOK'
  <2>1. TypeOK /\ UNCHANGED vars => TypeOK'
    BY DEF TypeOK, vars, counts, batch
  <2> QED
    BY <2>1, EnvironmentTypes, RunTypes, HandleTypes DEF Next
<1> QED
  BY <1>1, TypesInit, PTL DEF Spec

----------------------------------------------------------------------------
(* What is reported.                                                       *)

\* A loan is confirmed only by a look at it, and whatever was in default since the
\* ledger message was taken in hand is on record while candidates are looked at.
SeenDefault ==
  /\ confirmed \subseteq defaulted
  /\ task = "confirming" => {l \in Loans : chain[l] = "default"} \subseteq defaulted

LEMMA SeenStep == ASSUME TypeOK, SeenDefault, [Next]_vars PROVE SeenDefault'
<1> USE DEF SeenDefault
<1>1. ASSUME NEW l \in Loans, LoanMoves(l) PROVE SeenDefault'
  BY <1>1 DEF LoanMoves, batch
<1>2. CASE UNCHANGED <<chain, task, confirmed, defaulted>>
  BY <1>2
<1>3. CASE EndRun
  BY <1>3 DEF EndRun, Quiet, batch
<1>4. CASE HandleLedger
  BY <1>4 DEF HandleLedger, Receive
<1>5. ASSUME NEW l \in Loans, ConfirmPending(l) PROVE SeenDefault'
  BY <1>5 DEF ConfirmPending, Verifies
<1>6. CASE StartFiring \/ HandlerReturns
  BY <1>6 DEF StartFiring, HandlerReturns, batch
<1>7. ASSUME NEW l \in Loans, Fire(l) PROVE SeenDefault'
  BY <1>7 DEF Fire
<1>8. CASE Connect \/ Subscribe \/ ReturnOnMessage \/ HeartbeatTimeout
  BY <1>2, <1>8 DEF Connect, Subscribe, ReturnOnMessage, HeartbeatTimeout, Quiet, batch
<1>9. CASE HandleTransaction
  BY <1>2, <1>9 DEF HandleTransaction, Receive, batch
<1>10. CASE LedgerCloses \/ Disconnect \/ Stop \/ \E l \in Loans : BrokerTransaction(l) \/ AddLoanBroker(l)
  BY <1>2, <1>10 DEF LedgerCloses, Disconnect, Stop, BrokerTransaction, AddLoanBroker, Send, batch
<1>11. CASE UNCHANGED vars
  BY <1>2, <1>11 DEF vars, batch
<1> QED
  BY <1>1, <1>3, <1>4, <1>5, <1>6, <1>7, <1>8, <1>9, <1>10, <1>11
  DEF Next, Environment, Run, Handle

\* An event is fired only for a loan that was in default at some moment of the ledger
\* message that confirmed it, whatever the transactions said that armed it.
THEOREM NoFalseDefaultHolds == Spec => NoFalseDefault
<1>1. Init => TypeOK /\ SeenDefault
  BY TypesInit DEF Init, SeenDefault
<1>2. TypeOK /\ SeenDefault /\ [Next]_vars => (TypeOK /\ SeenDefault)'
  <2>1. TypeOK /\ UNCHANGED vars => TypeOK'
    BY DEF TypeOK, vars, counts, batch
  <2> QED
    BY <2>1, SeenStep, EnvironmentTypes, RunTypes, HandleTypes DEF Next
<1>3. SeenDefault => [\A l \in Loans : Fire(l) => l \in defaulted]_vars
  BY DEF SeenDefault, Fire
<1> QED
  BY <1>1, <1>2, <1>3, PTL DEF Spec, NoFalseDefault

\* A candidate leaves the pending set only by its own event.
THEOREM NoCandidateLostHolds == Spec => NoCandidateLost
<1>1. ASSUME Next, NEW l \in pending, l \notin pending' PROVE Fire(l)
  <2>1. CASE Environment \/ Run
    BY <1>1, <2>1
    DEF Environment, LoanMoves, BrokerTransaction, AddLoanBroker, LedgerCloses, Send,
        Disconnect, Stop, Run, Connect, Subscribe, ReturnOnMessage, HeartbeatTimeout, EndRun,
        Quiet, counts
  <2>2. CASE HandleTransaction \/ HandleLedger \/ StartFiring \/ HandlerReturns
    BY <1>1, <2>2 DEF HandleTransaction, Arm, HandleLedger, StartFiring, HandlerReturns, counts
  <2>3. ASSUME NEW k \in Loans, ConfirmPending(k) PROVE FALSE
    BY <1>1, <2>3 DEF ConfirmPending
  <2>4. ASSUME NEW k \in Loans, Fire(k) PROVE k = l
    BY <1>1, <2>4 DEF Fire, Drop
  <2> QED
    BY <1>1, <2>1, <2>2, <2>3, <2>4 DEF Next, Handle
<1>2. [Next]_vars => [\A l \in pending : l \notin pending' => Fire(l)]_vars
  BY <1>1
<1> QED
  BY <1>2, PTL DEF Spec, NoCandidateLost
=============================================================================
