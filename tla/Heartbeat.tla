----------------------------- MODULE Heartbeat ------------------------------
(***************************************************************************)
(* The watch over the published certificates.  A weekly job runs           *)
(* scripts/check_certificate_reproducibility.py over the index and commits *)
(* what it found; the worker of workers/certificate-heartbeat.mjs fetches  *)
(* that file every day, with the state of its last run in KV, and mails.   *)
(***************************************************************************)
EXTENDS Integers, Sequences, SequencesExt

CONSTANTS ExpectedCount,  \* EXPECTED_CERTIFICATE_COUNT
          MaxAge,         \* MAX_STATUS_AGE_SECONDS, in days
          MaxCertificates, MaxDays  \* bounds

ASSUME HeartbeatAssumption ==
    /\ ExpectedCount \in Nat /\ MaxAge \in Nat
    /\ MaxCertificates \in Nat /\ MaxDays \in Nat

VARIABLES today,
          index,   \* the certificates: the transport of their rpc_url
          status,  \* the committed status, or NoStatus
          kv,      \* the state under STATE_KEY, or NoState
          \* history
          published, \* day each certificate was published
          answered,  \* day of the last committed answer of its ledger
          mailed,    \* an alert was delivered today
          last       \* the last run of today: did it end well, was there trouble

watchVars == <<today, index, status, kv, published, answered, mailed, last>>

NoStatus == [day |-> -1, results |-> <<>>]
NoState == [state |-> "none", alerted |-> -1]
NotRun == [done |-> FALSE, trouble |-> FALSE]
Never == -1

HeartbeatInit ==
    /\ today = 0
    /\ index = <<>>
    /\ status = NoStatus
    /\ kv = NoState
    /\ published = <<>>
    /\ answered = <<>>
    /\ mailed = FALSE
    /\ last = NotRun

-----------------------------------------------------------------------------
(* The weekly job, which may be started on any day and may fail to push.   *)

\* check_certificate: urlopen cannot open a websocket, and a node may answer
\* with the ledger, that it has it no more, or not at all.
CheckCertificate(transport) ==
    IF transport = "json-rpc" THEN {"reproducible", "unreproducible", "check_error"}
    ELSE {"check_error"}

CheckIndex ==
    /\ \E results \in [DOMAIN index -> {"reproducible", "unreproducible", "check_error"}] :
         /\ \A i \in DOMAIN index : results[i] \in CheckCertificate(index[i])
         /\ status' = [day |-> today, results |-> results]
         /\ answered' = [i \in DOMAIN index |->
                           IF results[i] = "check_error" THEN answered[i] ELSE today]
    /\ UNCHANGED <<today, index, kv, published, mailed, last>>

-----------------------------------------------------------------------------
(* The worker                                                              *)

\* evaluateCertificateStatus, of a status as check_index makes it: its schema,
\* its dates and its sums are in order.
Healthy ==
    /\ status # NoStatus
    /\ today - status.day <= MaxAge
    /\ Len(status.results) = ExpectedCount
    /\ ~Contains(status.results, "check_error")

\* Mutant: once told is told.
AlertStands == kv.state = "alert"
AlertAlreadySentToday == kv.state = "alert" /\ kv.alerted = today

\* A certificate that was published long ago and whose ledger has not answered
\* since; or nobody can tell.
Trouble(fetched) ==
    \/ ~fetched
    \/ \E i \in DOMAIN index :
         /\ today - published[i] > MaxAge
         /\ answered[i] = Never \/ today - answered[i] > MaxAge

Ends(done, fetched) == last' = [done |-> done, trouble |-> Trouble(fetched)]

\* runHeartbeat.  The mail goes out before the state is stored, and a crash or a
\* failing put may come between; a mail that fails is stored and thrown.
RunHeartbeat ==
    /\ \E fetched, sends, puts \in BOOLEAN :
         LET healthy == fetched /\ Healthy
             alerts == ~healthy /\ ~AlertAlreadySentToday
             recovers == healthy /\ kv.state = "alert"
             state == IF healthy THEN "healthy" ELSE "alert"
             notified == (alerts \/ recovers) => sends
             alerted == CASE alerts /\ sends -> today
                          [] (alerts \/ recovers) /\ ~sends -> Never
                          [] OTHER -> kv.alerted
         IN  /\ mailed' = (mailed \/ (alerts /\ sends))
             /\ kv' = IF puts THEN [state |-> state, alerted |-> alerted] ELSE kv
             /\ Ends(puts /\ notified, fetched)
    /\ UNCHANGED <<today, index, status, published, answered>>

NextDay ==
    /\ today < MaxDays
    /\ today' = today + 1
    /\ mailed' = FALSE
    /\ last' = NotRun
    /\ UNCHANGED <<index, status, kv, published, answered>>

\* An entry is added to the index by hand.
AddEntry(transport) ==
    /\ Len(index) < MaxCertificates
    /\ index' = Append(index, transport)
    /\ published' = Append(published, today)
    /\ answered' = Append(answered, Never)
    /\ UNCHANGED <<today, status, kv, mailed, last>>

HeartbeatNext ==
    \/ CheckIndex
    \/ RunHeartbeat
    \/ NextDay
    \/ \E transport \in {"json-rpc", "websocket"} : AddEntry(transport)

-----------------------------------------------------------------------------
(* Properties *)

HeartbeatTypeOK ==
    /\ today \in 0..MaxDays
    /\ Len(published) = Len(index) /\ Len(answered) = Len(index)
    /\ Len(status.results) <= Len(index)
    /\ status.day <= today /\ kv.alerted <= today
    /\ kv.state \in {"none", "healthy", "alert"}
    /\ \A i \in DOMAIN index : answered[i] # Never => answered[i] >= published[i]

\* A certificate whose ledger nobody has asked with success for longer than the
\* age allowed, because the weekly job stopped, could not push or met errors, is
\* told by mail on every day on which a run of the worker ends well: whatever was
\* told, lost or repeated on the days before.
SilenceHeard == last.done /\ last.trouble => mailed
=============================================================================
