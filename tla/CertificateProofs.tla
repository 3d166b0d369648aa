-------------------------- MODULE CertificateProofs --------------------------
(***************************************************************************)
(* What a published certificate rests on, and that its silence is heard,   *)
(* for any losses, coverage, issues, ages and days.                        *)
(***************************************************************************)
EXTENDS Certificates, SequenceTheorems, TLAPS

-----------------------------------------------------------------------------
(* The watch                                                               *)

Transports == {"json-rpc", "websocket"}
Outcomes == {"reproducible", "unreproducible", "check_error"}

\* The status speaks of the entries there were on its day, and what it does not
\* call an error was answered then; younger entries are no older than it is.
StatusSound ==
    /\ today \in Nat
    /\ index \in Seq(Transports)
    /\ published \in Seq(Int) /\ Len(published) = Len(index)
    /\ answered \in Seq(Int) /\ Len(answered) = Len(index)
    /\ status.day \in Int /\ status.day <= today
    /\ status.results \in Seq(Outcomes)
    /\ Len(status.results) <= Len(index)
    /\ \A i \in DOMAIN status.results :
         status.results[i] # "check_error" => answered[i] = status.day
    /\ \A i \in DOMAIN status.results : status.day \in Nat
    /\ \A i \in DOMAIN index \ DOMAIN status.results : published[i] >= status.day

\* The state in KV says that an alert was sent today only if it was delivered.
AlertRecorded ==
    /\ kv.alerted \in Int
    /\ kv.alerted <= today
    /\ kv.alerted = today => mailed

WatchInv == StatusSound /\ AlertRecorded /\ SilenceHeard

LEMMA WatchInit == HeartbeatInit => WatchInv
BY DEF HeartbeatInit, WatchInv, StatusSound, AlertRecorded, SilenceHeard,
       NoStatus, NoState, NotRun, Never

\* A run that finds the status healthy finds no entry that was silent for longer
\* than a status may be old (evaluateCertificateStatus).
LEMMA HealthyHeard == ASSUME StatusSound, Healthy PROVE ~Trouble(TRUE)
<1> SUFFICES ASSUME NEW i \in DOMAIN index, today - published[i] > MaxAge,
                    answered[i] = Never \/ today - answered[i] > MaxAge
             PROVE  FALSE
  BY DEF Trouble
<1> USE HeartbeatAssumption
<1>1. today - status.day <= MaxAge /\ status # NoStatus
  BY DEF Healthy
<1>2. \A j \in DOMAIN status.results : status.results[j] # "check_error"
  BY DEF Healthy, Contains, StatusSound
<1>3. CASE i \in DOMAIN status.results
  <2>1. answered[i] = status.day
    BY <1>2, <1>3 DEF StatusSound
  <2>2. answered[i] = Never
    BY <1>1, <2>1 DEF StatusSound
  <2> QED
    BY <1>1, <1>3, <2>1, <2>2 DEF StatusSound, Never
<1>4. CASE i \notin DOMAIN status.results
  BY <1>1, <1>4 DEF StatusSound
<1> QED
  BY <1>3, <1>4

LEMMA CheckIndexKeeps == ASSUME WatchInv, CheckIndex PROVE WatchInv'
<1>1. PICK found \in [DOMAIN index -> Outcomes] :
        /\ status' = [day |-> today, results |-> found]
        /\ answered' = [i \in DOMAIN index |->
                          IF found[i] = "check_error" THEN answered[i] ELSE today]
  BY DEF CheckIndex, Outcomes
<1>2. index \in Seq(Transports) /\ DOMAIN index = 1..Len(index) /\ Len(index) \in Nat
  BY DEF WatchInv, StatusSound
<1>3. found \in Seq(Outcomes) /\ Len(found) = Len(index)
  BY <1>1, <1>2
<1>4. answered' \in Seq(Int) /\ Len(answered') = Len(index)
  <2>1. answered' \in [1..Len(index) -> Int]
    BY <1>1, <1>2 DEF WatchInv, StatusSound
  <2> QED
    BY <1>2, <2>1
<1>5. StatusSound'
  BY <1>1, <1>2, <1>3, <1>4 DEF WatchInv, StatusSound, CheckIndex
<1> QED
  BY <1>5 DEF WatchInv, AlertRecorded, SilenceHeard, CheckIndex

LEMMA NextDayKeeps == ASSUME WatchInv, NextDay PROVE WatchInv'
BY DEF WatchInv, StatusSound, AlertRecorded, SilenceHeard, NextDay, NotRun

LEMMA AddEntryKeeps ==
    ASSUME WatchInv, NEW transport \in Transports, AddEntry(transport)
    PROVE  WatchInv'
<1>1. index \in Seq(Transports) /\ Len(index) \in Nat /\ DOMAIN index = 1..Len(index)
  BY DEF WatchInv, StatusSound
<1>2. index' \in Seq(Transports) /\ Len(index') = Len(index) + 1
  BY <1>1, AppendProperties DEF AddEntry
<1>3. /\ published' \in Seq(Int) /\ Len(published') = Len(index) + 1
      /\ \A i \in 1..Len(index) : published'[i] = published[i]
      /\ published'[Len(index) + 1] = today
  BY AppendProperties DEF AddEntry, WatchInv, StatusSound
<1>4. /\ answered' \in Seq(Int) /\ Len(answered') = Len(index) + 1
      /\ \A i \in 1..Len(index) : answered'[i] = answered[i]
  BY AppendProperties DEF AddEntry, WatchInv, StatusSound, Never
<1>5. DOMAIN status.results \subseteq 1..Len(index) /\ today \in Nat
  BY <1>1 DEF WatchInv, StatusSound
<1>6. UNCHANGED <<today, status, kv, mailed, last>>
  BY DEF AddEntry
<1>7. \A i \in DOMAIN status.results :
        status.results[i] # "check_error" => answered'[i] = status.day
  BY <1>4, <1>5 DEF WatchInv, StatusSound
<1>8. \A i \in DOMAIN index' \ DOMAIN status.results : published'[i] >= status.day
  <2> SUFFICES ASSUME NEW i \in DOMAIN index', i \notin DOMAIN status.results
               PROVE  published'[i] >= status.day
    OBVIOUS
  <2>1. i \in 1..Len(index) + 1
    BY <1>1, <1>2
  <2>2. CASE i = Len(index) + 1
    BY <1>3, <1>5, <2>2 DEF WatchInv, StatusSound
  <2>3. CASE i \in 1..Len(index)
    BY <1>1, <1>3, <2>3 DEF WatchInv, StatusSound
  <2> QED
    BY <1>1, <2>1, <2>2, <2>3
<1>9. StatusSound'
  BY <1>1, <1>2, <1>3, <1>4, <1>5, <1>6, <1>7, <1>8 DEF WatchInv, StatusSound
<1> QED
  BY <1>6, <1>9 DEF WatchInv, AlertRecorded, SilenceHeard

\* A run that ends well with trouble has mailed today, or found that an earlier
\* one of today had (runHeartbeat).
LEMMA RunHeartbeatKeeps == ASSUME WatchInv, RunHeartbeat PROVE WatchInv'
<1>1. PICK fetched, sends, puts \in BOOLEAN :
        LET healthy == fetched /\ Healthy
            alerts == ~healthy /\ ~AlertAlreadySentToday
            recovers == healthy /\ kv.state = "alert"
            state == IF healthy THEN "healthy" ELSE "alert"
            notified == (alerts \/ recovers) => sends
            alerted == CASE alerts /\ sends -> today
                         [] (alerts \/ recovers) /\ ~sends -> Never
                         [] OTHER -> kv.alerted
        IN  /\ mailed' = (mailed \/ (alerts /\ sends))
            /\ kv' = IF puts THEN [state |-> state, alerted |-> alerted] ELSE kv
            /\ Ends(puts /\ notified, fetched)
  BY DEF RunHeartbeat
<1> DEFINE healthy == fetched /\ Healthy
           alerts == ~healthy /\ ~AlertAlreadySentToday
           recovers == healthy /\ kv.state = "alert"
           notified == (alerts \/ recovers) => sends
           alerted == CASE alerts /\ sends -> today
                        [] (alerts \/ recovers) /\ ~sends -> Never
                        [] OTHER -> kv.alerted
<1>2. UNCHANGED <<today, index, status, published, answered>>
  BY DEF RunHeartbeat
<1>3. StatusSound'
  BY <1>2 DEF WatchInv, StatusSound
<1>4. AlertRecorded'
  <2>1. kv'.alerted \in {kv.alerted, alerted}
    BY <1>1
  <2>2. CASE kv'.alerted = kv.alerted
    BY <1>1, <1>2, <2>2 DEF WatchInv, AlertRecorded
  <2>3. CASE kv'.alerted = alerted /\ alerted # kv.alerted
    <3>1. \/ alerts /\ sends /\ alerted = today
          \/ alerted = Never
      BY <2>3
    <3> QED
      BY <1>1, <1>2, <2>3, <3>1 DEF WatchInv, AlertRecorded, StatusSound, Never
  <2> QED
    BY <2>1, <2>2, <2>3
<1>5. SilenceHeard'
  <2> SUFFICES ASSUME puts, notified, Trouble(fetched) PROVE mailed'
    BY <1>1 DEF SilenceHeard, Ends
  <2>1. ~healthy
    BY HealthyHeard DEF WatchInv
  <2>2. CASE alerts
    BY <1>1, <2>2
  <2>3. CASE AlertAlreadySentToday
    BY <1>1, <2>3 DEF AlertAlreadySentToday, WatchInv, AlertRecorded
  <2> QED
    BY <2>1, <2>2, <2>3
<1> QED
  BY <1>3, <1>4, <1>5 DEF WatchInv

-----------------------------------------------------------------------------
(* The files                                                               *)

Steps == {"fund", "vault", "deposit", "mint", "premium", "broker", "cover", "loan",
          "manage", "wait", "reread", "retry", "write", "done"}

\* From the first LoanManage on the script makes no loan.
After == {"wait", "reread", "retry", "write", "done"}

\* The script writes one file, at its end, and what it says of the transaction
\* that resolves the default is what the script has done.
ScriptInv ==
    /\ pc \in Steps
    /\ "premium" \in DOMAIN ledger
    /\ "submitted" \in DOMAIN results
    /\ pc # "done" => artifact = NoFile
    /\ retried => pc \in {"write", "done"}
    /\ retried /\ pc = "write" => results.submitted = "yes"
    /\ retried /\ artifact # NoFile => artifact.submitted = "yes"
    /\ "own" \in DOMAIN ledger
    /\ resolved => ledger.own.state = "closed" /\ pc \in After

\* A bundle holds what its issue found in the file of the script and on the ledger.
Whole(b) ==
    /\ b.network \in Transports
    /\ b.transactions = artifact.tx
    /\ b.archive = b.issue
    /\ b.issue \in DOMAIN seen
    /\ b.loan \in {"own", "other"}
    /\ b.packet.loan = (IF b.approved THEN b.loan ELSE "none")
    /\ b.approved => b.loss = seen[b.issue]
    /\ b.approved /\ b.loan = "own" => ~resolved
    /\ b.approved /\ b.inputs = "lifecycle" => ledger.premium

\* An archive of the issue of an approved bundle has the reads of its validation.
Kept(b, a) == a # NoFile /\ a.issue = b.issue /\ b.approved => a.canonical

FilesInv ==
    /\ issues \in Nat
    /\ DOMAIN seen = 1..issues
    /\ {writing, bundle, archive} # {NoFile} => artifact # NoFile
    /\ writing # NoFile => Whole(writing) /\ Kept(writing, archive)
    /\ bundle # NoFile => Whole(bundle) /\ Kept(bundle, archive)
    /\ archive # NoFile => archive.transactions = artifact.tx

EvidenceInv == ScriptInv /\ FilesInv

LEMMA EvidenceInitInv == EvidenceInit => EvidenceInv
<1> SUFFICES ASSUME EvidenceInit PROVE EvidenceInv
  OBVIOUS
<1> USE DEF EvidenceInit
<1>1. ScriptInv
  BY DEF ScriptInv, Steps, NoResults
<1>2. FilesInv
  BY DEF FilesInv
<1> QED
  BY <1>1, <1>2 DEF EvidenceInv

\* A step of the script before its end: there is no file yet, hence no bundle.
LEMMA ScriptStep ==
    ASSUME EvidenceInv, pc \notin {"write", "done"}, pc' \in Steps \ {"done"},
           FilesUnchanged, "premium" \in DOMAIN ledger', "submitted" \in DOMAIN results',
           retried' \in {retried, TRUE},
           retried' # retried => pc' = "write" /\ results'.submitted = "yes",
           "own" \in DOMAIN ledger',
           resolved' => ledger'.own.state = "closed" /\ pc' \in After
    PROVE  EvidenceInv'
<1>1. artifact = NoFile /\ artifact' = NoFile /\ ~retried
  BY DEF EvidenceInv, ScriptInv, FilesUnchanged
<1>2. ScriptInv'
  BY <1>1 DEF ScriptInv
<1>3. FilesInv'
  BY <1>1 DEF EvidenceInv, FilesInv, FilesUnchanged
<1> QED
  BY <1>2, <1>3 DEF EvidenceInv

LEMMA ScriptKeeps ==
    ASSUME EvidenceInv,
           \/ CreateVault \/ Deposit \/ MintPolicy \/ PayPremium \/ SetBroker
           \/ DepositCover \/ MakeLoan \/ TryManage \/ Wait \/ Reread \/ Retry
    PROVE  EvidenceInv'
<1>1. /\ "premium" \in DOMAIN ledger /\ "submitted" \in DOMAIN results
      /\ "own" \in DOMAIN ledger
      /\ resolved => ledger.own.state = "closed" /\ pc \in After
  BY DEF EvidenceInv, ScriptInv
<1>2. \A label, a : "submitted" \in DOMAIN Recorded(label, a)
  BY <1>1 DEF Recorded
<1>3. ASSUME NEW a
      PROVE  /\ "premium" \in DOMAIN Managed(a) /\ "own" \in DOMAIN Managed(a)
             /\ a.applied => Managed(a).own.state = "closed"
             /\ ~a.applied => Managed(a) = ledger
  BY <1>1 DEF Managed
<1>4. CASE CreateVault
  <2>1. ~resolved
    BY <1>1, <1>4 DEF CreateVault, After
  <2> QED
    BY <1>1, <1>2, <1>4, <2>1, ScriptStep DEF CreateVault, Steps, history
<1>5. CASE Deposit
  <2>1. ~resolved
    BY <1>1, <1>5 DEF Deposit, After
  <2> QED
    BY <1>1, <1>2, <1>5, <2>1, ScriptStep DEF Deposit, Steps, history
<1>6. CASE MintPolicy
  <2>1. ~resolved
    BY <1>1, <1>6 DEF MintPolicy, After
  <2> QED
    BY <1>1, <1>2, <1>6, <2>1, ScriptStep DEF MintPolicy, Steps, history
<1>7. CASE PayPremium
  <2>1. ~resolved
    BY <1>1, <1>7 DEF PayPremium, After
  <2> QED
    BY <1>1, <1>2, <1>7, <2>1, ScriptStep DEF PayPremium, Steps, history
<1>8. CASE SetBroker
  <2>1. ~resolved
    BY <1>1, <1>8 DEF SetBroker, After
  <2> QED
    BY <1>1, <1>2, <1>8, <2>1, ScriptStep DEF SetBroker, Steps, history
<1>9. CASE DepositCover
  <2>1. ~resolved
    BY <1>1, <1>9 DEF DepositCover, After
  <2> QED
    BY <1>1, <1>2, <1>9, <2>1, ScriptStep DEF DepositCover, Steps, history
<1>10. CASE MakeLoan
  <2>1. ~resolved
    BY <1>1, <1>10 DEF MakeLoan, After
  <2> QED
    BY <1>1, <1>2, <1>10, <2>1, ScriptStep DEF MakeLoan, Steps, history
<1>11. CASE TryManage
  <2>1. PICK a \in Answers : ledger' = Managed(a) /\ resolved' = a.applied
                             /\ pc' = (IF a.ok THEN "write" ELSE "wait")
                             /\ results' = Recorded("LoanManage", a)
    BY <1>11 DEF TryManage
  <2>2. "own" \in DOMAIN ledger' /\ "premium" \in DOMAIN ledger'
    BY <1>3, <2>1
  <2>3. resolved' => ledger'.own.state = "closed" /\ pc' \in After
    BY <1>3, <2>1 DEF After
  <2> QED
    BY <1>2, <1>11, <2>1, <2>2, <2>3, ScriptStep DEF TryManage, Steps
<1>12. CASE Wait
  BY <1>1, <1>12, ScriptStep DEF Wait, Steps, After, history
<1>13. CASE Reread
  BY <1>1, <1>13, ScriptStep DEF Reread, Steps, After, history
<1>14. CASE Retry
  <2>1. PICK a \in Answers : /\ ledger' = Managed(a) /\ resolved' = (resolved \/ a.applied)
                             /\ results' = [Recorded("LoanManageRetryAfterGrace", a) EXCEPT
                                             !.submitted = Submitted(a)]
    BY <1>14 DEF Retry
  <2>2. results'.submitted = "yes" /\ "submitted" \in DOMAIN results'
    BY <1>2, <2>1 DEF Submitted
  <2>3. "own" \in DOMAIN ledger' /\ "premium" \in DOMAIN ledger'
    BY <1>3, <2>1
  <2>4. pc' = "write" /\ retried' = TRUE /\ FilesUnchanged /\ pc = "retry"
    BY <1>14 DEF Retry
  <2>5. resolved' => ledger'.own.state = "closed" /\ pc' \in After
    BY <1>1, <1>3, <2>1, <2>4 DEF After
  <2> QED
    BY <2>2, <2>3, <2>4, <2>5, ScriptStep DEF Steps
<1> QED
  BY <1>4, <1>5, <1>6, <1>7, <1>8, <1>9, <1>10, <1>11, <1>12, <1>13, <1>14

\* The end of the script: nothing was issued before, so no bundle speaks of it.
LEMMA FundKeeps == ASSUME EvidenceInv, Fund PROVE EvidenceInv'
<1>1. artifact = NoFile /\ writing = NoFile /\ bundle = NoFile /\ archive = NoFile
  <2>1. pc # "done"
    BY DEF Fund
  <2> QED
    BY <2>1 DEF EvidenceInv, ScriptInv, FilesInv
<1>2. "submitted" \in DOMAIN results'
  BY DEF EvidenceInv, ScriptInv, Fund, NoResults
<1>3. /\ ~retried /\ ~resolved
      /\ UNCHANGED <<ledger, retried, resolved, issues, seen, writing, bundle, archive>>
  BY DEF EvidenceInv, ScriptInv, Fund, After, history
<1>4. (pc' = "vault" /\ UNCHANGED artifact) \/ pc' = "done"
  BY DEF Fund
<1>5. ScriptInv'
  BY <1>1, <1>2, <1>3, <1>4 DEF EvidenceInv, ScriptInv, Steps
<1>6. FilesInv'
  BY <1>1, <1>3 DEF EvidenceInv, FilesInv
<1> QED
  BY <1>5, <1>6 DEF EvidenceInv

LEMMA WriteArtifactKeeps == ASSUME EvidenceInv, WriteArtifact PROVE EvidenceInv'
<1>1. artifact = NoFile /\ writing = NoFile /\ bundle = NoFile /\ archive = NoFile
  BY DEF EvidenceInv, ScriptInv, FilesInv, WriteArtifact
<1>2. "submitted" \in DOMAIN results' /\ pc' = "done"
  BY DEF WriteArtifact, NoResults
<1>3. UNCHANGED <<ledger, retried, resolved, issues, seen, writing, bundle, archive>>
  BY DEF WriteArtifact, history
<1>4. retried /\ artifact' # NoFile => artifact'.submitted = "yes"
  BY <1>1 DEF EvidenceInv, ScriptInv, WriteArtifact
<1>5. ScriptInv'
  BY <1>2, <1>3, <1>4 DEF EvidenceInv, ScriptInv, Steps, After
<1>6. FilesInv'
  BY <1>1, <1>3 DEF EvidenceInv, FilesInv
<1> QED
  BY <1>5, <1>6 DEF EvidenceInv

\* The ledger moves on, but it forgets no payment and opens no closed loan again.
LEMMA LedgerMovesKeeps == ASSUME EvidenceInv, LedgerMoves PROVE EvidenceInv'
<1>1. "premium" \in DOMAIN ledger' /\ ledger'.premium = ledger.premium
  BY DEF EvidenceInv, ScriptInv, LedgerMoves
<1>2. UNCHANGED <<pc, results, retried, resolved, artifact, issues, writing, bundle,
                  archive, seen>>
  BY DEF LedgerMoves, FilesUnchanged, history
<1>5. "own" \in DOMAIN ledger' /\ (ledger.own.state = "closed" => ledger'.own.state = "closed")
  BY DEF EvidenceInv, ScriptInv, LedgerMoves
<1>3. ScriptInv'
  BY <1>1, <1>2, <1>5 DEF EvidenceInv, ScriptInv
<1>4. FilesInv'
  BY <1>1, <1>2 DEF EvidenceInv, FilesInv, Whole, Kept
<1> QED
  BY <1>3, <1>4 DEF EvidenceInv

\* An issue writes down what it was shown, under a number of its own.
LEMMA IssueKeeps ==
    ASSUME EvidenceInv, NEW loan \in {"own", "other"}, NEW inputs \in Inputs,
           NEW allow \in BOOLEAN, Issue(loan, inputs, allow)
    PROVE  EvidenceInv'
<1> DEFINE n == issues + 1
<1>1. /\ issues' = n /\ archive' = RawReads(inputs, n)
      /\ artifact # NoFile
      /\ UNCHANGED <<pc, ledger, results, artifact, bundle, retried, resolved>>
  BY DEF Issue, history
<1>2. seen' = [i \in DOMAIN seen \cup {n} |->
                 IF i = n THEN ledger[loan].owed ELSE seen[i]]
  BY DEF Issue
<1>0. PICK approved \in Verdicts(loan, inputs) : writing' = Bundle(loan, inputs, approved, n)
  BY DEF Issue
<1>3. issues \in Nat /\ DOMAIN seen = 1..issues
  BY DEF EvidenceInv, FilesInv
<1>4. DOMAIN seen' = 1..n /\ n \notin DOMAIN seen
  BY <1>2, <1>3
<1>5. Whole(writing)'
  <2>0. /\ approved => ledger[loan].state = "late" /\ Complete(inputs)
        /\ approved /\ inputs = "lifecycle" => ledger.premium
        /\ approved \in BOOLEAN
    BY DEF Verdicts, Approves, Complete, Inputs
  <2>1. Network(inputs) \in Transports
    BY DEF Network, Transports
  <2>2. /\ writing'.network = Network(inputs) /\ writing'.transactions = artifact.tx
        /\ writing'.archive = n /\ writing'.issue = n /\ writing'.loan = loan
        /\ writing'.approved = approved /\ writing'.inputs = inputs
    BY <1>0 DEF Bundle
  <2>3. approved => writing'.loss = seen'[n]
    BY <1>0, <1>2 DEF Bundle
  <2>4. writing'.packet.loan = (IF approved THEN loan ELSE "none")
    BY <1>0 DEF Bundle, Packet
  <2>5. approved /\ loan = "own" => ~resolved
    BY <2>0 DEF EvidenceInv, ScriptInv
  <2>6. n \in DOMAIN seen'
    BY <1>2
  <2> QED
    BY <1>1, <2>0, <2>1, <2>2, <2>3, <2>4, <2>5, <2>6 DEF Whole
<1>6. bundle # NoFile => Whole(bundle)'
  BY <1>1, <1>2, <1>4 DEF EvidenceInv, FilesInv, Whole
<1>7. /\ archive'.transactions = artifact'.tx /\ archive'.canonical = Complete(inputs)
      /\ archive'.issue = n
  BY <1>1 DEF RawReads
<1>10. bundle # NoFile => Kept(bundle, archive)'
  <2>1. bundle # NoFile => bundle.issue # n
    BY <1>4 DEF EvidenceInv, FilesInv, Whole
  <2> QED
    BY <1>1, <1>7, <2>1 DEF Kept
<1>11. Kept(writing, archive)'
  <2>1. writing'.approved => Complete(inputs)
    BY <1>0 DEF Bundle, Verdicts, Complete, Inputs
  <2> QED
    BY <1>7, <2>1 DEF Kept
<1>8. FilesInv'
  BY <1>1, <1>3, <1>4, <1>5, <1>6, <1>7, <1>10, <1>11 DEF FilesInv
<1>9. ScriptInv'
  BY <1>1 DEF EvidenceInv, ScriptInv
<1> QED
  BY <1>8, <1>9 DEF EvidenceInv

\* The second replacement of an issue, or a crash before it.
LEMMA ReplaceKeeps == ASSUME EvidenceInv, ReplaceBundle \/ IssueCrashes PROVE EvidenceInv'
<1>1. /\ bundle' \in {bundle, writing} /\ writing' = NoFile
      /\ UNCHANGED <<pc, ledger, results, artifact, issues, archive, retried, resolved, seen>>
      /\ artifact # NoFile
  BY DEF ReplaceBundle, IssueCrashes, EvidenceInv, FilesInv, history
<1>2. FilesInv'
  BY <1>1 DEF EvidenceInv, FilesInv, Whole, Kept
<1>3. ScriptInv'
  BY <1>1 DEF EvidenceInv, ScriptInv
<1> QED
  BY <1>2, <1>3 DEF EvidenceInv

LEMMA LeaveKeeps == ASSUME EvidenceInv, Leave PROVE EvidenceInv'
<1>1. /\ pc' = "done" /\ retried' = FALSE /\ results' = NoResults
      /\ artifact' = NoFile /\ bundle' = NoFile /\ archive' = NoFile
      /\ writing' = NoFile /\ issues' = 0 /\ seen' = [i \in {} |-> 0]
      /\ "premium" \in DOMAIN ledger' /\ "own" \in DOMAIN ledger' /\ resolved' = FALSE
  BY DEF Leave, EvidenceInv, ScriptInv
<1>2. ScriptInv'
  BY <1>1 DEF ScriptInv, NoResults, Steps
<1>3. FilesInv'
  BY <1>1 DEF FilesInv
<1> QED
  BY <1>2, <1>3 DEF EvidenceInv

LEMMA EvidenceKeeps == EvidenceInv /\ [Next]_vars => EvidenceInv'
<1> SUFFICES ASSUME EvidenceInv, [Next]_vars PROVE EvidenceInv'
  OBVIOUS
<1>1. CASE UNCHANGED evidenceVars
  BY <1>1 DEF evidenceVars, EvidenceInv, ScriptInv, FilesInv, Whole, Kept
<1>2. CASE Work
  BY <1>2, FundKeeps, ScriptKeeps, WriteArtifactKeeps, LedgerMovesKeeps, IssueKeeps,
     ReplaceKeeps DEF Work, EvidenceNext
<1>3. CASE Watch
  BY <1>1, <1>3 DEF Watch
<1>4. CASE UNCHANGED vars
  BY <1>1, <1>4 DEF vars
<1> QED
  BY <1>2, <1>3, <1>4, LeaveKeeps DEF Next

\* The gate accepts a bundle only with the archive of its own issue, which has the
\* answers to all of its transactions and, if the claim was approved, the reads it was
\* validated with (validate_bundle over _atomic_write_pair), for any number of issues.
THEOREM AcceptedWholeHolds == Spec => []AcceptedWhole
<1>1. EvidenceInv => AcceptedWhole
  <2> SUFFICES ASSUME EvidenceInv, GateAccepts(bundle, archive)
               PROVE  /\ archive.issue = bundle.issue
                      /\ bundle.transactions \subseteq archive.transactions
                      /\ bundle.approved => archive.canonical
    BY DEF AcceptedWhole
  <2>1. bundle # NoFile /\ archive # NoFile /\ archive.issue = bundle.archive
    BY DEF GateAccepts, ArchiveAccepted, HashMatches
  <2> QED
    BY <2>1 DEF EvidenceInv, FilesInv, Whole, Kept
<1>2. Init => EvidenceInv
  BY EvidenceInitInv DEF Init
<1> QED
  BY <1>1, <1>2, EvidenceKeeps, PTL DEF Spec

\* A bundle that passes both judges names what its loan owed at its issue, within the
\* coverage and the pool, for a paid policy; the second LoanManage was not submitted
\* and the first, which always is, had not closed the loan of the packet (verify and
\* validate_bundle), for any losses, coverage and number of issues.
THEOREM VerifiedBackedHolds == Spec => []VerifiedBacked
<1>1. EvidenceInv => VerifiedBacked
  <2> SUFFICES ASSUME EvidenceInv, GateAccepts(bundle, archive), Verifies(artifact, bundle)
               PROVE  /\ ~retried
                      /\ bundle.loan = "own" => ~resolved
                      /\ seen[bundle.issue] = bundle.packet.amount
                      /\ bundle.packet.amount <= Coverage
                      /\ ledger.premium
                      /\ artifact.pool >= bundle.packet.amount
    BY DEF VerifiedBacked
  <2> DEFINE loss == IF artifact.preLoan # Unread THEN artifact.preLoan ELSE artifact.loan
             payout == Smaller(loss, Coverage)
  <2>1. /\ artifact.submitted = "no" /\ bundle.inputs = "lifecycle" /\ payout = bundle.loss /\ payout <= Coverage
        /\ artifact.pool >= payout
        /\ bundle.packet = [amount |-> payout, loan |-> bundle.loan]
    BY DEF Verifies
  <2>2. bundle # NoFile /\ Whole(bundle) /\ artifact # NoFile
    BY DEF GateAccepts, EvidenceInv, FilesInv
  <2>3. bundle.packet.loan = bundle.loan /\ bundle.packet.amount = payout
    BY <2>1
  <2>4. bundle.approved
    BY <2>2, <2>3 DEF Whole
  <2>5. /\ ledger.premium /\ bundle.loss = seen[bundle.issue]
        /\ bundle.loan = "own" => ~resolved
    BY <2>1, <2>2, <2>4 DEF Whole
  <2>6. ~retried
    BY <2>1, <2>2 DEF EvidenceInv, ScriptInv
  <2> QED
    BY <2>1, <2>3, <2>5, <2>6
<1>2. Init => EvidenceInv
  BY EvidenceInitInv DEF Init
<1> QED
  BY <1>1, <1>2, EvidenceKeeps, PTL DEF Spec

-----------------------------------------------------------------------------
(* The watch over what was published                                       *)

\* What the gate accepts has a transport that the weekly check knows.
LEMMA WatchKeeps == EvidenceInv /\ WatchInv /\ [Next]_vars => WatchInv'
<1> SUFFICES ASSUME EvidenceInv, WatchInv, [Next]_vars PROVE WatchInv'
  OBVIOUS
<1>1. CASE UNCHANGED watchVars
  BY <1>1 DEF watchVars, WatchInv, StatusSound, AlertRecorded, SilenceHeard
<1>2. CASE Work
  BY <1>1, <1>2 DEF Work
<1>3. CASE Leave
  <2>1. CASE UNCHANGED watchVars
    BY <1>1, <2>1
  <2>2. CASE GateAccepts(bundle, archive) /\ AddEntry(bundle.network)
    <3>1. bundle.network \in Transports
      BY <2>2 DEF GateAccepts, EvidenceInv, FilesInv, Whole
    <3> QED
      BY <2>2, <3>1, AddEntryKeeps
  <2> QED
    BY <1>3, <2>1, <2>2 DEF Leave
<1>4. CASE Watch
  BY <1>4, CheckIndexKeeps, RunHeartbeatKeeps, NextDayKeeps, AddEntryKeeps
     DEF Watch, HeartbeatNext, Transports
<1>5. CASE UNCHANGED vars
  BY <1>1, <1>5 DEF vars
<1> QED
  BY <1>2, <1>3, <1>4, <1>5 DEF Next

\* A certificate that has been silent for longer than a status may be old is told by
\* mail on every day on which a run of the worker ends well (runHeartbeat over
\* check_index), for any age, expected count and number of certificates.
THEOREM SilenceHeardHolds == Spec => []SilenceHeard
<1>1. Init => EvidenceInv /\ WatchInv
  BY EvidenceInitInv, WatchInit DEF Init
<1>2. WatchInv => SilenceHeard
  BY DEF WatchInv
<1> QED
  BY <1>1, <1>2, EvidenceKeeps, WatchKeeps, PTL DEF Spec

-----------------------------------------------------------------------------
(* Types                                                                   *)

Fields == {"tx", "queries", "wallets", "vault", "policy", "broker", "loan", "preLoan",
           "pool", "ready", "submitted"}

\* What the file says of itself: a policy is bought only for a vault that was found,
\* and a loan whose LoanSet was answered has been read.
Consistent(file) ==
    /\ file.submitted \in {"absent", "no", "yes"}
    /\ file.policy => file.vault
    /\ "LoanSet" \in file.tx => file.loan # Unread

BeforeLoan == {"fund", "vault", "deposit", "mint", "premium", "broker", "cover", "loan"}

\* What the script has gathered is consistent at every step, because the steps that
\* would disturb it come before those that rely on it.
GatheredInv ==
    /\ Fields \subseteq DOMAIN results
    /\ retried \in BOOLEAN /\ resolved \in BOOLEAN
    /\ Consistent(results)
    /\ pc \in {"fund", "vault"} => ~results.policy
    /\ pc \in {"deposit", "mint", "premium"} => results.vault
    /\ pc \in BeforeLoan => "LoanSet" \notin results.tx
    /\ pc # "done" => (results.submitted = "yes") = retried
    /\ artifact # NoFile => Consistent(artifact) /\ (artifact.submitted = "yes") = retried

\* The numbers of the files are those of issues that were begun.
NumbersInv ==
    /\ issues \in 0 .. MaxIssues
    /\ writing # NoFile => writing.issue = issues
    /\ archive # NoFile => archive.issue \in 0 .. issues

\* Every entry was published by today and answered after that.
DaysInv ==
    /\ today \in 0 .. MaxDays
    /\ kv.state \in {"none", "healthy", "alert"}
    /\ \A i \in DOMAIN index :
         /\ published[i] <= today
         /\ answered[i] # Never => answered[i] >= published[i]

CertificateInv == EvidenceInv /\ WatchInv /\ GatheredInv /\ NumbersInv /\ DaysInv

LEMMA InitCertificateInv == Init => CertificateInv
<1> SUFFICES ASSUME Init PROVE CertificateInv
  OBVIOUS
<1>1. EvidenceInv /\ WatchInv
  BY EvidenceInitInv, WatchInit DEF Init
<1>2. GatheredInv
  <2>1. PICK kept \in BOOLEAN : results = [NoResults EXCEPT !.queries = kept]
    BY DEF Init, EvidenceInit
  <2>2. /\ Fields \subseteq DOMAIN results /\ results.submitted = "absent"
        /\ ~results.policy /\ results.tx = {}
    BY <2>1 DEF NoResults, Fields
  <2> QED
    BY <2>2 DEF Init, EvidenceInit, GatheredInv, Consistent
<1>3. NumbersInv /\ DaysInv
  BY EvidenceAssumption, HeartbeatAssumption
  DEF Init, EvidenceInit, HeartbeatInit, NumbersInv, DaysInv, NoFile, NoState
<1> QED
  BY <1>1, <1>2, <1>3 DEF CertificateInv

\* A transaction was applied or it was not.
LEMMA AppliedOrNot == ASSUME NEW a \in Answers PROVE a.applied \in BOOLEAN
<1>1. CASE a = [applied |-> TRUE, ok |-> TRUE]
  BY <1>1
<1>2. CASE a = [applied |-> TRUE, ok |-> FALSE]
  BY <1>2
<1>3. CASE a = [applied |-> FALSE, ok |-> FALSE]
  BY <1>3
<1> QED
  BY <1>1, <1>2, <1>3 DEF Answers

\* A label that is recorded is the only one added, and nothing else changes.
LEMMA RecordedIs ==
    ASSUME Fields \subseteq DOMAIN results, NEW label, NEW a \in Answers
    PROVE  /\ DOMAIN Recorded(label, a) = DOMAIN results
           /\ Recorded(label, a).tx = IF a.ok THEN results.tx \cup {label} ELSE results.tx
           /\ \A field \in Fields \ {"tx"} : Recorded(label, a)[field] = results[field]
  BY DEF Recorded, Fields

\* A step of the script that records another label and leaves the rest alone.
LEMMA LabelKeeps ==
    ASSUME GatheredInv, NEW label, label # "LoanSet", NEW a \in Answers,
           results' = Recorded(label, a), artifact' = artifact,
           retried' = retried, resolved' \in BOOLEAN,
           pc # "done", pc' \notin {"fund", "vault"},
           pc' \in {"deposit", "mint", "premium"} => results.vault,
           pc' \in BeforeLoan => pc \in BeforeLoan
    PROVE  GatheredInv'
<1>1. /\ Fields \subseteq DOMAIN results'
      /\ "LoanSet" \in results'.tx => "LoanSet" \in results.tx
      /\ results'.policy = results.policy /\ results'.vault = results.vault
      /\ results'.loan = results.loan /\ results'.submitted = results.submitted
  <2>1. Fields \subseteq DOMAIN results
    BY DEF GatheredInv
  <2>2. /\ DOMAIN results' = DOMAIN results
        /\ results'.tx = IF a.ok THEN results.tx \cup {label} ELSE results.tx
        /\ \A field \in Fields \ {"tx"} : results'[field] = results[field]
    BY <2>1, RecordedIs
  <2> QED
    BY <2>1, <2>2 DEF Fields
<1> QED
  BY <1>1 DEF GatheredInv, Consistent

LEMMA GatheringKeeps ==
    ASSUME GatheredInv, EvidenceInv,
           \/ CreateVault \/ Deposit \/ MintPolicy \/ PayPremium \/ SetBroker
           \/ DepositCover \/ MakeLoan \/ TryManage \/ Wait \/ Reread \/ Retry
    PROVE  GatheredInv'
<1> USE DEF FilesUnchanged, BeforeLoan, history
<1>0. Fields \subseteq DOMAIN results
  BY DEF GatheredInv
<1>1. CASE CreateVault
  <2>1. PICK a \in Answers, read \in BOOLEAN :
          LET found == a.applied /\ read
          IN  /\ results' = [Recorded("VaultCreate", a) EXCEPT !.vault = found]
              /\ pc' = IF found THEN "deposit" ELSE "write"
    BY <1>1 DEF CreateVault
  <2> DEFINE record == Recorded("VaultCreate", a)
  <2>0. /\ DOMAIN record = DOMAIN results
        /\ record.tx = IF a.ok THEN results.tx \cup {"VaultCreate"} ELSE results.tx
        /\ \A field \in Fields \ {"tx"} : record[field] = results[field]
    BY <1>0, RecordedIs
  <2>2. /\ Fields \subseteq DOMAIN results'
        /\ "LoanSet" \in results'.tx => "LoanSet" \in results.tx
        /\ results'.policy = results.policy /\ results'.vault = (a.applied /\ read)
        /\ results'.loan = results.loan /\ results'.submitted = results.submitted
    BY <1>0, <2>1, <2>0 DEF Fields
  <2> QED
    BY <1>1, <2>1, <2>2 DEF CreateVault, GatheredInv, Consistent
<1>2. CASE Deposit
  BY <1>2, LabelKeeps DEF Deposit, GatheredInv
<1>3. CASE MintPolicy
  BY <1>3, LabelKeeps DEF MintPolicy, GatheredInv
<1>4. CASE PayPremium
  <2>1. PICK a \in Answers :
          results' = [Recorded("WardPolicyPremiumPayment", a) EXCEPT
                        !.policy = TRUE, !.pool = IF a.ok THEN ledger.pool ELSE 0]
    BY <1>4 DEF PayPremium
  <2> DEFINE record == Recorded("WardPolicyPremiumPayment", a)
  <2>0. /\ DOMAIN record = DOMAIN results
        /\ record.tx = IF a.ok THEN results.tx \cup {"WardPolicyPremiumPayment"} ELSE results.tx
        /\ \A field \in Fields \ {"tx"} : record[field] = results[field]
    BY <1>0, RecordedIs
  <2>2. /\ Fields \subseteq DOMAIN results'
        /\ "LoanSet" \in results'.tx => "LoanSet" \in results.tx
        /\ results'.vault = results.vault
        /\ results'.loan = results.loan /\ results'.submitted = results.submitted
    BY <1>0, <2>1, <2>0 DEF Fields
  <2> QED
    BY <1>4, <2>2 DEF PayPremium, GatheredInv, Consistent
<1>5. CASE SetBroker
  <2>1. PICK a \in Answers, read \in BOOLEAN :
          LET found == a.applied /\ read
          IN  /\ results' = [Recorded("LoanBrokerSet", a) EXCEPT !.broker = found]
              /\ pc' = IF found THEN "cover" ELSE "write"
    BY <1>5 DEF SetBroker
  <2> DEFINE record == Recorded("LoanBrokerSet", a)
  <2>0. /\ DOMAIN record = DOMAIN results
        /\ record.tx = IF a.ok THEN results.tx \cup {"LoanBrokerSet"} ELSE results.tx
        /\ \A field \in Fields \ {"tx"} : record[field] = results[field]
    BY <1>0, RecordedIs
  <2>2. /\ Fields \subseteq DOMAIN results'
        /\ "LoanSet" \in results'.tx => "LoanSet" \in results.tx
        /\ results'.policy = results.policy /\ results'.vault = results.vault
        /\ results'.loan = results.loan /\ results'.submitted = results.submitted
    BY <1>0, <2>1, <2>0 DEF Fields
  <2> QED
    BY <1>5, <2>1, <2>2 DEF SetBroker, GatheredInv, Consistent
<1>6. CASE DepositCover
  BY <1>6, LabelKeeps DEF DepositCover, GatheredInv
<1>7. CASE MakeLoan
  <2>1. PICK a \in Answers, read \in BOOLEAN, owed \in Owed :
          LET found == a.ok \/ (a.applied /\ read)
          IN  /\ results' = [Recorded("LoanSet", a) EXCEPT
                               !.loan = IF found THEN owed ELSE Unread]
              /\ pc' = IF found THEN "manage" ELSE "write"
    BY <1>7 DEF MakeLoan
  <2> DEFINE record == Recorded("LoanSet", a)
  <2>0. /\ DOMAIN record = DOMAIN results
        /\ record.tx = IF a.ok THEN results.tx \cup {"LoanSet"} ELSE results.tx
        /\ \A field \in Fields \ {"tx"} : record[field] = results[field]
    BY <1>0, RecordedIs
  <2>2. /\ Fields \subseteq DOMAIN results'
        /\ "LoanSet" \in results'.tx => a.ok \/ "LoanSet" \in results.tx
        /\ results'.policy = results.policy /\ results'.vault = results.vault
        /\ results'.submitted = results.submitted
        /\ a.ok => results'.loan = owed
    BY <1>0, <2>1, <2>0 DEF Fields
  <2>3. owed # Unread
    BY EvidenceAssumption DEF Unread
  <2>4. pc = "loan" /\ UNCHANGED <<retried, resolved, artifact>>
    BY <1>7 DEF MakeLoan
  <2> QED
    BY <2>1, <2>2, <2>3, <2>4 DEF GatheredInv, Consistent
<1>8. CASE TryManage
  <2>1. PICK a \in Answers : results' = Recorded("LoanManage", a) /\ resolved' = a.applied
    BY <1>8 DEF TryManage
  <2>2. a.applied \in BOOLEAN
    BY <2>1, AppliedOrNot
  <2>3. /\ retried' = retried /\ artifact' = artifact
        /\ pc = "manage" /\ pc' \in {"write", "wait"}
    BY <1>8 DEF TryManage
  <2> QED
    BY <2>1, <2>2, <2>3, LabelKeeps
<1>9. CASE Wait
  <2>1. PICK read \in BOOLEAN : results' = [results EXCEPT !.ready = read]
    BY <1>9 DEF Wait
  <2> QED
    BY <1>0, <1>9, <2>1 DEF Wait, GatheredInv, Consistent, Fields
<1>10. CASE Reread
  <2>1. PICK read \in BOOLEAN, stop \in BOOLEAN :
          /\ results' = [results EXCEPT
                           !.preLoan = IF read THEN ledger.own.owed ELSE Unread,
                           !.submitted = IF stop THEN "no" ELSE @]
          /\ pc' = IF stop THEN "write" ELSE "retry"
    BY <1>10 DEF Reread
  <2>2. /\ Fields \subseteq DOMAIN results'
        /\ results'.tx = results.tx /\ results'.loan = results.loan
        /\ results'.policy = results.policy /\ results'.vault = results.vault
        /\ results'.submitted = IF stop THEN "no" ELSE results.submitted
    BY <1>0, <2>1 DEF Fields
  <2>3. ~retried /\ UNCHANGED <<retried, resolved, artifact>> /\ pc = "reread"
    BY <1>10 DEF Reread, EvidenceInv, ScriptInv
  <2> QED
    BY <2>1, <2>2, <2>3 DEF GatheredInv, Consistent
<1>11. CASE Retry
  <2>1. PICK a \in Answers :
          results' = [Recorded("LoanManageRetryAfterGrace", a) EXCEPT
                        !.submitted = Submitted(a)]
    BY <1>11 DEF Retry
  <2> DEFINE record == Recorded("LoanManageRetryAfterGrace", a)
  <2>0. /\ DOMAIN record = DOMAIN results
        /\ record.tx = IF a.ok THEN results.tx \cup {"LoanManageRetryAfterGrace"} ELSE results.tx
        /\ \A field \in Fields \ {"tx"} : record[field] = results[field]
    BY <1>0, RecordedIs
  <2>2. /\ Fields \subseteq DOMAIN results'
        /\ "LoanSet" \in results'.tx => "LoanSet" \in results.tx
        /\ results'.policy = results.policy /\ results'.vault = results.vault
        /\ results'.loan = results.loan /\ results'.submitted = "yes"
    BY <1>0, <2>1, <2>0 DEF Fields, Submitted
  <2>3. artifact = NoFile /\ artifact' = NoFile /\ retried' = TRUE /\ pc' = "write"
    BY <1>11 DEF Retry, EvidenceInv, ScriptInv
  <2>4. resolved' \in BOOLEAN
    BY <1>11 DEF Retry, GatheredInv, Answers
  <2> QED
    BY <2>2, <2>3, <2>4 DEF GatheredInv, Consistent
<1> QED
  BY <1>1, <1>2, <1>3, <1>4, <1>5, <1>6, <1>7, <1>8, <1>9, <1>10, <1>11

LEMMA NoResultsGathered ==
    /\ Fields \subseteq DOMAIN NoResults /\ Consistent(NoResults)
    /\ NoResults.submitted # "yes" /\ ~NoResults.policy /\ NoResults.tx = {}
  BY DEF NoResults, Fields, Consistent

LEMMA GatheredKept ==
    ASSUME EvidenceInv, GatheredInv, [Next]_vars
    PROVE  GatheredInv'
<1>1. ASSUME UNCHANGED <<pc, results, artifact, history>> PROVE GatheredInv'
  BY <1>1 DEF GatheredInv, Consistent, history
<1>2. CASE Fund
  <2>1. \/ pc' = "vault" /\ results' = [results EXCEPT !.wallets = TRUE] /\ artifact' = artifact
        \/ pc' = "done" /\ artifact' = results /\ results' = NoResults
    BY <1>2 DEF Fund
  <2>2. pc = "fund" /\ UNCHANGED <<retried, resolved>>
    BY <1>2 DEF Fund, history
  <2>3. CASE pc' = "vault" /\ results' = [results EXCEPT !.wallets = TRUE]
             /\ artifact' = artifact
    <3>1. /\ Fields \subseteq DOMAIN results'
          /\ \A field \in Fields \ {"wallets"} : results'[field] = results[field]
      BY <2>3 DEF GatheredInv, Fields
    <3> QED
      BY <2>2, <2>3, <3>1 DEF GatheredInv, Consistent, Fields, BeforeLoan
  <2>4. CASE pc' = "done" /\ artifact' = results /\ results' = NoResults
    BY <2>2, <2>4, NoResultsGathered DEF GatheredInv, Consistent, BeforeLoan
  <2> QED
    BY <2>1, <2>3, <2>4
<1>3. CASE WriteArtifact
  <2>1. /\ pc # "done" /\ pc' = "done" /\ results' = NoResults
        /\ artifact' \in {results, artifact} /\ UNCHANGED <<retried, resolved>>
    BY <1>3 DEF WriteArtifact, history
  <2> QED
    BY <2>1, NoResultsGathered DEF GatheredInv, Consistent, BeforeLoan
<1>4. CASE LedgerMoves
  BY <1>1, <1>4 DEF LedgerMoves, FilesUnchanged
<1>5. ASSUME NEW loan \in {"own", "other"}, NEW inputs \in Inputs,
             NEW allow \in BOOLEAN, Issue(loan, inputs, allow)
      PROVE  GatheredInv'
  BY <1>1, <1>5 DEF Issue
<1>6. CASE ReplaceBundle \/ IssueCrashes
  BY <1>1, <1>6 DEF ReplaceBundle, IssueCrashes
<1>7. CASE Work
  BY <1>2, <1>3, <1>4, <1>5, <1>6, <1>7, GatheringKeeps DEF Work, EvidenceNext
<1>8. CASE Leave
  BY <1>8, NoResultsGathered DEF Leave, GatheredInv, Consistent, BeforeLoan
<1>9. CASE Watch
  BY <1>1, <1>9 DEF Watch, evidenceVars, history
<1>10. CASE UNCHANGED vars
  BY <1>1, <1>10 DEF vars, evidenceVars, history
<1> QED
  BY <1>7, <1>8, <1>9, <1>10 DEF Next

LEMMA NumbersKept ==
    ASSUME EvidenceInv, NumbersInv, [Next]_vars
    PROVE  NumbersInv'
<1>1. ASSUME UNCHANGED <<issues, writing, archive>> PROVE NumbersInv'
  BY <1>1 DEF NumbersInv
<1>2. ASSUME NEW loan \in {"own", "other"}, NEW inputs \in Inputs,
             NEW allow \in BOOLEAN, Issue(loan, inputs, allow)
      PROVE  NumbersInv'
  <2>1. /\ issues < MaxIssues /\ issues' = issues + 1
        /\ \E approved : writing' = Bundle(loan, inputs, approved, issues')
        /\ archive' = RawReads(inputs, issues')
    BY <1>2 DEF Issue
  <2>2. writing'.issue = issues' /\ archive'.issue = issues'
    BY <2>1 DEF Bundle, RawReads
  <2> QED
    BY <2>1, <2>2, EvidenceAssumption DEF NumbersInv
<1>3. CASE ReplaceBundle \/ IssueCrashes
  BY <1>3 DEF ReplaceBundle, IssueCrashes, NumbersInv
<1>4. CASE Fund \/ WriteArtifact \/ LedgerMoves
  BY <1>1, <1>4 DEF Fund, WriteArtifact, LedgerMoves, FilesUnchanged
<1>5. CASE \/ CreateVault \/ Deposit \/ MintPolicy \/ PayPremium \/ SetBroker
           \/ DepositCover \/ MakeLoan \/ TryManage \/ Wait \/ Reread \/ Retry
  BY <1>1, <1>5
  DEF CreateVault, Deposit, MintPolicy, PayPremium, SetBroker, DepositCover, MakeLoan,
      TryManage, Wait, Reread, Retry, FilesUnchanged
<1>6. CASE Work
  BY <1>2, <1>3, <1>4, <1>5, <1>6 DEF Work, EvidenceNext
<1>7. CASE Leave
  BY <1>7, EvidenceAssumption DEF Leave, NumbersInv
<1>8. CASE Watch \/ UNCHANGED vars
  BY <1>1, <1>8 DEF Watch, vars, evidenceVars
<1> QED
  BY <1>6, <1>7, <1>8 DEF Next

LEMMA DaysKept ==
    ASSUME EvidenceInv, WatchInv, DaysInv, [Next]_vars
    PROVE  DaysInv'
<1>1. ASSUME UNCHANGED <<today, index, kv, published, answered>> PROVE DaysInv'
  BY <1>1 DEF DaysInv
<1>2. ASSUME NEW transport, AddEntry(transport) PROVE DaysInv'
  <2>1. /\ DOMAIN index' = 1 .. Len(index) + 1 /\ DOMAIN index = 1 .. Len(index)
        /\ Len(index) \in Nat
        /\ \A i \in 1 .. Len(index) : published'[i] = published[i] /\ answered'[i] = answered[i]
        /\ published'[Len(index) + 1] = today /\ answered'[Len(index) + 1] = Never
    BY <1>2 DEF AddEntry, WatchInv, StatusSound
  <2>2. UNCHANGED <<today, kv>>
    BY <1>2 DEF AddEntry
  <2>3. ASSUME NEW i \in DOMAIN index'
        PROVE  published'[i] <= today /\ (answered'[i] # Never => answered'[i] >= published'[i])
    <3>1. CASE i = Len(index) + 1
      BY <2>1, <3>1 DEF DaysInv
    <3>2. CASE i \in 1 .. Len(index)
      BY <2>1, <3>2 DEF DaysInv
    <3> QED
      BY <2>1, <3>1, <3>2
  <2> QED
    BY <2>2, <2>3 DEF DaysInv
<1>3. CASE CheckIndex
  <2>1. \A i \in DOMAIN index : answered'[i] \in {answered[i], today}
    BY <1>3 DEF CheckIndex
  <2> QED
    BY <1>3, <2>1 DEF CheckIndex, DaysInv
<1>4. CASE RunHeartbeat
  <2>1. kv'.state \in {kv.state, "healthy", "alert"}
    BY <1>4 DEF RunHeartbeat
  <2> QED
    BY <1>4, <2>1 DEF RunHeartbeat, DaysInv
<1>5. CASE NextDay
  <2>1. \A i \in DOMAIN index : published[i] \in Int
    BY DEF WatchInv, StatusSound
  <2> QED
    BY <1>5, <2>1, HeartbeatAssumption DEF NextDay, DaysInv
<1>6. CASE Work
  BY <1>1, <1>6 DEF Work, watchVars
<1>7. CASE Leave
  BY <1>1, <1>2, <1>7 DEF Leave, watchVars
<1>8. CASE Watch
  BY <1>2, <1>3, <1>4, <1>5, <1>8 DEF Watch, HeartbeatNext
<1>9. CASE UNCHANGED vars
  BY <1>1, <1>9 DEF vars, watchVars
<1> QED
  BY <1>6, <1>7, <1>8, <1>9 DEF Next

\* The variables of a certificate keep their types: the lifecycle's file is consistent
\* and says whether the resolving transaction was submitted, the files carry numbers of
\* issues that were begun, and no entry was answered before it was published.
THEOREM CertificateTypeOK == Spec => []TypeOK
<1>1. CertificateInv /\ [Next]_vars => CertificateInv'
  BY EvidenceKeeps, WatchKeeps, GatheredKept, NumbersKept, DaysKept DEF CertificateInv
<1>2. CertificateInv => TypeOK
  <2> SUFFICES ASSUME CertificateInv PROVE TypeOK
    OBVIOUS
  <2>1. EvidenceTypeOK
    BY DEF CertificateInv, GatheredInv, Consistent, NumbersInv, EvidenceInv, FilesInv,
           Whole, EvidenceTypeOK, NoFile
  <2>2. HeartbeatTypeOK
    BY DEF CertificateInv, DaysInv, WatchInv, StatusSound, AlertRecorded, HeartbeatTypeOK
  <2> QED
    BY <2>1, <2>2 DEF TypeOK
<1> QED
  BY <1>1, <1>2, InitCertificateInv, PTL DEF Spec
=============================================================================
