------------------------------ MODULE Evidence ------------------------------
(***************************************************************************)
(* How a devnet certificate comes about.  scripts/phase1_devnet_xls6566.py *)
(* walks a loan through its life on the devnet and writes what it was      *)
(* answered; scripts/run_xrpl_devnet_evidence.py validates the claim and   *)
(* issues a bundle with an archive of what was read;                       *)
(* validate_partner_evidence.py and verify_devnet_evidence_independent.py  *)
(* judge the files.                                                        *)
(*                                                                         *)
(* The canonical validator is one read of the ledger here: ClaimValidator  *)
(* has its steps.  Broker cover is 0 with the rates the script leaves      *)
(* unset, so that the loss is what the loan owes.                          *)
(***************************************************************************)
EXTENDS Integers, FiniteSets

CONSTANTS Owed,      \* what the loan may owe, in drops
          OtherOwed, \* what another loan of the vault owes
          Coverage,  \* WARD_POLICY_COVERAGE_DROPS
          Balance,   \* what the faucet may leave the pool with
          Reserve,   \* the part of it that is not usable
          MaxIssues  \* bound on the issues to one output path

ASSUME EvidenceAssumption ==
    /\ Owed \subseteq Nat \ {0} /\ OtherOwed \in Nat /\ Coverage \in Nat \ {0}
    /\ Balance \subseteq Nat /\ Reserve \in Nat
    /\ MaxIssues \in Nat

VARIABLES pc,        \* where the lifecycle script is
          ledger,    \* what the transactions of the script have made
          results,   \* what the script has gathered
          artifact,  \* the file it wrote, once it has
          issues,    \* issues begun
          writing,   \* the bundle of an issue under way, or NoFile
          bundle,    \* the certificate at the output path, or NoFile
          archive,   \* the raw reads beside it, or NoFile
          \* history
          retried,   \* the script has submitted its second LoanManage
          resolved,  \* a LoanManage of the script has closed its loan
          seen       \* what the named loan owed at each issue

evidenceVars == <<pc, ledger, results, artifact, issues, writing, bundle,
                  archive, retried, resolved, seen>>
history == <<retried, resolved>>

NoFile == [issue |-> 0]
Unread == -1
NoLoan == [state |-> "none", owed |-> 0]
NoResults == [tx |-> {}, queries |-> FALSE,
              wallets |-> FALSE, vault |-> FALSE, policy |-> FALSE, broker |-> FALSE,
              loan |-> Unread, preLoan |-> Unread, pool |-> 0,
              ready |-> FALSE, submitted |-> "absent"]

\* The vault's owner may have a loan of an earlier life ("other").
EvidenceInit ==
    /\ pc = "fund"
    /\ \E pool \in Balance :
         ledger = [deposit |-> FALSE, nft |-> FALSE,
                   premium |-> FALSE, pool |-> pool,
                   own |-> NoLoan,
                   other |-> [state |-> "late", owed |-> OtherOwed]]
    /\ \E kept \in BOOLEAN : results = [NoResults EXCEPT !.queries = kept]
    /\ artifact = NoFile
    /\ issues = 0
    /\ writing = NoFile
    /\ bundle = NoFile
    /\ archive = NoFile
    /\ retried = FALSE
    /\ resolved = FALSE
    /\ seen = [i \in {} |-> 0]

-----------------------------------------------------------------------------
(* The lifecycle script.  submit_tx records an error and returns None both *)
(* when the ledger refuses and when the answer is lost after it applied.   *)

Answers == {[applied |-> TRUE, ok |-> TRUE], [applied |-> TRUE, ok |-> FALSE],
            [applied |-> FALSE, ok |-> FALSE]}

\* Mutant: the answer is not looked at.
RecordedAnyway(label, a) == [results EXCEPT !.tx = @ \cup {label}]

\* An entry with an error has no hash, and every reader passes it over.
Recorded(label, a) == [results EXCEPT !.tx = IF a.ok THEN @ \cup {label} ELSE @]

FilesUnchanged == UNCHANGED <<artifact, issues, writing, bundle, archive, seen>>

\* Fewer than five wallets: what there is is written and the script exits.
Fund ==
    /\ pc = "fund"
    /\ \/ /\ pc' = "vault"
          /\ results' = [results EXCEPT !.wallets = TRUE]
          /\ UNCHANGED artifact
       \/ pc' = "done" /\ artifact' = results /\ results' = NoResults
    /\ UNCHANGED <<ledger, issues, writing, bundle, archive, history, seen>>

CreateVault ==
    /\ pc = "vault"
    /\ \E a \in Answers, read \in BOOLEAN :
         LET found == a.applied /\ read
         IN  /\ results' = [Recorded("VaultCreate", a) EXCEPT !.vault = found]
             /\ pc' = IF found THEN "deposit" ELSE "write"
    /\ UNCHANGED <<ledger, history>> /\ FilesUnchanged

Deposit ==
    /\ pc = "deposit"
    /\ \E a \in Answers :
         /\ ledger' = [ledger EXCEPT !.deposit = a.applied]
         /\ results' = Recorded("VaultDeposit", a)
    /\ pc' = "mint"
    /\ UNCHANGED history /\ FilesUnchanged

\* The NFT is looked for only if the mint was answered.
MintPolicy ==
    /\ pc = "mint"
    /\ \E a \in Answers, read \in BOOLEAN :
         /\ ledger' = [ledger EXCEPT !.nft = a.applied]
         /\ results' = Recorded("WardPolicyNFTokenMint", a)
         /\ pc' = IF a.ok /\ read THEN "premium" ELSE "broker"
    /\ UNCHANGED history /\ FilesUnchanged

\* ward_policy is written whatever the answer to the payment was.
PayPremium ==
    /\ pc = "premium"
    /\ \E a \in Answers :
         /\ ledger' = [ledger EXCEPT !.premium = a.applied]
         /\ results' = [Recorded("WardPolicyPremiumPayment", a) EXCEPT
                          !.policy = TRUE, !.pool = IF a.ok THEN ledger.pool ELSE 0]
    /\ pc' = "broker"
    /\ UNCHANGED history /\ FilesUnchanged

SetBroker ==
    /\ pc = "broker"
    /\ \E a \in Answers, read \in BOOLEAN :
         LET found == a.applied /\ read
         IN  /\ results' = [Recorded("LoanBrokerSet", a) EXCEPT !.broker = found]
             /\ pc' = IF found THEN "cover" ELSE "write"
    /\ UNCHANGED <<ledger, history>> /\ FilesUnchanged

DepositCover ==
    /\ pc = "cover"
    /\ \E a \in Answers : results' = Recorded("LoanBrokerCoverDeposit", a)
    /\ pc' = "loan"
    /\ UNCHANGED <<ledger, history>> /\ FilesUnchanged

\* The loan's id comes from the metadata, or else from account_objects.
MakeLoan ==
    /\ pc = "loan"
    /\ \E a \in Answers, read \in BOOLEAN, owed \in Owed :
         LET found == a.ok \/ (a.applied /\ read)
         IN  /\ a.applied => ledger.deposit
             /\ ledger' = IF a.applied
                          THEN [ledger EXCEPT !.own = [state |-> "current", owed |-> owed]]
                          ELSE ledger
             /\ results' = [Recorded("LoanSet", a) EXCEPT
                              !.loan = IF found THEN owed ELSE Unread]
             /\ pc' = IF found THEN "manage" ELSE "write"
    /\ UNCHANGED history /\ FilesUnchanged

\* The ledger defaults a loan only once its grace has passed.
Managed(a) ==
    IF a.applied THEN [ledger EXCEPT !.own = [state |-> "closed", owed |-> 0]] ELSE ledger

\* The first LoanManage has the flag of the second and is always submitted.
TryManage ==
    /\ pc = "manage"
    /\ \E a \in Answers :
         /\ a.applied => ledger.own.state = "late"
         /\ ledger' = Managed(a)
         /\ results' = Recorded("LoanManage", a)
         /\ resolved' = a.applied
         /\ pc' = IF a.ok THEN "write" ELSE "wait"
    /\ UNCHANGED retried /\ FilesUnchanged

\* 150 seconds outlast the payment interval with the grace.
Wait ==
    /\ pc = "wait"
    /\ ledger.own.state # "current"
    /\ \E read \in BOOLEAN : results' = [results EXCEPT !.ready = read]
    /\ pc' = "reread"
    /\ UNCHANGED <<ledger, history>> /\ FilesUnchanged

\* --stop-before-default-resolution is looked at here and nowhere else.
Reread ==
    /\ pc = "reread"
    /\ \E read, stop \in BOOLEAN :
         /\ results' = [results EXCEPT
                          !.preLoan = IF read THEN ledger.own.owed ELSE Unread,
                          !.submitted = IF stop THEN "no" ELSE @]
         /\ pc' = IF stop THEN "write" ELSE "retry"
    /\ UNCHANGED <<ledger, history>> /\ FilesUnchanged

\* Mutant: only an answer counts as a submission.
SubmittedIfAnswered(a) == IF a.ok THEN "yes" ELSE "no"
Submitted(a) == "yes"

Retry ==
    /\ pc = "retry"
    /\ \E a \in Answers :
         /\ a.applied => ledger.own.state = "late"
         /\ ledger' = Managed(a)
         /\ results' = [Recorded("LoanManageRetryAfterGrace", a) EXCEPT
                          !.submitted = Submitted(a)]
         /\ resolved' = (resolved \/ a.applied)
    /\ retried' = TRUE
    /\ pc' = "write"
    /\ FilesUnchanged

\* The file is written in the end, or the script is interrupted before that.
WriteArtifact ==
    /\ pc \notin {"done", "fund"}
    /\ \/ pc = "write" /\ artifact' = results
       \/ UNCHANGED artifact
    /\ pc' = "done"
    /\ results' = NoResults
    /\ UNCHANGED <<ledger, issues, writing, bundle, archive, history, seen>>

\* Time, and whoever has the seeds of the wallets: they are in the file.
LedgerMoves ==
    /\ \/ /\ ledger.own.state = "current"
          /\ ledger' = [ledger EXCEPT !.own.state = "late"]
       \/ /\ ledger.own.state = "late" /\ pc = "done"
          /\ ledger' = [ledger EXCEPT !.own = [state |-> "closed", owed |-> 0]]
       \/ /\ ledger.nft /\ pc = "done"
          /\ ledger' = [ledger EXCEPT !.nft = FALSE]
       \/ /\ pc = "done" /\ ledger.pool # Reserve
          /\ ledger' = [ledger EXCEPT !.pool = Reserve]
    /\ UNCHANGED <<pc, results, history>> /\ FilesUnchanged

-----------------------------------------------------------------------------
(* The issue of a bundle                                                   *)

\* The policy, its pool, the claimant and the vault are those of the lifecycle, or
\* are given on the command line, all or some of them.
Inputs == {"lifecycle", "given"}

\* build_bundle's complete_inputs
Complete(inputs) == inputs = "given" \/ (artifact.policy /\ artifact.wallets)
Network(inputs) == IF Complete(inputs) THEN "json-rpc" ELSE "websocket"

\* _run_canonical_validation of the policy of the lifecycle: step 6 asks the pool
\* for the whole loss.
Approves(loan) ==
    /\ ledger.nft /\ ledger.premium
    /\ ledger[loan].state = "late" /\ ledger[loan].owed > 0
    /\ ledger.pool - Reserve >= ledger[loan].owed

\* What is given may name any policy and pool; the loan is read all the same.
Verdicts(loan, inputs) ==
    IF inputs = "lifecycle" THEN {Complete(inputs) /\ Approves(loan)}
    ELSE {FALSE, ledger[loan].state = "late" /\ ledger[loan].owed > 0}

Smaller(a, b) == IF a <= b THEN a ELSE b
Payout(loan, approved) == IF approved THEN Smaller(ledger[loan].owed, Coverage) ELSE 0

\* The resolver's Payment with the memo that binds it.
Packet(loan, approved) ==
    [amount |-> Payout(loan, approved), loan |-> IF approved THEN loan ELSE "none"]

Bundle(loan, inputs, approved, n) ==
    [issue |-> n, archive |-> n, network |-> Network(inputs), inputs |-> inputs,
     loan |-> loan, transactions |-> artifact.tx, approved |-> approved,
     payout |-> Payout(loan, approved), loss |-> IF approved THEN ledger[loan].owed ELSE 0,
     packet |-> Packet(loan, approved)]

RawReads(inputs, n) ==
    [issue |-> n, network |-> Network(inputs), transactions |-> artifact.tx,
     canonical |-> Complete(inputs)]

\* The script in the repository keeps none of the queries that an archive must
\* have for a vault or a broker; the script of the recorded artifacts does.
ArchiveComplete == artifact.vault \/ artifact.broker => artifact.queries

\* issue_evidence up to the first replacement of _atomic_write_pair: each is
\* atomic, the pair is not.  A refusal writes nothing.  The loan is that of the
\* lifecycle, unless --loan-id names another.
Issue(loan, inputs, allowIncomplete) ==
    LET n == issues + 1
    IN  /\ artifact # NoFile
        /\ writing = NoFile
        /\ issues < MaxIssues
        /\ Complete(inputs) \/ allowIncomplete
        /\ ArchiveComplete
        /\ issues' = n
        /\ archive' = RawReads(inputs, n)
        /\ \E approved \in Verdicts(loan, inputs) :
             writing' = Bundle(loan, inputs, approved, n)
        /\ seen' = [i \in DOMAIN seen \cup {n} |->
                      IF i = n THEN ledger[loan].owed ELSE seen[i]]
        /\ UNCHANGED <<pc, ledger, results, artifact, bundle, history>>

ReplaceBundle ==
    /\ writing # NoFile
    /\ bundle' = writing
    /\ writing' = NoFile
    /\ UNCHANGED <<pc, ledger, results, artifact, issues, archive, history, seen>>

IssueCrashes ==
    /\ writing # NoFile
    /\ writing' = NoFile
    /\ UNCHANGED <<pc, ledger, results, artifact, issues, bundle, archive,
                   history, seen>>

-----------------------------------------------------------------------------
(* The two judges                                                          *)

\* Mutant: the name of the archive is enough.
NamedArchive(b, a) == TRUE
HashMatches(b, a) == a.issue = b.archive

ArchiveAccepted(b, a) == a # NoFile /\ HashMatches(b, a) /\ a.network = b.network

PacketAccepted(b) ==
    IF b.approved THEN b.packet.amount > 0 ELSE b.packet.loan = "none"

\* validate_bundle
GateAccepts(b, a) ==
    /\ b # NoFile
    /\ b.transactions # {}
    /\ PacketAccepted(b)
    /\ ArchiveAccepted(b, a)

\* verify; a transaction that is missing raises, which ends it too.  Policy, pool,
\* claimant and vault of the bundle are compared with those of the lifecycle.
Verifies(art, b) ==
    LET loss == IF art.preLoan # Unread THEN art.preLoan ELSE art.loan
        payout == Smaller(loss, Coverage)
    IN  /\ {"VaultCreate", "VaultDeposit", "WardPolicyNFTokenMint",
            "WardPolicyPremiumPayment", "LoanBrokerSet", "LoanBrokerCoverDeposit",
            "LoanSet"} \subseteq art.tx
        /\ art.submitted = "no"
        /\ art.policy /\ b.inputs = "lifecycle"
        /\ art.ready /\ loss > 0
        /\ payout = b.payout /\ payout = b.loss /\ payout <= Coverage
        /\ art.pool >= payout
        /\ b.packet = [amount |-> payout, loan |-> b.loan]

EvidenceNext ==
    \/ Fund \/ CreateVault \/ Deposit \/ MintPolicy \/ PayPremium \/ SetBroker
    \/ DepositCover \/ MakeLoan \/ TryManage \/ Wait \/ Reread \/ Retry
    \/ WriteArtifact
    \/ LedgerMoves
    \/ \E loan \in {"own", "other"}, inputs \in Inputs, allow \in BOOLEAN :
         Issue(loan, inputs, allow)
    \/ ReplaceBundle \/ IssueCrashes

-----------------------------------------------------------------------------
(* Properties *)

EvidenceTypeOK ==
    /\ retried \in BOOLEAN /\ resolved \in BOOLEAN
    /\ results.submitted \in {"absent", "no", "yes"}
    /\ artifact # NoFile =>
         /\ artifact.policy => artifact.vault
         /\ "LoanSet" \in artifact.tx => artifact.loan # Unread
         /\ (artifact.submitted = "yes") = retried
    /\ issues \in 0..MaxIssues /\ DOMAIN seen = 1..issues
    /\ writing.issue \in {0, issues}
    /\ bundle.issue \in 0..issues /\ archive.issue \in 0..issues

\* The gate accepts a bundle only with the archive of its own issue, with the
\* answers to all of its transactions and, where the claim was validated, the
\* reads it was validated with: also after an issue to the same path was cut
\* short between its two replacements.
AcceptedWhole ==
    GateAccepts(bundle, archive) =>
        /\ archive.issue = bundle.issue
        /\ bundle.transactions \subseteq archive.transactions
        /\ bundle.approved => archive.canonical

\* A bundle that passes both judges was issued while the loan of its packet owed
\* exactly the amount, within the coverage, for a policy that was minted and paid
\* for, and the pool had that much.  The lifecycle has not submitted its second
\* LoanManage, answered or not.  Its first one, with the same flag, it always
\* submits: its answer may have been lost, but it had not closed the packet's loan.
VerifiedBacked ==
    GateAccepts(bundle, archive) /\ Verifies(artifact, bundle) =>
        /\ ~retried
        /\ bundle.loan = "own" => ~resolved
        /\ seen[bundle.issue] = bundle.packet.amount
        /\ bundle.packet.amount <= Coverage
        /\ ledger.premium
        /\ artifact.pool >= bundle.packet.amount
=============================================================================
