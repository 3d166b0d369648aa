----------------------------- MODULE Workflows -----------------------------
(***************************************************************************)
(* The three workflows of ward/workflows/: each turns its input into facts *)
(* and one item of evidence that claims just these facts, and evaluates a  *)
(* fixed bundle of rules.                                                  *)
(***************************************************************************)
EXTENDS Resolution

Rule(id, field, operator, expected, source) ==
    [id |-> id, field |-> field, operator |-> operator, expected |-> expected,
     refs |-> {source}]

\* The evidence of a workflow claims what the caller stated, so it never
\* disagrees with the facts; its finality is derived from one of them.
Resolve(facts, bundle, source, finality, signer, requested) ==
    LET case == [bundle |-> bundle.reference, signer |-> signer, rail |-> "xrpl",
                 requested |-> requested, secretLike |-> FALSE]
        action == [signer |-> signer, rail |-> "xrpl", type |-> requested,
                   ward_signed |-> FALSE, secretLike |-> FALSE]
        item == [source |-> source, claims |-> facts, finality |-> finality,
                 secretLike |-> FALSE]
    IN  Evaluate(case, facts, bundle, <<item>>, <<action>>)

-----------------------------------------------------------------------------
(* Conditional release                                                     *)

ConditionalReleaseRules ==
    [reference |-> "ward.conditional-release@1.0.0", require_all |-> TRUE,
     rules |-> <<
       Rule("CR-01", "event.finalized", "eq", True, "ledger_event"),
       Rule("CR-02", "release.condition_met", "eq", True, "ledger_event"),
       Rule("CR-03", "participant.eligible", "eq", True, "ledger_event"),
       Rule("CR-04", "challenge.window_closed", "eq", True, "ledger_event"),
       Rule("CR-05", "escrow.offer_sequence", "gt", Number(0), "ledger_event")>>]

\* offer_sequence is positive, or the input's constructor raises.
ConditionalReleaseInput ==
    [finalized : BOOLEAN, met : BOOLEAN, eligible : BOOLEAN, closed : BOOLEAN,
     offer : {1}, signer : {"institution"}]

ConditionalReleaseFacts(in) ==
    [field \in {"event.finalized", "release.condition_met", "participant.eligible",
                "challenge.window_closed", "escrow.offer_sequence"} |->
       CASE field = "event.finalized" -> Boolean(in.finalized)
         [] field = "release.condition_met" -> Boolean(in.met)
         [] field = "participant.eligible" -> Boolean(in.eligible)
         [] field = "challenge.window_closed" -> Boolean(in.closed)
         [] OTHER -> Number(in.offer)]

ResolveConditionalRelease(in) ==
    Resolve(ConditionalReleaseFacts(in), ConditionalReleaseRules, "ledger_event",
            IF in.finalized THEN "final" ELSE "open", in.signer,
            "xrpl.escrow_finish")

-----------------------------------------------------------------------------
(* Release of a services escrow                                            *)

EscrowReleaseRules ==
    [reference |-> "ward.netten-escrow-release@1.0.0", require_all |-> TRUE,
     rules |-> <<
       Rule("NE-01", "deposit.received", "eq", True, "escrow_workflow_state"),
       Rule("NE-02", "service.rendered", "eq", True, "escrow_workflow_state"),
       Rule("NE-03", "release.authorized", "eq", True, "escrow_workflow_state"),
       Rule("NE-04", "dispute.egregious", "eq", False, "escrow_workflow_state"),
       Rule("NE-05", "signer.external", "eq", True, "escrow_workflow_state")>>]

EscrowReleaseInput ==
    [deposited : BOOLEAN, rendered : BOOLEAN, accepted : BOOLEAN, elapsed : BOOLEAN,
     egregious : BOOLEAN, signer : {"institution"}]

\* Mutant: the client's acceptance and the interval are both asked for.
ReleaseAuthorizedByBoth(in) == in.accepted /\ in.elapsed
ReleaseAuthorized(in) == in.accepted \/ in.elapsed

EscrowReleaseFacts(in) ==
    [field \in {"deposit.received", "service.rendered", "release.authorized",
                "dispute.egregious", "signer.external"} |->
       CASE field = "deposit.received" -> Boolean(in.deposited)
         [] field = "service.rendered" -> Boolean(in.rendered)
         [] field = "release.authorized" -> Boolean(ReleaseAuthorized(in))
         [] field = "dispute.egregious" -> Boolean(in.egregious)
         [] OTHER -> True]

ResolveEscrowRelease(in) ==
    Resolve(EscrowReleaseFacts(in), EscrowReleaseRules, "escrow_workflow_state",
            IF in.deposited THEN "final" ELSE "open", in.signer,
            "xrpl.escrow_finish")

-----------------------------------------------------------------------------
(* Release of a tax reserve.  Amounts are compared to eight decimals; the  *)
(* model's are whole.                                                      *)

TaxReserveRules ==
    [reference |-> "ward.netten-circles-tax-reserve@1.0.0", require_all |-> TRUE,
     rules |-> <<
       Rule("NC-01", "job.completed", "eq", True, "tax_reserve_circle_state"),
       Rule("NC-02", "reserve.created", "eq", True, "tax_reserve_circle_state"),
       Rule("NC-03", "reserve.amount_matches_policy", "eq", True,
            "tax_reserve_circle_state"),
       Rule("NC-04", "review.window_closed", "eq", True, "tax_reserve_circle_state"),
       Rule("NC-05", "client.disapproved_assets", "eq", False,
            "tax_reserve_circle_state"),
       Rule("NC-06", "signer.external", "eq", True, "tax_reserve_circle_state")>>]

\* Amounts are positive and the percentage at most 100.
TaxReserveInput ==
    [job : {100, 200}, percentage : {25, 50, 100}, reserve : {25, 50, 100},
     closed : BOOLEAN, disapproved : BOOLEAN, signer : {"authority"}]

AmountMatchesPolicy(in) == in.job * in.percentage = in.reserve * 100
ReserveCreated(in) == in.reserve > 0 /\ AmountMatchesPolicy(in)

TaxReserveFacts(in) ==
    [field \in {"job.completed", "reserve.created", "reserve.amount_matches_policy",
                "review.window_closed", "client.disapproved_assets",
                "signer.external"} |->
       CASE field = "reserve.created" -> Boolean(ReserveCreated(in))
         [] field = "reserve.amount_matches_policy" -> Boolean(AmountMatchesPolicy(in))
         [] field = "review.window_closed" -> Boolean(in.closed)
         [] field = "client.disapproved_assets" -> Boolean(in.disapproved)
         [] OTHER -> True]

ResolveTaxReserve(in) ==
    Resolve(TaxReserveFacts(in), TaxReserveRules, "tax_reserve_circle_state",
            IF ReserveCreated(in) THEN "final" ELSE "open", in.signer,
            "netten.circle_release_review")

-----------------------------------------------------------------------------
(* What each workflow promises, in the words of its docstring and          *)
(* assumptions: a reference for the receipts.                              *)

MayRelease(workflow, in) ==
    CASE workflow = "conditional_release" ->
           in.finalized /\ in.met /\ in.eligible /\ in.closed
      [] workflow = "escrow_release" ->
           /\ in.deposited /\ in.rendered
           /\ in.accepted \/ in.elapsed
           /\ ~in.egregious
      [] workflow = "tax_reserve" ->
           /\ in.reserve * 100 = in.job * in.percentage
           /\ in.closed /\ ~in.disapproved
=============================================================================
