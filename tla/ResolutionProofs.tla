-------------------------- MODULE ResolutionProofs ---------------------------
(***************************************************************************)
(* What a receipt rests on and what its verifier accepts, for any rule     *)
(* bundles, sources, fields and values; and what the packaged workflows    *)
(* approve, for any of their inputs.                                       *)
(***************************************************************************)
EXTENDS ResolutionFlow, TLAPS

-----------------------------------------------------------------------------
(* One evaluation                                                          *)

\* A claim that agrees with a fact differs from it as True from 1, at most.
Close(claims, F) ==
    \A f \in DOMAIN F \cap DOMAIN claims :
        Same(claims[f], F[f]) => F[f] \in Equals(claims[f])

LEMMA SameEquals ==
    ASSUME NEW a, NEW b, WellFormed(a), WellFormed(b), Same(a, b)
    PROVE  b \in Equals(a)
<1> USE DEF Equals, Same, Number, Boolean, Scalar, True, False, Text, Items
<1>1. CASE a = b
  BY <1>1
<1>2. CASE a.kind = "bool" /\ b.kind = "bool" /\ a.n = b.n
  <2>1. a \in {True, False} /\ b \in {True, False}
    BY <1>2 DEF WellFormed
  <2> QED
    BY <1>2, <2>1
<1>3. CASE a.kind = "bool" /\ b.kind = "number" /\ a.n = b.n
  BY <1>3 DEF WellFormed
<1>4. CASE a.kind = "number" /\ b.kind = "bool" /\ a.n = b.n
  <2>1. b \in {True, False} /\ b = Boolean(a.n = 1) /\ a.n \in {0, 1}
    BY <1>4 DEF WellFormed
  <2> QED
    BY <1>4, <2>1
<1>5. CASE a.kind = "number" /\ b.kind = "number" /\ a.n = b.n
  <2>1. a = Number(a.n) /\ b = Number(b.n)
    BY <1>5 DEF WellFormed
  <2> QED
    BY <1>5, <2>1
<1> QED
  BY <1>1, <1>2, <1>3, <1>4, <1>5

\* A rule that passes is backed by each source it refers to (_check).
LEMMA PassedBacked ==
    ASSUME NEW rule, NEW F, NEW evidence, Passes(rule, F, evidence),
           \A i \in DOMAIN evidence : Close(evidence[i].claims, F)
    PROVE  BackedRule(rule, evidence)
<1>1. rule.refs \subseteq SourcesOf(evidence)
  BY DEF Passes, MissingRefs
<1>2. CASE rule.field \in DOMAIN F
  <2> SUFFICES ASSUME NEW s \in rule.refs
               PROVE  /\ rule.field \in DOMAIN ClaimsOf(evidence, s)
                      /\ F[rule.field] \in Equals(ClaimsOf(evidence, s)[rule.field])
    BY <1>1, <1>2 DEF BackedRule, Passes
  <2>1. Agrees(ClaimsOf(evidence, s), rule.field, F[rule.field])
    BY <1>2 DEF Passes, Mismatches
  <2>2. PICK i \in DOMAIN evidence : ClaimsOf(evidence, s) = evidence[i].claims
    <3>1. \E i \in DOMAIN evidence : evidence[i].source = s
      BY <1>1 DEF SourcesOf
    <3> QED
      BY <3>1 DEF ClaimsOf
  <2> QED
    BY <1>2, <2>1, <2>2 DEF Agrees, Close
<1>3. CASE rule.field \notin DOMAIN F
  BY <1>1, <1>3 DEF BackedRule, Passes
<1> QED
  BY <1>2, <1>3

LEMMA CheckFields ==
    ASSUME NEW rule, NEW F, NEW evidence
    PROVE  LET check == Check(rule, F, evidence)
           IN  /\ check.rule = rule.id
               /\ check.refs = rule.refs
               /\ check.passed <=> Passes(rule, F, evidence)
<1>1. PICK passes : passes = Passes(rule, F, evidence)
  OBVIOUS
<1>2. Check(rule, F, evidence) = [rule |-> rule.id, refs |-> rule.refs, passed |-> passes]
  BY <1>1 DEF Check
<1> QED
  BY <1>1, <1>2

\* ApprovedBacked of one receipt.
Backed(r) ==
    r.decision = "approved" =>
        LET rules == r.bundle.rules
            backed == {i \in DOMAIN rules : BackedRule(rules[i], r.evidence)}
        IN  IF r.bundle.require_all THEN backed = DOMAIN rules ELSE backed # {}

\* What the constructor fixes: the fields, the hash over them and the id.
Sealed(r) ==
    /\ r = [kind |-> "receipt", case |-> r.case, bundle |-> r.bundle,
            decision |-> r.decision, checks |-> r.checks, evidence |-> r.evidence,
            actions |-> r.actions, ward_signed |-> r.ward_signed,
            hash |-> r.hash, id |-> r.id]
    /\ r.decision \in {"approved", "rejected"}
    /\ SchemaValid(r)
    /\ r.hash = Digest(PayloadOf(r))
    /\ r.id = [wr |-> r.hash]
    /\ r.ward_signed = FALSE
    /\ \A i \in DOMAIN r.actions : r.actions[i].ward_signed = FALSE

\* evaluate raises, or its receipt is accepted, sealed and backed.
LEMMA EvaluateSound ==
    ASSUME NEW case, NEW F, NEW bundle, NEW evidence, NEW actions, NEW r,
           r = Evaluate(case, F, bundle, evidence, actions),
           DOMAIN bundle.rules # {},
           \A i \in DOMAIN evidence : Close(evidence[i].claims, F)
    PROVE  \/ r.kind = "raised"
           \/ r.kind = "receipt" /\ Sealed(r) /\ Backed(r)
<1>1. PICK checks : checks = Checks(bundle, F, evidence)
  OBVIOUS
<1> DEFINE approved == Approved(bundle, checks)
           p == [case |-> case, bundle |-> bundle,
                 decision |-> IF approved THEN "approved" ELSE "rejected",
                 checks |-> checks, evidence |-> evidence,
                 actions |-> IF approved THEN actions ELSE <<>>,
                 ward_signed |-> FALSE]
<1>2. CASE ~Evaluable(case, bundle, evidence, actions)
  BY <1>2 DEF Evaluate, Raised
<1>3. CASE Evaluable(case, bundle, evidence, actions)
  <2>1. /\ DOMAIN checks = DOMAIN bundle.rules
        /\ \A i \in DOMAIN bundle.rules :
             /\ checks[i].rule = bundle.rules[i].id
             /\ checks[i].refs = bundle.rules[i].refs
             /\ checks[i].passed <=> Passes(bundle.rules[i], F, evidence)
    BY <1>1, CheckFields DEF Checks
  <2>2. ReceiptAccepted(p)
    <3>1. checks # <<>>
      BY <2>1
    <3>2. [i \in DOMAIN checks |-> checks[i].rule]
            = [i \in DOMAIN bundle.rules |-> bundle.rules[i].id]
      BY <2>1
    <3>3. \A i \in DOMAIN checks :
             checks[i].passed => checks[i].refs \subseteq SourcesOf(evidence)
      BY <2>1 DEF Passes, MissingRefs
    <3>4. \A i \in DOMAIN p.actions : ActionFits(p.actions[i], case)
      BY <1>3 DEF Evaluable
    <3>5. /\ evidence # <<>> /\ case.bundle = bundle.reference /\ Distinct(evidence)
      BY <1>3 DEF Evaluable
    <3>6. /\ (p.decision = "approved") = Approved(bundle, checks)
          /\ p.decision = "rejected" => p.actions = <<>>
      BY DEF Approved
    <3> QED
      BY <3>1, <3>2, <3>3, <3>4, <3>5, <3>6 DEF ReceiptAccepted
  <2>3. r = [kind |-> "receipt", case |-> p.case, bundle |-> p.bundle,
             decision |-> p.decision, checks |-> p.checks, evidence |-> p.evidence,
             actions |-> p.actions, ward_signed |-> p.ward_signed,
             hash |-> Digest(p), id |-> [wr |-> Digest(p)]]
    BY <1>1, <1>3, <2>2 DEF Evaluate, EvidenceReceipt, Seal
  <2>4. PayloadOf(r) = p
    BY <2>3 DEF PayloadOf
  <2>5. \A i \in DOMAIN p.actions : p.actions[i].ward_signed = FALSE
    BY <1>3 DEF Evaluable, ActionFits
  <2>6. Sealed(r)
    <3>1. SchemaValid(r)
      BY <2>2, <2>3 DEF ReceiptAccepted, SchemaValid
    <3> QED
      BY <2>3, <2>4, <2>5, <3>1 DEF Sealed
  <2>7. Backed(r)
    <3>1. \A i \in DOMAIN bundle.rules :
             checks[i].passed => BackedRule(bundle.rules[i], evidence)
      BY <2>1, PassedBacked
    <3>2. r.decision = "approved" => approved
      BY <2>3
    <3>3. r.bundle = bundle /\ r.evidence = evidence
      BY <2>3
    <3> QED
      BY <2>1, <3>1, <3>2, <3>3 DEF Backed, Approved
  <2> QED
    BY <2>3, <2>6, <2>7
<1> QED
  BY <1>2, <1>3

-----------------------------------------------------------------------------
(* The packaged workflows                                                  *)

\* The only item of evidence claims the facts themselves, so that a rule passes
\* when its comparison does.
LEMMA OwnClaims ==
    ASSUME NEW F, NEW source, NEW finality, NEW rule, rule.refs = {source},
           rule.field \in DOMAIN F
    PROVE  LET evidence == <<[source |-> source, claims |-> F, finality |-> finality,
                             secretLike |-> FALSE]>>
           IN  Passes(rule, F, evidence)
                 <=> CompareValue(rule.operator, F[rule.field], rule.expected)
<1> DEFINE item == [source |-> source, claims |-> F, finality |-> finality,
                    secretLike |-> FALSE]
           evidence == <<item>>
<1>1. DOMAIN evidence = {1} /\ evidence[1] = item
  OBVIOUS
<1>2. item.source = source /\ item.claims = F
  OBVIOUS
<1> HIDE DEF item, evidence
<1>3. MissingRefs(rule, evidence) = {}
  BY <1>1, <1>2 DEF MissingRefs, SourcesOf
<1>4. ClaimsOf(evidence, source) = F
  BY <1>1, <1>2 DEF ClaimsOf
<1>5. Mismatches(rule, F, evidence) = {}
  BY <1>4 DEF Mismatches, Agrees, Same
<1>6. Passes(rule, F, evidence)
        <=> CompareValue(rule.operator, F[rule.field], rule.expected)
  BY <1>3, <1>5 DEF Passes
<1> QED
  BY <1>6 DEF evidence, item

\* What a workflow's receipt is, when its rules are all required and each is about
\* a fact the workflow states.
Outcome(r, F, rules, signer, finality) ==
    /\ r.kind = "receipt"
    /\ r.decision = "approved"
         <=> \A i \in DOMAIN rules :
               CompareValue(rules[i].operator, F[rules[i].field], rules[i].expected)
    /\ r.decision = "approved" => Len(r.actions) = 1 /\ r.actions[1].signer = signer
    /\ r.decision = "rejected" => r.actions = <<>>
    /\ r.evidence[1].finality = finality

LEMMA ResolvedBy ==
    ASSUME NEW F, NEW bundle, NEW source, NEW finality, NEW signer, NEW requested,
           NEW r, r = Resolve(F, bundle, source, finality, signer, requested),
           bundle.require_all = TRUE, DOMAIN bundle.rules # {},
           \A i \in DOMAIN bundle.rules :
               bundle.rules[i].refs = {source} /\ bundle.rules[i].field \in DOMAIN F
    PROVE  Outcome(r, F, bundle.rules, signer, finality)
<1> DEFINE case == [bundle |-> bundle.reference, signer |-> signer, rail |-> "xrpl",
                    requested |-> requested, secretLike |-> FALSE]
           action == [signer |-> signer, rail |-> "xrpl", type |-> requested,
                      ward_signed |-> FALSE, secretLike |-> FALSE]
           item == [source |-> source, claims |-> F, finality |-> finality,
                    secretLike |-> FALSE]
           evidence == <<item>>
           actions == <<action>>
           checks == Checks(bundle, F, evidence)
           approved == Approved(bundle, checks)
           p == [case |-> case, bundle |-> bundle,
                 decision |-> IF approved THEN "approved" ELSE "rejected",
                 checks |-> checks, evidence |-> evidence,
                 actions |-> IF approved THEN actions ELSE <<>>,
                 ward_signed |-> FALSE]
<1>1. r = Evaluate(case, F, bundle, evidence, actions)
  BY DEF Resolve
<1>2. Evaluable(case, bundle, evidence, actions)
  BY DEF Evaluable, Distinct, ActionFits
<1>3. \A i \in DOMAIN evidence : Close(evidence[i].claims, F)
  BY DEF Close, Equals
<1>4. \A i \in DOMAIN bundle.rules :
        Passes(bundle.rules[i], F, evidence)
          <=> CompareValue(bundle.rules[i].operator, F[bundle.rules[i].field],
                           bundle.rules[i].expected)
  BY OwnClaims
<1>5. /\ Len(actions) = 1 /\ actions[1].signer = signer
      /\ evidence[1].finality = finality
  OBVIOUS
<1> HIDE DEF case, action, item, evidence, actions
<1>6. approved <=> \A i \in DOMAIN bundle.rules : Passes(bundle.rules[i], F, evidence)
  BY CheckFields DEF Checks, Approved
<1> HIDE DEF checks, approved
<1>7. r = EvidenceReceipt(p)
  BY <1>1, <1>2 DEF Evaluate, checks, approved
<1>8. r.kind = "raised" \/ r.kind = "receipt"
  BY <1>1, <1>3, EvaluateSound
<1>9. /\ r.kind = "receipt" /\ r.decision = p.decision
      /\ r.actions = p.actions /\ r.evidence = evidence
  BY <1>7, <1>8 DEF EvidenceReceipt, Seal
<1>10. /\ r.decision = "approved" <=> approved
       /\ r.decision = "approved" => r.actions = actions
       /\ r.decision = "rejected" => r.actions = <<>>
  BY <1>9
<1>11. r.decision = "approved"
         <=> \A i \in DOMAIN bundle.rules :
               CompareValue(bundle.rules[i].operator, F[bundle.rules[i].field],
                            bundle.rules[i].expected)
  BY <1>4, <1>6, <1>10
<1>12. /\ r.decision = "approved" => Len(r.actions) = 1 /\ r.actions[1].signer = signer
       /\ r.evidence[1].finality = finality
  BY <1>5, <1>9, <1>10
<1> QED
  BY <1>9, <1>10, <1>11, <1>12 DEF Outcome

\* WorkflowsRelease of one receipt.
Released(r, workflow, in) ==
    /\ r.kind = "receipt"
    /\ (r.decision = "approved") = MayRelease(workflow, in)
    /\ r.decision = "approved" =>
         /\ Len(r.actions) = 1
         /\ r.actions[1].signer = in.signer
         /\ r.evidence[1].finality = "final"
    /\ r.decision = "rejected" => r.actions = <<>>

LEMMA BooleanIs ==
    ASSUME NEW b \in BOOLEAN
    PROVE  /\ CompareValue("eq", Boolean(b), True) <=> b
           /\ CompareValue("eq", Boolean(b), False) <=> ~b
BY DEF CompareValue, Same, Boolean, True, False, Scalar

LEMMA ConditionalReleaseReleased ==
    ASSUME NEW in \in ConditionalReleaseInput
    PROVE  Released(ResolveConditionalRelease(in), "conditional_release", in)
<1> DEFINE F == ConditionalReleaseFacts(in)
           rules == ConditionalReleaseRules.rules
           r == ResolveConditionalRelease(in)
<1>1. /\ F["event.finalized"] = Boolean(in.finalized)
      /\ F["release.condition_met"] = Boolean(in.met)
      /\ F["participant.eligible"] = Boolean(in.eligible)
      /\ F["challenge.window_closed"] = Boolean(in.closed)
      /\ F["escrow.offer_sequence"] = Number(in.offer)
      /\ DOMAIN F = {"event.finalized", "release.condition_met", "participant.eligible",
                     "challenge.window_closed", "escrow.offer_sequence"}
  BY DEF ConditionalReleaseFacts
<1>2. /\ in.finalized \in BOOLEAN /\ in.met \in BOOLEAN /\ in.eligible \in BOOLEAN
      /\ in.closed \in BOOLEAN /\ in.offer = 1
  BY DEF ConditionalReleaseInput
<1>3. CompareValue("gt", Number(1), Number(0))
  BY DEF CompareValue, Number, Scalar, IsNumber
<1>4. ConditionalReleaseRules.require_all = TRUE /\ DOMAIN rules = 1..5
  BY DEF ConditionalReleaseRules
<1>5. /\ rules[1] = Rule("CR-01", "event.finalized", "eq", True, "ledger_event")
      /\ rules[2] = Rule("CR-02", "release.condition_met", "eq", True, "ledger_event")
      /\ rules[3] = Rule("CR-03", "participant.eligible", "eq", True, "ledger_event")
      /\ rules[4] = Rule("CR-04", "challenge.window_closed", "eq", True, "ledger_event")
      /\ rules[5] = Rule("CR-05", "escrow.offer_sequence", "gt", Number(0), "ledger_event")
  BY DEF ConditionalReleaseRules
<1>6. \A i \in DOMAIN rules : rules[i].refs = {"ledger_event"} /\ rules[i].field \in DOMAIN F
  <2> HIDE DEF rules, F
  <2> QED
    BY <1>1, <1>4, <1>5 DEF Rule
<1>7. (\A i \in DOMAIN rules : CompareValue(rules[i].operator, F[rules[i].field],
                                            rules[i].expected))
        <=> in.finalized /\ in.met /\ in.eligible /\ in.closed
  <2> HIDE DEF rules, F
  <2>1. (\A i \in DOMAIN rules : CompareValue(rules[i].operator, F[rules[i].field],
                                              rules[i].expected))
          <=> /\ CompareValue("eq", F["event.finalized"], True)
              /\ CompareValue("eq", F["release.condition_met"], True)
              /\ CompareValue("eq", F["participant.eligible"], True)
              /\ CompareValue("eq", F["challenge.window_closed"], True)
              /\ CompareValue("gt", F["escrow.offer_sequence"], Number(0))
    BY <1>4, <1>5 DEF Rule
  <2> QED
    BY <1>1, <1>2, <1>3, <2>1, BooleanIs
<1>8. r = Resolve(F, ConditionalReleaseRules, "ledger_event",
                  IF in.finalized THEN "final" ELSE "open", in.signer, "xrpl.escrow_finish")
  BY DEF ResolveConditionalRelease
<1>9. MayRelease("conditional_release", in)
        = (in.finalized /\ in.met /\ in.eligible /\ in.closed)
  BY DEF MayRelease
<1>10. Outcome(r, F, rules, in.signer, IF in.finalized THEN "final" ELSE "open")
  <2> DEFINE finality == IF in.finalized THEN "final" ELSE "open"
  <2>1. r = Resolve(F, ConditionalReleaseRules, "ledger_event", finality, in.signer,
                    "xrpl.escrow_finish")
    BY <1>8
  <2>2. DOMAIN rules # {}
    BY <1>4
  <2> HIDE DEF r, F, finality
  <2>3. Outcome(r, F, rules, in.signer, finality)
    BY <1>4, <1>6, <2>1, <2>2, ResolvedBy
  <2> QED
    BY <2>3 DEF finality
<1> HIDE DEF F, rules, r
<1>11. Released(r, "conditional_release", in)
  BY <1>7, <1>9, <1>10 DEF Released, Outcome
<1> QED
  BY <1>11 DEF r

LEMMA EscrowReleaseReleased ==
    ASSUME NEW in \in EscrowReleaseInput
    PROVE  Released(ResolveEscrowRelease(in), "escrow_release", in)
<1> DEFINE F == EscrowReleaseFacts(in)
           rules == EscrowReleaseRules.rules
           r == ResolveEscrowRelease(in)
<1>1. /\ F["deposit.received"] = Boolean(in.deposited)
      /\ F["service.rendered"] = Boolean(in.rendered)
      /\ F["release.authorized"] = Boolean(ReleaseAuthorized(in))
      /\ F["dispute.egregious"] = Boolean(in.egregious)
      /\ F["signer.external"] = Boolean(TRUE)
      /\ DOMAIN F = {"deposit.received", "service.rendered", "release.authorized",
                     "dispute.egregious", "signer.external"}
  BY DEF EscrowReleaseFacts, True
<1>2. /\ in.deposited \in BOOLEAN /\ in.rendered \in BOOLEAN /\ in.egregious \in BOOLEAN
      /\ ReleaseAuthorized(in) \in BOOLEAN
  BY DEF EscrowReleaseInput, ReleaseAuthorized
<1>3. EscrowReleaseRules.require_all = TRUE /\ DOMAIN rules = 1..5
  BY DEF EscrowReleaseRules
<1>4. /\ rules[1] = Rule("NE-01", "deposit.received", "eq", True, "escrow_workflow_state")
      /\ rules[2] = Rule("NE-02", "service.rendered", "eq", True, "escrow_workflow_state")
      /\ rules[3] = Rule("NE-03", "release.authorized", "eq", True, "escrow_workflow_state")
      /\ rules[4] = Rule("NE-04", "dispute.egregious", "eq", False, "escrow_workflow_state")
      /\ rules[5] = Rule("NE-05", "signer.external", "eq", True, "escrow_workflow_state")
  BY DEF EscrowReleaseRules
<1>5. \A i \in DOMAIN rules :
        rules[i].refs = {"escrow_workflow_state"} /\ rules[i].field \in DOMAIN F
  <2> HIDE DEF rules, F
  <2> QED
    BY <1>1, <1>3, <1>4 DEF Rule
<1>6. (\A i \in DOMAIN rules : CompareValue(rules[i].operator, F[rules[i].field],
                                            rules[i].expected))
        <=> in.deposited /\ in.rendered /\ ReleaseAuthorized(in) /\ ~in.egregious
  <2> HIDE DEF rules, F
  <2>1. (\A i \in DOMAIN rules : CompareValue(rules[i].operator, F[rules[i].field],
                                              rules[i].expected))
          <=> /\ CompareValue("eq", F["deposit.received"], True)
              /\ CompareValue("eq", F["service.rendered"], True)
              /\ CompareValue("eq", F["release.authorized"], True)
              /\ CompareValue("eq", F["dispute.egregious"], False)
              /\ CompareValue("eq", F["signer.external"], True)
    BY <1>3, <1>4 DEF Rule
  <2> QED
    BY <1>1, <1>2, <2>1, BooleanIs
<1>7. Outcome(r, F, rules, in.signer, IF in.deposited THEN "final" ELSE "open")
  <2> DEFINE finality == IF in.deposited THEN "final" ELSE "open"
  <2>1. r = Resolve(F, EscrowReleaseRules, "escrow_workflow_state", finality, in.signer,
                    "xrpl.escrow_finish")
    BY DEF ResolveEscrowRelease
  <2>2. DOMAIN rules # {}
    BY <1>3
  <2> HIDE DEF r, F, finality
  <2>3. Outcome(r, F, rules, in.signer, finality)
    BY <1>3, <1>5, <2>1, <2>2, ResolvedBy
  <2> QED
    BY <2>3 DEF finality
<1>8. MayRelease("escrow_release", in)
        = (in.deposited /\ in.rendered /\ ReleaseAuthorized(in) /\ ~in.egregious)
  BY <1>2 DEF MayRelease, ReleaseAuthorized
<1> HIDE DEF F, rules, r
<1>9. Released(r, "escrow_release", in)
  BY <1>6, <1>7, <1>8 DEF Released, Outcome
<1> QED
  BY <1>9 DEF r

LEMMA TaxReserveReleased ==
    ASSUME NEW in \in TaxReserveInput
    PROVE  Released(ResolveTaxReserve(in), "tax_reserve", in)
<1> DEFINE F == TaxReserveFacts(in)
           rules == TaxReserveRules.rules
           r == ResolveTaxReserve(in)
           source == "tax_reserve_circle_state"
<1>1. /\ F["job.completed"] = Boolean(TRUE)
      /\ F["reserve.created"] = Boolean(ReserveCreated(in))
      /\ F["reserve.amount_matches_policy"] = Boolean(AmountMatchesPolicy(in))
      /\ F["review.window_closed"] = Boolean(in.closed)
      /\ F["client.disapproved_assets"] = Boolean(in.disapproved)
      /\ F["signer.external"] = Boolean(TRUE)
      /\ DOMAIN F = {"job.completed", "reserve.created", "reserve.amount_matches_policy",
                     "review.window_closed", "client.disapproved_assets",
                     "signer.external"}
  BY DEF TaxReserveFacts, True
<1>2. /\ in.closed \in BOOLEAN /\ in.disapproved \in BOOLEAN
      /\ AmountMatchesPolicy(in) \in BOOLEAN
      /\ ReserveCreated(in) = AmountMatchesPolicy(in)
      /\ AmountMatchesPolicy(in) = (in.reserve * 100 = in.job * in.percentage)
  BY DEF TaxReserveInput, ReserveCreated, AmountMatchesPolicy
<1>3. TaxReserveRules.require_all = TRUE /\ DOMAIN rules = 1..6
  BY DEF TaxReserveRules
<1>4. /\ rules[1] = Rule("NC-01", "job.completed", "eq", True, source)
      /\ rules[2] = Rule("NC-02", "reserve.created", "eq", True, source)
      /\ rules[3] = Rule("NC-03", "reserve.amount_matches_policy", "eq", True, source)
      /\ rules[4] = Rule("NC-04", "review.window_closed", "eq", True, source)
      /\ rules[5] = Rule("NC-05", "client.disapproved_assets", "eq", False, source)
      /\ rules[6] = Rule("NC-06", "signer.external", "eq", True, source)
  BY DEF TaxReserveRules
<1>5. \A i \in DOMAIN rules :
        rules[i].refs = {source} /\ rules[i].field \in DOMAIN F
  <2> HIDE DEF rules, F
  <2> QED
    BY <1>1, <1>3, <1>4 DEF Rule
<1>6. (\A i \in DOMAIN rules : CompareValue(rules[i].operator, F[rules[i].field],
                                            rules[i].expected))
        <=> AmountMatchesPolicy(in) /\ in.closed /\ ~in.disapproved
  <2> HIDE DEF rules, F
  <2>1. (\A i \in DOMAIN rules : CompareValue(rules[i].operator, F[rules[i].field],
                                              rules[i].expected))
          <=> /\ CompareValue("eq", F["job.completed"], True)
              /\ CompareValue("eq", F["reserve.created"], True)
              /\ CompareValue("eq", F["reserve.amount_matches_policy"], True)
              /\ CompareValue("eq", F["review.window_closed"], True)
              /\ CompareValue("eq", F["client.disapproved_assets"], False)
              /\ CompareValue("eq", F["signer.external"], True)
    BY <1>3, <1>4 DEF Rule
  <2> QED
    BY <1>1, <1>2, <2>1, BooleanIs
<1>7. Outcome(r, F, rules, in.signer, IF ReserveCreated(in) THEN "final" ELSE "open")
  <2> DEFINE finality == IF ReserveCreated(in) THEN "final" ELSE "open"
  <2>1. r = Resolve(F, TaxReserveRules, source, finality, in.signer,
                    "netten.circle_release_review")
    BY DEF ResolveTaxReserve
  <2>2. DOMAIN rules # {}
    BY <1>3
  <2> HIDE DEF r, F, finality
  <2>3. Outcome(r, F, rules, in.signer, finality)
    BY <1>3, <1>5, <2>1, <2>2, ResolvedBy
  <2> QED
    BY <2>3 DEF finality
<1>8. MayRelease("tax_reserve", in)
        = (AmountMatchesPolicy(in) /\ in.closed /\ ~in.disapproved)
  BY <1>2 DEF MayRelease
<1> HIDE DEF F, rules, r
<1>9. Released(r, "tax_reserve", in)
  BY <1>2, <1>6, <1>7, <1>8 DEF Released, Outcome
<1> QED
  BY <1>9 DEF r

-----------------------------------------------------------------------------
(* The flow                                                                *)

Known(w) == DOMAIN w \subseteq Field /\ \A f \in DOMAIN w : WellFormed(w[f])

WorldInv ==
    /\ Known(world) /\ Known(facts)
    /\ held = [s \in Source |-> held[s]]
    /\ \A s \in Source : held[s].read => Known(held[s].claims)
    /\ moves \in 0..MaxMoves /\ cases \in 0..MaxCases

ReceiptInv ==
    /\ receipt.kind \in {"none", "raised", "receipt"}
    /\ receipt.kind = "receipt" => Sealed(receipt) /\ Backed(receipt)

VerdictInv == verdict \in {"none", "ok", "refused"} /\ VerifierExact

\* asked says which workflow made the receipt, for which input.
AskedInv == asked \notin {Direct, Packaged} => Released(receipt, asked.workflow, asked.in)

IInv == WorldInv /\ ReceiptInv /\ VerdictInv /\ AskedInv

LEMMA InitInv == Init => IInv
BY FlowAssumption
   DEF Init, IInv, WorldInv, Known, ReceiptInv, VerdictInv, VerifierExact, Unread, Nothing,
       AskedInv

LEMMA WorldMovesKeeps ==
    ASSUME IInv, NEW f \in Field, WorldMoves(f) PROVE IInv'
<1>1. Known(world')
  <2>1. \A v \in Value : Known(With(world, f, v))
    BY FlowAssumption DEF IInv, WorldInv, Known, With
  <2>2. Known(Without(world, f))
    BY DEF IInv, WorldInv, Known, Without
  <2> QED
    BY <2>1, <2>2 DEF WorldMoves
<1>2. moves' \in 0..MaxMoves
  BY FlowAssumption DEF WorldMoves, Preparing, IInv, WorldInv
<1> QED
  BY <1>1, <1>2
     DEF WorldMoves, Preparing, IInv, WorldInv, Known, ReceiptInv, VerdictInv, VerifierExact, AskedInv

LEMMA ReadSourceKeeps ==
    ASSUME IInv, NEW s \in Source, ReadSource(s) PROVE IInv'
<1>1. WorldInv'
  BY DEF ReadSource, Preparing, IInv, WorldInv, Known
<1> QED
  BY <1>1 DEF ReadSource, IInv, ReceiptInv, VerdictInv, VerifierExact, AskedInv

LEMMA StateFactsKeeps == ASSUME IInv, StateFacts PROVE IInv'
BY DEF StateFacts, IInv, WorldInv, Known, ReceiptInv, VerdictInv, VerifierExact, AskedInv

LEMMA IssuedKeeps == ASSUME IInv, Issued, cases < MaxCases, ReceiptInv', AskedInv' PROVE IInv'
<1>1. cases' \in 0..MaxCases
  BY FlowAssumption DEF Issued, IInv, WorldInv
<1> QED
  BY <1>1 DEF Issued, IInv, WorldInv, Known, VerdictInv, VerifierExact

\* The items of the evidence claim what their sources were read to say.
LEMMA EvidenceKnown ==
    ASSUME WorldInv, NEW secret \in BOOLEAN, NEW evidence \in Evidence(secret), NEW i \in DOMAIN evidence
    PROVE  Known(evidence[i].claims)
<1>1. PICK p \in BoundedSeq({s \in Source : held[s].read}, Cardinality(Source)) :
        evidence = [j \in DOMAIN p |-> [source |-> p[j], claims |-> held[p[j]].claims,
                                        finality |-> "final", secretLike |-> secret]]
  BY DEF Evidence
<1>2. PICK m : p \in [1..m -> {s \in Source : held[s].read}]
  BY DEF BoundedSeq, SeqOf
<1>3. i \in DOMAIN p /\ p[i] \in {s \in Source : held[s].read}
  BY <1>1, <1>2
<1> QED
  BY <1>1, <1>3 DEF WorldInv

LEMMA EvaluateCaseKeeps ==
    ASSUME IInv, NEW b \in Bundle, EvaluateCase(b) PROVE IInv'
<1>1. PICK request \in Requests(b) : \E e \in Evidence(request.secretClaims) :
        receipt' = Evaluate(request.case, facts, b, e, request.actions)
  BY DEF EvaluateCase
<1>0. PICK evidence \in Evidence(request.secretClaims) :
        receipt' = Evaluate(request.case, facts, b, evidence, request.actions)
  BY <1>1
<1>6. request.secretClaims \in BOOLEAN
  <2>1. ASSUME NEW case, NEW actions
        PROVE  /\ Request(case, actions).secretClaims = FALSE
               /\ [Request(case, actions) EXCEPT !.secretClaims = TRUE].secretClaims = TRUE
    BY DEF Request
  <2> QED
    BY <2>1 DEF Requests
<1>2. ASSUME NEW i \in DOMAIN evidence PROVE Close(evidence[i].claims, facts)
  <2>1. Known(evidence[i].claims) /\ Known(facts)
    BY <1>6, EvidenceKnown DEF IInv, WorldInv
  <2> QED
    BY <2>1, SameEquals DEF Known, Close
<1>3. DOMAIN b.rules # {}
  BY FlowAssumption
<1>4. ReceiptInv'
  BY <1>0, <1>2, <1>3, EvaluateSound DEF ReceiptInv
<1>5. AskedInv'
  BY DEF EvaluateCase, Preparing, AskedInv
<1> QED
  BY <1>4, <1>5, IssuedKeeps DEF EvaluateCase, Preparing

\* The evidence of a workflow claims the facts themselves.
LEMMA ResolveSound ==
    ASSUME NEW F, NEW bundle, NEW source, NEW finality, NEW signer, NEW requested,
           NEW r, r = Resolve(F, bundle, source, finality, signer, requested),
           DOMAIN bundle.rules # {}
    PROVE  \/ r.kind = "raised"
           \/ r.kind = "receipt" /\ Sealed(r) /\ Backed(r)
<1> DEFINE evidence == <<[source |-> source, claims |-> F, finality |-> finality,
                          secretLike |-> FALSE]>>
<1>1. \A i \in DOMAIN evidence : Close(evidence[i].claims, F)
  BY DEF Close, Equals
<1> HIDE DEF evidence
<1>2. PICK case, actions : r = Evaluate(case, F, bundle, evidence, actions)
  BY DEF Resolve, evidence
<1> QED
  BY <1>1, <1>2, EvaluateSound

LEMMA RunWorkflowKeeps == ASSUME IInv, RunWorkflow PROVE IInv'
<1>1. /\ DOMAIN ConditionalReleaseRules.rules # {}
      /\ DOMAIN EscrowReleaseRules.rules # {}
      /\ DOMAIN TaxReserveRules.rules # {}
  BY DEF ConditionalReleaseRules, EscrowReleaseRules, TaxReserveRules
<1>2. \E F, bundle, source, finality, signer, requested :
        /\ DOMAIN bundle.rules # {}
        /\ receipt' = Resolve(F, bundle, source, finality, signer, requested)
  BY <1>1 DEF RunWorkflow, ResolveConditionalRelease, ResolveEscrowRelease,
              ResolveTaxReserve
<1>3. ReceiptInv'
  BY <1>2, ResolveSound DEF ReceiptInv
<1>4. Released(receipt', asked'.workflow, asked'.in)
  <2>1. CASE \E in \in ConditionalReleaseInput :
               /\ receipt' = ResolveConditionalRelease(in)
               /\ asked' = [workflow |-> "conditional_release", in |-> in]
    BY <2>1, ConditionalReleaseReleased
  <2>2. CASE \E in \in EscrowReleaseInput :
               /\ receipt' = ResolveEscrowRelease(in)
               /\ asked' = [workflow |-> "escrow_release", in |-> in]
    BY <2>2, EscrowReleaseReleased
  <2>3. CASE \E in \in TaxReserveInput :
               /\ receipt' = ResolveTaxReserve(in)
               /\ asked' = [workflow |-> "tax_reserve", in |-> in]
    BY <2>3, TaxReserveReleased
  <2> QED
    BY <2>1, <2>2, <2>3 DEF RunWorkflow
<1> QED
  BY <1>3, <1>4, IssuedKeeps DEF RunWorkflow, AskedInv

-----------------------------------------------------------------------------
(* The verifier                                                            *)

\* The fields that the schema asks of a receipt.
Shaped(c) ==
    c = [kind |-> "receipt", case |-> c.case, bundle |-> c.bundle,
         decision |-> c.decision, checks |-> c.checks, evidence |-> c.evidence,
         actions |-> c.actions, ward_signed |-> c.ward_signed,
         hash |-> c.hash, id |-> c.id]

\* Every copy that comes has the shape of a receipt.
LEMMA CopiesShaped ==
    ASSUME NEW r, Shaped(r), NEW c \in Copies(r)
    PROVE  Shaped(c)
<1>1. \A e \in Edits(r) : Shaped(e)
  <2> SUFFICES ASSUME NEW e \in Edits(r) PROVE Shaped(e)
    OBVIOUS
  <2>1. ASSUME NEW x PROVE Shaped([r EXCEPT !.decision = x])
    BY DEF Shaped
  <2>2. ASSUME NEW q, Shaped(q), NEW x PROVE Shaped([q EXCEPT !.checks = x])
    BY <2>2 DEF Shaped
  <2>3. ASSUME NEW x PROVE Shaped([r EXCEPT !.actions = x])
    BY DEF Shaped
  <2>4. ASSUME NEW x PROVE Shaped([r EXCEPT !.checks = x])
    BY <2>2
  <2>5. ASSUME NEW x PROVE Shaped([r EXCEPT !.evidence = x])
    BY DEF Shaped
  <2>6. ASSUME NEW x PROVE Shaped([r EXCEPT !.ward_signed = x])
    BY DEF Shaped
  <2>7. Shaped(Flipped(r)) /\ Shaped(Whitewashed(r))
    BY <2>1, <2>2 DEF Flipped, Whitewashed
  <2> QED
    BY <2>3, <2>4, <2>5, <2>6, <2>7 DEF Edits
<1>2. ASSUME NEW e, Shaped(e), NEW x
      PROVE  Shaped([e EXCEPT !.hash = x]) /\ Shaped([e EXCEPT !.id = x])
  <2>1. Shaped([e EXCEPT !.hash = x])
    BY <1>2 DEF Shaped
  <2>2. Shaped([e EXCEPT !.id = x])
    BY <1>2 DEF Shaped
  <2> QED
    BY <2>1, <2>2
<1>3. \A e : Shaped(Resealed(e))
  BY DEF Resealed, Seal, PayloadOf, Shaped
<1>4. /\ Shaped([r EXCEPT !.hash = Resealed(Flipped(r)).hash])
      /\ Shaped([r EXCEPT !.id = Resealed(Flipped(r)).id])
  BY <1>2
<1> QED
  BY <1>1, <1>3, <1>4 DEF Copies

\* The digest is of the payload: a copy with the hash or the id of the receipt has
\* its payload, or is refused.
LEMMA AcceptedIsIssued ==
    ASSUME NEW r, Sealed(r), NEW c, Shaped(c), VerifyReceipt(c),
           c.hash = r.hash \/ c.id = r.id, r.kind = "receipt"
    PROVE  c = r
<1>1. /\ c.hash = Digest(PayloadOf(c)) /\ c.id = [wr |-> c.hash]
      /\ r.hash = Digest(PayloadOf(r)) /\ r.id = [wr |-> r.hash]
  BY DEF Sealed, VerifyReceipt
<1>2. c.hash = r.hash
  <2>1. c.id = r.id => c.id.wr = r.id.wr
    OBVIOUS
  <2> QED
    BY <1>1, <2>1
<1>3. PayloadOf(c) = PayloadOf(r)
  <2>1. Digest(PayloadOf(c)).sha256 = Digest(PayloadOf(r)).sha256
    BY <1>1, <1>2
  <2> QED
    BY <2>1 DEF Digest
<1>4. /\ c.case = r.case /\ c.bundle = r.bundle /\ c.decision = r.decision
      /\ c.checks = r.checks /\ c.evidence = r.evidence /\ c.actions = r.actions
      /\ c.ward_signed = r.ward_signed
  BY <1>3 DEF PayloadOf
<1> QED
  BY <1>1, <1>2, <1>4 DEF Sealed, Shaped

LEMMA VerifyKeeps == ASSUME IInv, Verify PROVE IInv'
<1>1. receipt.kind = "receipt" /\ Sealed(receipt) /\ UNCHANGED receipt
  BY DEF IInv, ReceiptInv, Verify
<1>2. PICK c \in Copies(receipt) :
        copy' = c /\ verdict' = IF VerifyReceipt(c) THEN "ok" ELSE "refused"
  BY DEF Verify
<1>3. Shaped(c)
  <2>1. Shaped(receipt)
    BY <1>1 DEF Sealed, Shaped
  <2> QED
    BY <2>1, CopiesShaped
<1>4. CASE VerifyReceipt(c)
  <2>1. c # receipt => c.hash # receipt.hash /\ c.id # receipt.id
    BY <1>1, <1>3, <1>4, AcceptedIsIssued
  <2> QED
    BY <1>1, <1>2, <1>4, <2>1
       DEF Verify, VerdictInv, VerifierExact, IInv, WorldInv, Known, ReceiptInv, AskedInv
<1>5. CASE ~VerifyReceipt(c)
  <2>1. c = receipt => SecretLike(receipt)
    BY <1>1, <1>5 DEF Sealed, VerifyReceipt
  <2> QED
    BY <1>1, <1>2, <1>5, <2>1
       DEF Verify, VerdictInv, VerifierExact, IInv, WorldInv, Known, ReceiptInv, AskedInv
<1> QED
  BY <1>4, <1>5

-----------------------------------------------------------------------------

LEMMA NextInv == IInv /\ [Next]_vars => IInv'
<1> SUFFICES ASSUME IInv, [Next]_vars PROVE IInv'
  OBVIOUS
<1>1. CASE \E f \in Field : WorldMoves(f)
  BY <1>1, WorldMovesKeeps
<1>2. CASE \E s \in Source : ReadSource(s)
  BY <1>2, ReadSourceKeeps
<1>3. CASE StateFacts
  BY <1>3, StateFactsKeeps
<1>4. CASE \E b \in Bundle : EvaluateCase(b)
  BY <1>4, EvaluateCaseKeeps
<1>5. CASE RunWorkflow
  BY <1>5, RunWorkflowKeeps
<1>6. CASE Verify
  BY <1>6, VerifyKeeps
<1>7. CASE UNCHANGED vars
  BY <1>7 DEF vars, IInv, WorldInv, Known, ReceiptInv, VerdictInv, VerifierExact, AskedInv
<1> QED
  BY <1>1, <1>2, <1>3, <1>4, <1>5, <1>6, <1>7 DEF Next

THEOREM Invariance == Spec => []IInv
<1> QED
  BY InitInv, NextInv, PTL DEF Spec

\* Type correctness of the flow; evaluate never has its own receipt refused by
\* EvidenceReceipt.__post_init__, which computes the decision anew.
THEOREM TypeCorrect == Spec => []TypeOK
<1>1. IInv => TypeOK
  BY DEF IInv, WorldInv, Known, ReceiptInv, VerdictInv, TypeOK
<1> QED
  BY <1>1, Invariance, PTL

\* An approval rests on what every source that its rules refer to claimed when it
\* was read, whatever facts evaluate was given and however the world moved.
THEOREM ApprovedBackedHolds == Spec => []ApprovedBacked
<1>1. IInv => ApprovedBacked
  BY DEF IInv, ReceiptInv, Backed, ApprovedBacked
<1> QED
  BY <1>1, Invariance, PTL

\* verify_receipt accepts the receipt that was issued, save for keys that look
\* like secrets; and whoever has its hash or its id from elsewhere is never given
\* another content for it.  A copy that is edited and hashed anew is accepted.
THEOREM VerifierExactHolds == Spec => []VerifierExact
<1>1. IInv => VerifierExact
  BY DEF IInv, VerdictInv
<1> QED
  BY <1>1, Invariance, PTL

\* Each packaged workflow approves exactly what its terms allow to be released, on
\* final evidence and with the one action of the institution's signer.
THEOREM WorkflowsReleaseHolds == Spec => []WorkflowsRelease
<1>1. IInv => WorkflowsRelease
  BY DEF IInv, AskedInv, Released, WorkflowsRelease
<1> QED
  BY <1>1, Invariance, PTL
=============================================================================
