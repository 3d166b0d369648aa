--------------------------- MODULE ResolutionFlow ---------------------------
(***************************************************************************)
(* Cases in time: the facts of the world change; sources of evidence are   *)
(* read at one moment and facts stated at another, or stated wrongly; a    *)
(* case is evaluated.  A caller that uses the packaged workflows only gives *)
(* their input.  Either way the receipt reaches a reviewer as a copy that  *)
(* may have been changed on its way, and hashed anew after the change.     *)
(***************************************************************************)
EXTENDS Workflows

CONSTANTS Field,      \* paths of facts
          Value,      \* JSON values
          Source,     \* sources of evidence
          Bundle,     \* rule bundles
          Worlds,     \* states of the world at the start
          MaxMoves,   \* bound on the changes of the world
          MaxCases    \* bound on the cases evaluated

ASSUME FlowAssumption ==
    /\ MaxMoves \in Nat /\ MaxCases \in Nat
    /\ \A v \in Value : WellFormed(v)
    /\ \A w \in Worlds : /\ DOMAIN w \subseteq Field
                         /\ \A f \in DOMAIN w : WellFormed(w[f])
    /\ \A b \in Bundle : DOMAIN b.rules # {} /\ b.require_all \in BOOLEAN
    /\ \A b \in Bundle : \A i \in DOMAIN b.rules : b.rules[i].refs # {}

VARIABLES world,    \* the facts as they are
          held,     \* what each source was read to claim, Unread before that
          facts,    \* the facts the caller states
          moves, cases,
          receipt,  \* of the last case
          asked,    \* how: directly, or by a workflow with its input
          copy,     \* what the reviewer has
          verdict   \* of the verifier

vars == <<world, held, facts, moves, cases, receipt, asked, copy, verdict>>

Nothing == [kind |-> "none"]
Unread == [read |-> FALSE]
Direct == [workflow |-> "direct"]
Packaged == [workflow |-> "none yet"]

\* A function of the world with one field changed, or absent.
With(w, f, v) == [g \in DOMAIN w \cup {f} |-> IF g = f THEN v ELSE w[g]]
Without(w, f) == [g \in DOMAIN w \ {f} |-> w[g]]

Init ==
    /\ world \in Worlds
    /\ held = [s \in Source |-> Unread]
    /\ facts = world
    /\ moves = 0
    /\ cases = 0
    /\ receipt = Nothing
    /\ asked \in {Direct, Packaged}
    /\ copy = Nothing
    /\ verdict = "none"

\* What moves after the last case changes no receipt.
Preparing == asked = Direct /\ cases < MaxCases

WorldMoves(f) ==
    /\ Preparing
    /\ moves < MaxMoves
    /\ moves' = moves + 1
    /\ \/ \E v \in Value : world' = With(world, f, v)
       \/ world' = Without(world, f)
    /\ UNCHANGED <<held, facts, cases, receipt, asked, copy, verdict>>

ReadSource(s) ==
    /\ Preparing
    /\ held' = [held EXCEPT ![s] = [read |-> TRUE, claims |-> world]]
    /\ UNCHANGED <<world, facts, moves, cases, receipt, asked, copy, verdict>>

StateFacts ==
    /\ Preparing
    /\ facts' = world
    /\ UNCHANGED <<world, held, moves, cases, receipt, asked, copy, verdict>>

\* Evidence is given in any order, and a source may be given twice; its claims may
\* hold, besides the facts, a key that looks like a secret.
Evidence(secret) ==
    LET read == {s \in Source : held[s].read}
        Item(s) == [source |-> s, claims |-> held[s].claims, finality |-> "final",
                    secretLike |-> secret]
    IN  {[i \in DOMAIN p |-> Item(p[i])] : p \in BoundedSeq(read, Cardinality(Source))}

Case(b) == [bundle |-> b.reference, signer |-> "institution", rail |-> "xrpl",
            requested |-> "finish", secretLike |-> FALSE]
Action == [signer |-> "institution", rail |-> "xrpl", type |-> "finish",
           ward_signed |-> FALSE, secretLike |-> FALSE]

\* A case for the bundle with its action; with one thing that does not fit; or
\* with a key that looks like a secret in its metadata, in an action's payload or
\* in the claims of its evidence.
Request(case, actions) == [case |-> case, actions |-> actions, secretClaims |-> FALSE]
Requests(b) ==
    {Request(Case(b), <<Action>>),
     Request(Case(b), <<>>),
     Request([Case(b) EXCEPT !.bundle = "another"], <<Action>>),
     Request([Case(b) EXCEPT !.secretLike = TRUE], <<Action>>),
     Request(Case(b), <<[Action EXCEPT !.secretLike = TRUE]>>),
     [Request(Case(b), <<Action>>) EXCEPT !.secretClaims = TRUE],
     Request(Case(b), <<Action, [Action EXCEPT !.signer = "other"]>>),
     Request(Case(b), <<[Action EXCEPT !.type = "other"]>>)}

\* What a case leaves behind besides its receipt.
Issued ==
    /\ cases' = cases + 1
    /\ copy' = Nothing
    /\ verdict' = "none"
    /\ UNCHANGED <<world, held, facts, moves>>

EvaluateCase(b) ==
    /\ Preparing
    /\ \E request \in Requests(b) : \E evidence \in Evidence(request.secretClaims) :
         receipt' = Evaluate(request.case, facts, b, evidence, request.actions)
    /\ UNCHANGED asked
    /\ Issued

RunWorkflow ==
    /\ asked # Direct /\ cases < MaxCases
    /\ \/ \E in \in ConditionalReleaseInput :
            /\ receipt' = ResolveConditionalRelease(in)
            /\ asked' = [workflow |-> "conditional_release", in |-> in]
       \/ \E in \in EscrowReleaseInput :
            /\ receipt' = ResolveEscrowRelease(in)
            /\ asked' = [workflow |-> "escrow_release", in |-> in]
       \/ \E in \in TaxReserveInput :
            /\ receipt' = ResolveTaxReserve(in)
            /\ asked' = [workflow |-> "tax_reserve", in |-> in]
    /\ Issued

-----------------------------------------------------------------------------
(* The copy on its way                                                     *)

Flipped(r) ==
    [r EXCEPT !.decision = IF @ = "approved" THEN "rejected" ELSE "approved"]

\* A decision that its checks agree with.
Whitewashed(r) ==
    LET passing == [i \in DOMAIN r.checks |-> [r.checks[i] EXCEPT !.passed = TRUE]]
        approved == [r EXCEPT !.decision = "approved"]
    IN  [approved EXCEPT !.checks = passing]

Edits(r) ==
    {r, Flipped(r), Whitewashed(r),
     [r EXCEPT !.actions = <<>>],
     [r EXCEPT !.checks = Tail(@)],
     [r EXCEPT !.evidence = Reverse(@)],
     [r EXCEPT !.ward_signed = TRUE]}

\* Anyone can compute the hash and the id of what they have changed.
Resealed(c) == Seal(PayloadOf(c))

\* The receipt as it was issued; edited, with its hash and id as they were or
\* computed anew; or with one of the two changed.
Copies(r) ==
    Edits(r)
    \cup {Resealed(c) : c \in Edits(r)}
    \cup {[r EXCEPT !.hash = Resealed(Flipped(r)).hash],
          [r EXCEPT !.id = Resealed(Flipped(r)).id]}

\* The reviewer runs the verifier on the copy that has come.
Verify ==
    /\ receipt.kind = "receipt"
    /\ verdict = "none"
    /\ \E c \in Copies(receipt) :
         /\ copy' = c
         /\ verdict' = IF VerifyReceipt(c) THEN "ok" ELSE "refused"
    /\ UNCHANGED <<world, held, facts, moves, cases, receipt, asked>>

Next ==
    \/ \E f \in Field : WorldMoves(f)
    \/ \E s \in Source : ReadSource(s)
    \/ StateFacts
    \/ \E b \in Bundle : EvaluateCase(b)
    \/ RunWorkflow
    \/ Verify

Spec == Init /\ [][Next]_vars

-----------------------------------------------------------------------------
(* Properties *)

\* evaluate raises only what it checks itself: the receipt of its own checks is
\* never refused by the receipt's constructor, which computes the decision anew.
TypeOK ==
    /\ DOMAIN world \subseteq Field
    /\ \A s \in Source : held[s].read => DOMAIN held[s].claims \subseteq Field
    /\ moves \in 0..MaxMoves /\ cases \in 0..MaxCases
    /\ receipt.kind \in {"none", "raised", "receipt"}
    /\ verdict \in {"none", "ok", "refused"}

\* A claim, and the number or bool that Python takes for equal to it.
Equals(claim) ==
    {claim} \cup
    (IF claim.kind = "bool" THEN {Number(claim.n)}
     ELSE IF claim.kind = "number" /\ claim.n \in {0, 1} THEN {Boolean(claim.n = 1)}
     ELSE {})

\* What a rule asks holds of what each of its sources claimed, in its own reading;
\* or the rule is that the fact be absent.
BackedRule(rule, evidence) ==
    /\ rule.refs \subseteq SourcesOf(evidence)
    /\ \/ \A s \in rule.refs :
            /\ rule.field \in DOMAIN ClaimsOf(evidence, s)
            /\ \E v \in Equals(ClaimsOf(evidence, s)[rule.field]) :
                 CompareValue(rule.operator, v, rule.expected)
       \/ CompareAbsent(rule.operator, rule.expected)

\* An approval rests on evidence: all the rules, or one of them where the bundle
\* asks for one, hold of what every source referred to claimed when it was read,
\* whatever facts the caller stated and however the world moved in between.
ApprovedBacked ==
    receipt.kind = "receipt" /\ receipt.decision = "approved" =>
        LET rules == receipt.bundle.rules
            backed == {i \in DOMAIN rules : BackedRule(rules[i], receipt.evidence)}
        IN  IF receipt.bundle.require_all THEN backed = DOMAIN rules ELSE backed # {}

\* The verifier accepts the receipt as it was issued, unless one of its keys looks
\* like a secret; and a reviewer who has the hash or the id of the receipt from
\* elsewhere is never given another content for it (verify_receipt).  An edited
\* copy that is hashed anew is accepted, under a hash and an id of its own.
VerifierExact ==
    /\ verdict = "refused" /\ copy = receipt => SecretLike(receipt)
    /\ verdict = "ok" /\ copy # receipt =>
         copy.hash # receipt.hash /\ copy.id # receipt.id

\* A workflow approves exactly what its terms allow to be released, with one
\* action for the institution's signer and on evidence that is final.
WorkflowsRelease ==
    asked \notin {Direct, Packaged} =>
        /\ receipt.kind = "receipt"
        /\ (receipt.decision = "approved") = MayRelease(asked.workflow, asked.in)
        /\ receipt.decision = "approved" =>
             /\ Len(receipt.actions) = 1
             /\ receipt.actions[1].signer = asked.in.signer
             /\ receipt.evidence[1].finality = "final"
        /\ receipt.decision = "rejected" => receipt.actions = <<>>
=============================================================================
