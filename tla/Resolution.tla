----------------------------- MODULE Resolution -----------------------------
(***************************************************************************)
(* ward/resolution.py: facts, a fixed rule bundle and evidence become an   *)
(* EvidenceReceipt, and scripts/verify_resolution_receipt.py, which checks *)
(* a receipt without the engine.  Everything here is an operator; the      *)
(* modules that extend this one say who calls them and when.               *)
(*                                                                         *)
(* A JSON value is a record of its kind and content, because Python's ==   *)
(* takes True for 1 and its ordering refuses what is no number. Facts and  *)
(* claims are functions from field paths; a path that a mapping does not   *)
(* have is outside the domain.                                             *)
(***************************************************************************)
EXTENDS Integers, Sequences, FiniteSets, SequencesExt

-----------------------------------------------------------------------------
(* Values                                                                  *)

Scalar(kind, n) == [kind |-> kind, n |-> n, items |-> {}]
Boolean(b) == Scalar("bool", IF b THEN 1 ELSE 0)
Number(n) == Scalar("number", n)
Text(n) == Scalar("text", n)
Items(S) == [kind |-> "list", n |-> 0, items |-> S]

True == Boolean(TRUE)
False == Boolean(FALSE)

WellFormed(v) ==
    \/ v \in {True, False}
    \/ v = Number(v.n) /\ v.n \in Int
    \/ v = Text(v.n)
    \/ v = Items(v.items)

\* ==, for which a bool is the number 0 or 1.
Same(a, b) ==
    \/ a = b
    \/ /\ {a.kind, b.kind} \subseteq {"bool", "number"}
       /\ a.n = b.n

\* _number
IsNumber(a) == a.kind = "number"

\* The operator in, for lists and for one text in another (two texts of the
\* model are one or unrelated); for anything else it raises TypeError.
Within(a, c) ==
    \/ c.kind = "list" /\ \E b \in c.items : Same(a, b)
    \/ c.kind = "text" /\ a = c

Operators == {"eq", "ne", "gt", "gte", "lt", "lte", "in", "contains", "exists"}

\* _compare for a fact that is there.
CompareValue(op, a, e) ==
    \/ op = "exists" /\ Same(True, e)
    \/ op = "eq" /\ Same(a, e)
    \/ op = "ne" /\ ~Same(a, e)
    \/ op = "in" /\ Within(a, e)
    \/ op = "contains" /\ Within(e, a)
    \/ /\ IsNumber(a) /\ IsNumber(e)
       /\ \/ op = "gt" /\ a.n > e.n
          \/ op = "gte" /\ a.n >= e.n
          \/ op = "lt" /\ a.n < e.n
          \/ op = "lte" /\ a.n <= e.n

\* An absent fact passes only the rule that it be absent.
CompareAbsent(op, e) == op = "exists" /\ Same(False, e)

-----------------------------------------------------------------------------
(* One rule.  Evidence is a sequence of items with a source and its claims. *)

SourcesOf(evidence) == {evidence[i].source : i \in DOMAIN evidence}
ClaimsOf(evidence, s) ==
    evidence[CHOOSE i \in DOMAIN evidence : evidence[i].source = s].claims

MissingRefs(rule, evidence) == rule.refs \ SourcesOf(evidence)

\* Mutant: it is enough that the source claims something of the field.
AgreesIfPresent(claims, field, value) == field \in DOMAIN claims
Agrees(claims, field, value) ==
    field \in DOMAIN claims /\ Same(claims[field], value)

Mismatches(rule, facts, evidence) ==
    IF MissingRefs(rule, evidence) = {} /\ rule.field \in DOMAIN facts
    THEN {s \in rule.refs :
            ~Agrees(ClaimsOf(evidence, s), rule.field, facts[rule.field])}
    ELSE {}

\* Mutant: evidence that was not supplied is not missed.
PassesUnsupplied(rule, facts, evidence) ==
    /\ Mismatches(rule, facts, evidence) = {}
    /\ IF rule.field \in DOMAIN facts
       THEN CompareValue(rule.operator, facts[rule.field], rule.expected)
       ELSE CompareAbsent(rule.operator, rule.expected)

Passes(rule, facts, evidence) ==
    /\ MissingRefs(rule, evidence) = {}
    /\ Mismatches(rule, facts, evidence) = {}
    /\ IF rule.field \in DOMAIN facts
       THEN CompareValue(rule.operator, facts[rule.field], rule.expected)
       ELSE CompareAbsent(rule.operator, rule.expected)

Check(rule, facts, evidence) ==
    [rule |-> rule.id, refs |-> rule.refs,
     passed |-> Passes(rule, facts, evidence)]

-----------------------------------------------------------------------------
(* A receipt.  A digest stands for the payload it is the hash of.          *)

Digest(payload) == [sha256 |-> payload]

PayloadOf(receipt) ==
    [case |-> receipt.case, bundle |-> receipt.bundle,
     decision |-> receipt.decision, checks |-> receipt.checks,
     evidence |-> receipt.evidence, actions |-> receipt.actions,
     ward_signed |-> receipt.ward_signed]

Raised == [kind |-> "raised"]

Distinct(evidence) ==
    \A i, j \in DOMAIN evidence : evidence[i].source = evidence[j].source => i = j

Approved(bundle, checks) ==
    IF bundle.require_all THEN \A i \in DOMAIN checks : checks[i].passed
                          ELSE \E i \in DOMAIN checks : checks[i].passed

ActionFits(action, case) ==
    /\ action.signer = case.signer
    /\ action.rail = case.rail
    /\ action.type = case.requested
    /\ action.ward_signed = FALSE

\* EvidenceReceipt.__post_init__: what it raises for.
ReceiptAccepted(p) ==
    /\ p.checks # <<>>
    /\ p.evidence # <<>>
    /\ p.case.bundle = p.bundle.reference
    /\ [i \in DOMAIN p.checks |-> p.checks[i].rule]
         = [i \in DOMAIN p.bundle.rules |-> p.bundle.rules[i].id]
    /\ Distinct(p.evidence)
    /\ \A i \in DOMAIN p.checks :
         p.checks[i].passed => p.checks[i].refs \subseteq SourcesOf(p.evidence)
    /\ (p.decision = "approved") = Approved(p.bundle, p.checks)
    /\ p.decision = "rejected" => p.actions = <<>>
    /\ \A i \in DOMAIN p.actions : ActionFits(p.actions[i], p.case)

\* The payload with its hash and the id cut from the hash.
Seal(p) ==
    [kind |-> "receipt", case |-> p.case, bundle |-> p.bundle,
     decision |-> p.decision, checks |-> p.checks, evidence |-> p.evidence,
     actions |-> p.actions, ward_signed |-> p.ward_signed,
     hash |-> Digest(p), id |-> [wr |-> Digest(p)]]

\* The constructor.
EvidenceReceipt(p) == IF ReceiptAccepted(p) THEN Seal(p) ELSE [kind |-> "refused"]

-----------------------------------------------------------------------------
(* The engine                                                              *)

\* What evaluate raises for. A bundle has rules, each rule evidence, and
\* actions hold no key material: their constructors raise otherwise.
Evaluable(case, bundle, evidence, actions) ==
    /\ case.bundle = bundle.reference
    /\ evidence # <<>>
    /\ Distinct(evidence)
    /\ \A i \in DOMAIN actions : ActionFits(actions[i], case)

Checks(bundle, facts, evidence) ==
    [i \in DOMAIN bundle.rules |-> Check(bundle.rules[i], facts, evidence)]

Evaluate(case, facts, bundle, evidence, actions) ==
    LET checks == Checks(bundle, facts, evidence)
        approved == Approved(bundle, checks)
    IN  IF Evaluable(case, bundle, evidence, actions)
        THEN EvidenceReceipt(
               [case |-> case, bundle |-> bundle,
                decision |-> IF approved THEN "approved" ELSE "rejected",
                checks |-> checks, evidence |-> evidence,
                actions |-> IF approved THEN actions ELSE <<>>,
                ward_signed |-> FALSE])
        ELSE Raised

-----------------------------------------------------------------------------
(* The verifier.  It does not evaluate the rules again, and what it hashes *)
(* is the copy it is given.  Keys that look like secrets are refused       *)
(* wherever they are.  The engine looks for fewer of them and only in the  *)
(* payload of actions, where an empty SigningPubKey, an api_key or a token *)
(* passes; metadata and claims are not looked at.                          *)

SecretLike(r) ==
    \/ r.case.secretLike
    \/ \E i \in DOMAIN r.actions : r.actions[i].secretLike
    \/ \E i \in DOMAIN r.evidence : r.evidence[i].secretLike

\* What the schema asks beyond the shape.
SchemaValid(r) ==
    /\ r.checks # <<>> /\ r.evidence # <<>>
    /\ r.decision = "rejected" => r.actions = <<>>

\* Mutant: the stored hash is not computed anew.
VerifyStoredHash(r) ==
    /\ SchemaValid(r)
    /\ r.id = [wr |-> r.hash]
    /\ r.ward_signed = FALSE
    /\ \A i \in DOMAIN r.actions : r.actions[i].ward_signed = FALSE
    /\ ~SecretLike(r)

VerifyReceipt(r) ==
    /\ SchemaValid(r)
    /\ r.hash = Digest(PayloadOf(r))
    /\ r.id = [wr |-> r.hash]
    /\ r.ward_signed = FALSE
    /\ \A i \in DOMAIN r.actions : r.actions[i].ward_signed = FALSE
    /\ ~SecretLike(r)
=============================================================================
