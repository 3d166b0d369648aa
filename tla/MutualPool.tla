----------------------------- MODULE MutualPool -----------------------------
(***************************************************************************)
(* MultiInstitutionPool of ward/pool.py: members put in contributions, the *)
(* first to register is the admin, and each loss is divided pro rata.      *)
(* _members is a dict, so the last member in the order of insertion takes  *)
(* what the truncation of the other shares leaves over.                    *)
(***************************************************************************)
EXTENDS Integers, Sequences, FiniteSets, Functions, SequencesExt

CONSTANTS Member,      \* addresses of institutions
          Deposits,    \* contributions in drops a call may bring
          Claims,      \* losses in drops a call may distribute
          Precision,   \* 2^53: a quotient is a double, and so is an integer up to it
          Nobody,      \* no admin yet
          MaxCalls     \* bound on the calls of a behaviour

ASSUME MutualAssumption ==
    /\ IsFiniteSet(Member)
    /\ Deposits \subseteq Nat \ {0}
    /\ Precision \in Nat \ {0}
    /\ Claims \subseteq 1..Precision
    /\ MaxCalls \in Nat
    /\ Nobody \notin Member

VARIABLES contribution,  \* drops of each member, 0 for no member
          order,         \* the members in the order of the dict
          admin,
          used,          \* _used_capacity
          calls,
          \* history
          losses,        \* how many losses have been distributed
          borne,         \* what each member has been charged since it joined
          settled,       \* no member came, went or topped up since the first loss
          removed,       \* somebody has been removed
          latest         \* the last distribution

history == <<losses, borne, settled, removed, latest>>
mutualVars == <<contribution, order, admin, used, calls, history>>

TotalCapacity == SumFunction(contribution)

\* Mutant: what earlier losses have used is not taken off.
HasCapacityOfTotal(claim) == TotalCapacity >= claim
HasCapacity(claim) == TotalCapacity - used >= claim

NoLoss == [claim |-> 0, order |-> <<>>, share |-> <<>>,
           contribution |-> [m \in Member |-> 0]]

MutualInit ==
    /\ contribution = [m \in Member |-> 0]
    /\ order = <<>>
    /\ admin = Nobody
    /\ used = 0
    /\ calls = 0
    /\ losses = 0
    /\ borne = [m \in Member |-> 0]
    /\ settled = TRUE
    /\ removed = FALSE
    /\ latest = NoLoss

\* Mutant: a top-up that overwrites.
Overwritten(m, drops) == [contribution EXCEPT ![m] = drops]

ToppedUp(m, drops) == [contribution EXCEPT ![m] = @ + drops]
Inserted(m) == IF Contains(order, m) THEN order ELSE Append(order, m)

\* Where a member is: a dict has a key once.
Place(m) == CHOOSE i \in 1..Len(order) : order[i] = m

RegisterMember(m, drops) ==
    /\ calls < MaxCalls
    /\ calls' = calls + 1
    /\ admin' = IF admin = Nobody THEN m ELSE admin
    /\ contribution' = ToppedUp(m, drops)
    /\ order' = Inserted(m)
    /\ borne' = IF Contains(order, m) THEN borne ELSE [borne EXCEPT ![m] = 0]
    /\ settled' = (settled /\ used = 0)
    /\ UNCHANGED <<used, losses, removed, latest>>

\* Mutant: the member's drops are set to 0 and its entry stays.
ZeroedOnly(m) == order

Deleted(m) == RemoveAt(order, Place(m))

\* A caller that is not the admin, or a member that is not there, raises.
\* The admin may remove itself and stays the admin.
RemoveMember(caller, m) ==
    /\ calls < MaxCalls
    /\ caller = admin
    /\ Contains(order, m)
    /\ calls' = calls + 1
    /\ contribution' = [contribution EXCEPT ![m] = 0]
    /\ order' = Deleted(m)
    /\ settled' = (settled /\ used = 0)
    /\ removed' = TRUE
    /\ UNCHANGED <<admin, used, losses, borne, latest>>

\* Mutant: round() for int().
Rounded(n, d) == {(2 * n + d) \div (2 * d)}

\* int(claim * c / total): the quotient truncated, or the next integer when
\* the double nearest to the quotient is that integer.
Truncated(n, d) ==
    {n \div d} \cup {k \in {n \div d + 1} : (k * d - n) * Precision <= n}

Shares(claim) ==
    LET n == Len(order)
    IN  {Append(s, claim - SumFunction(s)) :
           s \in {q \in [1..n - 1 -> 0..claim + 1] :
                   \A i \in 1..n - 1 :
                     q[i] \in Truncated(claim * contribution[order[i]], TotalCapacity)}}

DistributeLoss(claim) ==
    /\ calls < MaxCalls
    /\ order # <<>>
    /\ HasCapacity(claim)
    /\ calls' = calls + 1
    /\ \E s \in Shares(claim) :
         /\ latest' = [claim |-> claim, order |-> order, share |-> s,
                       contribution |-> contribution]
         /\ borne' = [m \in Member |->
                        IF Contains(order, m) THEN borne[m] + s[Place(m)]
                                              ELSE borne[m]]
    /\ used' = used + claim
    /\ losses' = losses + 1
    /\ UNCHANGED <<contribution, order, admin, settled, removed>>

MutualNext ==
    \/ \E m \in Member, d \in Deposits : RegisterMember(m, d)
    \/ \E a, m \in Member : RemoveMember(a, m)
    \/ \E c \in Claims : DistributeLoss(c)

MutualSpec == MutualInit /\ [][MutualNext]_mutualVars

-----------------------------------------------------------------------------
(* Properties *)

\* Every variable has its type, and a member is in the pool exactly as long as it has
\* drops in it: a member that was removed leaves no entry behind for distribute_loss
\* to charge (register_member, remove_member).
MutualTypeOK ==
    /\ contribution \in [Member -> Nat]
    /\ IsInjective(order)
    /\ ToSet(order) = {m \in Member : contribution[m] > 0}
    /\ admin \in Member \cup {Nobody}
    /\ used \in Nat
    /\ calls \in 0..MaxCalls
    /\ losses \in 0..calls
    /\ borne \in [Member -> Nat]

\* distribute_loss charges nobody less than nothing, and nobody more or less
\* than its pro-rata part by as much as a drop; only the last member in the
\* order of the dict may bear up to a drop more for each of the others.
SharesProRata ==
    LET total == SumFunction(latest.contribution)
        n == Len(latest.order)
        Part(i) == latest.claim * latest.contribution[latest.order[i]]
    IN  \A i \in 1..n :
           /\ latest.share[i] >= 0
           /\ i < n => /\ latest.share[i] * total < Part(i) + total
                       /\ latest.share[i] * total > Part(i) - total
           /\ i = n => /\ latest.share[i] * total > Part(i) - total
                       /\ latest.share[i] * total < Part(i) + n * total

\* Over any number of losses a member other than the last is charged at most
\* its contribution, and the last, if it is charged more than that, less than a
\* drop more per loss and other member, as long as nobody comes, goes or tops up
\* after the first loss.
\* (With such a change even this is not so: the pool divides by what members
\* put in and not by what they have left. Nor is it said of a pool so large that
\* its drops are no longer all doubles.)
BorneWithinContribution ==
    settled /\ TotalCapacity <= Precision =>
        \A i \in 1..Len(order) :
            \/ borne[order[i]] <= contribution[order[i]]
            \/ /\ i = Len(order)
               /\ borne[order[i]] < contribution[order[i]] + losses * (i - 1)

\* The losses distributed exceed the members' contributions only if a member
\* has been removed: register_member and distribute_loss keep the pool solvent.
SolventUntilRemoval == ~removed => used <= TotalCapacity
=============================================================================
