--------------------------- MODULE SharedFinance ----------------------------
(***************************************************************************)
(* The money arithmetic of packages/shared, in minor units: what a cycle   *)
(* collects and pays out, how much of a payout is held back as a           *)
(* Contribution Guarantee Reserve and how the reserve is unlocked, and who *)
(* receives a cycle's payout.  BigInt division is \div: all values are     *)
(* natural numbers.                                                        *)
(***************************************************************************)
EXTENDS Integers, FiniteSets

BpsDenominator == 10000

\* summarizeCycle: the margin is MyTurn's, the rest goes to the recipient.
GrossPool(perDay, members, days) == perDay * members * days
ServiceMargin(gross, marginBps) == (gross * marginBps) \div BpsDenominator

\* computeReserveBps: falls linearly with the position, none for the last one.
ReserveBps(position, positions, maxBps) ==
    IF position >= positions THEN 0 ELSE (maxBps * (positions - position)) \div positions

ReserveAmount(net, bps) == (net * bps) \div BpsDenominator

\* postPayoutContributionUnits: payments the recipient still owes after the payout.
PostPayoutUnits(position, positions, days) == (positions - position) * days

\* Mutant: the last unit is released like the others.
NextReserveReleaseUnrounded(original, remaining, units, unitsReleased) ==
    IF remaining <= 0 \/ units < 1 THEN 0 ELSE original \div units

\* nextReserveReleaseMinor: an equal part; the last unit takes what is left.
NextReserveRelease(original, remaining, units, unitsReleased) ==
    IF remaining <= 0 \/ units < 1 THEN 0
    ELSE IF unitsReleased + 1 >= units THEN remaining
    ELSE original \div units

\* missedContributionMinor: the unpaid days' share of the contribution.
MissedContribution(amount, days, paid) ==
    IF paid >= days THEN 0 ELSE (amount * (days - paid)) \div days

\* Mutant: the queue is entered one place too far.
PayoutRecipientsShifted(place, standing, cycleNumber, allowOverride) ==
    LET members == DOMAIN place
        distance(m) == (place[m] - cycleNumber) % Cardinality(members)
        eligible == {m \in members: allowOverride \/ standing[m] # "DEFAULTED"}
    IN  {m \in eligible: \A x \in eligible: distance(m) <= distance(x)}

\* The first member of the sorted queue from the cycle's own place on, wrapping
\* round, who is not DEFAULTED; place maps members to 0 .. n-1.  With
\* allowOverride the nominal member, whatever the standing.
PayoutRecipients(place, standing, cycleNumber, allowOverride) ==
    LET members == DOMAIN place
        n == Cardinality(members)
        distance(m) == (place[m] - (cycleNumber - 1)) % n
        eligible == IF allowOverride THEN members
                    ELSE {m \in members: standing[m] # "DEFAULTED"}
    IN  {m \in eligible: \A x \in eligible: distance(m) <= distance(x)}

=============================================================================
