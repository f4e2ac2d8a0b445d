-------------------------------- MODULE Money --------------------------------
(***************************************************************************)
(* projects/06-stripe-money-lab: amounts of cents below a ceiling, checked *)
(* arithmetic, and a proportional split by the largest remainders.         *)
(*                                                                         *)
(* The i64 is -Half..Half-1 (2^63 in the code) and the ceiling far below   *)
(* it.  A caller holds one amount and applies any operation to it; one     *)
(* that returns an error leaves it the amount it had.                      *)
(***************************************************************************)
EXTENDS Integers, FiniteSets, Sequences

CONSTANTS
    Half,        \* 2^63
    Ceiling,     \* MONEY_CEILING_CENTS
    Currencies,
    MaxWeight,   \* bound: weights of a split
    MaxShares,   \* bound: how many weights
    Error        \* a MoneyError

ASSUME MoneyAssumption ==
    Half \in Nat /\ Ceiling \in Nat /\ Ceiling < Half /\ MaxWeight \in Nat /\ MaxShares \in Nat

VARIABLES
    amount,   \* the caller's Money
    weights,  \* the weights of its latest split
    shares    \* and the cents of each share

moneyVars == <<amount, weights, shares>>

I64 == -Half..(Half - 1)
MoneyValues == [cents : I64, currency : Currencies]
Weights == UNION {[1..n -> 0..MaxWeight] : n \in 0..MaxShares}

MoneyTypeOK ==
    /\ amount \in MoneyValues
    /\ weights \in Seq(0..MaxWeight)
    /\ shares \in Seq(I64)

-----------------------------------------------------------------------------
Abs(n) == IF n < 0 THEN -n ELSE n

Wrapped(n) == ((n + Half) % (2 * Half)) - Half

\* unsigned_abs() as i64: the smallest i64 comes out negative.
AbsAsI64(n) == Wrapped(Abs(n))

\* Money::new
NewMoney(cents, currency) ==
    IF AbsAsI64(cents) >= Ceiling THEN Error ELSE [cents |-> cents, currency |-> currency]

\* The i64's checked operation, and then Money::new.
Checked(result, currency) == IF result \in I64 THEN NewMoney(result, currency) ELSE Error

CheckedAdd(m, rhs) ==
    IF m.currency # rhs.currency THEN Error ELSE Checked(m.cents + rhs.cents, m.currency)

CheckedSub(m, rhs) ==
    IF m.currency # rhs.currency THEN Error ELSE Checked(m.cents - rhs.cents, m.currency)

CheckedMul(m, by) == Checked(m.cents * by, m.currency)

\* Truncation toward zero.
CheckedDiv(m, divisor) ==
    IF divisor = 0 THEN Error
    ELSE LET quotient == Abs(m.cents) \div Abs(divisor)
         IN  Checked(IF (m.cents < 0) = (divisor < 0) THEN quotient ELSE -quotient, m.currency)

-----------------------------------------------------------------------------
\* split_proportional

SumTo(f, n) ==
    LET sum[k \in Nat] == IF k = 0 THEN 0 ELSE sum[k - 1] + f[k]
    IN  sum[n]

Total(ws) == SumTo(ws, Len(ws))

Quotient(cents, ws, i) == (Abs(cents) * ws[i]) \div Total(ws)

Remainder(cents, ws, i) == (Abs(cents) * ws[i]) % Total(ws)

\* Mutant: the smallest remainders first.
SmallerRemainderFirst(cents, ws, i, j) ==
    LET a == Remainder(cents, ws, i)
        b == Remainder(cents, ws, j)
    IN  a < b \/ (a = b /\ i < j)

\* Whether share i is sorted before share j: by remainder, the largest first, then
\* by index.
Before(cents, ws, i, j) ==
    LET a == Remainder(cents, ws, i)
        b == Remainder(cents, ws, j)
    IN  a > b \/ (a = b /\ i < j)

\* The index of a share in the sorted vector, from 0.
Place(cents, ws, i) == Cardinality({j \in 1 .. Len(ws) : Before(cents, ws, j, i)})

Residue(cents, ws) ==
    Abs(cents) - SumTo([i \in 1 .. Len(ws) |-> Quotient(cents, ws, i)], Len(ws))

Sign(cents) == IF cents < 0 THEN -1 ELSE 1

SaturatingAdd(a, b) == IF a + b < -Half THEN -Half ELSE IF a + b >= Half THEN Half - 1 ELSE a + b

\* The turns of the loop that land on the share, each with one more cent.
Turns(cents, ws, i) ==
    {k \in 0 .. (Residue(cents, ws) - 1) : k % Len(ws) = Place(cents, ws, i)}

Split(cents, ws) ==
    IF Total(ws) = 0 THEN <<>>
    ELSE [i \in 1 .. Len(ws) |->
             SaturatingAdd(Wrapped(Wrapped(Quotient(cents, ws, i)) * Sign(cents)),
                           Sign(cents) * Cardinality(Turns(cents, ws, i)))]

-----------------------------------------------------------------------------
\* Money::zero
MoneyInit ==
    /\ \E currency \in Currencies : amount = [cents |-> 0, currency |-> currency]
    /\ weights = <<>>
    /\ shares = <<>>

Becomes(result) ==
    /\ result # Error
    /\ amount' = result
    /\ weights' = <<>>
    /\ shares' = <<>>

Operand == {NewMoney(c, k) : c \in I64, k \in Currencies} \ {Error}

Make == \E m \in Operand : Becomes(m)
Add == \E rhs \in Operand : Becomes(CheckedAdd(amount, rhs))
Sub == \E rhs \in Operand : Becomes(CheckedSub(amount, rhs))
Mul == \E by \in I64 : Becomes(CheckedMul(amount, by))
Div == \E divisor \in I64 : Becomes(CheckedDiv(amount, divisor))

\* The expect of the last line panics instead when a share is refused, as those
\* of the smallest i64 may be; where one share takes all of that, a build with
\* overflow checks panics too.
SplitUp ==
    \E ws \in Weights :
        /\ weights' = ws
        /\ shares' = Split(amount.cents, ws)
        /\ \A i \in DOMAIN shares' : NewMoney(shares'[i], amount.currency) # Error
        /\ UNCHANGED amount

MoneyNext == Make \/ Add \/ Sub \/ Mul \/ Div \/ SplitUp

MoneySpec == MoneyInit /\ [][MoneyNext]_moneyVars

-----------------------------------------------------------------------------
\* A split hands out every cent and no more, each share is less than a cent away
\* from its exact proportion, a weight of zero gets nothing, and a larger weight
\* never gets less: of any amount the operations lead to, the smallest i64, which
\* passes the check of the ceiling, included.
SplitExact ==
    shares # <<>> =>
        /\ Total(shares) = amount.cents /\ Len(shares) = Len(weights)
        /\ \A i \in 1 .. Len(shares) :
              /\ Abs(shares[i] * Total(weights) - amount.cents * weights[i]) < Total(weights)
              /\ weights[i] = 0 => shares[i] = 0
              /\ \A j \in 1 .. Len(shares) :
                    weights[i] < weights[j] => Abs(shares[i]) <= Abs(shares[j])

\* "Create a Money value, refusing anything that exceeds the ceiling": the
\* smallest i64 is not refused, and multiplications reach it.
WithinCeiling == Abs(amount.cents) < Ceiling
=============================================================================
