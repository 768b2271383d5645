------------------------------- MODULE PoolMath -------------------------------
(***************************************************************************)
(* The constant-product arithmetic of src/src/pool/math.rs, and a pool     *)
(* that is traded with at exactly the amounts the engine quotes (the       *)
(* contract mirrors this arithmetic; it is external).  u128 is represented *)
(* by 0..MaxU, and the checked operations fail above it.                   *)
(***************************************************************************)
EXTENDS Integers

CONSTANTS FeeNumerator, FeeDenominator, MinimumLiquidity,
          MaxU,       \* the largest representable amount
          Amounts,    \* the amounts that users ask for
          MaxReserve  \* bound on what the pool holds

ASSUME MathAssumption ==
    /\ FeeDenominator \in Nat \ {0} /\ FeeNumerator \in 0..FeeDenominator
    /\ MinimumLiquidity \in Nat /\ MaxU \in Nat
    /\ Amounts \subseteq 0..MaxU /\ MaxReserve \in 0..MaxU

\* MathError
ZeroAmount == -1
InsufficientLiquidity == -2
Overflow == -3

\* checked_mul and checked_add; an error stays an error.
Mul(x, y) == IF x < 0 THEN x
             ELSE IF y # 0 /\ x > MaxU \div y THEN Overflow
             ELSE x * y
Add(x, y) == IF x < 0 THEN x ELSE IF x + y > MaxU THEN Overflow ELSE x + y

Quotient(x, y) == IF x < 0 THEN x ELSE IF y < 0 THEN y ELSE x \div y

GetAmountOut(amountIn, reserveIn, reserveOut) ==
    IF amountIn = 0 THEN ZeroAmount
    ELSE IF reserveIn = 0 \/ reserveOut = 0 THEN InsufficientLiquidity
    ELSE LET feeIn == Mul(amountIn, FeeNumerator)
         IN IF feeIn < 0 THEN feeIn
            ELSE Quotient(Mul(feeIn, reserveOut),
                          Add(Mul(reserveIn, FeeDenominator), feeIn))

\* The numerator is computed, and may overflow, before the subtraction; an
\* output of the whole reserve fails in checked_div.
GetAmountIn(amountOut, reserveIn, reserveOut) ==
    IF amountOut = 0 THEN ZeroAmount
    ELSE IF reserveIn = 0 \/ reserveOut = 0 THEN InsufficientLiquidity
    ELSE LET numerator == Mul(Mul(reserveIn, amountOut), FeeDenominator)
         IN IF numerator < 0 THEN numerator
            ELSE IF reserveOut < amountOut THEN InsufficientLiquidity
            ELSE LET denominator == Mul(reserveOut - amountOut, FeeNumerator)
                 IN IF denominator = 0 THEN Overflow
                    ELSE Add(Quotient(numerator, denominator), 1)

AveragesUp(n, x) == (n \div x + x) \div 2 + 1

\* One step of the Newton iteration for the root of n.
Better(n, x) == (n \div x + x) \div 2

\* The loop of integer_sqrt on its variables: it runs while x still falls.
Loop[s \in [n : Nat \ {0}, x : Nat \ {0}, z : Nat \ {0}]] ==
    IF s.x < s.z THEN Loop[[s EXCEPT !.z = s.x, !.x = Better(s.n, s.x)]] ELSE s.z

\* integer_sqrt
Root(n) == IF n < 4 THEN IF n = 0 THEN 0 ELSE 1
           ELSE Loop[[n |-> n, x |-> n \div 2 + 1, z |-> n]]

Smaller(x, y) == IF x < 0 THEN x ELSE IF y < 0 THEN y ELSE IF x < y THEN x ELSE y
Larger(x, y) == IF x < 0 THEN x ELSE IF y < 0 THEN y ELSE IF x < y THEN y ELSE x

MintsByLarger(a0, a1, res0, res1, totalSupply) ==
    IF totalSupply = 0
    THEN IF Root(a0 * a1) <= MinimumLiquidity THEN InsufficientLiquidity
         ELSE Root(a0 * a1) - MinimumLiquidity
    ELSE Larger(Quotient(Mul(a0, totalSupply), res0),
                Quotient(Mul(a1, totalSupply), res1))

MintsMinimumToo(a0, a1, res0, res1, totalSupply) ==
    IF totalSupply = 0 THEN IF a0 * a1 = 0 THEN InsufficientLiquidity ELSE Root(a0 * a1)
    ELSE Smaller(Quotient(Mul(a0, totalSupply), res0),
                 Quotient(Mul(a1, totalSupply), res1))

\* With a supply but an empty reserve the division panics: callers of the
\* model keep the reserves positive then.
LpTokensToMint(a0, a1, res0, res1, totalSupply) ==
    IF totalSupply = 0
    THEN LET product == Mul(a0, a1)
         IN IF product < 0 THEN product
            ELSE IF Root(product) <= MinimumLiquidity THEN InsufficientLiquidity
            ELSE Root(product) - MinimumLiquidity
    ELSE Smaller(Quotient(Mul(a0, totalSupply), res0),
                 Quotient(Mul(a1, totalSupply), res1))

\* One side of withdrawal_amounts; the handler answers for an empty supply
\* before it divides.
WithdrawalAmount(liquidity, reserve, totalSupply) ==
    Quotient(Mul(liquidity, reserve), totalSupply)
-----------------------------------------------------------------------------
VARIABLES reserve0, reserve1, supply

vars == <<reserve0, reserve1, supply>>

\* A pool that nobody has provided liquidity to.
Init == reserve0 = 0 /\ reserve1 = 0 /\ supply = 0

\* The contract executes a swap of the quoted amount, in either direction.
Swap0(a) ==
    LET out == GetAmountOut(a, reserve0, reserve1)
    IN /\ out >= 0 /\ reserve0 + a <= MaxReserve
       /\ reserve0' = reserve0 + a
       /\ reserve1' = reserve1 - out
       /\ UNCHANGED supply

Swap1(a) ==
    LET out == GetAmountOut(a, reserve1, reserve0)
    IN /\ out >= 0 /\ reserve1 + a <= MaxReserve
       /\ reserve1' = reserve1 + a
       /\ reserve0' = reserve0 - out
       /\ UNCHANGED supply

\* The first deposit also mints the minimum that stays locked.
AddLiquidity(a0, a1) ==
    LET lp == LpTokensToMint(a0, a1, reserve0, reserve1, supply)
        locked == IF supply = 0 THEN MinimumLiquidity ELSE 0
    IN /\ lp >= 0
       /\ reserve0 + a0 <= MaxReserve /\ reserve1 + a1 <= MaxReserve
       /\ reserve0' = reserve0 + a0
       /\ reserve1' = reserve1 + a1
       /\ supply' = supply + lp + locked

\* MINIMUM_LIQUIDITY is never redeemed.
RemoveLiquidity(l) ==
    LET w0 == WithdrawalAmount(l, reserve0, supply)
        w1 == WithdrawalAmount(l, reserve1, supply)
    IN /\ supply > 0 /\ l <= supply - MinimumLiquidity
       /\ w0 >= 0 /\ w1 >= 0
       /\ reserve0' = reserve0 - w0
       /\ reserve1' = reserve1 - w1
       /\ supply' = supply - l

Next ==
    \/ \E a \in Amounts : Swap0(a) \/ Swap1(a) \/ RemoveLiquidity(a)
    \/ \E a0, a1 \in Amounts : AddLiquidity(a0, a1)

Spec == Init /\ [][Next]_vars
-----------------------------------------------------------------------------
\* No sequence of trades, deposits and withdrawals at quoted amounts dilutes
\* a share: the product of the reserves per squared share never falls.
SharesNeverDiluted ==
    [][reserve0' * reserve1' * supply * supply
        >= reserve0 * reserve1 * supply' * supply']_vars

\* Every share is backed, from the first deposit on: the supply, the locked
\* minimum included, never exceeds the geometric mean of the reserves.
SupplyBacked == supply * supply <= reserve0 * reserve1

\* integer_sqrt is exact on every product of reserves that trading produces,
\* next to perfect squares and below the loop's start included.
RootExact ==
    LET root == Root(reserve0 * reserve1)
    IN /\ root * root <= reserve0 * reserve1
       /\ reserve0 * reserve1 < (root + 1) * (root + 1)
=============================================================================
