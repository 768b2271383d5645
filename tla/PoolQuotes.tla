------------------------------- MODULE PoolQuotes -------------------------------
(***************************************************************************)
(* The quotes that the engine makes of a pool: get_quote of contract.rs,   *)
(* the reverse quote, the slippage floor and the simulated deposit of      *)
(* api/pool.rs, for assets named by AssetId (utils/mod.rs) and for every   *)
(* state that trading brings the pool of PoolMath into.  A quote only      *)
(* reads, so these are operators.  Products that the code does not check   *)
(* wrap around, as they do in a release build (a debug build panics).      *)
(***************************************************************************)
EXTENDS PoolMath

CONSTANTS None,
          Token0, Token1,  \* the pool's assets, as configured
          Assets,          \* the assets that requests name
          Slippages        \* the tolerances that requests name, in basis points

Bps == 10000

ASSUME QuotesAssumption ==
    {Token0, Token1} \subseteq Assets /\ Slippages \subseteq Nat /\ Bps <= MaxU

\* canonical_key, as a tuple instead of a formatted string.
CanonicalKey(a) ==
    IF a.contract # None THEN <<a.contract>>
    ELSE CASE a.asset_type = "native" -> <<"native">>
           [] a.asset_type = "issued_asset" -> <<a.issuer, a.symbol>>
           [] a.asset_type = "contract_token" -> <<"contract", a.symbol>>

Is(a, token) == CanonicalKey(a) = CanonicalKey(token)
\* Assets of other pools are refused; the network of an asset is not looked at.
PoolAssets == {a \in Assets : Is(a, Token0) \/ Is(a, Token1)}

\* The first token wins when both match.
Partner(a) == IF Is(a, Token0) THEN Token1 ELSE Token0
Reserve(a) == IF Is(a, Token0) THEN reserve0 ELSE reserve1

GetQuote(amountIn, a) == GetAmountOut(amountIn, Reserve(a), Reserve(Partner(a)))

DrainsInput(amountOut, a) == GetAmountIn(amountOut, Reserve(a), Reserve(Partner(a)))
ReverseQuote(amountOut, a) == GetAmountIn(amountOut, Reserve(Partner(a)), Reserve(a))

SaturatingMul(x, y) == IF y # 0 /\ x > MaxU \div y THEN MaxU ELSE x * y
Wrapped(x) == x % (MaxU + 1)

AddsSlippage(amount, bps) == SaturatingMul(amount, Wrapped(Bps + bps)) \div Bps
ApplySlippage(amount, bps) == SaturatingMul(amount, Wrapped(Bps - bps)) \div Bps

InverseRatio(wanted, other, reserve, otherReserve) ==
    LET optimal == IF reserve = 0 THEN wanted
                   ELSE Wrapped(other * otherReserve) \div reserve
    IN IF optimal < wanted THEN optimal ELSE wanted

\* What simulate_add_liquidity says is used of `wanted`, when `other` is
\* offered of the other token.
AmountUsed(wanted, other, reserve, otherReserve) ==
    LET optimal == IF otherReserve = 0 THEN wanted
                   ELSE Wrapped(other * reserve) \div otherReserve
    IN IF optimal < wanted THEN optimal ELSE wanted
-----------------------------------------------------------------------------
\* Forward and reverse quotes agree on direction and amount: asking for what a
\* quote promised, of the token that it promised, costs at most one unit more
\* than the quoted payment, and that payment buys it (contract.rs:126-139,
\* api/pool.rs:103-115).
QuotesRoundTrip ==
    \A a \in PoolAssets, x \in Amounts :
        LET out == GetQuote(x, a)
            paid == ReverseQuote(out, Partner(a))
        IN out > 0 /\ paid >= 0 =>
               /\ Is(Partner(Partner(a)), a)
               /\ paid <= x + 1
               /\ GetQuote(paid, a) >= out \/ GetQuote(paid, a) = Overflow

\* The floor that goes with a quote can be met: the pool in the quoted state
\* pays it.  It gives up no more than the tolerance and a unit of rounding where
\* the product fits; where it saturates, the floor is the same for every quote,
\* and the tolerance is lost (api/pool.rs:400-402).  Tolerances above 100% wrap
\* and are outside this.
FloorReachable ==
    \A a \in PoolAssets, x \in Amounts, bps \in Slippages :
        LET out == GetQuote(x, a)
            floor == ApplySlippage(out, bps)
        IN out > 0 /\ bps <= Bps =>
               /\ floor <= out
               /\ IF Mul(out, Bps - bps) = Overflow THEN floor = MaxU \div Bps
                  ELSE out - floor <= (out * bps) \div Bps + 1

\* A simulated deposit is one that can be made: the amounts it says are used
\* mint the tokens it says are minted, up to the rounding of one unit of a
\* token (api/pool.rs:195-212).  This is so where the two products that the
\* handler does not check fit; beyond, they wrap and so do the amounts.
UsedAmountsMint ==
    \A a0, a1 \in Amounts :
        LET promised == LpTokensToMint(a0, a1, reserve0, reserve1, supply)
            used0 == AmountUsed(a0, a1, reserve0, reserve1)
            used1 == AmountUsed(a1, a0, reserve1, reserve0)
            minted == LpTokensToMint(used0, used1, reserve0, reserve1, supply)
            fits == a0 * reserve1 <= MaxU /\ a1 * reserve0 <= MaxU
        IN supply > 0 /\ promised >= 0 /\ fits =>
               /\ used0 <= a0 /\ used1 <= a1
               /\ minted <= promised
               /\ promised - minted <= supply \div Smaller(reserve0, reserve1) + 1
=============================================================================
