---------------------------- MODULE PoolQuotesProofs ----------------------------
(***************************************************************************)
(* Proofs about the arithmetic of the pool: what the integer root is, what *)
(* trading at quoted amounts does to a share, and how the quotes of one    *)
(* state fit together, for every fee, every amount and every width.        *)
(***************************************************************************)
EXTENDS PoolQuotes, WellFoundedInduction, TLAPS

Positive == Nat \ {0}

\* A set of naturals has a least member.
LEMMA LeastOne ==
    ASSUME NEW S, S \subseteq Nat, S # {}
    PROVE  \E n \in S : \A m \in S : n <= m
<1>1. PICK R : IsWellFoundedOn(R, Nat) /\ R = {ss \in Nat \X Nat : ss[1] < ss[2]}
  BY NatLessThanWellFounded DEF OpToRel
<1>2. PICK n \in S : \A m \in S : ~(<<m, n>> \in R)
  BY <1>1, WFMin
<1>3. ASSUME NEW m \in S PROVE n <= m
  <2>1. m \in Nat /\ n \in Nat /\ <<m, n>> \notin R
    BY <1>2
  <2>2. ~(m < n)
    BY <1>1, <2>1
  <2> QED
    BY <2>1, <2>2
<1> QED
  BY <1>3

-----------------------------------------------------------------------------
\* Integer arithmetic.

LEMMA Division ==
    ASSUME NEW x \in Nat, NEW y \in Positive
    PROVE  /\ x \div y \in Nat
           /\ (x \div y) * y <= x /\ x < ((x \div y) + 1) * y
  BY DEF Positive

LEMMA Products ==
    ASSUME NEW a \in Nat, NEW b \in Nat, NEW c \in Nat, NEW d \in Nat, a <= b, c <= d
    PROVE  a * c \in Nat /\ b * d \in Nat /\ a * c <= b * d
  OBVIOUS

LEMMA NatTimes == \A x, y \in Nat : x * y \in Nat
  OBVIOUS

LEMMA ZeroTimes == \A x \in Nat : 0 * x = 0 /\ x * 0 = 0
  OBVIOUS

LEMMA Regroup == \A x, y, z \in Nat : (x * y) * z = x * (z * y)
  OBVIOUS

LEMMA Cancel ==
    ASSUME NEW a \in Int, NEW b \in Int, NEW c \in Positive, a * c <= b * c
    PROVE  a <= b
  BY DEF Positive

LEMMA CancelStrict ==
    ASSUME NEW a \in Int, NEW b \in Int, NEW c \in Nat, a * c < b * c
    PROVE  a < b
  OBVIOUS

-----------------------------------------------------------------------------
\* The integer root.

IsRoot(r, n) == r \in Nat /\ r * r <= n /\ n < (r + 1) * (r + 1)

LEMMA RootExists == ASSUME NEW n \in Nat PROVE \E r \in Nat : IsRoot(r, n)
<1> DEFINE S == {k \in Nat : n < (k + 1) * (k + 1)}
<1>1. n \in S
  OBVIOUS
<1>2. PICK r \in S : \A m \in S : r <= m
  BY <1>1, LeastOne
<1>3. CASE r = 0
  BY <1>2, <1>3 DEF IsRoot
<1>4. CASE r # 0
  <2>1. r - 1 \in Nat /\ r - 1 \notin S
    BY <1>2, <1>4
  <2>2. ~(n < ((r - 1) + 1) * ((r - 1) + 1))
    BY <2>1
  <2>3. (r - 1) + 1 = r
    BY <1>2
  <2>4. r * r <= n
    BY <1>2, <2>2, <2>3
  <2> QED
    BY <1>2, <2>4 DEF IsRoot
<1> QED
  BY <1>3, <1>4

LEMMA RootPositive == ASSUME NEW n \in Positive, NEW r, IsRoot(r, n) PROVE r \in Positive
  BY DEF IsRoot, Positive

\* Newton's step falls from above the root, never below it, and rises from below.
LEMMA BetterMoves ==
    ASSUME NEW n \in Positive, NEW x \in Positive, NEW r, IsRoot(r, n)
    PROVE  /\ Better(n, x) \in Positive
           /\ x > r => Better(n, x) < x /\ Better(n, x) >= r
           /\ x <= r => Better(n, x) >= x
<1>0. n \in Nat /\ x \in Nat /\ r \in Nat /\ r \in Positive /\ n > 0 /\ x > 0
  BY RootPositive DEF IsRoot, Positive
<1>1. PICK q \in Nat : q = n \div x /\ q * x <= n /\ n < (q + 1) * x
  BY <1>0, Division
<1>2. PICK b \in Nat : b = (q + x) \div 2 /\ 2 * b <= q + x /\ q + x < 2 * b + 2
  BY <1>0
<1>3. Better(n, x) = b
  BY <1>1, <1>2 DEF Better
<1>4. CASE x <= r
  <2>1. x * x <= r * r
    BY <1>0, <1>4, Products
  <2>2. x * x < (q + 1) * x
    BY <1>0, <1>1, <2>1 DEF IsRoot
  <2>3. x < q + 1
    BY <1>0, <1>1, <2>2, CancelStrict
  <2>4. b >= x
    BY <1>0, <1>2, <2>3
  <2> QED
    BY <1>0, <1>3, <1>4, <2>4 DEF Positive
<1>5. CASE x > r
  <2>1. (r + 1) * (r + 1) <= x * x
    BY <1>0, <1>5, Products
  <2>2. q * x < x * x
    BY <1>0, <1>1, <2>1 DEF IsRoot
  <2>3. q < x
    BY <1>0, <1>1, <2>2, CancelStrict
  <2>4. b < x
    BY <1>0, <1>2, <2>3
  <2>5. b >= r
    <3>1. SUFFICES ASSUME b + 1 <= r PROVE FALSE
      BY <1>0, <1>2
    <3>2. q + x + 1 <= 2 * (b + 1)
      BY <1>0, <1>2
    <3>3. (q + x + 1) * (q + x + 1) <= (2 * (b + 1)) * (2 * (b + 1))
      BY <1>0, <1>1, <1>2, <3>2, Products
    <3>4. (b + 1) * (b + 1) <= r * r
      BY <1>0, <1>2, <3>1, Products
    <3>5. 4 * ((q + 1) * x) <= (q + x + 1) * (q + x + 1)
      <4>1. PICK p \in Int : p = q + 1 - x
        BY <1>0, <1>1
      <4>2. p * p >= 0
        BY <4>1
      <4>3. (q + x + 1) * (q + x + 1) = 4 * ((q + 1) * x) + p * p
        BY <1>0, <1>1, <4>1
      <4> QED
        BY <1>0, <1>1, <4>1, <4>2, <4>3
    <3>6. (2 * (b + 1)) * (2 * (b + 1)) = 4 * ((b + 1) * (b + 1))
      BY <1>2
    <3> QED
      BY <1>0, <1>1, <1>2, <3>3, <3>4, <3>5, <3>6 DEF IsRoot
  <2>6. b > 0
    BY <1>0, <2>5 DEF Positive
  <2> QED
    BY <1>0, <1>3, <1>5, <2>4, <2>5, <2>6 DEF Positive
<1> QED
  BY <1>0, <1>4, <1>5

Frame == [n : Positive, x : Positive, z : Positive]

\* One turn of the loop.
Turn(s) == [s EXCEPT !.z = s.x, !.x = Better(s.n, s.x)]

LEMMA FrameParts ==
    ASSUME NEW s \in Frame
    PROVE  s.n \in Positive /\ s.x \in Positive /\ s.z \in Positive
  BY DEF Frame

LEMMA TurnFrame ==
    ASSUME NEW s \in Frame
    PROVE  Turn(s) \in Frame /\ Turn(s).n = s.n /\ Turn(s).z = s.x
           /\ Turn(s).x = Better(s.n, s.x)
<1>1. Better(s.n, s.x) \in Positive
  BY FrameParts, RootExists, BetterMoves DEF Positive
<1> QED
  BY <1>1 DEF Turn, Frame

\* The loop's equation has a solution: an iterate that still falls ends at the
\* root, or where it is when it is at or below the root.
LEMMA LoopExists ==
    \E f : f = [s \in Frame |-> IF s.x < s.z THEN f[Turn(s)] ELSE s.z]
<1>0. PICK rt : \A n \in Positive : IsRoot(rt[n], n)
  <2> DEFINE rt == [n \in Positive |-> CHOOSE r \in Nat : IsRoot(r, n)]
  <2>1. \A n \in Positive : IsRoot(rt[n], n)
    BY RootExists DEF Positive
  <2> QED
    BY <2>1
<1>1. PICK g : g = [s \in Frame |-> IF s.x < s.z
                                    THEN IF s.x <= rt[s.n] THEN s.x ELSE rt[s.n] ELSE s.z]
  OBVIOUS
<1>2. ASSUME NEW s \in Frame PROVE g[s] = IF s.x < s.z THEN g[Turn(s)] ELSE s.z
  <2>1. PICK n \in Positive, x \in Positive, b \in Positive, t \in Frame :
            /\ n = s.n /\ x = s.x /\ b = Better(n, x) /\ t = Turn(s)
            /\ t.n = n /\ t.z = x /\ t.x = b
    BY FrameParts, TurnFrame
  <2>2. /\ x > rt[n] => b < x /\ b >= rt[n]
        /\ x <= rt[n] => b >= x
    BY <1>0, <2>1, BetterMoves
  <2>3. x \in Nat /\ rt[n] \in Nat /\ b \in Nat
    BY <1>0, <2>1 DEF IsRoot, Positive
  <2>4. g[t] = IF b < x THEN IF b <= rt[n] THEN b ELSE rt[n] ELSE x
    BY <1>1, <2>1
  <2>5. g[s] = IF x < s.z THEN IF x <= rt[n] THEN x ELSE rt[n] ELSE s.z
    BY <1>1, <2>1
  <2>6. g[t] = IF x <= rt[n] THEN x ELSE rt[n]
    BY <2>2, <2>3, <2>4
  <2> QED
    BY <2>1, <2>5, <2>6
<1>3. g = [s \in Frame |-> IF s.x < s.z THEN g[Turn(s)] ELSE s.z]
  BY <1>1, <1>2
<1> QED
  BY <1>3

LEMMA LoopTurn ==
    ASSUME NEW s \in Frame
    PROVE  Loop[s] = IF s.x < s.z THEN Loop[Turn(s)] ELSE s.z
<1>1. Loop = [t \in Frame |-> IF t.x < t.z THEN Loop[Turn(t)] ELSE t.z]
  BY LoopExists DEF Loop, Frame, Turn, Positive
<1> QED
  BY <1>1

\* From above the root, the loop ends at the root: a least state that does not
\* would turn into a lesser one.
LEMMA LoopFinds ==
    ASSUME NEW n \in Positive, NEW r, IsRoot(r, n), NEW s \in Frame, s.n = n,
           s.z >= r, s.x >= r, s.x < s.z \/ s.x = Better(n, s.z)
    PROVE  Loop[s] = r
<1> DEFINE Above(t) == /\ t \in Frame /\ t.n = n /\ t.z >= r /\ t.x >= r
                       /\ t.x < t.z \/ t.x = Better(n, t.z)
           S == {m \in Nat : \E t \in Frame : Above(t) /\ t.z = m /\ Loop[t] # r}
<1>1. SUFFICES ASSUME Loop[s] # r PROVE FALSE
  OBVIOUS
<1>2. s.z \in S
  BY <1>1, FrameParts DEF Positive
<1>3. PICK m \in S : \A k \in S : m <= k
  BY <1>2, LeastOne
<1>4. PICK t \in Frame : Above(t) /\ t.z = m /\ Loop[t] # r
  BY <1>3
<1>5. /\ t.x \in Positive /\ t.z \in Positive /\ r \in Nat /\ t.x \in Nat /\ t.z \in Nat
  BY <1>4, FrameParts DEF IsRoot, Positive
<1>6. CASE t.x < t.z
  <2>1. PICK u \in Frame : u = Turn(t) /\ u.n = n /\ u.z = t.x /\ u.x = Better(n, t.x)
    BY <1>4, TurnFrame
  <2>2. Loop[u] = Loop[t]
    BY <1>4, <1>6, <2>1, LoopTurn
  <2>3. Better(n, t.x) >= r
    <3>1. CASE t.x > r
      BY <1>5, <3>1, BetterMoves
    <3>2. CASE t.x = r
      <4>1. t.x <= r
        BY <1>5, <3>2
      <4> QED
        BY <1>5, <3>2, <4>1, BetterMoves
    <3> QED
      BY <1>4, <1>5, <3>1, <3>2
  <2>4. Above(u)
    BY <1>4, <2>1, <2>3
  <2>5. t.x \in S
    BY <1>4, <1>5, <2>1, <2>2, <2>4
  <2> QED
    BY <1>3, <1>4, <1>5, <1>6, <2>5
<1>7. CASE ~(t.x < t.z)
  <2>1. Loop[t] = t.z
    BY <1>4, <1>7, LoopTurn
  <2>2. t.x = Better(n, t.z) /\ t.z >= r
    BY <1>4, <1>7
  <2>3. ~(t.z > r)
    BY <1>5, <1>7, <2>2, BetterMoves
  <2> QED
    BY <1>4, <1>5, <2>1, <2>2, <2>3
<1> QED
  BY <1>6, <1>7

\* integer_sqrt (math.rs:137-148) is exact for every argument.
THEOREM RootIsExact == ASSUME NEW n \in Nat PROVE IsRoot(Root(n), n)
<1>1. CASE n < 4
  <2>1. n = 0 \/ n = 1 \/ n = 2 \/ n = 3
    BY <1>1
  <2> QED
    BY <1>1, <2>1 DEF Root, IsRoot
<1>2. CASE ~(n < 4)
  <2>1. PICK r \in Nat : IsRoot(r, n)
    BY RootExists
  <2>2. PICK x \in Nat : x = n \div 2 + 1 /\ 2 * x >= n + 1 /\ 2 * x <= n + 2
    OBVIOUS
  <2>3. PICK s : s = [n |-> n, x |-> x, z |-> n]
    OBVIOUS
  <2>4. s \in Frame /\ s.n = n /\ s.x = x /\ s.z = n
    BY <1>2, <2>2, <2>3 DEF Frame, Positive
  <2>5. x >= r /\ n >= r /\ x < n
    <3>1. x < n
      BY <1>2, <2>2
    <3>2. n < (x + 1) * (x + 1)
      BY <2>2
    <3>3. ~(x + 1 <= r)
      <4>1. SUFFICES ASSUME x + 1 <= r PROVE FALSE
        OBVIOUS
      <4>2. (x + 1) * (x + 1) <= r * r
        BY <2>1, <2>2, <4>1, Products
      <4> QED
        BY <2>1, <2>2, <3>2, <4>2 DEF IsRoot
    <3> QED
      BY <2>1, <2>2, <3>1, <3>3
  <2>6. Loop[s] = r
    BY <1>2, <2>1, <2>4, <2>5, LoopFinds DEF Positive
  <2>7. Root(n) = Loop[s]
    BY <1>2, <2>2, <2>3 DEF Root
  <2> QED
    BY <2>1, <2>6, <2>7
<1> QED
  BY <1>1, <1>2

-----------------------------------------------------------------------------
\* The checked operations: an error, or the exact result.

LEMMA CheckedMul ==
    ASSUME NEW x \in Nat, NEW y \in Nat
    PROVE  /\ Mul(x, y) \in {x * y, Overflow}
           /\ Mul(x, y) >= 0 => Mul(x, y) = x * y /\ x * y <= MaxU
           /\ x * y <= MaxU => Mul(x, y) = x * y
<1>0. MaxU \in Nat /\ Overflow = -3 /\ x * y \in Nat
  BY MathAssumption DEF Overflow
<1>1. CASE y = 0
  BY <1>0, <1>1 DEF Mul
<1>2. CASE y # 0
  <2>1. PICK q \in Nat : q = MaxU \div y /\ q * y <= MaxU /\ MaxU < (q + 1) * y
    BY <1>0, <1>2, Division DEF Positive
  <2>2. Mul(x, y) = IF x > q THEN Overflow ELSE x * y
    BY <1>2, <2>1 DEF Mul
  <2>3. x <= q => x * y <= MaxU
    BY <1>0, <2>1, Products
  <2>4. x > q => x * y > MaxU
    <3>1. x > q => (q + 1) * y <= x * y
      BY <2>1, Products
    <3> QED
      BY <1>0, <2>1, <3>1
  <2> QED
    BY <1>0, <2>1, <2>2, <2>3, <2>4
<1> QED
  BY <1>1, <1>2

LEMMA CheckedAdd ==
    ASSUME NEW x \in Nat, NEW y \in Nat
    PROVE  /\ Add(x, y) \in {x + y, Overflow}
           /\ Add(x, y) >= 0 => Add(x, y) = x + y
  BY MathAssumption DEF Add, Overflow

\* What a quote that is no error says of the amounts.
LEMMA QuotedOut ==
    ASSUME NEW a \in Nat, NEW rin \in Nat, NEW rout \in Nat,
           NEW out, out = GetAmountOut(a, rin, rout)
    PROVE  /\ out \in Int
           /\ out >= 0 =>
                 /\ a > 0 /\ rin > 0 /\ rout > 0 /\ out \in Nat
                 /\ out * (rin * FeeDenominator + a * FeeNumerator)
                       <= (a * FeeNumerator) * rout
           /\ a > 0 /\ rin > 0 /\ rout > 0 =>
                 \/ out = Overflow
                 \/ (a * FeeNumerator) * rout
                       < (out + 1) * (rin * FeeDenominator + a * FeeNumerator)
<1>0. /\ FeeDenominator \in Nat /\ FeeDenominator > 0 /\ FeeNumerator \in Nat
      /\ ZeroAmount = -1 /\ InsufficientLiquidity = -2 /\ Overflow = -3
  BY MathAssumption DEF ZeroAmount, InsufficientLiquidity, Overflow
<1>1. CASE a = 0 \/ rin = 0 \/ rout = 0
  BY <1>0, <1>1 DEF GetAmountOut
<1>2. CASE a > 0 /\ rin > 0 /\ rout > 0
  <2>1. PICK f \in Nat : f = a * FeeNumerator
    BY <1>0
  <2>2. PICK d \in Nat : d = rin * FeeDenominator /\ d > 0
    BY <1>0, <1>2
  <2>3. Mul(a, FeeNumerator) \in {f, Overflow} /\ Mul(rin, FeeDenominator) \in {d, Overflow}
    BY <1>0, <2>1, <2>2, CheckedMul
  <2>4. CASE Mul(a, FeeNumerator) = Overflow
    BY <1>0, <1>2, <2>4 DEF GetAmountOut
  <2>5. CASE Mul(a, FeeNumerator) = f
    <3>1. PICK p : p = Mul(f, rout)
      OBVIOUS
    <3>2. PICK e : e = Add(Mul(rin, FeeDenominator), f)
      OBVIOUS
    <3>3. out = Quotient(p, e)
      BY <1>2, <2>1, <2>5, <3>1, <3>2 DEF GetAmountOut
    <3>4. p \in {f * rout, Overflow}
      BY <3>1, CheckedMul
    <3>5. e \in {d + f, Overflow}
      <4>1. CASE Mul(rin, FeeDenominator) = d
        BY <3>2, <4>1, CheckedAdd
      <4>2. CASE Mul(rin, FeeDenominator) = Overflow
        BY <1>0, <3>2, <4>2 DEF Add
      <4> QED
        BY <2>3, <4>1, <4>2
    <3>6. CASE p = Overflow \/ e = Overflow
      <4>1. out = Overflow
        BY <1>0, <3>3, <3>4, <3>6 DEF Quotient
      <4> QED
        BY <1>0, <1>2, <4>1
    <3>7. CASE p = f * rout /\ e = d + f
      <4>1. f * rout \in Nat /\ d + f \in Positive
        BY <2>2 DEF Positive
      <4>2. out = (f * rout) \div (d + f)
        BY <3>3, <3>7, <4>1 DEF Quotient, Positive
      <4>3. out \in Nat /\ out * (d + f) <= f * rout /\ f * rout < (out + 1) * (d + f)
        BY <4>1, <4>2, Division
      <4> QED
        BY <1>2, <2>1, <2>2, <4>3
    <3> QED
      BY <3>4, <3>5, <3>6, <3>7
  <2> QED
    BY <2>3, <2>4, <2>5
<1> QED
  BY <1>1, <1>2

\* A trade at the quoted amount leaves some of the reserve, and the product of the
\* reserves no smaller.
LEMMA TradeKeepsProduct ==
    ASSUME NEW a \in Nat, NEW rin \in Nat, NEW rout \in Nat,
           NEW out, out = GetAmountOut(a, rin, rout), out >= 0
    PROVE  /\ rin > 0 /\ rout > 0 /\ out \in Nat /\ out < rout
           /\ rin * rout <= (rin + a) * (rout - out)
<1>0. /\ FeeDenominator \in Positive /\ FeeDenominator \in Nat /\ FeeDenominator > 0
      /\ FeeNumerator \in Nat /\ FeeNumerator <= FeeDenominator
  BY MathAssumption DEF Positive
<1>1. /\ a > 0 /\ rin > 0 /\ rout > 0 /\ out \in Nat
      /\ out * (rin * FeeDenominator + a * FeeNumerator) <= (a * FeeNumerator) * rout
  BY QuotedOut
<1>2. PICK f \in Nat : f = a * FeeNumerator
  BY <1>0
<1>3. PICK d \in Nat : d = rin * FeeDenominator /\ d > 0
  BY <1>0, <1>1
<1>4. out * d + out * f <= f * rout
  BY <1>1, <1>2, <1>3
<1>5. out < rout
  <2>1. SUFFICES ASSUME rout <= out PROVE FALSE
    BY <1>1
  <2>2. f * rout <= f * out
    BY <1>1, <2>1, Products
  <2>3. out * d > 0
    BY <1>1, <1>3, <2>1
  <2> QED
    BY <1>1, <1>3, <1>4, <2>2, <2>3
<1>6. PICK rest \in Nat : rest = rout - out
  BY <1>1, <1>5
<1>7. out * d <= f * rest
  BY <1>1, <1>4, <1>6
<1>8. f * rest <= (a * FeeDenominator) * rest
  <2>1. f <= a * FeeDenominator
    BY <1>0, <1>2, Products
  <2> QED
    BY <1>0, <1>6, <2>1, Products
<1>9. (out * rin) * FeeDenominator <= (a * rest) * FeeDenominator
  <2>1. out * d = (out * rin) * FeeDenominator
    BY <1>0, <1>1, <1>3
  <2>2. (a * FeeDenominator) * rest = (a * rest) * FeeDenominator
    BY <1>0, <1>6
  <2> QED
    BY <1>0, <1>1, <1>6, <1>7, <1>8, <2>1, <2>2
<1>10. out * rin <= a * rest
  BY <1>0, <1>1, <1>6, <1>9, Cancel
<1>11. rin * rout <= (rin + a) * rest
  <2>1. rin * rout = rin * out + rin * rest
    BY <1>1, <1>6
  <2>2. (rin + a) * rest = rin * rest + a * rest
    BY <1>6
  <2> QED
    BY <1>1, <1>6, <1>10, <2>1, <2>2
<1> QED
  BY <1>1, <1>5, <1>6, <1>11

-----------------------------------------------------------------------------
\* Trading at quoted amounts.

\* A pool with shares has both reserves, and one without has neither; so no quote
\* divides by an empty reserve.
TradeInv ==
    /\ reserve0 \in Nat /\ reserve1 \in Nat /\ supply \in Nat
    /\ supply = 0 => reserve0 = 0 /\ reserve1 = 0
    /\ supply > 0 => reserve0 > 0 /\ reserve1 > 0

NotDiluted == reserve0' * reserve1' * supply * supply >= reserve0 * reserve1 * supply' * supply'

\* What a deposit is given for one of its sides.
LEMMA MintedPart ==
    ASSUME NEW a \in Nat, NEW s \in Nat, NEW r \in Positive,
           NEW q, q = Quotient(Mul(a, s), r)
    PROVE  /\ q \in Int
           /\ q < 0 => q = Overflow
           /\ q >= 0 => /\ q \in Nat /\ a * s <= MaxU /\ q = (a * s) \div r
                        /\ q * r <= a * s /\ a * s < (q + 1) * r
           /\ a * s <= MaxU => q >= 0
<1>0. a * s \in Nat /\ Overflow = -3 /\ r \in Nat /\ r > 0
  BY DEF Overflow, Positive
<1>1. PICK m \in Nat : m = a * s
  BY <1>0
<1>2. PICK p : p = Mul(a, s)
  OBVIOUS
<1>3. p \in {m, Overflow} /\ (p >= 0 => p = m /\ m <= MaxU) /\ (m <= MaxU => p = m)
  BY <1>1, <1>2, CheckedMul
<1>4. MaxU \in Nat
  BY MathAssumption
<1>5. CASE p = m
  <2>1. q = m \div r /\ m <= MaxU
    BY <1>0, <1>2, <1>3, <1>5 DEF Quotient
  <2>2. q \in Nat /\ q * r <= m /\ m < (q + 1) * r
    BY <2>1, Division
  <2> QED
    BY <1>1, <2>1, <2>2
<1>6. CASE p = Overflow
  <2>1. q = Overflow /\ ~(m <= MaxU)
    BY <1>0, <1>2, <1>3, <1>6 DEF Quotient
  <2> QED
    BY <1>0, <1>1, <2>1
<1> QED
  BY <1>3, <1>5, <1>6

LEMMA SmallerPart ==
    ASSUME NEW x \in Int, NEW y \in Int, NEW z, z = Smaller(x, y)
    PROVE  /\ z \in Int
           /\ z >= 0 => x >= 0 /\ y >= 0 /\ z <= x /\ z <= y /\ z \in {x, y}
           /\ x >= 0 /\ y >= 0 => z >= 0
  BY DEF Smaller

\* Two reserves that grow by at least the factor that the supply does.
LEMMA Scaled ==
    ASSUME NEW x \in Nat, NEW y \in Nat, NEW s \in Nat,
           NEW x1 \in Nat, NEW y1 \in Nat, NEW s1 \in Nat,
           x * s1 <= x1 * s, y * s1 <= y1 * s
    PROVE  x * y * s1 * s1 <= x1 * y1 * s * s
<1>1. x * s1 \in Nat /\ x1 * s \in Nat /\ y * s1 \in Nat /\ y1 * s \in Nat
  OBVIOUS
<1>2. (x * s1) * (y * s1) <= (x1 * s) * (y1 * s)
  BY <1>1, Products
<1>3. (x * s1) * (y * s1) = x * y * s1 * s1
  OBVIOUS
<1>4. (x1 * s) * (y1 * s) = x1 * y1 * s * s
  OBVIOUS
<1> QED
  BY <1>2, <1>3, <1>4

LEMMA AmountsNat == ASSUME NEW a \in Amounts PROVE a \in Nat
  BY MathAssumption

LEMMA SwapStep ==
    ASSUME TradeInv, NEW a \in Amounts, Swap0(a) \/ Swap1(a)
    PROVE  TradeInv' /\ NotDiluted /\ supply > 0
<1>0. a \in Nat /\ reserve0 \in Nat /\ reserve1 \in Nat /\ supply \in Nat /\ supply' = supply
  BY AmountsNat DEF TradeInv, Swap0, Swap1
<1>1. /\ reserve0 > 0 /\ reserve1 > 0 /\ reserve0' \in Nat /\ reserve1' \in Nat
      /\ reserve0' > 0 /\ reserve1' > 0
      /\ reserve0 * reserve1 <= reserve0' * reserve1'
  <2>1. CASE Swap0(a)
    <3>1. PICK out : out = GetAmountOut(a, reserve0, reserve1)
      OBVIOUS
    <3>2. out >= 0 /\ reserve0' = reserve0 + a /\ reserve1' = reserve1 - out
      BY <2>1, <3>1 DEF Swap0
    <3>3. /\ reserve0 > 0 /\ reserve1 > 0 /\ out \in Nat /\ out < reserve1
          /\ reserve0 * reserve1 <= (reserve0 + a) * (reserve1 - out)
      BY <1>0, <3>1, <3>2, TradeKeepsProduct
    <3> QED
      BY <1>0, <3>2, <3>3
  <2>2. CASE Swap1(a)
    <3>1. PICK out : out = GetAmountOut(a, reserve1, reserve0)
      OBVIOUS
    <3>2. out >= 0 /\ reserve1' = reserve1 + a /\ reserve0' = reserve0 - out
      BY <2>2, <3>1 DEF Swap1
    <3>3. /\ reserve0 > 0 /\ reserve1 > 0 /\ out \in Nat /\ out < reserve0
          /\ reserve1 * reserve0 <= (reserve1 + a) * (reserve0 - out)
      BY <1>0, <3>1, <3>2, TradeKeepsProduct
    <3>4. reserve1 * reserve0 = reserve0 * reserve1 /\ reserve1' * reserve0' = reserve0' * reserve1'
      BY <1>0, <3>2, <3>3
    <3> QED
      BY <1>0, <3>2, <3>3, <3>4
  <2> QED
    BY <2>1, <2>2
<1>2. supply > 0
  BY <1>0, <1>1 DEF TradeInv
<1>3. TradeInv'
  BY <1>0, <1>1, <1>2 DEF TradeInv
<1>4. NotDiluted
  <2>1. PICK k \in Nat : k = reserve0 * reserve1
    BY <1>0
  <2>2. PICK m \in Nat : m = reserve0' * reserve1'
    BY <1>1, NatTimes, Zenon
  <2>3. k <= m
    BY <1>1, <2>1, <2>2
  <2>4. k * supply <= m * supply /\ k * supply \in Nat /\ m * supply \in Nat
    BY <1>0, <2>3, Products
  <2>5. (k * supply) * supply <= (m * supply) * supply
    BY <1>0, <2>4, Products
  <2>6. (m * supply) * supply \in Int /\ (k * supply) * supply \in Int
    BY <1>0
  <2>7. m * supply * supply >= k * supply * supply
    BY <2>5, <2>6
  <2> QED
    BY <1>0, <2>1, <2>2, <2>7, Zenon DEF NotDiluted
<1> QED
  BY <1>2, <1>3, <1>4

\* A first deposit: its shares and the locked minimum are the root of its product.
LEMMA FirstDeposit ==
    ASSUME NEW a0 \in Amounts, NEW a1 \in Amounts, supply = 0, TradeInv, AddLiquidity(a0, a1)
    PROVE  /\ supply' \in Positive /\ supply' * supply' <= reserve0' * reserve1'
           /\ reserve0' \in Positive /\ reserve1' \in Positive
<1>0. a0 \in Nat /\ a1 \in Nat /\ reserve0 = 0 /\ reserve1 = 0 /\ MinimumLiquidity \in Nat
  BY AmountsNat, MathAssumption DEF TradeInv
<1>1. PICK p : p = Mul(a0, a1)
  OBVIOUS
<1>2. PICK r : r = Root(p)
  OBVIOUS
<1>3. PICK lp : lp = LpTokensToMint(a0, a1, reserve0, reserve1, supply)
  OBVIOUS
<1>4. lp >= 0 /\ reserve0' = a0 /\ reserve1' = a1 /\ supply' = lp + MinimumLiquidity
  <2>1. lp >= 0 /\ reserve0' = reserve0 + a0 /\ reserve1' = reserve1 + a1
        /\ supply' = supply + lp + MinimumLiquidity
    BY <1>3 DEF AddLiquidity
  <2>2. lp \in Int
    <3>1. CASE p < 0
      BY <1>0, <1>1, <1>3, <3>1, CheckedMul DEF LpTokensToMint, Overflow
    <3>2. CASE ~(p < 0)
      <4>1. p \in Nat
        BY <1>0, <1>1, <3>2, CheckedMul DEF Overflow
      <4>2. r \in Nat
        BY <1>2, <4>1, RootIsExact DEF IsRoot
      <4> QED
        BY <1>0, <1>1, <1>2, <1>3, <3>2, <4>2 DEF LpTokensToMint, InsufficientLiquidity
    <3> QED
      BY <3>1, <3>2
  <2> QED
    BY <1>0, <2>1, <2>2
<1>5. ~(p < 0)
  <2>1. p < 0 => lp = p
    BY <1>1, <1>3 DEF LpTokensToMint
  <2>2. p \in Int
    BY <1>0, <1>1, CheckedMul DEF Overflow
  <2> QED
    BY <1>4, <2>1, <2>2
<1>6. p = a0 * a1 /\ p \in Nat
  BY <1>0, <1>1, <1>5, CheckedMul DEF Overflow
<1>7. r \in Nat /\ r * r <= p
  BY <1>2, <1>6, RootIsExact DEF IsRoot
<1>8. ~(r <= MinimumLiquidity) /\ lp = r - MinimumLiquidity
  BY <1>1, <1>2, <1>3, <1>4, <1>5 DEF LpTokensToMint, InsufficientLiquidity
<1>9. supply' = r /\ r > 0
  BY <1>0, <1>4, <1>7, <1>8
<1>10. p > 0
  BY <1>6, <1>7, <1>9
<1>11. a0 > 0 /\ a1 > 0
  BY <1>0, <1>6, <1>10
<1> QED
  BY <1>0, <1>4, <1>6, <1>7, <1>9, <1>11 DEF Positive

LEMMA DepositStep ==
    ASSUME TradeInv, NEW a0 \in Amounts, NEW a1 \in Amounts, supply > 0, AddLiquidity(a0, a1)
    PROVE  TradeInv' /\ NotDiluted
<1>0. /\ a0 \in Nat /\ a1 \in Nat /\ reserve0 \in Positive /\ reserve1 \in Positive
      /\ reserve0 \in Nat /\ reserve1 \in Nat /\ supply \in Nat /\ supply # 0
      /\ reserve0 > 0 /\ reserve1 > 0
  BY AmountsNat DEF TradeInv, Positive
<1>1. PICK q0 : q0 = Quotient(Mul(a0, supply), reserve0)
  OBVIOUS
<1>2. PICK q1 : q1 = Quotient(Mul(a1, supply), reserve1)
  OBVIOUS
<1>3. PICK lp : lp = Smaller(q0, q1)
  OBVIOUS
<1>4. /\ lp >= 0 /\ reserve0' = reserve0 + a0 /\ reserve1' = reserve1 + a1
      /\ supply' = supply + lp + 0
  BY <1>0, <1>1, <1>2, <1>3 DEF AddLiquidity, LpTokensToMint
<1>5. q0 \in Int /\ q1 \in Int
  BY <1>0, <1>1, <1>2, MintedPart
<1>6. lp \in Nat /\ q0 >= 0 /\ q1 >= 0 /\ lp <= q0 /\ lp <= q1
  BY <1>3, <1>4, <1>5, SmallerPart
<1>7. q0 \in Nat /\ q0 * reserve0 <= a0 * supply /\ q1 \in Nat /\ q1 * reserve1 <= a1 * supply
  BY <1>0, <1>1, <1>2, <1>6, MintedPart
<1>8. lp * reserve0 <= a0 * supply /\ lp * reserve1 <= a1 * supply
  <2>1. lp * reserve0 <= q0 * reserve0 /\ lp * reserve1 <= q1 * reserve1
    BY <1>0, <1>6, <1>7, Products
  <2> QED
    BY <1>0, <1>6, <1>7, <2>1
<1>9. supply' \in Nat /\ supply' = supply + lp /\ reserve0' \in Nat /\ reserve1' \in Nat
  BY <1>0, <1>4, <1>6
<1>10. reserve0 * supply' <= reserve0' * supply /\ reserve1 * supply' <= reserve1' * supply
  <2>1. reserve0 * supply' = reserve0 * supply + lp * reserve0
    BY <1>0, <1>6, <1>9
  <2>2. reserve1 * supply' = reserve1 * supply + lp * reserve1
    BY <1>0, <1>6, <1>9
  <2>3. reserve0' * supply = reserve0 * supply + a0 * supply
    BY <1>0, <1>4
  <2>4. reserve1' * supply = reserve1 * supply + a1 * supply
    BY <1>0, <1>4
  <2> QED
    BY <1>0, <1>6, <1>8, <2>1, <2>2, <2>3, <2>4
<1>11. NotDiluted
  BY <1>0, <1>9, <1>10, Scaled DEF NotDiluted
<1>12. TradeInv'
  BY <1>0, <1>4, <1>6, <1>9 DEF TradeInv
<1> QED
  BY <1>11, <1>12

\* One side of a withdrawal.
LEMMA WithdrawnPart ==
    ASSUME NEW l \in Nat, NEW s \in Positive, l <= s, NEW r \in Positive,
           NEW w, w = WithdrawalAmount(l, r, s), w >= 0
    PROVE  /\ w \in Nat /\ r - w \in Nat
           /\ l = s => w = r
           /\ l < s => w < r
           /\ r * (s - l) <= (r - w) * s
<1>0. s \in Nat /\ r \in Nat /\ s > 0 /\ r > 0
  BY DEF Positive
<1>1. w \in Nat /\ w * s <= l * r /\ l * r < (w + 1) * s
  BY <1>0, MintedPart DEF WithdrawalAmount
<1>2. l * r <= s * r
  BY <1>0, Products
<1>3. w <= r
  <2>1. w * s <= r * s
    BY <1>0, <1>1, <1>2
  <2> QED
    BY <1>0, <1>1, <2>1, Cancel
<1>4. l = s => w = r
  <2>1. SUFFICES ASSUME l = s PROVE r <= w
    BY <1>0, <1>1, <1>3
  <2>2. r * s < (w + 1) * s
    BY <1>0, <1>1, <2>1
  <2>3. r < w + 1
    BY <1>0, <1>1, <2>2, CancelStrict
  <2> QED
    BY <1>0, <1>1, <2>3
<1>5. l < s => w < r
  <2>1. SUFFICES ASSUME l < s, w = r PROVE FALSE
    BY <1>0, <1>1, <1>3
  <2>2. r * s <= l * r
    BY <1>0, <1>1, <2>1
  <2>3. s <= l
    BY <1>0, <2>2, Cancel
  <2> QED
    BY <1>0, <2>1, <2>3
<1>6. r * (s - l) <= (r - w) * s
  <2>1. r * (s - l) = r * s - l * r
    BY <1>0
  <2>2. (r - w) * s = r * s - w * s
    BY <1>0, <1>1
  <2> QED
    BY <1>0, <1>1, <2>1, <2>2
<1> QED
  BY <1>0, <1>1, <1>3, <1>4, <1>5, <1>6

LEMMA WithdrawStep ==
    ASSUME TradeInv, NEW l \in Amounts, RemoveLiquidity(l)
    PROVE  TradeInv' /\ NotDiluted /\ supply > 0
<1>0. /\ l \in Nat /\ supply \in Nat /\ supply > 0 /\ MinimumLiquidity \in Nat
      /\ l <= supply - MinimumLiquidity
  BY AmountsNat, MathAssumption DEF TradeInv, RemoveLiquidity
<1>1. /\ supply \in Positive /\ reserve0 \in Positive /\ reserve1 \in Positive
      /\ reserve0 \in Nat /\ reserve1 \in Nat /\ l <= supply
  BY <1>0 DEF TradeInv, Positive
<1>2. PICK w0 : w0 = WithdrawalAmount(l, reserve0, supply)
  OBVIOUS
<1>3. PICK w1 : w1 = WithdrawalAmount(l, reserve1, supply)
  OBVIOUS
<1>4. /\ w0 >= 0 /\ w1 >= 0
      /\ reserve0' = reserve0 - w0 /\ reserve1' = reserve1 - w1 /\ supply' = supply - l
  BY <1>2, <1>3 DEF RemoveLiquidity
<1>5. /\ w0 \in Nat /\ reserve0 - w0 \in Nat /\ (l = supply => w0 = reserve0)
      /\ (l < supply => w0 < reserve0) /\ reserve0 * (supply - l) <= (reserve0 - w0) * supply
  BY <1>0, <1>1, <1>2, <1>4, WithdrawnPart
<1>6. /\ w1 \in Nat /\ reserve1 - w1 \in Nat /\ (l = supply => w1 = reserve1)
      /\ (l < supply => w1 < reserve1) /\ reserve1 * (supply - l) <= (reserve1 - w1) * supply
  BY <1>0, <1>1, <1>3, <1>4, WithdrawnPart
<1>7. reserve0' \in Nat /\ reserve1' \in Nat /\ supply' \in Nat
  BY <1>0, <1>1, <1>4, <1>5, <1>6
<1>8. NotDiluted
  BY <1>0, <1>1, <1>4, <1>5, <1>6, <1>7, Scaled DEF NotDiluted
<1>9. TradeInv'
  <2>1. CASE l = supply
    BY <1>0, <1>1, <1>4, <1>5, <1>6, <1>7, <2>1 DEF TradeInv
  <2>2. CASE l < supply
    BY <1>0, <1>1, <1>4, <1>5, <1>6, <1>7, <2>2 DEF TradeInv
  <2> QED
    BY <1>0, <1>1, <2>1, <2>2
<1> QED
  BY <1>0, <1>8, <1>9

\* The next-state relation, as one step of the pool or another.
LEMMA TradeStep ==
    ASSUME TradeInv, SupplyBacked, [Next]_vars
    PROVE  TradeInv' /\ SupplyBacked' /\ (NotDiluted \/ UNCHANGED vars)
<1>0. reserve0 \in Nat /\ reserve1 \in Nat /\ supply \in Nat
  BY DEF TradeInv
<1>1. CASE UNCHANGED vars
  BY <1>1 DEF vars, TradeInv, SupplyBacked
<1>2. CASE supply > 0 /\ TradeInv' /\ NotDiluted
  <2>1. reserve0' \in Nat /\ reserve1' \in Nat /\ supply' \in Nat
    BY <1>2 DEF TradeInv
  <2>2. PICK k \in Nat : k = reserve0 * reserve1
    BY <1>0
  <2>3. PICK k1 \in Nat : k1 = reserve0' * reserve1'
    BY <2>1, NatTimes, Zenon
  <2>4. PICK s \in Nat : s = supply * supply /\ s > 0
    BY <1>0, <1>2
  <2>5. PICK s1 \in Nat : s1 = supply' * supply'
    BY <2>1, NatTimes, Zenon
  <2>6. s <= k
    BY <2>2, <2>4 DEF SupplyBacked
  <2>7. k * s1 <= k1 * s
    <3>1. k1 * supply * supply >= k * supply' * supply'
      BY <1>2, <2>2, <2>3 DEF NotDiluted
    <3>2. k1 * supply * supply = k1 * s
      BY <1>0, <2>3, <2>4
    <3>3. k * supply' * supply' = k * s1
      BY <2>1, <2>2, <2>5
    <3> QED
      BY <2>2, <2>3, <2>4, <2>5, <3>1, <3>2, <3>3
  <2>8. s1 * s <= k1 * s
    <3>1. s * s1 <= k * s1
      BY <2>2, <2>4, <2>5, <2>6, Products
    <3> QED
      BY <2>2, <2>3, <2>4, <2>5, <2>7, <3>1
  <2>9. s1 <= k1
    BY <2>3, <2>4, <2>5, <2>8, Cancel DEF Positive
  <2> QED
    BY <1>2, <2>3, <2>5, <2>9 DEF SupplyBacked
<1>3. ASSUME NEW a \in Amounts, Swap0(a) \/ Swap1(a) \/ RemoveLiquidity(a)
      PROVE  supply > 0 /\ TradeInv' /\ NotDiluted
  BY <1>3, SwapStep, WithdrawStep
<1>4. ASSUME NEW a0 \in Amounts, NEW a1 \in Amounts, AddLiquidity(a0, a1)
      PROVE  TradeInv' /\ SupplyBacked' /\ NotDiluted
  <2>1. CASE supply = 0
    <3>1. /\ supply' \in Positive /\ supply' * supply' <= reserve0' * reserve1'
          /\ reserve0' \in Positive /\ reserve1' \in Positive
      BY <1>4, <2>1, FirstDeposit
    <3>2. TradeInv' /\ SupplyBacked'
      <4>1. TradeInv'
        <5>1. supply' \in Positive /\ reserve0' \in Positive /\ reserve1' \in Positive
          BY <3>1
        <5> QED
          BY <5>1 DEF TradeInv, Positive
      <4>2. SupplyBacked'
        BY <3>1, Zenon DEF SupplyBacked
      <4> QED
        BY <4>1, <4>2
    <3>3. reserve0 = 0 /\ reserve1 = 0
      BY <2>1 DEF TradeInv
    <3>4. supply' \in Nat /\ reserve0' \in Nat /\ reserve1' \in Nat
      BY <3>1 DEF Positive
    <3>5. PICK k1 \in Nat : k1 = reserve0' * reserve1'
      BY <3>4, NatTimes, Zenon
    <3>6. reserve0' * reserve1' * supply * supply = 0
      <4>1. k1 * 0 * 0 = 0
        BY ZeroTimes
      <4> QED
        BY <2>1, <3>5, <4>1, Zenon
    <3>7. reserve0 * reserve1 * supply' * supply' = 0
      <4>1. 0 * 0 = 0
        OBVIOUS
      <4> QED
        BY <3>3, <3>4, <4>1, ZeroTimes, Zenon
    <3>8. NotDiluted
      BY <3>6, <3>7 DEF NotDiluted
    <3> QED
      BY <3>2, <3>8
  <2>2. CASE supply > 0
    BY <1>2, <1>4, <2>2, DepositStep
  <2> QED
    BY <1>0, <2>1, <2>2
<1> QED
  BY <1>1, <1>2, <1>3, <1>4 DEF Next

LEMMA TradeInvariance == Spec => [](TradeInv /\ SupplyBacked)
<1>1. Init => TradeInv /\ SupplyBacked
  BY DEF Init, TradeInv, SupplyBacked
<1>2. TradeInv /\ SupplyBacked /\ [Next]_vars => (TradeInv /\ SupplyBacked)'
  BY TradeStep
<1> QED
  BY <1>1, <1>2, PTL DEF Spec

\* Whatever is traded, deposited and withdrawn at quoted amounts, and whatever
\* overflows on the way, the shares never exceed the geometric mean of the reserves
\* (math.rs:94-118).
THEOREM SharesBacked == Spec => []SupplyBacked
  BY TradeInvariance, PTL

\* No step at quoted amounts lowers the product of the reserves per squared share:
\* rounding always favours those who stay (math.rs:31-135).
THEOREM NoDilution == Spec => SharesNeverDiluted
<1>1. TradeInv /\ SupplyBacked /\ [Next]_vars
        => [reserve0' * reserve1' * supply * supply
              >= reserve0 * reserve1 * supply' * supply']_vars
  BY TradeStep DEF NotDiluted
<1> QED
  BY <1>1, TradeInvariance, PTL DEF Spec, SharesNeverDiluted

\* The root is exact on the product of the reserves of every pool that trading
\* produces (math.rs:137-148).
THEOREM RootsExact == Spec => []RootExact
<1>1. TradeInv => RootExact
  <2> SUFFICES ASSUME TradeInv PROVE RootExact
    OBVIOUS
  <2>1. reserve0 * reserve1 \in Nat
    BY DEF TradeInv
  <2> QED
    BY <2>1, RootIsExact DEF RootExact, IsRoot
<1> QED
  BY <1>1, TradeInvariance, PTL

-----------------------------------------------------------------------------
\* The quotes of one state.

LEMMA ScaleUp ==
    ASSUME NEW a \in Int, NEW b \in Int, NEW c \in Nat, a <= b
    PROVE  a * c <= b * c
  OBVIOUS

\* What a reverse quote that is no error says of the amounts.
LEMMA QuotedIn ==
    ASSUME NEW out \in Nat, NEW rin \in Nat, NEW rout \in Nat,
           NEW paid, paid = GetAmountIn(out, rin, rout), paid >= 0
    PROVE  /\ out > 0 /\ rin > 0 /\ rout > 0 /\ out < rout /\ FeeNumerator > 0
           /\ paid \in Nat /\ paid > 0
           /\ (paid - 1) * ((rout - out) * FeeNumerator) <= rin * out * FeeDenominator
           /\ rin * out * FeeDenominator < paid * ((rout - out) * FeeNumerator)
<1>0. /\ FeeDenominator \in Nat /\ FeeDenominator > 0 /\ FeeNumerator \in Nat
      /\ ZeroAmount = -1 /\ InsufficientLiquidity = -2 /\ Overflow = -3 /\ MaxU \in Nat
  BY MathAssumption DEF ZeroAmount, InsufficientLiquidity, Overflow
<1>1. out > 0 /\ rin > 0 /\ rout > 0
  BY <1>0 DEF GetAmountIn
<1>2. PICK n : n = Mul(Mul(rin, out), FeeDenominator)
  OBVIOUS
<1>3. n = Overflow \/ (n = rin * out * FeeDenominator /\ n \in Nat)
  <2>1. CASE Mul(rin, out) = Overflow
    BY <1>0, <1>2, <2>1 DEF Mul
  <2>2. CASE Mul(rin, out) = rin * out
    <3>1. PICK m \in Nat : m = rin * out
      OBVIOUS
    <3>2. n \in {m * FeeDenominator, Overflow}
      BY <1>0, <1>2, <2>2, <3>1, CheckedMul
    <3> QED
      BY <1>0, <3>1, <3>2
  <2> QED
    BY <2>1, <2>2, CheckedMul
<1>4. n \in Nat /\ n = rin * out * FeeDenominator /\ out <= rout
  <2>1. n # Overflow
    BY <1>0, <1>1, <1>2 DEF GetAmountIn
  <2>2. ~(rout < out)
    BY <1>0, <1>1, <1>2, <1>3, <2>1 DEF GetAmountIn
  <2> QED
    BY <1>3, <2>1, <2>2
<1>5. PICK rest \in Nat : rest = rout - out
  BY <1>4
<1>6. PICK d : d = Mul(rest, FeeNumerator)
  OBVIOUS
<1>7. d \in {rest * FeeNumerator, Overflow}
  BY <1>0, <1>6, CheckedMul
<1>8. d # 0 /\ paid = Add(Quotient(n, d), 1)
  <2>1. paid = IF d = 0 THEN Overflow ELSE Add(Quotient(n, d), 1)
    BY <1>1, <1>2, <1>4, <1>5, <1>6 DEF GetAmountIn
  <2> QED
    BY <1>0, <2>1
<1>9. d # Overflow
  <2>1. SUFFICES ASSUME d = Overflow PROVE FALSE
    OBVIOUS
  <2>2. Quotient(n, d) = Overflow
    BY <1>0, <1>4, <2>1 DEF Quotient
  <2>3. Add(Overflow, 1) = Overflow
    BY <1>0 DEF Add
  <2> QED
    BY <1>0, <1>8, <2>2, <2>3
<1>10. d \in Nat /\ d > 0 /\ d = rest * FeeNumerator
  <2>1. rest * FeeNumerator \in Nat
    BY <1>0
  <2> QED
    BY <1>7, <1>8, <1>9, <2>1
<1>11. PICK q \in Nat : q = n \div d /\ q * d <= n /\ n < (q + 1) * d
  <2>1. n \in Nat /\ d \in Positive
    BY <1>4, <1>10 DEF Positive
  <2> QED
    BY <2>1, Division, Zenon
<1>12. Quotient(n, d) = q
  BY <1>4, <1>10, <1>11 DEF Quotient
<1>13. paid = q + 1
  BY <1>0, <1>8, <1>12 DEF Add
<1>14. rest > 0 /\ FeeNumerator > 0
  BY <1>0, <1>5, <1>10
<1>15. (rout - out) * FeeNumerator = d /\ paid - 1 = q
  BY <1>5, <1>10, <1>13
<1> QED
  BY <1>1, <1>4, <1>5, <1>11, <1>13, <1>14, <1>15

\* Asking back for what a quote gave.
LEMMA RoundTrip ==
    ASSUME NEW x \in Nat, NEW rin \in Nat, NEW rout \in Nat,
           NEW out, out = GetAmountOut(x, rin, rout), out > 0,
           NEW paid, paid = GetAmountIn(out, rin, rout), paid >= 0
    PROVE  /\ paid <= x + 1
           /\ \/ GetAmountOut(paid, rin, rout) >= out
              \/ GetAmountOut(paid, rin, rout) = Overflow
<1>0. FeeDenominator \in Nat /\ FeeNumerator \in Nat
  BY MathAssumption
<1>1. out \in Int
  BY QuotedOut
<1>2. out \in Nat /\ out >= 0
  BY <1>1
<1>3. out * (rin * FeeDenominator + x * FeeNumerator) <= (x * FeeNumerator) * rout
  BY <1>2, QuotedOut
<1>4. /\ rin > 0 /\ rout > 0 /\ out < rout /\ FeeNumerator > 0
      /\ paid \in Nat /\ paid > 0
      /\ (paid - 1) * ((rout - out) * FeeNumerator) <= rin * out * FeeDenominator
      /\ rin * out * FeeDenominator < paid * ((rout - out) * FeeNumerator)
  BY <1>2, QuotedIn
<1>5. PICK rest \in Nat : rest = rout - out /\ rest > 0 /\ rout = rest + out
  BY <1>2, <1>4
<1>6. PICK d \in Nat : d = rest * FeeNumerator /\ d > 0
  BY <1>0, <1>4, <1>5
<1>7. PICK n \in Nat : n = rin * out * FeeDenominator
  BY <1>0, <1>2
<1>8. (paid - 1) * d <= n /\ n < paid * d
  BY <1>4, <1>5, <1>6, <1>7, Zenon
<1>9. \A y \in Nat : (y * FeeNumerator) * rout = y * d + out * (y * FeeNumerator)
  <2> SUFFICES ASSUME NEW y \in Nat
               PROVE  (y * FeeNumerator) * rout = y * d + out * (y * FeeNumerator)
    OBVIOUS
  <2>1. PICK f \in Nat : f = y * FeeNumerator
    BY <1>0
  <2>2. f * rout = f * rest + out * f
    BY <1>2, <1>5
  <2>3. f * rest = y * d
    <3>1. (y * FeeNumerator) * rest = y * (rest * FeeNumerator)
      BY <1>0, Regroup
    <3> QED
      BY <1>6, <2>1, <3>1
  <2> QED
    BY <2>1, <2>2, <2>3
<1>10. \A y \in Nat : out * (rin * FeeDenominator + y * FeeNumerator)
                         = n + out * (y * FeeNumerator)
  <2> SUFFICES ASSUME NEW y \in Nat
               PROVE  out * (rin * FeeDenominator + y * FeeNumerator)
                         = n + out * (y * FeeNumerator)
    OBVIOUS
  <2>1. PICK f \in Nat : f = y * FeeNumerator
    BY <1>0
  <2>2. PICK e \in Nat : e = rin * FeeDenominator
    BY <1>0
  <2>3. out * e = n
    BY <1>0, <1>2, <1>7, <2>2
  <2>4. out * (e + f) = out * e + out * f
    BY <1>2
  <2> QED
    BY <2>1, <2>2, <2>3, <2>4
<1>11. n <= x * d
  <2>1. PICK g \in Nat : g = out * (x * FeeNumerator)
    BY <1>0, <1>2
  <2>2. n + g <= x * d + g
    BY <1>3, <1>9, <1>10, <2>1
  <2>3. x * d \in Nat
    OBVIOUS
  <2> QED
    BY <2>2, <2>3
<1>12. paid <= x + 1
  <2>1. (paid - 1) * d <= x * d
    BY <1>4, <1>8, <1>11
  <2>2. paid - 1 <= x
    BY <1>4, <1>6, <2>1, Cancel DEF Positive
  <2> QED
    BY <1>4, <2>2
<1>13. PICK g : g = GetAmountOut(paid, rin, rout)
  OBVIOUS
<1>14. g \in Int
  BY <1>4, <1>13, QuotedOut
<1>15. ASSUME g # Overflow, ~(g >= out) PROVE FALSE
  <2>1. PICK e \in Nat : e = rin * FeeDenominator + paid * FeeNumerator
    BY <1>0, <1>4
  <2>2. (paid * FeeNumerator) * rout < (g + 1) * e
    BY <1>4, <1>13, <1>15, <2>1, QuotedOut
  <2>3. (g + 1) * e <= out * e
    BY <1>2, <1>14, <1>15, ScaleUp
  <2>4. out * e = n + out * (paid * FeeNumerator)
    BY <1>4, <1>10, <2>1
  <2>5. (paid * FeeNumerator) * rout = paid * d + out * (paid * FeeNumerator)
    BY <1>4, <1>9
  <2>6. PICK h \in Nat : h = out * (paid * FeeNumerator)
    BY <1>0, <1>2, <1>4
  <2>7. (g + 1) * e \in Int /\ paid * d \in Int
    BY <1>4, <1>14
  <2>8. paid * d + h < n + h
    BY <2>2, <2>3, <2>4, <2>5, <2>6, <2>7
  <2> QED
    BY <1>8, <2>7, <2>8
<1> QED
  BY <1>12, <1>13, <1>14, <1>15

\* An asset of the pool and its partner's partner name the same token.
LEMMA PartnerTwice ==
    ASSUME NEW a \in PoolAssets
    PROVE  Is(Partner(Partner(a)), a) /\ Reserve(Partner(Partner(a))) = Reserve(a)
  BY DEF PoolAssets, Is, Partner, Reserve

LEMMA ReserveNat == ASSUME TradeInv, NEW a PROVE Reserve(a) \in Nat
  BY DEF TradeInv, Reserve

\* In every state of the pool, for every asset of it and every amount, the forward
\* and the reverse quote fit (contract.rs:126-139, api/pool.rs:103-115).
THEOREM QuotesFit == Spec => []QuotesRoundTrip
<1>1. TradeInv => QuotesRoundTrip
  <2> SUFFICES ASSUME TradeInv, NEW a \in PoolAssets, NEW x \in Amounts,
                      GetQuote(x, a) > 0, ReverseQuote(GetQuote(x, a), Partner(a)) >= 0
               PROVE  /\ Is(Partner(Partner(a)), a)
                      /\ ReverseQuote(GetQuote(x, a), Partner(a)) <= x + 1
                      /\ \/ GetQuote(ReverseQuote(GetQuote(x, a), Partner(a)), a) >= GetQuote(x, a)
                         \/ GetQuote(ReverseQuote(GetQuote(x, a), Partner(a)), a) = Overflow
    BY DEF QuotesRoundTrip
  <2>1. PICK rin \in Nat : rin = Reserve(a)
    BY ReserveNat
  <2>2. PICK rout \in Nat : rout = Reserve(Partner(a))
    BY ReserveNat
  <2>3. PICK out : out = GetQuote(x, a) /\ out = GetAmountOut(x, rin, rout)
    BY <2>1, <2>2 DEF GetQuote
  <2>4. PICK paid : paid = ReverseQuote(out, Partner(a)) /\ paid = GetAmountIn(out, rin, rout)
    BY <2>1, <2>2, PartnerTwice DEF ReverseQuote
  <2>5. GetQuote(paid, a) = GetAmountOut(paid, rin, rout)
    BY <2>1, <2>2 DEF GetQuote
  <2>6. x \in Nat /\ out > 0 /\ paid >= 0
    BY <2>3, <2>4, AmountsNat
  <2>7. paid <= x + 1 /\ (GetQuote(paid, a) >= out \/ GetQuote(paid, a) = Overflow)
    BY <2>3, <2>4, <2>5, <2>6, RoundTrip
  <2> QED
    BY <2>3, <2>4, <2>7, PartnerTwice
<1> QED
  BY <1>1, TradeInvariance, PTL

LEMMA Remainder ==
    ASSUME NEW x \in Nat
    PROVE  Wrapped(x) \in Nat /\ Wrapped(x) <= x /\ (x <= MaxU => Wrapped(x) = x)
<1>1. MaxU \in Nat
  BY MathAssumption
<1>2. PICK m \in Positive : m = MaxU + 1
  BY <1>1 DEF Positive
<1>3. x % m \in Nat /\ x % m <= x /\ (x < m => x % m = x)
  BY DEF Positive
<1> QED
  BY <1>1, <1>2, <1>3 DEF Wrapped

LEMMA Saturated ==
    ASSUME NEW x \in Nat, NEW y \in Nat
    PROVE  /\ SaturatingMul(x, y) \in Nat /\ SaturatingMul(x, y) <= x * y
           /\ x * y <= MaxU => SaturatingMul(x, y) = x * y
<1>0. MaxU \in Nat /\ x * y \in Nat
  BY MathAssumption
<1>1. CASE y = 0
  BY <1>0, <1>1 DEF SaturatingMul
<1>2. CASE y # 0
  <2>1. PICK q \in Nat : q = MaxU \div y /\ q * y <= MaxU /\ MaxU < (q + 1) * y
    BY <1>0, <1>2, Division DEF Positive
  <2>2. SaturatingMul(x, y) = IF x > q THEN MaxU ELSE x * y
    BY <1>2, <2>1 DEF SaturatingMul
  <2>3. x > q => MaxU < x * y
    <3>1. x > q => (q + 1) * y <= x * y
      BY <2>1, Products
    <3> QED
      BY <1>0, <2>1, <3>1
  <2> QED
    BY <1>0, <2>1, <2>2, <2>3
<1> QED
  BY <1>1, <1>2

\* What would overflow saturates, and nothing else does.
LEMMA SaturatesOnOverflow ==
    ASSUME NEW x \in Nat, NEW y \in Nat
    PROVE  SaturatingMul(x, y) = IF Mul(x, y) = Overflow THEN MaxU ELSE x * y
<1>1. Overflow = -3 /\ x * y \in Nat
  BY DEF Overflow
<1>2. PICK q : q = MaxU \div y
  OBVIOUS
<1>3. PICK p : p = x * y
  OBVIOUS
<1>4. SaturatingMul(x, y) = IF y # 0 /\ x > q THEN MaxU ELSE p
  BY <1>2, <1>3 DEF SaturatingMul
<1>5. Mul(x, y) = IF y # 0 /\ x > q THEN Overflow ELSE p
  <2>1. ~(x < 0)
    OBVIOUS
  <2> QED
    BY <1>2, <1>3, <2>1 DEF Mul
<1> QED
  BY <1>1, <1>3, <1>4, <1>5

\* The floor is at most the quote; it gives up the tolerance and a unit at most,
\* or is what the largest product makes it.
LEMMA SlippageFloor ==
    ASSUME NEW out \in Nat, out > 0, NEW bps \in Nat, bps <= Bps,
           NEW floor, floor = ApplySlippage(out, bps)
    PROVE  /\ floor <= out
           /\ IF Mul(out, Bps - bps) = Overflow THEN floor = MaxU \div Bps
              ELSE out - floor <= (out * bps) \div Bps + 1
<1>0. MaxU \in Nat /\ 10000 <= MaxU
  BY MathAssumption, QuotesAssumption DEF Bps
<1>1. PICK z \in Nat : z = Bps - bps /\ z <= 10000 /\ z + bps = 10000
  BY DEF Bps
<1>2. Wrapped(z) = z
  BY <1>0, <1>1, Remainder
<1>3. PICK p \in Nat : p = SaturatingMul(out, z) /\ p <= out * z
  BY Saturated
<1>4. floor = p \div 10000
  BY <1>1, <1>2, <1>3 DEF ApplySlippage, Bps
<1>5. floor \in Nat /\ floor * 10000 <= p /\ p < floor * 10000 + 10000
  BY <1>4
<1>6. out * z <= out * 10000
  BY <1>1, Products
<1>7. out * z \in Nat
  OBVIOUS
<1>8. floor <= out
  BY <1>3, <1>5, <1>6, <1>7
<1>9. CASE Mul(out, Bps - bps) = Overflow
  <2>1. p = MaxU
    BY <1>1, <1>3, <1>9, SaturatesOnOverflow
  <2> QED
    BY <1>4, <1>8, <1>9, <2>1 DEF Bps
<1>10. CASE Mul(out, Bps - bps) # Overflow
  <2>1. p = out * z
    BY <1>1, <1>3, <1>10, SaturatesOnOverflow
  <2>2. PICK u \in Nat : u = out * bps
    OBVIOUS
  <2>3. out * z + out * bps = out * 10000
    <3>1. out * z + out * bps = out * (z + bps)
      OBVIOUS
    <3> QED
      BY <1>1, <3>1
  <2>4. p + u = out * 10000
    BY <2>1, <2>2, <2>3
  <2>5. out - floor <= u \div 10000 + 1
    BY <1>5, <2>4
  <2> QED
    BY <1>8, <1>10, <2>2, <2>5 DEF Bps
<1> QED
  BY <1>9, <1>10

\* In every state of the pool, the floor that goes with a quote can be met, and
\* it keeps the tolerance where the product fits (api/pool.rs:400-402).
THEOREM FloorsReachable == Spec => []FloorReachable
<1>1. TradeInv => FloorReachable
  <2> SUFFICES ASSUME TradeInv, NEW a \in PoolAssets, NEW x \in Amounts, NEW bps \in Slippages,
                      GetQuote(x, a) > 0, bps <= Bps
               PROVE  /\ ApplySlippage(GetQuote(x, a), bps) <= GetQuote(x, a)
                      /\ IF Mul(GetQuote(x, a), Bps - bps) = Overflow
                         THEN ApplySlippage(GetQuote(x, a), bps) = MaxU \div Bps
                         ELSE GetQuote(x, a) - ApplySlippage(GetQuote(x, a), bps)
                                  <= (GetQuote(x, a) * bps) \div Bps + 1
    BY DEF FloorReachable
  <2>1. PICK out : out = GetQuote(x, a)
    OBVIOUS
  <2>2. out \in Int
    BY <2>1, ReserveNat, AmountsNat, QuotedOut DEF GetQuote
  <2>3. out \in Nat /\ out > 0 /\ bps \in Nat
    BY <2>1, <2>2, QuotesAssumption
  <2> QED
    BY <2>1, <2>3, SlippageFloor
<1> QED
  BY <1>1, TradeInvariance, PTL

LEMMA DivisionMonotone ==
    ASSUME NEW x \in Nat, NEW y \in Positive, NEW z \in Positive, y <= z
    PROVE  x \div z <= x \div y
<1>1. PICK p \in Nat : p = x \div z /\ p * z <= x
  BY Division
<1>2. PICK q \in Nat : q = x \div y /\ x < (q + 1) * y
  BY Division
<1>3. p * y <= p * z
  BY Products DEF Positive
<1>4. p * y < (q + 1) * y
  BY <1>1, <1>2, <1>3 DEF Positive
<1>5. p < q + 1
  BY <1>4, CancelStrict DEF Positive
<1> QED
  BY <1>1, <1>2, <1>5

\* When a is the side of the deposit (a, b) that binds, all of it is used, and what
\* is used of b mints as much as a does, up to the rounding of one unit of b.
LEMMA BindingSide ==
    ASSUME NEW a \in Nat, NEW b \in Nat, NEW ra \in Positive, NEW rb \in Positive,
           NEW s \in Positive, a * rb <= b * ra, b * ra <= MaxU,
           NEW ua, ua = AmountUsed(a, b, ra, rb), NEW ub, ub = AmountUsed(b, a, rb, ra)
    PROVE  /\ ua = a /\ ub \in Nat /\ ub <= b
           /\ (a * s) \div ra <= (b * s) \div rb
           /\ (ub * s) \div rb \in Nat
           /\ (a * s) \div ra <= (ub * s) \div rb + s \div rb + 1
<1>0. ra \in Nat /\ rb \in Nat /\ s \in Nat /\ ra > 0 /\ rb > 0 /\ s > 0 /\ MaxU \in Nat
  BY MathAssumption DEF Positive
<1>1. PICK x \in Nat : x = a * rb
  BY <1>0
<1>2. PICK y \in Nat : y = b * ra
  BY <1>0
<1>3. x <= y /\ y <= MaxU /\ x <= MaxU
  BY <1>0, <1>1, <1>2
<1>4. ua = a
  <2>1. PICK o \in Nat : o = y \div rb /\ y < (o + 1) * rb
    BY Division
  <2>2. ua = IF o < a THEN o ELSE a
    BY <1>0, <1>2, <1>3, <2>1, Remainder DEF AmountUsed
  <2>3. a * rb < (o + 1) * rb
    BY <1>0, <1>1, <1>3, <2>1
  <2>4. a < o + 1
    BY <1>0, <2>3, CancelStrict
  <2> QED
    BY <2>1, <2>2, <2>4
<1>5. PICK v \in Nat : v = x \div ra /\ v * ra <= x /\ x < (v + 1) * ra
  BY Division
<1>6. ub = v /\ v <= b
  <2>1. ub = IF v < b THEN v ELSE b
    BY <1>0, <1>1, <1>3, <1>5, Remainder DEF AmountUsed
  <2>2. v * ra <= b * ra
    BY <1>0, <1>2, <1>3, <1>5
  <2>3. v <= b
    BY <2>2, Cancel
  <2> QED
    BY <2>1, <2>3
<1>7. PICK as \in Nat : as = a * s
  BY <1>0
<1>8. PICK q \in Nat : q = as \div ra /\ q * ra <= as
  BY <1>7, Division
<1>9. (q * rb) * ra <= x * s
  <2>1. (q * ra) * rb <= as * rb
    BY <1>0, <1>7, <1>8, Products
  <2>2. as * rb = x * s
    BY <1>0, <1>1, <1>7
  <2>3. (q * ra) * rb = (q * rb) * ra
    BY <1>0
  <2> QED
    BY <2>1, <2>2, <2>3
<1>10. q <= (b * s) \div rb
  <2>1. PICK bs \in Nat : bs = b * s
    BY <1>0
  <2>2. PICK p \in Nat : p = bs \div rb /\ bs < (p + 1) * rb
    BY <2>1, Division
  <2>3. x * s <= y * s
    BY <1>0, <1>3, Products
  <2>4. y * s = bs * ra
    BY <1>0, <1>2, <2>1
  <2>5. x * s \in Nat /\ y * s \in Nat /\ q * rb \in Nat /\ bs * ra \in Nat
    BY <1>0, <1>8, <2>1, NatTimes
  <2>6. (q * rb) * ra <= bs * ra
    BY <1>0, <1>9, <2>3, <2>4, <2>5
  <2>7. q * rb <= bs
    BY <2>1, <2>5, <2>6, Cancel
  <2>8. q * rb < (p + 1) * rb
    BY <1>0, <2>2, <2>5, <2>7
  <2>9. q < p + 1
    BY <1>0, <2>8, CancelStrict
  <2> QED
    BY <2>1, <2>2, <2>9
<1>11. PICK vs \in Nat : vs = v * s
  BY <1>0
<1>12. PICK m \in Nat : m = vs \div rb /\ vs < (m + 1) * rb
  BY <1>11, Division
<1>13. PICK t \in Nat : t = s \div rb /\ s < (t + 1) * rb
  BY <1>0, Division
<1>14. q * rb < vs + s
  <2>1. x * s < ((v + 1) * ra) * s
    <3>1. PICK k \in Nat : k = (v + 1) * ra
      BY <1>0
    <3>2. x * s < k * s
      BY <1>0, <1>5, <3>1
    <3> QED
      BY <3>1, <3>2
  <2>2. ((v + 1) * ra) * s = (vs + s) * ra
    <3>1. ((v + 1) * ra) * s = ((v + 1) * s) * ra
      BY <1>0
    <3>2. (v + 1) * s = vs + s
      BY <1>0, <1>11
    <3> QED
      BY <3>1, <3>2
  <2>3. x * s \in Nat /\ q * rb \in Nat /\ (q * rb) * ra \in Nat /\ (vs + s) * ra \in Nat
    BY <1>0, NatTimes
  <2>4. (q * rb) * ra < (vs + s) * ra
    BY <1>9, <2>1, <2>2, <2>3
  <2>5. PICK k \in Nat : k = q * rb
    BY <2>3
  <2>6. PICK l \in Nat : l = vs + s
    BY <1>0, <1>11
  <2>7. k * ra < l * ra
    BY <2>4, <2>5, <2>6
  <2>8. k < l
    BY <1>0, <2>7, CancelStrict
  <2> QED
    BY <2>5, <2>6, <2>8
<1>15. q < m + t + 2
  <2>1. (m + 1) * rb + (t + 1) * rb = (m + t + 2) * rb
    BY <1>0
  <2>2. q * rb \in Nat /\ (m + 1) * rb \in Nat /\ (t + 1) * rb \in Nat
    BY <1>0, NatTimes
  <2>3. q * rb < (m + t + 2) * rb
    BY <1>0, <1>12, <1>13, <1>14, <2>1, <2>2
  <2>4. PICK l \in Nat : l = m + t + 2
    OBVIOUS
  <2>5. q * rb < l * rb
    BY <2>3, <2>4
  <2> QED
    <3>1. q < l
      BY <1>0, <2>5, CancelStrict
    <3> QED
      BY <2>4, <3>1
<1> QED
  BY <1>4, <1>6, <1>7, <1>8, <1>10, <1>11, <1>12, <1>13, <1>15

\* The tokens that two sides that fit mint.
LEMMA Minted ==
    ASSUME NEW a \in Nat, NEW b \in Nat, NEW ra \in Positive, NEW rb \in Positive,
           NEW s \in Positive, a * s <= MaxU, b * s <= MaxU
    PROVE  LpTokensToMint(a, b, ra, rb, s)
              = IF (a * s) \div ra < (b * s) \div rb THEN (a * s) \div ra ELSE (b * s) \div rb
<1>0. s \in Nat /\ s # 0
  BY DEF Positive
<1>1. PICK p \in Nat : p = Quotient(Mul(a, s), ra) /\ p = (a * s) \div ra
  BY <1>0, MintedPart
<1>2. PICK q \in Nat : q = Quotient(Mul(b, s), rb) /\ q = (b * s) \div rb
  BY <1>0, MintedPart
<1>3. LpTokensToMint(a, b, ra, rb, s) = Smaller(p, q)
  BY <1>0, <1>1, <1>2 DEF LpTokensToMint
<1>4. Smaller(p, q) = IF p < q THEN p ELSE q
  BY DEF Smaller
<1> QED
  BY <1>1, <1>2, <1>3, <1>4

LEMMA Fits ==
    ASSUME NEW a \in Nat, NEW b \in Nat, NEW ra \in Positive, NEW rb \in Positive,
           NEW s \in Positive, LpTokensToMint(a, b, ra, rb, s) >= 0
    PROVE  a * s <= MaxU /\ b * s <= MaxU
<1>0. s \in Nat /\ s # 0
  BY DEF Positive
<1>1. PICK p : p = Quotient(Mul(a, s), ra)
  OBVIOUS
<1>2. PICK q : q = Quotient(Mul(b, s), rb)
  OBVIOUS
<1>3. p \in Int /\ q \in Int
  BY <1>0, <1>1, <1>2, MintedPart
<1>4. Smaller(p, q) >= 0
  BY <1>0, <1>1, <1>2 DEF LpTokensToMint
<1>5. p >= 0 /\ q >= 0
  BY <1>3, <1>4, SmallerPart
<1> QED
  BY <1>0, <1>1, <1>2, <1>5, MintedPart

\* In every state of the pool with shares, a simulated deposit whose products fit
\* is one that can be made (api/pool.rs:195-212).
THEOREM DepositsMint == Spec => []UsedAmountsMint
<1>1. TradeInv => UsedAmountsMint
  <2> SUFFICES ASSUME TradeInv, NEW a0 \in Amounts, NEW a1 \in Amounts,
                      supply > 0, LpTokensToMint(a0, a1, reserve0, reserve1, supply) >= 0,
                      a0 * reserve1 <= MaxU, a1 * reserve0 <= MaxU,
                      NEW u0, u0 = AmountUsed(a0, a1, reserve0, reserve1),
                      NEW u1, u1 = AmountUsed(a1, a0, reserve1, reserve0)
               PROVE  /\ u0 <= a0 /\ u1 <= a1
                      /\ LpTokensToMint(u0, u1, reserve0, reserve1, supply)
                            <= LpTokensToMint(a0, a1, reserve0, reserve1, supply)
                      /\ LpTokensToMint(a0, a1, reserve0, reserve1, supply)
                            - LpTokensToMint(u0, u1, reserve0, reserve1, supply)
                            <= supply \div Smaller(reserve0, reserve1) + 1
    BY DEF UsedAmountsMint
  <2>0. /\ a0 \in Nat /\ a1 \in Nat /\ supply \in Positive /\ supply \in Nat
        /\ reserve0 \in Positive /\ reserve1 \in Positive /\ MaxU \in Nat
    BY AmountsNat, MathAssumption DEF TradeInv, Positive
  <2>1. a0 * supply <= MaxU /\ a1 * supply <= MaxU
    BY <2>0, Fits
  <2>2. PICK promised : promised = LpTokensToMint(a0, a1, reserve0, reserve1, supply)
    OBVIOUS
  <2>3. PICK minted : minted = LpTokensToMint(u0, u1, reserve0, reserve1, supply)
    OBVIOUS
  <2>4. PICK q0 \in Nat : q0 = (a0 * supply) \div reserve0
    BY <2>0, NatTimes, Division
  <2>5. PICK q1 \in Nat : q1 = (a1 * supply) \div reserve1
    BY <2>0, NatTimes, Division
  <2>6. promised = IF q0 < q1 THEN q0 ELSE q1
    BY <2>0, <2>1, <2>2, <2>4, <2>5, Minted
  <2>7. PICK unit \in Nat : /\ unit = supply \div Smaller(reserve0, reserve1)
                            /\ supply \div reserve0 <= unit /\ supply \div reserve1 <= unit
    <3>1. PICK r : r = Smaller(reserve0, reserve1)
      OBVIOUS
    <3>2. r \in Positive /\ r <= reserve0 /\ r <= reserve1
      BY <2>0, <3>1 DEF Smaller, Positive
    <3> QED
      BY <2>0, <3>1, <3>2, Division, DivisionMonotone
  <2>8. PICK t0 \in Nat, t1 \in Nat : /\ t0 = supply \div reserve0 /\ t0 <= unit
                                      /\ t1 = supply \div reserve1 /\ t1 <= unit
    BY <2>0, <2>7, Division
  <2>9. CASE a0 * reserve1 <= a1 * reserve0
    <3>1. /\ u0 = a0 /\ u1 \in Nat /\ u1 <= a1 /\ q0 <= q1
          /\ (u1 * supply) \div reserve1 \in Nat
          /\ q0 <= (u1 * supply) \div reserve1 + t1 + 1
      <4>1. /\ u0 = a0 /\ u1 \in Nat /\ u1 <= a1
            /\ (a0 * supply) \div reserve0 <= (a1 * supply) \div reserve1
            /\ (u1 * supply) \div reserve1 \in Nat
            /\ (a0 * supply) \div reserve0
                  <= (u1 * supply) \div reserve1 + supply \div reserve1 + 1
        BY <2>0, <2>9, BindingSide
      <4> QED
        BY <2>4, <2>5, <2>8, <4>1, Zenon
    <3>2. u1 * supply <= a1 * supply /\ u1 * supply \in Nat /\ a1 * supply \in Nat
      BY <2>0, <3>1, Products
    <3>3. u1 * supply <= MaxU
      BY <2>0, <2>1, <3>2
    <3>4. PICK m \in Nat : m = (u1 * supply) \div reserve1
      BY <3>1
    <3>5. minted = IF q0 < m THEN q0 ELSE m
      <4>1. minted = LpTokensToMint(a0, u1, reserve0, reserve1, supply)
        BY <2>3, <3>1
      <4>2. u1 \in Nat
        BY <3>1
      <4>3. LpTokensToMint(a0, u1, reserve0, reserve1, supply)
               = IF (a0 * supply) \div reserve0 < (u1 * supply) \div reserve1
                 THEN (a0 * supply) \div reserve0 ELSE (u1 * supply) \div reserve1
        BY <2>0, <2>1, <3>3, <4>2, Minted, SMTT(40)
      <4> QED
        BY <2>4, <3>4, <4>1, <4>3, Zenon
    <3>6. q0 <= m + t1 + 1
      BY <3>1, <3>4
    <3>7. minted <= promised /\ promised - minted <= unit + 1
      BY <2>6, <2>8, <3>1, <3>5, <3>6
    <3> QED
      BY <2>0, <2>2, <2>3, <2>7, <3>1, <3>7
  <2>10. CASE a1 * reserve0 <= a0 * reserve1
    <3>1. /\ u1 = a1 /\ u0 \in Nat /\ u0 <= a0 /\ q1 <= q0
          /\ (u0 * supply) \div reserve0 \in Nat
          /\ q1 <= (u0 * supply) \div reserve0 + t0 + 1
      <4>1. /\ u1 = a1 /\ u0 \in Nat /\ u0 <= a0
            /\ (a1 * supply) \div reserve1 <= (a0 * supply) \div reserve0
            /\ (u0 * supply) \div reserve0 \in Nat
            /\ (a1 * supply) \div reserve1
                  <= (u0 * supply) \div reserve0 + supply \div reserve0 + 1
        BY <2>0, <2>10, BindingSide
      <4> QED
        BY <2>4, <2>5, <2>8, <4>1, Zenon
    <3>2. u0 * supply <= a0 * supply /\ u0 * supply \in Nat /\ a0 * supply \in Nat
      BY <2>0, <3>1, Products
    <3>3. u0 * supply <= MaxU
      BY <2>0, <2>1, <3>2
    <3>4. PICK m \in Nat : m = (u0 * supply) \div reserve0
      BY <3>1
    <3>5. minted = IF m < q1 THEN m ELSE q1
      <4>1. minted = LpTokensToMint(u0, a1, reserve0, reserve1, supply)
        BY <2>3, <3>1
      <4>2. u0 \in Nat
        BY <3>1
      <4>3. LpTokensToMint(u0, a1, reserve0, reserve1, supply)
               = IF (u0 * supply) \div reserve0 < (a1 * supply) \div reserve1
                 THEN (u0 * supply) \div reserve0 ELSE (a1 * supply) \div reserve1
        BY <2>0, <2>1, <3>3, <4>2, Minted, SMTT(40)
      <4> QED
        BY <2>5, <3>4, <4>1, <4>3, Zenon
    <3>6. q1 <= m + t0 + 1
      BY <3>1, <3>4
    <3>7. minted <= promised /\ promised - minted <= unit + 1
      BY <2>6, <2>8, <3>1, <3>5, <3>6
    <3> QED
      BY <2>0, <2>2, <2>3, <2>7, <3>1, <3>7
  <2>11. a0 * reserve1 \in Nat /\ a1 * reserve0 \in Nat
    BY <2>0, NatTimes DEF Positive
  <2> QED
    BY <2>9, <2>10, <2>11
<1> QED
  BY <1>1, TradeInvariance, PTL
=============================================================================
