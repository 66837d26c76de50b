------------------------------- MODULE Bigint -------------------------------
(* Big integers: the arithmetic of bigint.c and what foam_i.c makes of it.  *)
(*                                                                          *)
(* A number is immediate, kept in the pointer, or stored with a sign and    *)
(* places in base Radix, the lowest first.  A machine word (IInt, ULong)    *)
(* has two places.  A client computes one job: an operation and integers,   *)
(* of which it makes numbers.                                               *)
EXTENDS Integers, Sequences, FiniteSets, SequencesExt

CONSTANTS
    LgRadix,    \* bits of a place (BINT_LG_RADIX)
    Base,       \* the base numbers are read and written in
    Jobs        \* what the client computes: records of operations and integers x, y, z

ASSUME BigConstants ==
    /\ LgRadix \in Nat /\ LgRadix >= 2
    /\ Base \in Nat /\ Base >= 2 /\ Base * Base < 2 ^ LgRadix
    /\ \A n \in 1 .. LgRadix : Base ^ n # 2 ^ LgRadix

VARIABLES
    job,       \* what the client computes
    loop,      \* where a loop of foam_i.c is
    answer     \* what was returned, <<>> before

bigVars == <<job, loop, answer>>

Radix == 2 ^ LgRadix
LgImmed == 2 * LgRadix - 2
MaxImmed == 2 ^ LgImmed - 1
MaxHalf == 2 ^ (LgImmed \div 2) - 1

Magnitude(n) == IF n < 0 THEN -n ELSE n
IsImmedInt(n) == Magnitude(n) <= MaxImmed
IsHalf(n) == Magnitude(n) <= MaxHalf

RECURSIVE uintLength(_)
uintLength(u) == IF u < 2 THEN 1 ELSE 1 + uintLength(u \div 2)

At(v, i) == IF i \in DOMAIN v THEN v[i] ELSE 0

RECURSIVE Trim(_)
Trim(v) == IF v = <<>> \/ Last(v) # 0 THEN v ELSE Trim(Front(v))

RECURSIVE PlacesOf(_)
PlacesOf(u) == IF u = 0 THEN <<>> ELSE <<u % Radix>> \o PlacesOf(u \div Radix)

RECURSIVE ValueOf(_)
ValueOf(v) == IF v = <<>> THEN 0 ELSE Head(v) + Radix * ValueOf(Tail(v))

\* The places of a result that has the totals t, lowest first, each with the
\* carry before it, and the last carry.
RECURSIVE Carried(_, _)
Carried(t, k) ==
    LET u == Head(t) + k
        rest == Carried(Tail(t), u \div Radix)
    IN  IF t = <<>> THEN [k |-> k, places |-> <<>>]
        ELSE [rest EXCEPT !.places = <<u % Radix>> \o @]
WithCarry(s) == IF s.k = 0 THEN s.places ELSE Append(s.places, s.k)

-----------------------------------------------------------------------------
(* Places without sign: what the iint operations compute.                  *)

\* a has as many places as b or more.
iintPlus(a, b) == WithCarry(Carried([i \in DOMAIN a |-> a[i] + At(b, i)], 0))

\* a >= b; a carry of 1 is no borrow.
iintMinus(a, b) ==
    Trim(Carried([i \in DOMAIN a |-> a[i] + (Radix - 1 - At(b, i))], 1).places)

\* Row by row, of the shorter number, into the sum r of the rows before.
RECURSIVE Rows(_, _, _)
Rows(a, b, r) ==
    LET s == Carried([i \in DOMAIN a |-> a[i] * Head(b) + r[i]], 0)
        sum == Append(s.places, s.k)
    IN  IF b = <<>> THEN r ELSE <<Head(sum)>> \o Rows(a, Tail(b), Tail(sum))
iintTimes(x, y) ==
    LET a == IF Len(x) < Len(y) THEN y ELSE x
        b == IF Len(x) < Len(y) THEN x ELSE y
    IN  Trim(Rows(a, b, [i \in DOMAIN a |-> 0]))

\* a * b + c for a place b # 0 and a place c.
iintTimesPlusS(a, b, c) == WithCarry(Carried([i \in DOMAIN a |-> a[i] * b], c))
iintTimesS(a, b) == iintTimesPlusS(a, b, 0)

\* From the highest place; at most one leading zero is taken off.
RECURSIVE DividePlaces(_, _, _)
DividePlaces(a, b, r) ==
    LET n == r * Radix + Last(a)
        rest == DividePlaces(Front(a), b, n % b)
    IN  IF a = <<>> THEN [q |-> <<>>, r |-> r] ELSE [rest EXCEPT !.q = Append(@, n \div b)]
WithoutZero(s) == IF Last(s.q) = 0 THEN [s EXCEPT !.q = Front(@)] ELSE s
iintDivideS(a, b) == WithoutZero(DividePlaces(a, b, 0))

Shorter(a, b) ==
    \/ Len(a) < Len(b)
    \/ /\ Len(a) = Len(b)
       /\ \E i \in DOMAIN a : a[i] < b[i] /\ \A j \in i + 1 .. Len(a) : a[j] = b[j]

-----------------------------------------------------------------------------
(* Division of places, Knuth's algorithm D.  v has n >= 2 places and its    *)
(* highest is at least Radix / 2; u has a place more than the numerator.    *)

\* D3: the digit guessed from the highest places, made smaller at most twice.
Guess(uj0, uj1, uj2, v1, v2) ==
    LET first == IF uj0 = v1 THEN [q |-> Radix - 1, r |-> uj1 + v1]
                 ELSE [q |-> (uj0 * Radix + uj1) \div v1, r |-> (uj0 * Radix + uj1) % v1]
        Adjust(g) ==
            IF g.r < Radix /\ v2 * g.q > g.r * Radix + uj2
            THEN [q |-> g.q - 1, r |-> g.r + v1] ELSE g
    IN  Adjust(Adjust(first)).q

\* D4: part - qhat * v; what is borrowed from the place above is a carry below 0.
MultiplySubtract(part, qhat, v) ==
    Carried([i \in DOMAIN part |-> part[i] - qhat * At(v, i)], 0)

\* Mutant of AddBack: the remainder of a digit that was too large stays.
KeepRemainder(part, v) == part

\* D6: part + v, without the carry.
AddBack(part, v) == Carried([i \in DOMAIN part |-> part[i] + At(v, i)], 0).places

\* D3 to D6 for a part of u, which has a place more than v.
DivideStep(part, v) ==
    LET n == Len(v)
        qhat == Guess(part[n + 1], part[n], part[n - 1], v[n], v[n - 1])
        rest == MultiplySubtract(part, qhat, v)
    IN  IF rest.k = 0 THEN [q |-> qhat, r |-> rest.places]
        ELSE [q |-> qhat - 1, r |-> AddBack(rest.places, v)]

\* D2 to D7: the parts of u above its lowest j places and less.
RECURSIVE DivideFrom(_, _, _)
DivideFrom(u, j, v) ==
    LET n == Len(v)
        s == DivideStep(SubSeq(u, j + 1, j + n + 1), v)
        rest == DivideFrom(SubSeq(u, 1, j) \o Front(s.r), j - 1, v)
    IN  IF j < 0 THEN [q |-> <<>>, r |-> u] ELSE [rest EXCEPT !.q = Append(@, s.q)]

KnuthScaled(scaled, n, m, v, d) ==
    LET u == IF Len(scaled) = n + m THEN Append(scaled, 0) ELSE scaled
        s == DivideFrom(u, m, v)
    IN  [q |-> Trim(s.q), r |-> Trim(iintDivideS(s.r, d).q)]

KnuthDivide(u, v) ==
    LET n == Len(v)
        d == IF 2 * v[n] >= Radix THEN 1 ELSE Radix \div (v[n] + 1)
    IN  KnuthScaled(iintTimesS(u, d), n, Len(u) - n, iintTimesS(v, d), d)

WithPlaces(s) == [s EXCEPT !.r = <<@>>]
iintDivide(u, v) ==
    IF Len(v) = 1 THEN WithPlaces(iintDivideS(u, v[1]))
    ELSE IF Shorter(u, v) THEN [q |-> <<>>, r |-> u]
    ELSE KnuthDivide(u, v)

-----------------------------------------------------------------------------
(* Numbers.                                                                 *)

Immed(n) == [immed |-> TRUE, int |-> n]
Stored(neg, v) == [immed |-> FALSE, isNeg |-> neg, placev |-> v]

\* Looks at the places only as far as the number may fit.
xintImmedIfCan(neg, v) ==
    IF Len(v) > 2 \/ ValueOf(v) > MaxImmed THEN Stored(neg, v)
    ELSE Immed(IF neg THEN -ValueOf(v) ELSE ValueOf(v))

\* Zero is stored with one place.
xintStoreI(n) == Stored(n < 0, IF n = 0 THEN <<0>> ELSE PlacesOf(Magnitude(n)))
xintStore(b) == IF b.immed THEN xintStoreI(b.int) ELSE b

bintNew(n) == IF IsImmedInt(n) THEN Immed(n) ELSE xintStoreI(n)
bintFrPlacev(neg, data) == xintImmedIfCan(neg, Trim(data))

bintIsNeg(b) == IF b.immed THEN b.int < 0 ELSE b.isNeg
bintNegate(b) == IF b.immed THEN Immed(-b.int) ELSE [b EXCEPT !.isNeg = ~@]
NegateIf(c, b) == IF c THEN bintNegate(b) ELSE b
bint0 == Immed(0)
bint1 == Immed(1)

bintEQ(a, b) ==
    /\ a.immed = b.immed
    /\ IF a.immed THEN a.int = b.int ELSE a.isNeg = b.isNeg /\ a.placev = b.placev

bintLT(a, b) ==
    IF a.immed /\ b.immed THEN a.int < b.int
    ELSE IF a.immed THEN ~b.isNeg
    ELSE IF b.immed THEN a.isNeg
    ELSE IF a.isNeg # b.isNeg THEN a.isNeg
    ELSE IF a.isNeg THEN Shorter(b.placev, a.placev)
    ELSE Shorter(a.placev, b.placev)

bintGT(a, b) ==
    IF a.immed /\ b.immed THEN a.int > b.int
    ELSE IF a.immed THEN b.isNeg
    ELSE IF b.immed THEN ~a.isNeg
    ELSE IF a.isNeg # b.isNeg THEN b.isNeg
    ELSE IF a.isNeg THEN Shorter(a.placev, b.placev)
    ELSE Shorter(b.placev, a.placev)

PlacesLength(v) == LgRadix * (Len(v) - 1) + uintLength(Last(v))
bintLength(b) == IF b.immed THEN uintLength(Magnitude(b.int)) ELSE PlacesLength(b.placev)

bintBit(b, ix) ==
    LET word == IF b.immed THEN Magnitude(b.int) ELSE At(b.placev, ix \div LgRadix + 1)
        bit == IF b.immed THEN ix ELSE ix % LgRadix
    IN  (word \div 2 ^ bit) % 2 = 1

-----------------------------------------------------------------------------
(* Arithmetic.                                                             *)

\* The last cases of bintPlus and bintMinus: stored numbers, no sign.
PlusPlaces(a, b) ==
    xintImmedIfCan(FALSE,
        IF PlacesLength(a) < PlacesLength(b) THEN iintPlus(b, a) ELSE iintPlus(a, b))
MinusPlaces(a, b) ==
    LET rNeg == Shorter(a, b)
    IN  xintImmedIfCan(rNeg, IF rNeg THEN iintMinus(b, a) ELSE iintMinus(a, b))

\* PlusStep takes its operands as unsigned, so a sum below zero has a carry
\* and is made again from stored numbers.
bintPlus(a, b) ==
    LET s == xintStore(a)
        t == xintStore(b)
    IN  IF a.immed /\ b.immed /\ a.int + b.int \in 0 .. Radix - 1 THEN Immed(a.int + b.int)
        ELSE IF s.isNeg /\ t.isNeg THEN bintNegate(PlusPlaces(s.placev, t.placev))
        ELSE IF s.isNeg THEN MinusPlaces(t.placev, s.placev)
        ELSE IF t.isNeg THEN MinusPlaces(s.placev, t.placev)
        ELSE PlusPlaces(s.placev, t.placev)

bintMinus(a, b) ==
    LET s == xintStore(a)
        t == xintStore(b)
    IN  IF a.immed /\ b.immed /\ IsImmedInt(a.int - b.int) THEN Immed(a.int - b.int)
        ELSE IF s.isNeg /\ t.isNeg THEN MinusPlaces(t.placev, s.placev)
        ELSE IF s.isNeg THEN bintNegate(PlusPlaces(s.placev, t.placev))
        ELSE IF t.isNeg THEN PlusPlaces(s.placev, t.placev)
        ELSE MinusPlaces(s.placev, t.placev)

Unit(b) == b.immed /\ b.int \in {-1, 0, 1}
TimesUnit(n, b) == CASE n = 0 -> bint0 [] n = 1 -> b [] n = -1 -> bintNegate(b)
bintTimes(a, b) ==
    LET s == xintStore(a)
        t == xintStore(b)
    IN  IF a.immed /\ b.immed /\ IsHalf(a.int) /\ IsHalf(b.int) THEN bintNew(a.int * b.int)
        ELSE IF Unit(a) THEN TimesUnit(a.int, b)
        ELSE IF Unit(b) THEN TimesUnit(b.int, a)
        ELSE NegateIf(s.isNeg # t.isNeg,
                      xintImmedIfCan(FALSE, iintTimes(s.placev, t.placev)))

\* The quotient toward zero and the remainder, which has the sign of a.
WithSigns(qr, aNeg, bNeg) ==
    [q |-> NegateIf(aNeg # bNeg, xintImmedIfCan(FALSE, qr.q)),
     r |-> NegateIf(aNeg, xintImmedIfCan(FALSE, qr.r))]
bintDivide(a, b) ==
    WithSigns(iintDivide(xintStore(a).placev, xintStore(b).placev), bintIsNeg(a), bintIsNeg(b))

\* By Horner's rule, for a divisor b of one word.
bintModi(a, b) == bintNew(IF a.immed THEN a.int % b ELSE DividePlaces(a.placev, b, 0).r)
bintMod(a, b) ==
    LET s == NegateIf(bintIsNeg(a), a)
        t == NegateIf(bintIsNeg(b), b)
    IN  NegateIf(bintIsNeg(a),
            IF t.immed THEN bintModi(s, t.int)
            ELSE IF bintLength(t) < 2 * LgRadix THEN bintModi(s, ValueOf(t.placev))
            ELSE bintDivide(s, t).r)

\* Place p is made of two places of b, k bits of the one and LgRadix - k of the
\* other.  Of a one-place number the code may read the word before the places,
\* the count 1, of which a shift by h > 0 leaves nothing.
iintShift(v, n) ==
    LET rbitc == PlacesLength(v) + n
        rc == (rbitc + LgRadix - 1) \div LgRadix
        up == rc * LgRadix - rbitc <= Len(v) * LgRadix - PlacesLength(v)
        q0 == rc - Len(v) + (IF up THEN 1 ELSE 0)
        h == q0 * LgRadix - n
        k == LgRadix - h
    IN  [p \in 1 .. rc |->
            (At(v, p - q0) \div 2 ^ h + At(v, p - q0 + 1) * 2 ^ k) % Radix]

bintShift(b, n) ==
    LET rbitc == bintLength(b) + n
        s == xintStore(b)
        u == IF n > 0 THEN Magnitude(b.int) * 2 ^ n ELSE Magnitude(b.int) \div 2 ^ (-n)
        r == iintShift(s.placev, n)
    IN  IF b = bint0 \/ rbitc <= 0 THEN bint0
        ELSE IF b.immed /\ rbitc <= LgImmed THEN Immed(IF b.int > 0 THEN u ELSE -u)
        ELSE IF rbitc <= LgImmed THEN xintImmedIfCan(s.isNeg, r)
        ELSE Stored(s.isNeg, r)

-----------------------------------------------------------------------------
(* Reading and writing, in chunks of as many digits as a place holds.      *)

\* The largest power of the base that is at most limit.
RECURSIVE Power(_)
Power(limit) == IF limit < Base ^ 2 THEN 1 ELSE 1 + Power(limit \div Base)
ChunkLen == Power(Radix)
RECURSIVE Chunk(_)
Chunk(ds) == IF ds = <<>> THEN 0 ELSE Base * Chunk(Front(ds)) + Last(ds)

\* Horner's rule from a first chunk that makes the others full.
RECURSIVE PlusChunks(_, _)
PlusChunks(v, ds) ==
    IF ds = <<>> THEN v
    ELSE PlusChunks(iintTimesPlusS(v, Base ^ ChunkLen, Chunk(SubSeq(ds, 1, ChunkLen))),
                    SubSeq(ds, ChunkLen + 1, Len(ds)))
FromChunks(neg, ds) ==
    LET l0 == Len(ds) % ChunkLen
    IN  xintImmedIfCan(neg, PlusChunks(xintStoreI(Chunk(SubSeq(ds, 1, l0))).placev,
                                       SubSeq(ds, l0 + 1, Len(ds))))

\* Leading zeros are skipped; few digits make an immediate number.
RECURSIVE bintScanFrString(_, _)
bintScanFrString(neg, ds) ==
    IF ds # <<>> /\ Head(ds) = 0 THEN bintScanFrString(neg, Tail(ds))
    ELSE IF Len(ds) <= Power(MaxImmed) THEN Immed(IF neg THEN -Chunk(ds) ELSE Chunk(ds))
    ELSE FromChunks(neg, ds)

\* Leading zeros count; whether a number is small goes by bits per digit.
bintRadixScanFrString(neg, ds) ==
    IF Len(ds) * uintLength(Base) <= LgImmed
    THEN Immed(IF neg THEN -Chunk(ds) ELSE Chunk(ds))
    ELSE FromChunks(neg, ds)

\* Chunks from the lowest, then the leading zeros off, but for one digit.
DigitsOf(u, n) == [i \in 1 .. n |-> (u \div Base ^ (n - i)) % Base]
RECURSIVE Emit(_), WithoutZeros(_)
Emit(v) ==
    LET qr == iintDivideS(v, Base ^ ChunkLen)
    IN  IF v = <<>> THEN <<>> ELSE Emit(qr.q) \o DigitsOf(qr.r, ChunkLen)
WithoutZeros(ds) == IF Len(ds) > 1 /\ Head(ds) = 0 THEN WithoutZeros(Tail(ds)) ELSE ds
bintIntoString(b) ==
    WithoutZeros(IF b.immed THEN DigitsOf(Magnitude(b.int), Power(MaxImmed) + 1)
                 ELSE Emit(b.placev))

-----------------------------------------------------------------------------
(* The client.                                                             *)

\* The number of an integer, as a caller that has its places makes it.
BInt(n) == bintFrPlacev(n < 0, Append(PlacesOf(Magnitude(n)), 0))
X == BInt(job.x)
Y == BInt(job.y)
Z == BInt(job.z)
RECURSIVE Digits(_)
Digits(n) == IF n = 0 THEN <<>> ELSE Append(Digits(n \div Base), n % Base)

NoJob == [op |-> "none", x |-> 0, y |-> 0, z |-> 0]
NoLoop == [i |-> 0, p |-> bint0, a |-> bint0]
BigInit == job = NoJob /\ loop = NoLoop /\ answer = <<>>

Choose ==
    /\ job = NoJob
    /\ \E j \in Jobs : job' \in [op : j.op, x : j.x, y : j.y, z : j.z]
    /\ UNCHANGED <<loop, answer>>

Asked(op) == answer = <<>> /\ job.op = op
Give(a) == answer' = a /\ UNCHANGED <<job, loop>>

Plus == Asked("plus") /\ Give(<<bintPlus(X, Y)>>)
Minus == Asked("minus") /\ Give(<<bintMinus(X, Y)>>)
Times == Asked("times") /\ Give(<<bintTimes(X, Y)>>)
Divide == Asked("divide") /\ LET d == bintDivide(X, Y) IN Give(<<d.q, d.r, bintMod(X, Y)>>)
Shift == Asked("shift") /\ Give(<<bintShift(X, job.y)>>)
Compare ==
    Asked("compare") /\ Give(<<bintEQ(X, Y), bintLT(X, Y), bintGT(X, Y), bintIsNeg(X)>>)
Scan ==
    /\ Asked("scan")
    /\ LET ds == [i \in 1 .. job.y |-> 0] \o Digits(Magnitude(job.x))
           neg == job.x < 0
       IN  Give(<<bintScanFrString(neg, ds), bintRadixScanFrString(neg, ds)>>)
Format == Asked("format") /\ Give(bintIntoString(X))

\* fiBIntGcd: one division at a time, of numbers without sign.
GcdCall ==
    /\ Asked("gcd") /\ loop.i = 0
    /\ loop' = [i |-> 1, p |-> NegateIf(bintLT(X, bint0), X), a |-> NegateIf(bintLT(Y, bint0), Y)]
    /\ UNCHANGED <<job, answer>>
GcdStep ==
    /\ Asked("gcd") /\ loop.i = 1
    /\ IF bintEQ(loop.a, bint0) THEN answer' = <<loop.p>> /\ UNCHANGED loop
       ELSE /\ loop' = [loop EXCEPT !.p = loop.a, !.a = bintDivide(loop.p, loop.a).r]
            /\ UNCHANGED answer
    /\ UNCHANGED job

\* fiBIntBIPower and fiBIntPowerMod (which reduces by Z): a bit of Y at a time,
\* with the squares of X.
Reduced(b) == IF job.op = "powermod" THEN bintMod(b, Z) ELSE b
PowerCall ==
    /\ Asked("power") \/ Asked("powermod")
    /\ loop = NoLoop
    /\ IF Y = bint0 THEN answer' = <<bint1>> /\ UNCHANGED loop
       ELSE IF Reduced(X) = bint0 /\ job.op = "powermod"
            THEN answer' = <<bint0>> /\ UNCHANGED loop
       ELSE loop' = [i |-> 0, p |-> bint1, a |-> Reduced(X)] /\ UNCHANGED answer
    /\ UNCHANGED job
PowerStep ==
    /\ Asked("power") \/ Asked("powermod")
    /\ loop # NoLoop
    /\ LET p == IF bintBit(Y, loop.i) THEN Reduced(bintTimes(loop.p, loop.a)) ELSE loop.p
       IN  IF loop.i >= bintLength(Y) THEN answer' = <<p>> /\ UNCHANGED loop
           ELSE /\ loop' = [i |-> loop.i + 1, p |-> p, a |-> Reduced(bintTimes(loop.a, loop.a))]
                /\ UNCHANGED answer
    /\ UNCHANGED job

BigNext ==
    \/ Choose \/ Plus \/ Minus \/ Times \/ Divide \/ Shift \/ Compare \/ Scan \/ Format
    \/ GcdCall \/ GcdStep \/ PowerCall \/ PowerStep
BigSpec == BigInit /\ [][BigNext]_bigVars

-----------------------------------------------------------------------------
(* Properties.                                                             *)

IntOf(b) ==
    IF b.immed THEN b.int ELSE IF b.isNeg THEN -ValueOf(b.placev) ELSE ValueOf(b.placev)
Canonical(b) ==
    IF b.immed THEN IsImmedInt(b.int)
    ELSE Last(b.placev) # 0 /\ ValueOf(b.placev) > MaxImmed
Is(b, n) == Canonical(b) /\ IntOf(b) = n

Toward0(n, d) ==
    LET q == Magnitude(n) \div Magnitude(d) IN IF (n < 0) # (d < 0) THEN -q ELSE q
PowerOf(n, e) == IF e = 0 THEN 1 ELSE n ^ e
Remainder(n, d) == n - d * Toward0(n, d)
Divides(d, n) == IF d = 0 THEN n = 0 ELSE n % Magnitude(d) = 0

\* A division.  Of a negative dividend two comments (bigint.c:1311 and 1319) give
\* another quotient, and a remainder of the other sign, than the code has: what is
\* said of these is what both keep to.
Divided(q, r) ==
    IF job.x >= 0 THEN Is(q, Toward0(job.x, job.y)) /\ Is(r, Remainder(job.x, job.y))
    ELSE /\ Canonical(q) /\ Canonical(r)
         /\ job.x = IntOf(q) * job.y + IntOf(r)
         /\ Magnitude(IntOf(r)) <= Magnitude(job.y)

\* Every operation returns the number arithmetic says, whichever way it takes:
\* small or stored operands, carries that go through all places, the digits
\* algorithm D has to correct, chunks that are short; and returns it in the one
\* form it has, immediate if it can be, without leading zeros, on which bintEQ
\* and bintLT rely.  bintMod, which has a way of its own for short divisors,
\* returns the remainder of bintDivide.
BintExact ==
    answer # <<>> =>
        CASE job.op = "plus"    -> Is(answer[1], job.x + job.y)
          [] job.op = "minus"   -> Is(answer[1], job.x - job.y)
          [] job.op = "times"   -> Is(answer[1], job.x * job.y)
          [] job.op = "divide"  -> /\ Divided(answer[1], answer[2])
                                   /\ Is(answer[3], IntOf(answer[2]))
          [] job.op = "shift"   -> Is(answer[1], IF job.y >= 0 THEN job.x * 2 ^ job.y
                                                 ELSE Toward0(job.x, 2 ^ (-job.y)))
          [] job.op = "compare" -> answer = <<job.x = job.y, job.x < job.y, job.x > job.y,
                                             job.x < 0>>
          [] job.op = "scan"    -> Is(answer[1], job.x) /\ Is(answer[2], job.x)
          [] job.op = "format"  -> /\ Chunk(answer) = Magnitude(job.x)
                                   /\ answer[1] = 0 => Len(answer) = 1
          [] job.op = "gcd"     ->
                /\ Divides(IntOf(answer[1]), job.x) /\ Divides(IntOf(answer[1]), job.y)
                /\ Canonical(answer[1]) /\ IntOf(answer[1]) >= 0
                /\ \A d \in 1 .. Magnitude(job.x) :
                        Divides(d, job.x) /\ Divides(d, job.y) => d <= IntOf(answer[1])
          [] job.op = "power"   -> Is(answer[1], PowerOf(job.x, job.y))
          [] job.op = "powermod" ->
                Is(answer[1], IF job.y = 0 THEN 1 ELSE Remainder(PowerOf(job.x, job.y), job.z))
=============================================================================
