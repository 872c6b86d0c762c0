------------------------------- MODULE SValue -------------------------------
(***************************************************************************)
(* The values of the SQL engine (csql/svalue.cc), their conversions, and   *)
(* the pure functions on them (csql/expressions: boolean, math, string,    *)
(* datetime).                                                              *)
(*                                                                         *)
(* A text is a sequence of characters.  A character is an integer, so that *)
(* the order of texts is the one of memcmp(): digits are themselves,       *)
(* letters are greater, the signs are smaller.  The six decimals that "%f" *)
(* prints are one character, and so are the words NULL, true and false and *)
(* what follows the year in a date.  A double is a fraction, with the      *)
(* denominator zero for the infinities and for NaN; its rounding is not    *)
(* modelled.  An exception is the value Raise.                             *)
(***************************************************************************)
EXTENDS Integers, Sequences, FiniteSets, SequencesExt, TLC

\* svalue.h: the types of an SValue
T_NULL == "NULL"
T_STRING == "String"
T_FLOAT == "Float"
T_INTEGER == "Integer"
T_BOOL == "Boolean"
T_TIMESTAMP == "Timestamp"

Null == [type |-> T_NULL, val |-> 0]
String(text) == [type |-> T_STRING, val |-> text]
Float(frac) == [type |-> T_FLOAT, val |-> frac]
Integer(n) == [type |-> T_INTEGER, val |-> n]
Bool(b) == [type |-> T_BOOL, val |-> b]
Timestamp(secs) == [type |-> T_TIMESTAMP, val |-> secs]
Raise == [type |-> "exception", val |-> 0]
Raised(v) == v.type = "exception"

\* the same sequence, with its elements evaluated
Eager(seq) == seq \o <<>>

-----------------------------------------------------------------------------
\* Doubles

Abs(n) == IF n < 0 THEN -n ELSE n
Sgn(n) == IF n < 0 THEN -1 ELSE IF n = 0 THEN 0 ELSE 1
RECURSIVE GCD(_, _)
GCD(m, n) == IF n = 0 THEN m ELSE GCD(n, m % n)

Reduced(n, d, g) == <<(Sgn(d) * n) \div g, Abs(d) \div g>>
Frac(n, d) ==
    CASE d = 0 -> <<Sgn(n), 0>>
      [] n = 0 -> <<0, 1>>
      [] OTHER -> Reduced(n, d, GCD(Abs(n), Abs(d)))
NaN == <<0, 0>>
FromInt(n) == <<n, 1>>

FracLess(x, y) ==
    /\ x # NaN /\ y # NaN
    /\ IF x[2] = 0 /\ y[2] = 0 THEN x[1] < y[1] ELSE x[1] * y[2] < y[1] * x[2]
FracEq(x, y) == x = y /\ x # NaN
FracAdd(x, y) ==
    CASE x[2] # 0 /\ y[2] # 0 -> Frac(x[1] * y[2] + y[1] * x[2], x[2] * y[2])
      [] x[2] = 0 /\ y[2] = 0 -> IF x = y THEN x ELSE NaN
      [] OTHER -> IF x[2] = 0 THEN x ELSE y
FracNeg(x) == <<-x[1], x[2]>>
FracMul(x, y) == Frac(x[1] * y[1], x[2] * y[2])
FracDiv(x, y) == Frac(x[1] * y[2], x[2] * y[1])
\* conversion of a double to an integer type, towards zero
Trunc(x) == Sgn(x[1]) * (Abs(x[1]) \div x[2])

-----------------------------------------------------------------------------
\* Texts

Comma == -4000000
Minus == -3000000
Dot == -2000000           \* Dot + n: "." and the six decimals n
WordNULL == 10
WordFalse == 20
WordTrue == 30
CapitalA == 50            \* ten letters of either case
LetterA == 60

IsDigit(c) == c \in 0 .. 9
IsDot(c) == c \in Dot .. Dot + 999999

NatText(n) == IF n < 10 THEN <<n>> ELSE <<n \div 10, n % 10>>
IntText(n) == IF n < 0 THEN <<Minus>> \o NatText(-n) ELSE NatText(n)
FracText(x) ==
    IF x[2] = 0 THEN <<40 + x[1]>>     \* nan, inf or -inf
    ELSE (IF x[1] < 0 THEN <<Minus>> ELSE <<>>)
         \o NatText(Abs(x[1]) \div x[2])
         \o <<Dot + (((Abs(x[1]) % x[2]) * 1000000) \div x[2])>>
DateText(secs) == <<1, 9, 7, 0, Minus, 100 + secs>>

ToText(v) ==
    CASE v.type = T_INTEGER -> IntText(v.val)
      [] v.type = T_TIMESTAMP -> DateText(v.val)
      [] v.type = T_FLOAT -> FracText(v.val)
      [] v.type = T_BOOL -> <<IF v.val THEN WordTrue ELSE WordFalse>>
      [] v.type = T_STRING -> v.val
      [] v.type = T_NULL -> <<WordNULL>>

\* std::string::compare()
TextLess(s, t) ==
    \/ IsStrictPrefix(s, t)
    \/ \E i \in DOMAIN s \cap DOMAIN t :
          /\ s[i] < t[i]
          /\ \A j \in 1 .. i - 1 : s[j] = t[j]

\* What std::stol and std::stod read at the beginning of a text.
Unsigned(s) == IF s # <<>> /\ s[1] = Minus THEN Tail(s) ELSE s
Sign(s) == IF s # <<>> /\ s[1] = Minus THEN -1 ELSE 1
LeadingDigits(s) ==
    SubSeq(s, 1, CHOOSE n \in 0 .. Len(s) :
                    /\ \A i \in 1 .. n : IsDigit(s[i])
                    /\ n = Len(s) \/ ~IsDigit(s[n + 1]))
DigitsValue(s) == FoldLeft(LAMBDA n, c : 10 * n + c, 0, s)

NumberFrom(sign, digits) == IF digits = <<>> THEN Raise ELSE Integer(sign * DigitsValue(digits))
stol(s) == NumberFrom(Sign(s), LeadingDigits(Unsigned(s)))
\* digits, and the "." with decimals that may follow them in the text
WithDecimals(sign, digits, text) ==
    LET next == Len(digits) + 1
        decimals == IF next <= Len(text) /\ IsDot(text[next]) THEN <<text[next] - Dot>> ELSE <<>>
        fraction == IF decimals = <<>> THEN 0 ELSE decimals[1]
    IN  IF digits = <<>> /\ decimals = <<>> THEN Raise
        ELSE Float(Frac(sign * (1000000 * DigitsValue(digits) + fraction), 1000000))
stod(s) == WithDecimals(Sign(s), LeadingDigits(Unsigned(s)), Unsigned(s))

-----------------------------------------------------------------------------
\* Conversions

GetInteger(v) ==
    CASE v.type \in {T_INTEGER, T_TIMESTAMP} -> Integer(v.val)
      [] v.type = T_STRING -> stol(v.val)
      [] OTHER -> Raise

GetFloat(v) ==
    CASE v.type = T_INTEGER -> Float(FromInt(v.val))
      [] v.type = T_FLOAT -> v
      [] v.type = T_STRING -> stod(v.val)
      [] OTHER -> Raise

GetBool(v) == IF v.type = T_BOOL THEN v ELSE Raise

ToBool(v) ==
    CASE v.type = T_INTEGER -> Bool(v.val > 0)
      [] v.type = T_FLOAT -> Bool(FracLess(FromInt(0), v.val))
      [] v.type = T_BOOL -> v
      [] v.type = T_STRING -> Bool(TRUE)
      [] v.type = T_NULL -> Bool(FALSE)
      [] OTHER -> Raise

GetTimestamp(v) ==
    CASE v.type = T_TIMESTAMP -> v
      [] v.type = T_NULL -> Timestamp(0)
      [] OTHER -> Raise

OnlyDigits(text) == text # <<>> /\ \A i \in DOMAIN text : IsDigit(text[i])
TestInteger(v) == v.type = T_INTEGER \/ OnlyDigits(Unsigned(ToText(v)))

OneDot(text) ==
    LET dots == {i \in DOMAIN text : IsDot(text[i]) \/ text[i] = Comma}
    IN  /\ \A i \in DOMAIN text \ dots : IsDigit(text[i])
        /\ \A i, j \in dots : i = j
\* a text of no characters passes
TestFloat(v) == v.type = T_FLOAT \/ OneDot(Unsigned(ToText(v)))

TestTypeWithNumericConversion(v) ==
    IF TestInteger(v) THEN T_INTEGER ELSE IF TestFloat(v) THEN T_FLOAT ELSE v.type

TryNumericConversion(v) ==
    IF TestInteger(v) THEN GetInteger(v) ELSE IF TestFloat(v) THEN GetFloat(v) ELSE v

SecondsOf(n) ==
    CASE n.type = T_INTEGER -> Timestamp(n.val)
      [] n.type = T_FLOAT -> Timestamp(Trunc(n.val))
      [] OTHER -> Raise
\* the value, unless the conversion was not done
TryTimeConversion(v) ==
    IF ~TestInteger(v) /\ ~TestFloat(v) THEN v ELSE SecondsOf(TryNumericConversion(v))

\* GroupBy looks groups up under this text: the separator "\x00" is the empty C string.
MakeUniqueKey(values) == FlattenSeq([i \in DOMAIN values |-> ToText(values[i])])

\* SValue::encode() and decode(): the type, and the bytes of the union.
Encode(v) ==
    CASE v.type = T_NULL -> <<v.type>>
      [] v.type = T_STRING -> <<v.type, Len(v.val)>> \o v.val
      [] v.type = T_BOOL -> <<v.type, IF v.val THEN 1 ELSE 0>>
      [] OTHER -> <<v.type, v.val>>
\* the value at the beginning of a stream, and the rest of the stream
Decode(is) ==
    CASE is[1] = T_NULL -> <<Null, Tail(is)>>
      [] is[1] = T_STRING -> <<String(SubSeq(is, 3, 2 + is[2])), SubSeq(is, 3 + is[2], Len(is))>>
      [] is[1] = T_BOOL -> <<Bool(is[2] = 1), SubSeq(is, 3, Len(is))>>
      [] OTHER -> <<[type |-> is[1], val |-> is[2]], SubSeq(is, 3, Len(is))>>

-----------------------------------------------------------------------------
\* Functions.  Every one gets its arguments and what its result variable holds before the call.

\* applied to what the conversions yield, unless one of them raises
Lift1(F(_), v) == IF Raised(v) THEN Raise ELSE F(v.val)
Lift2(F(_, _), v, w) == IF Raised(v) \/ Raised(w) THEN Raise ELSE F(v.val, w.val)

Whole == {T_INTEGER, T_TIMESTAMP}
Numeric == {T_INTEGER, T_FLOAT, T_TIMESTAMP}

\* boolean.cc: a comparison by numbers, by texts, or not at all
Compare(ByInt(_, _), ByFrac(_, _), ByText(_, _), nulls, lhs, rhs) ==
    LET ints == Lift2(LAMBDA x, y : Bool(ByInt(x, y)), GetInteger(lhs), GetInteger(rhs))
        fracs(l, r) == Lift2(LAMBDA x, y : Bool(ByFrac(x, y)), l, r)
        zero == Float(FromInt(0))
    IN  CASE lhs.type \in Whole /\ rhs.type \in Whole -> ints
          [] lhs.type \in Numeric /\ rhs.type \in Numeric -> fracs(GetFloat(lhs), GetFloat(rhs))
          [] lhs.type \in Numeric /\ rhs.type = T_NULL -> fracs(GetFloat(lhs), zero)
          [] lhs.type = T_NULL /\ rhs.type \in Numeric -> fracs(zero, GetFloat(rhs))
          [] lhs.type = T_NULL /\ rhs.type = T_NULL -> Bool(nulls)
          [] T_STRING \in {lhs.type, rhs.type} -> Bool(ByText(ToText(lhs), ToText(rhs)))
          [] OTHER -> Raise

LtExpr(lhs, rhs) == Compare(<, FracLess, TextLess, FALSE, lhs, rhs)
GtExpr(lhs, rhs) == LtExpr(rhs, lhs)
LteExpr(lhs, rhs) ==
    Compare(<=, LAMBDA x, y : FracLess(x, y) \/ FracEq(x, y),
            LAMBDA s, t : ~TextLess(t, s), TRUE, lhs, rhs)
GteExpr(lhs, rhs) == LteExpr(rhs, lhs)

\* A Boolean compared with anything but a Boolean leaves the result variable as it is.
EqExpr(lhs, rhs, out) ==
    CASE T_NULL \in {lhs.type, rhs.type} /\ lhs.type \in Numeric \cup {T_NULL} ->
             Bool(lhs.type = rhs.type)
      [] lhs.type = T_BOOL -> IF rhs.type = T_BOOL THEN Bool(lhs.val = rhs.val) ELSE out
      [] OTHER -> Compare(LAMBDA x, y : x = y, FracEq, LAMBDA s, t : s = t, TRUE, lhs, rhs)

NeqExpr(lhs, rhs) == Lift1(LAMBDA b : Bool(~b), GetBool(EqExpr(lhs, rhs, Null)))

\* C++ evaluates the right operand only if the left one does not decide.
AndExpr(lhs, rhs) ==
    Lift1(LAMBDA b : IF b THEN ToBool(rhs) ELSE Bool(FALSE), ToBool(lhs))
OrExpr(lhs, rhs) ==
    Lift1(LAMBDA b : IF b THEN Bool(TRUE) ELSE ToBool(rhs), ToBool(lhs))

NegExpr(v) ==
    CASE v.type = T_INTEGER -> Integer(-v.val)
      [] v.type = T_FLOAT -> Float(FracNeg(v.val))
      [] v.type = T_BOOL -> Bool(~v.val)
      [] v.type = T_NULL -> Null
      [] OTHER -> Raise

\* math.cc: the type of the result follows from the types that the texts of the operands suggest
ArithAs(l, r, Ints(_, _), Fracs(_, _), lhs, rhs, otherwise) ==
    CASE l = T_NULL -> Null
      [] l \in {T_INTEGER, T_FLOAT} /\ r = T_NULL -> Null
      [] l = T_INTEGER /\ r = T_INTEGER -> Lift2(Ints, GetInteger(lhs), GetInteger(rhs))
      [] l \in {T_INTEGER, T_FLOAT} /\ r \in {T_INTEGER, T_FLOAT} ->
             Lift2(LAMBDA x, y : Float(Fracs(x, y)), GetFloat(lhs), GetFloat(rhs))
      [] OTHER -> otherwise
Arith(Ints(_, _), Fracs(_, _), lhs, rhs, otherwise) ==
    ArithAs(TestTypeWithNumericConversion(lhs), TestTypeWithNumericConversion(rhs),
            Ints, Fracs, lhs, rhs, otherwise)

AddExpr(lhs, rhs) ==
    Arith(LAMBDA x, y : Integer(x + y), FracAdd, lhs, rhs, String(ToText(lhs) \o ToText(rhs)))
SubExpr(lhs, rhs) ==
    Arith(LAMBDA x, y : Integer(x - y), LAMBDA x, y : FracAdd(x, FracNeg(y)), lhs, rhs, Raise)
MulExpr(lhs, rhs) == Arith(LAMBDA x, y : Integer(x * y), FracMul, lhs, rhs, Raise)
DivExpr(lhs, rhs) ==
    Arith(LAMBDA x, y : Float(FracDiv(FromInt(x), FromInt(y))), FracDiv, lhs, rhs, Raise)

\* The remainder has the sign of the dividend; an integer divided by zero stops the process.
Rem(x, y) == Sgn(x) * (Abs(x) % Abs(y))
FracMod(x, y) ==
    IF y[1] = 0 \/ x[2] = 0 \/ y[2] = 0 THEN NaN
    ELSE Frac(Rem(x[1] * y[2], y[1] * x[2]), x[2] * y[2])
ModExpr(lhs, rhs) ==
    Arith(LAMBDA x, y : IF y = 0 THEN Raise ELSE Integer(Rem(x, y)), FracMod, lhs, rhs, Raise)

TruncateExpr(v) ==
    CASE TestTypeWithNumericConversion(v) \in {T_INTEGER, T_FLOAT} ->
             Lift1(LAMBDA x : Integer(Trunc(x)), GetFloat(v))
      [] v.type = T_NULL -> Null
      [] OTHER -> Raise

\* a power with a whole exponent
FracPow(x, n) ==
    LET power == FoldLeft(FracMul, FromInt(1), [i \in 1 .. Abs(n) |-> x])
    IN  IF n < 0 THEN FracDiv(FromInt(1), power) ELSE power
PowExpr(lhs, rhs) ==
    Arith(LAMBDA x, y : Integer(Trunc(FracPow(FromInt(x), y))), LAMBDA x, y : FracPow(x, Trunc(y)),
          lhs, rhs, Raise)
\* not implemented yet
RoundExpr(args) == Raise

Upper(c) == CASE c \in LetterA .. LetterA + 9 -> c - LetterA + CapitalA
              [] c \in {WordTrue, WordFalse} -> c + 1
              [] OTHER -> c
Lower(c) == CASE c \in CapitalA .. CapitalA + 9 -> c - CapitalA + LetterA
              [] c = WordNULL -> c + 1
              [] OTHER -> c
UpperCaseExpr(v) == String([i \in DOMAIN ToText(v) |-> Upper(ToText(v)[i])])
LowerCaseExpr(v) == String([i \in DOMAIN ToText(v) |-> Lower(ToText(v)[i])])
StartsWithExpr(v, w) == Bool(IsPrefix(ToText(w), ToText(v)))
EndsWithExpr(v, w) == Bool(IsSuffix(ToText(w), ToText(v)))

FromTimestamp(v) == GetTimestamp(TryTimeConversion(v))

=============================================================================
