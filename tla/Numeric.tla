------------------------------ MODULE Numeric -------------------------------
(***************************************************************************)
(* The numbers the numeric opcodes compute (numeric_opcode_handlers.h), on *)
(* integers of two widths.  An integer is its bit pattern, a number from   *)
(* zero; where a handler copies it to a signed variable, so does this.     *)
(*                                                                         *)
(* A shift by the width or more is undefined in C; as in module Leb128 the *)
(* count is taken modulo the width.  A division the processor refuses ends *)
(* the process.  Floats are a sign and a magnitude; a conversion that is   *)
(* out of range yields any integer.                                        *)
(***************************************************************************)
EXTENDS Numerals, Sequences, FiniteSets

CONSTANTS WordBits,    \* of an i32
          Operands,   \* the values of each integer type that occur
          Floats,     \* those of the float type
          Inf         \* the magnitude that stands for infinity

LongBits == 2 * WordBits
Width(t) == IF t = "i32" THEN WordBits ELSE LongBits
Ints(t)  == 0..Power(2, Width(t)) - 1

\* A magnitude is in halves; these two are beyond every number.
NaN == Inf + 1

Numbers(t) == IF t = "f" THEN [neg : BOOLEAN, mag : 0..NaN] ELSE Ints(t)

\* The masks of the rotations are for a power of two.
ASSUME NumericAssumption ==
  /\ \E k \in 0..WordBits : WordBits = Power(2, k)
  /\ Operands["i32"] \subseteq Numbers("i32") /\ Operands["i64"] \subseteq Numbers("i64")
  /\ Floats \subseteq Numbers("f")
  /\ Inf \in Nat /\ Inf > 2 * Power(2, LongBits)

VARIABLES
  op,       \* the instruction: its name and type
  args,     \* its operands, the deepest first
  stack,    \* the operand stack
  outcome   \* "running", "done", or "killed" by the processor

numericVars == <<op, args, stack, outcome>>

Arithmetic == {"add", "sub", "mul"}
Bitwisely  == {"and", "or", "xor"}
Relations  == {"eq", "ne", "lt_s", "lt_u", "ge_s", "ge_u", "gt_s", "gt_u", "le_s", "le_u"}
Divisions  == {"div_s", "div_u", "rem_s", "rem_u"}
Shifts     == {"shl", "shr_u", "shr_s"}
Rotations  == {"rotl", "rotr"}
BitCounts  == {"clz", "ctz", "popcnt"}
Binary     == Arithmetic \cup Bitwisely \cup Relations \cup Divisions \cup Shifts \cup Rotations
FloatRelations == {"eq", "ne", "lt", "ge", "gt", "le"}
Signs      == {"abs", "neg", "copysign"}
Converts   == {"convert_i32_s", "convert_i32_u", "convert_i64_s", "convert_i64_u"}

Instructions == [name : Binary \cup BitCounts \cup {"eqz", "trunc_s", "trunc_u"}, type : {"i32", "i64"}]
                  \cup [name : {"min", "max"} \cup FloatRelations \cup Signs \cup Converts, type : {"f"}]
                  \cup {[name |-> "wrap_i64", type |-> "i32"], [name |-> "extend_s", type |-> "i64"],
                        [name |-> "extend_u", type |-> "i64"]}

----------------------------------------------------------------------------
(* C *)

Bool(b) == IF b THEN 1 ELSE 0

\* The variable a pattern is copied to, s32 or s64, and back.
AsSigned(a, w)   == IF a >= Power(2, w - 1) THEN a - Power(2, w) ELSE a
AsUnsigned(n, w) == n % Power(2, w)

\* << and >> of an unsigned variable, >> of a signed one.
ShiftLeft(a, n, w)  == (a * Power(2, n % w)) % Power(2, w)
ShiftRight(a, n, w) == a \div Power(2, n % w)

\* / and % round towards zero.
Abs(n)       == IF n < 0 THEN -n ELSE n
Quotient(a, b)  == IF (a < 0) = (b < 0) THEN Abs(a) \div Abs(b) ELSE -(Abs(a) \div Abs(b))
Remainder(a, b) == a - b * Quotient(a, b)

\* &, | and ^ of two patterns, by the places of their ones.
Bits(a)      == {i \in 0..LongBits - 1 : Digit(a, 2, i) = 1}
BitAnd(a, b) == Bitsum(Bits(a) \cap Bits(b), LongBits)
BitOr(a, b)  == Bitsum(Bits(a) \cup Bits(b), LongBits)
BitXor(a, b) == Bitsum((Bits(a) \ Bits(b)) \cup (Bits(b) \ Bits(a)), LongBits)

\* BIT_MASK(type, count), util.h.
BitMask(w, n) == IF n = 0 THEN 0 ELSE ShiftRight(Power(2, w) - 1, w - n, w)

----------------------------------------------------------------------------
(* Handlers: what is computed from two patterns a and b of width w, the    *)
(* second on top of the stack.                                             *)

Calculated(name, a, b, w) ==
  AsUnsigned(CASE name = "add" -> a + b [] name = "sub" -> a - b [] name = "mul" -> a * b, w)

Combined(name, a, b) ==
  CASE name = "and" -> BitAnd(a, b) [] name = "or" -> BitOr(a, b) [] name = "xor" -> BitXor(a, b)

\* The signed comparisons as they would be without the signed variables.
ComparedUnsigned(name, a, b, w) ==
  Bool(CASE name = "eq" -> a = b
         [] name = "ne" -> a # b
         [] name \in {"lt_s", "lt_u"} -> a < b
         [] name \in {"ge_s", "ge_u"} -> a >= b
         [] name \in {"gt_s", "gt_u"} -> a > b
         [] name \in {"le_s", "le_u"} -> a <= b)

Compared(name, a, b, w) ==
  LET x == AsSigned(a, w)
      y == AsSigned(b, w)
  IN  Bool(CASE name = "eq"   -> a = b  [] name = "ne"   -> a # b
             [] name = "lt_s" -> x < y  [] name = "lt_u" -> a < b
             [] name = "ge_s" -> x >= y [] name = "ge_u" -> a >= b
             [] name = "gt_s" -> x > y  [] name = "gt_u" -> a > b
             [] name = "le_s" -> x <= y [] name = "le_u" -> a <= b)

\* Unsigned operands in signed variables.
RefusedAsSigned(name, a, b, w) ==
  b = 0 \/ (AsSigned(a, w) = -(Power(2, w - 1)) /\ AsSigned(b, w) = -1)

\* The processor cannot divide by zero, nor the least number by -1.
Refused(name, a, b, w) ==
  \/ b = 0
  \/ name \in {"div_s", "rem_s"} /\ AsSigned(a, w) = -(Power(2, w - 1)) /\ AsSigned(b, w) = -1

Divided(name, a, b, w) ==
  LET x == IF name \in {"div_s", "rem_s"} THEN AsSigned(a, w) ELSE a
      y == IF name \in {"div_s", "rem_s"} THEN AsSigned(b, w) ELSE b
  IN  AsUnsigned(IF name \in {"div_s", "div_u"} THEN Quotient(x, y) ELSE Remainder(x, y), w)

ShiftedBy(name, a, b, w) ==
  CASE name = "shl"   -> ShiftLeft(a, b, w)
    [] name = "shr_u" -> ShiftRight(a, b, w)
    [] name = "shr_s" -> AsUnsigned(AsSigned(a, w) \div Power(2, b % w), w)

\* Both masks are those of the width, but that of i64.rotr.
Rotated(name, a, b, w) ==
  LET mask == IF name = "rotr" /\ w = LongBits THEN WordBits - 1 ELSE w - 1
      n    == BitAnd(b % w, mask)
      back == BitAnd(AsUnsigned(-n, w), mask)
  IN  IF name = "rotl" THEN BitOr(ShiftLeft(a, n, w), ShiftRight(a, back, w))
      ELSE BitOr(ShiftRight(a, n, w), ShiftLeft(a, back, w))

\* __builtin_clz and its kin, and the zero they do not take.
Counted(name, a, w) ==
  CASE name = "popcnt"          -> Cardinality(Bits(a))
    [] a = 0 /\ name # "popcnt" -> w
    [] a # 0 /\ name = "clz"    -> w - 1 - (CHOOSE i \in Bits(a) : \A j \in Bits(a) : j <= i)
    [] a # 0 /\ name = "ctz"    -> CHOOSE i \in Bits(a) : \A j \in Bits(a) : i <= j

\* i32.wrap_i64 and the extensions, which test the sign by its bit.
Converted(name, a) ==
  CASE name = "wrap_i64" -> BitAnd(a, BitMask(LongBits, WordBits))
    [] name = "extend_s" -> IF BitAnd(a, Power(2, WordBits - 1)) # 0
                            THEN BitOr(a, Power(2, LongBits) - Power(2, WordBits)) ELSE a
    [] name = "extend_u" -> a

IsNaN(x) == x.mag = NaN
Real(x)  == IF x.neg THEN -x.mag ELSE x.mag

Extreme(name, x, y) ==
  CASE IsNaN(x) -> x
    [] ~IsNaN(x) /\ IsNaN(y) -> y
    [] ~IsNaN(x) /\ ~IsNaN(y) ->
         IF (IF name = "min" THEN Real(x) <= Real(y) ELSE Real(x) >= Real(y)) THEN x ELSE y

\* A NaN is neither less than, equal to nor greater than anything, itself included.
ComparedFloats(name, x, y) ==
  Bool(IF IsNaN(x) \/ IsNaN(y) THEN name = "ne"
       ELSE CASE name = "eq" -> Real(x) = Real(y)  [] name = "ne" -> Real(x) # Real(y)
              [] name = "lt" -> Real(x) < Real(y)  [] name = "ge" -> Real(x) >= Real(y)
              [] name = "gt" -> Real(x) > Real(y)  [] name = "le" -> Real(x) <= Real(y))

\* fabs, - and copysign, which change the sign of NaNs and zeros too.
Resigned(name, x, y) ==
  [x EXCEPT !.neg = CASE name = "abs" -> FALSE [] name = "neg" -> ~x.neg [] name = "copysign" -> y.neg]

\* To a float, from the pattern as a signed or an unsigned variable.  No number
\* here is so large that it would be rounded.
Source(name) == IF name \in {"convert_i32_s", "convert_i32_u"} THEN "i32" ELSE "i64"
Floated(name, a) ==
  LET n == IF name \in {"convert_i32_s", "convert_i64_s"} THEN AsSigned(a, Width(Source(name))) ELSE a
  IN  [neg |-> n < 0, mag |-> 2 * Abs(n)]

\* (s32) x and the like: towards zero, and anything at all if that does not fit.
Whole(x)  == IF x.neg THEN -(x.mag \div 2) ELSE x.mag \div 2
Fits(name, x, w) ==
  /\ x.mag \notin {Inf, NaN}
  /\ Whole(x) \in IF name = "trunc_s" THEN -(Power(2, w - 1))..Power(2, w - 1) - 1 ELSE 0..Power(2, w) - 1
Truncations(name, x, w) == IF Fits(name, x, w) THEN {AsUnsigned(Whole(x), w)} ELSE 0..Power(2, w) - 1

----------------------------------------------------------------------------
(* The machine: one instruction, on a stack with something below its       *)
(* operands.                                                               *)

Typed(t, v) == [type |-> t, value |-> v]
Bottom      == Typed("f", [neg |-> FALSE, mag |-> 1])

Arity(o) == IF o.name \in Binary \cup FloatRelations \cup {"min", "max", "copysign"} THEN 2 ELSE 1
OperandType(o) ==
  CASE o.name \in {"trunc_s", "trunc_u"}   -> "f"
    [] o.name = "wrap_i64"                 -> "i64"
    [] o.name \in {"extend_s", "extend_u"} -> "i32"
    [] o.name \in Converts                 -> Source(o.name)
    [] OTHER                               -> o.type
ValuesOf(t) == IF t = "f" THEN Floats ELSE Operands[t]

First  == args[1]
Second == args[Len(args)]
W      == Width(op.type)

Popped == SubSeq(stack, 1, Len(stack) - Len(args))

Push(rest, t, v) == /\ outcome' = "done" /\ stack' = Append(rest, Typed(t, v))
                    /\ UNCHANGED <<op, args>>

Handle(names) == outcome = "running" /\ op.name \in names
Integral == op.type # "f"

Arithmetics == Handle(Arithmetic) /\ Push(Popped, op.type, Calculated(op.name, First, Second, W))
BitwiseOps  == Handle(Bitwisely)  /\ Push(Popped, op.type, Combined(op.name, First, Second))
Comparisons == Handle(Relations)  /\ Integral /\ Push(Popped, "i32", Compared(op.name, First, Second, W))
Eqz         == Handle({"eqz"})    /\ Push(Popped, "i32", Bool(First = 0))
ShiftOps    == Handle(Shifts)     /\ Push(Popped, op.type, ShiftedBy(op.name, First, Second, W))
RotateOps   == Handle(Rotations)  /\ Push(Popped, op.type, Rotated(op.name, First, Second, W))
Conversions == Handle({"wrap_i64", "extend_s", "extend_u"})
                 /\ Push(Popped, op.type, Converted(op.name, First))
Extremes    == Handle({"min", "max"}) /\ Push(Popped, "f", Extreme(op.name, First, Second))
FloatComparisons == Handle(FloatRelations) /\ ~Integral
                      /\ Push(Popped, "i32", ComparedFloats(op.name, First, Second))
SignOps     == Handle(Signs)    /\ Push(Popped, "f", Resigned(op.name, First, Second))
FloatOf     == Handle(Converts) /\ Push(Popped, "f", Floated(op.name, First))
Truncate    == Handle({"trunc_s", "trunc_u"})
                 /\ \E n \in Truncations(op.name, First, W) : Push(Popped, op.type, n)

Divide == /\ Handle(Divisions) /\ ~Refused(op.name, First, Second, W)
          /\ Push(Popped, op.type, Divided(op.name, First, Second, W))

Die == /\ Handle(Divisions) /\ Refused(op.name, First, Second, W)
       /\ outcome' = "killed" /\ UNCHANGED <<op, args, stack>>

\* The operand is looked at, not popped.
BitCount == Handle(BitCounts) /\ Push(stack, op.type, Counted(op.name, First, W))

NumericInit ==
  /\ op \in Instructions
  /\ args \in [1..Arity(op) -> ValuesOf(OperandType(op))]
  /\ stack = <<Bottom>> \o [i \in 1..Len(args) |-> Typed(OperandType(op), args[i])]
  /\ outcome = "running"

NumericNext ==
  \/ Arithmetics \/ BitwiseOps \/ Comparisons \/ Eqz \/ ShiftOps \/ RotateOps \/ Conversions
  \/ Extremes \/ FloatComparisons \/ SignOps \/ FloatOf \/ Truncate \/ Divide \/ Die \/ BitCount

NumericSpec == NumericInit /\ [][NumericNext]_numericVars

----------------------------------------------------------------------------
(* What an instruction is for: r is what it should make of the patterns,   *)
(* or the floats, x and y.                                                 *)

Bit(n, i) == Digit(n, 2, i)

RightArithmetic(name, r, x, y, w) ==
  CASE name = "add" -> (r - x) % Power(2, w) = y
    [] name = "sub" -> (r + y) % Power(2, w) = x
    [] name = "mul" -> (r - x * y) % Power(2, w) = 0

\* The pattern r has this bit at i.
HasBits(r, w, At(_)) == \A i \in 0..w - 1 : Bit(r, i) = At(i)

RightBitwise(name, r, x, y, w) ==
  CASE name = "and" -> HasBits(r, w, LAMBDA i : Bit(x, i) * Bit(y, i))
    [] name = "or"  -> HasBits(r, w, LAMBDA i : IF Bit(x, i) + Bit(y, i) > 0 THEN 1 ELSE 0)
    [] name = "xor" -> HasBits(r, w, LAMBDA i : (Bit(x, i) + Bit(y, i)) % 2)

\* Signed order is unsigned order with the sign bits flipped.
Flipped(n, w) == (n + Power(2, w - 1)) % Power(2, w)

Holds(name, x, y, w) ==
  CASE name = "eq"   -> x - y = 0
    [] name = "ne"   -> x - y # 0
    [] name = "lt_u" -> x < y
    [] name = "ge_u" -> ~(x < y)
    [] name = "gt_u" -> y < x
    [] name = "le_u" -> ~(y < x)
    [] name = "lt_s" -> Flipped(x, w) < Flipped(y, w)
    [] name = "ge_s" -> ~(Flipped(x, w) < Flipped(y, w))
    [] name = "gt_s" -> Flipped(y, w) < Flipped(x, w)
    [] name = "le_s" -> ~(Flipped(y, w) < Flipped(x, w))

\* x = q * y + r, r smaller than y, and with no sign but that of x.
IsDivision(q, r, x, y) == /\ x = q * y + r /\ Abs(r) < Abs(y)
                          /\ r = 0 \/ (r < 0) = (x < 0)

\* The quotient or the remainder, and there is the other one.
RightDivision(name, r, x, y, w) ==
  LET sx == AsSigned(x, w)
      sy == AsSigned(y, w)
      some == -(Power(2, w))..Power(2, w)
  IN  CASE name = "div_u" -> \E m \in some : IsDivision(r, m, x, y)
        [] name = "rem_u" -> \E q \in some : IsDivision(q, r, x, y)
        [] name = "div_s" -> \E m \in some : IsDivision(AsSigned(r, w), m, sx, sy)
        [] name = "rem_s" -> \E q \in some : IsDivision(q, AsSigned(r, w), sx, sy)

RightShift(name, r, x, y, w) ==
  LET k == y % w
  IN  CASE name = "shl"   -> HasBits(r, w, LAMBDA i : IF i < k THEN 0 ELSE Bit(x, i - k))
        [] name = "shr_u" -> HasBits(r, w, LAMBDA i : IF i + k < w THEN Bit(x, i + k) ELSE 0)
        [] name = "shr_s" -> HasBits(r, w, LAMBDA i : Bit(x, IF i + k < w THEN i + k ELSE w - 1))

RightRotation(name, r, x, y, w) ==
  LET k == y % w
  IN  CASE name = "rotl" -> \A i \in 0..w - 1 : Bit(r, (i + k) % w) = Bit(x, i)
        [] name = "rotr" -> HasBits(r, w, LAMBDA i : Bit(x, (i + k) % w))

RightCount(name, r, x, w) ==
  CASE name = "clz"    -> \A i \in 0..w - 1 : /\ i >= w - r => Bit(x, i) = 0
                                              /\ i = w - r - 1 => Bit(x, i) = 1
    [] name = "ctz"    -> \A i \in 0..w - 1 : /\ i < r => Bit(x, i) = 0
                                              /\ i = r => Bit(x, i) = 1
    [] name = "popcnt" -> r = Cardinality({i \in 0..w - 1 : Bit(x, i) = 1})

RightConversion(name, r, x) ==
  CASE name = "wrap_i64" -> (x - r) % Power(2, WordBits) = 0
    [] name = "extend_s" -> AsSigned(r, LongBits) = AsSigned(x, WordBits)
    [] name = "extend_u" -> r = x

RightTruncation(name, r, x, w) ==
  LET n == IF name = "trunc_s" THEN AsSigned(r, w) ELSE r
  IN  2 * Abs(n) <= x.mag /\ x.mag < 2 * Abs(n) + 2 /\ (n # 0 => (n < 0) = x.neg)

\* NaN if there is one, else the least or the greatest, and -0 before +0.
Before(x, y) == Real(x) < Real(y) \/ (Real(x) = Real(y) /\ (x.neg \/ ~y.neg))

RightExtreme(name, r, x, y) ==
  IF IsNaN(x) \/ IsNaN(y) THEN IsNaN(r)
  ELSE r \in {x, y} /\ IF name = "min" THEN Before(r, x) /\ Before(r, y)
                       ELSE Before(x, r) /\ Before(y, r)

\* Of two floats, exactly one holds: less, equal, greater, or not comparable.
Related(x, y) == CASE IsNaN(x) \/ IsNaN(y)                        -> "unordered"
                   [] ~IsNaN(x) /\ ~IsNaN(y) /\ Real(x) < Real(y) -> "less"
                   [] ~IsNaN(x) /\ ~IsNaN(y) /\ Real(y) < Real(x) -> "greater"
                   [] OTHER                                       -> "equal"

TrueFor == [eq |-> {"equal"}, ne |-> {"less", "greater", "unordered"}, lt |-> {"less"},
            ge |-> {"greater", "equal"}, gt |-> {"greater"}, le |-> {"less", "equal"}]

\* Nothing but the sign changes, and a zero and a NaN have one too.
RightSign(name, r, x, y) ==
  /\ r.mag = x.mag
  /\ r.neg <=> (name = "neg" /\ ~x.neg) \/ (name = "copysign" /\ y.neg)

\* An integer that differs from the pattern by a multiple of the width, and is in
\* the range of its kind.
RightFloat(name, r, x) ==
  LET w == Width(Source(name))
      least == IF name \in {"convert_i32_s", "convert_i64_s"} THEN -(Power(2, w - 1)) ELSE 0
  IN  \E n \in least..least + Power(2, w) - 1 : (n - x) % Power(2, w) = 0 /\ Real(r) = 2 * n

Right(o, r, x, y) ==
  LET w == Width(o.type)
  IN  CASE o.name \in Arithmetic                    -> RightArithmetic(o.name, r, x, y, w)
        [] o.name \in Bitwisely                     -> RightBitwise(o.name, r, x, y, w)
        [] o.name \in Relations /\ o.type # "f"     -> r = Bool(Holds(o.name, x, y, w))
        [] o.name = "eqz"                           -> r = Bool(x = 0)
        [] o.name \in Divisions                     -> RightDivision(o.name, r, x, y, w)
        [] o.name \in Shifts                        -> RightShift(o.name, r, x, y, w)
        [] o.name \in Rotations                     -> RightRotation(o.name, r, x, y, w)
        [] o.name \in BitCounts                     -> RightCount(o.name, r, x, w)
        [] o.name \in {"wrap_i64", "extend_s", "extend_u"} -> RightConversion(o.name, r, x)
        [] o.name \in {"trunc_s", "trunc_u"}        -> RightTruncation(o.name, r, x, w)
        [] o.name \in {"min", "max"}                -> RightExtreme(o.name, r, x, y)
        [] o.name \in FloatRelations /\ o.type = "f" -> r = Bool(Related(x, y) \in TrueFor[o.name])
        [] o.name \in Signs                         -> RightSign(o.name, r, x, y)
        [] o.name \in Converts                      -> RightFloat(o.name, r, x)

ResultType(o) == IF o.name \in Relations \cup FloatRelations \cup {"eqz"} THEN "i32" ELSE o.type

----------------------------------------------------------------------------
(* Properties *)

\* Where the code is known to go its own way: the mask of i64.rotr, the sign of a
\* zero in min and max, a conversion that does not fit, and the remainder of the least
\* number by -1, which is 0 (test/i32.wast:106) and which no process survives.
Deviates(o, x, y) ==
  \/ o = [name |-> "rotr", type |-> "i64"] /\ y % LongBits # 0
  \/ o.name \in {"min", "max"} /\ x.mag = 0 /\ y.mag = 0
  \/ o.name \in {"trunc_s", "trunc_u"} /\ ~Fits(o.name, x, Width(o.type))
  \/ /\ o.name = "rem_s"
     /\ AsSigned(x, Width(o.type)) = -(Power(2, Width(o.type) - 1)) /\ AsSigned(y, Width(o.type)) = -1

\* Every other instruction computes the number the specification gives it, for
\* every pattern at the edges: zero, the least and the greatest of either sign,
\* counts of the width and more (numeric_opcode_handlers.h:45-769).
ResultRight ==
  outcome = "done" =>
    LET top == stack[Len(stack)]
    IN  /\ top.type = ResultType(op) /\ top.value \in Numbers(top.type)
        /\ ~Deviates(op, First, Second) => Right(op, top.value, First, Second)

\* The process ends only where WebAssembly has no number for the result, the one
\* remainder apart: a division by zero, and a quotient beyond the greatest number.
\* Every other pair of operands gets through (numeric_opcode_handlers.h:454-476, 529-551).
DiesWithoutResult ==
  outcome = "killed" /\ ~Deviates(op, First, Second) =>
    ~\E r \in Numbers(op.type) : Right(op, r, First, Second)
=============================================================================
