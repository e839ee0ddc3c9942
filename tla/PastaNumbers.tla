----------------------------- MODULE PastaNumbers -----------------------------
(***************************************************************************)
(* Field elements and 256-bit integers of the Kimchi bindings, in the       *)
(* native and in the wasm build: how they are read and printed, turned into *)
(* one another and into bytes, and computed with.                           *)
(*                                                                          *)
(* In memory an element is kept in Montgomery form, x * 2^Bits modulo the   *)
(* order of its field.  The native program holds that memory in a block;    *)
(* the JavaScript program holds the bytes of x itself, and every call       *)
(* converts its arguments and its result.                                   *)
(*                                                                          *)
(* A behaviour follows one number through the functions; the other operands *)
(* are constants.                                                           *)
(***************************************************************************)
EXTENDS Integers

CONSTANTS
    Bits,         \* width of a BigInteger256
    WordBits,     \* width of a u64
    Order,        \* Order["fp"], Order["fq"]: the orders of the fields
    Operands,     \* second operands, elements of both fields
    Ints,         \* integers passed to of_int
    Numerals      \* the numbers whose texts the program reads

\* The orders are odd, so that they have an inverse modulo 2^Bits, and prime, so that
\* every element but 0 has one.  An integer of the program has fewer bits than a word.
ASSUME OrderAssumption ==
    /\ 2 ^ Bits \in Nat /\ 2 ^ WordBits \in Nat
    /\ \A f \in {"fp", "fq"} :
         /\ Order[f] \in Nat
         /\ 2 ^ WordBits < Order[f] /\ 2 * Order[f] < 2 ^ Bits
         /\ \E k \in 0..(2 ^ Bits - 1) : (k * Order[f]) % 2 ^ Bits = 2 ^ Bits - 1
         /\ \A a \in 1..(Order[f] - 1) : \E b \in 1..(Order[f] - 1) : (a * b) % Order[f] = 1
         /\ \A c \in Operands : c \in 0..(Order[f] - 1)
    /\ \A i \in Ints : i \in Int /\ i < 2 ^ WordBits
    /\ Numerals \subseteq Nat

VARIABLES
    platform,     \* "native" or "wasm"
    number        \* the number that the program holds, or NoNumber

Fields == {"fp", "fq"}

\* kind: a field, "bigint", "bytes" or "text"; v: what represents it there; made_by:
\* the kind that bytes were made of.  Auxiliary: `expected', the number it stands
\* for, and `detours', the doubtful conversions on its way.
Number(kind, v, made_by, expected, detours) ==
    [kind |-> kind, v |-> v, made_by |-> made_by, expected |-> expected, detours |-> detours]

NoNumber == Number("none", 0, "none", 0, {})

-----------------------------------------------------------------------------
(* The library (external).                                                  *)

R == 2 ^ Bits

\* Montgomery reduction, without a last subtraction.
Redc(f, t) ==
    LET minus_inverse == CHOOSE k \in 0..(R - 1) : (k * Order[f]) % R = R - 1
    IN  (t + ((t * minus_inverse) % R) * Order[f]) \div R

into_repr(f, m) == Redc(f, m)

\* <<m>>, or <<>> if the integer is not below the order.
from_repr(f, n) == IF n < Order[f] THEN <<(n * R) % Order[f]>> ELSE <<>>

Reduce(f, m) == IF m >= Order[f] THEN m - Order[f] ELSE m

Add(f, a, b) == Reduce(f, (a + b) % R)

Sub(f, a, b) == (IF b > a THEN a + Order[f] - b ELSE a - b) % R

Mul(f, a, b) == Reduce(f, Redc(f, a * b))

\* The inverse is found by its property; 0 has none.
FieldInverse(f, a) == CHOOSE b \in 0..(Order[f] - 1) : into_repr(f, Mul(f, a, b)) = 1

-----------------------------------------------------------------------------
(* How an element is represented for the host program.                      *)

\* The block, or the bytes that ToBytes writes: those of the integer.
IntoHost(f, m) == IF platform = "native" THEN m ELSE into_repr(f, m)

\* The contents of the block, or FromBytes::read, which fails for an integer that
\* is not below the order: the call panics, here <<>>.
FromHost(f, h) == IF platform = "native" THEN <<h>> ELSE from_repr(f, h)

\* The memory of the number the program holds.
Held(f) == FromHost(f, number.v)

\* The result of a call, if there is one: after an error or a panic the program still
\* holds what it had.
Becomes(kind, result, made_by, expected, detour) ==
    number' = IF result = <<>> THEN number
              ELSE Number(kind, result[1], made_by, expected, number.detours \cup detour)

BecomesField(f, mem, expected, detour) ==
    Becomes(f, IF mem = <<>> THEN <<>> ELSE <<IntoHost(f, mem[1])>>, "none", expected, detour)

-----------------------------------------------------------------------------
(* Making numbers.                                                          *)

\* The program has a text; texts are told apart by the numbers they show.
Text(n) ==
    /\ number = NoNumber
    /\ number' = Number("text", n, "none", n, {})

\* `i as u64': a negative integer becomes 2^64 + i.
caml_pasta_of_int(f, i) ==
    /\ number = NoNumber
    /\ BecomesField(f, from_repr(f, i % 2 ^ WordBits), i, IF i < 0 THEN {"negative"} ELSE {})

\* random, rng, two_adic_root_of_unity and domain_generator return some element.
Generated(f, x) ==
    /\ number = NoNumber
    /\ BecomesField(f, from_repr(f, x), x, {})

-----------------------------------------------------------------------------
(* Texts and integers.                                                      *)

\* Native: TryFrom<BigUint> refuses what does not fit.
native_of_biguint(n) == IF n < R THEN <<n>> ELSE <<>>

\* Wasm: the bytes are resized to the width, which drops the upper ones.
wasm_of_biguint(n) == <<n % R>>

OfBiguint(n) == IF platform = "native" THEN native_of_biguint(n) ELSE wasm_of_biguint(n)

TooLarge(n) == IF n >= R THEN {"too large"} ELSE {}

\* The text of a number is parsed (in any base), cut or refused, and then taken as
\* an integer that must be below the order.
caml_pasta_of_string(f) ==
    /\ number.kind = "text"
    /\ LET n == OfBiguint(number.v)
       IN  BecomesField(f, IF n = <<>> THEN <<>> ELSE from_repr(f, n[1]),
                        number.expected, TooLarge(number.v))

caml_pasta_to_string(f) ==
    /\ number.kind = f
    /\ Becomes("text", IF Held(f) = <<>> THEN <<>> ELSE <<into_repr(f, Held(f)[1])>>,
               "none", number.expected, {})

\* of_numeral and of_decimal_string.
caml_bigint_256_of_numeral ==
    /\ number.kind = "text"
    /\ Becomes("bigint", OfBiguint(number.v), "none", number.expected, TooLarge(number.v))

caml_bigint_256_to_string ==
    /\ number.kind = "bigint"
    /\ Becomes("text", <<number.v>>, "none", number.expected, {})

\* Division by 0 panics.
caml_bigint_256_div(c) ==
    /\ number.kind = "bigint"
    /\ Becomes("bigint", IF c = 0 THEN <<>> ELSE OfBiguint(number.v \div c),
               "none", IF c = 0 THEN 0 ELSE number.expected \div c, {})

caml_pasta_to_bigint(f) ==
    /\ number.kind = f
    /\ Becomes("bigint", IF Held(f) = <<>> THEN <<>> ELSE <<into_repr(f, Held(f)[1])>>,
               "none", number.expected, {})

\* Faulty: the integer is reduced instead of being refused.
FaultyOfBigint(f) ==
    /\ number.kind = "bigint"
    /\ BecomesField(f, from_repr(f, number.v % Order[f]), number.expected, {})

caml_pasta_of_bigint(f) ==
    /\ number.kind = "bigint"
    /\ BecomesField(f, from_repr(f, number.v), number.expected, {})

-----------------------------------------------------------------------------
(* Bytes.                                                                   *)

caml_bigint_256_to_bytes ==
    /\ number.kind = "bigint"
    /\ Becomes("bytes", <<number.v>>, "bigint", number.expected, {})

caml_bigint_256_of_bytes ==
    /\ number.kind = "bytes"
    /\ Becomes("bigint", <<number.v>>, "none", number.expected,
               IF number.made_by \in Fields THEN {"element as integer"} ELSE {})

\* Native: ToBytes writes the integer.  Wasm: the memory is copied.
ToBytes(f, m) == IF platform = "native" THEN into_repr(f, m) ELSE m

caml_pasta_to_bytes(f) ==
    /\ number.kind = f
    /\ Becomes("bytes", IF Held(f) = <<>> THEN <<>> ELSE <<ToBytes(f, Held(f)[1])>>, f,
               number.expected, {})

\* Both builds take the bytes for the memory of an element.
caml_pasta_of_bytes(f) ==
    /\ number.kind = "bytes"
    /\ BecomesField(f, <<number.v>>, number.expected,
                    IF number.made_by = f THEN {"own bytes"} ELSE {"foreign bytes"})

-----------------------------------------------------------------------------
(* Arithmetic.  Native programs also have forms that change a block; what   *)
(* they leave in it is the same.                                            *)

\* Auxiliary: x / c in a field, anything if there is no quotient.
Quotient(f, x, c) ==
    CHOOSE y \in 0..(Order[f] - 1) : (y * c) % Order[f] = x % Order[f] \/ c % Order[f] = 0

Results(f, c) ==
    IF Held(f) = <<>> THEN {}
    ELSE LET m == Held(f)[1]
             d == from_repr(f, c)[1]
             x == number.expected
             p == Order[f]
         IN  {[mem |-> Add(f, m, d), is |-> (x + c) % p],
              [mem |-> Sub(f, m, d), is |-> (x - c) % p],
              [mem |-> Mul(f, m, d), is |-> (x * c) % p],
              [mem |-> Mul(f, m, m), is |-> (x * x) % p],
              [mem |-> Sub(f, 0, m), is |-> (0 - x) % p]}
             \cup (IF c = 0 THEN {}
                   ELSE {[mem |-> Mul(f, m, FieldInverse(f, d)), is |-> Quotient(f, x, c)]})
             \cup (IF m % p = 0 THEN {}
                   ELSE {[mem |-> FieldInverse(f, m), is |-> Quotient(f, 1, x)]})

\* Division by 0 panics and 0 has no inverse, so that these are no results.
Arithmetic(f, c) ==
    /\ number.kind = f
    /\ \E r \in Results(f, c) : BecomesField(f, <<r.mem>>, r.is, {})

\* The root that the library finds, if there is one.
caml_pasta_sqrt(f) ==
    /\ number.kind = f /\ Held(f) # <<>>
    /\ \E y \in 0..(Order[f] - 1) :
         /\ Mul(f, y, y) = Held(f)[1]
         /\ BecomesField(f, <<y>>, into_repr(f, y), {})

-----------------------------------------------------------------------------
BigintStep ==
    \/ caml_bigint_256_of_numeral \/ caml_bigint_256_to_string
    \/ caml_bigint_256_to_bytes \/ caml_bigint_256_of_bytes
    \/ \E c \in Operands : caml_bigint_256_div(c)

FieldStep(f) ==
    \/ \E i \in Ints : caml_pasta_of_int(f, i)
    \/ \E x \in Operands : Generated(f, x)
    \/ caml_pasta_of_string(f) \/ caml_pasta_to_string(f)
    \/ caml_pasta_of_bigint(f) \/ caml_pasta_to_bigint(f)
    \/ caml_pasta_of_bytes(f) \/ caml_pasta_to_bytes(f)
    \/ \E c \in Operands : Arithmetic(f, c)
    \/ caml_pasta_sqrt(f)

NativeFp == platform = "native" /\ FieldStep("fp")

NativeFq == platform = "native" /\ FieldStep("fq")

WasmFp == platform = "wasm" /\ FieldStep("fp")

WasmFq == platform = "wasm" /\ FieldStep("fq")

NativeBigint == platform = "native" /\ BigintStep

WasmBigint == platform = "wasm" /\ BigintStep

NumberOperation ==
    /\ UNCHANGED platform
    /\ \/ \E n \in Numerals : Text(n)
       \/ NativeFp \/ NativeFq \/ NativeBigint
       \/ WasmFp \/ WasmFq \/ WasmBigint

-----------------------------------------------------------------------------
(* Properties                                                               *)

\* The number that a value stands for.
Denotes(x) ==
    IF x.kind \in Fields
    THEN LET m == FromHost(x.kind, x.v) IN IF m = <<>> THEN -1 ELSE into_repr(x.kind, m[1])
    ELSE x.v

\* The conversions that change a number: an element read from its own bytes is another
\* one in the native build only, where to_bytes writes the integer and of_bytes reads
\* the memory; the bytes of an element are those of its integer in that build only;
\* numerals above 2^256 are cut in wasm only.
Lossy ==
    {"negative", "foreign bytes"}
      \cup (IF platform = "native" THEN {"own bytes"} ELSE {"too large", "element as integer"})

\* A number keeps its value on every way through texts, integers, bytes, both fields
\* and arithmetic, except where the way has one of the conversions above; an integer
\* that is no element of a field is refused there and never reduced.
NumbersKeepTheirValue ==
    (number.kind # "bytes" /\ number.detours \cap Lossy = {})
      => Denotes(number) = number.expected
=============================================================================
