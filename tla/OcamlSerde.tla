----------------------------- MODULE OcamlSerde -----------------------------
(***************************************************************************)
(* How values cross between Rust and js_of_ocaml in the WebAssembly build   *)
(* of the Kimchi bindings: the serde format, in which every composite is an *)
(* array with a leading 0, and the flat vectors, in which the elements are  *)
(* laid out one after the other in one array of bytes.                      *)
(*                                                                          *)
(* The module has no state.  Serialization is directed by a Rust type:      *)
(*   [k |-> "bool" | "i32" | "char" | "unit" | "bytes" | "u64" | "string" | *)
(*          "enum" | "newtype" | "map"]                                     *)
(*   [k |-> "option", of |-> T]    a value is <<>> or <<x>>                 *)
(*   [k |-> "seq", of |-> T]       sequences, arrays and tuples             *)
(*   [k |-> "struct", fields |-> <<T, ...>>]                                *)
(*                                                                          *)
(* Serde handles one layer of a value and calls itself for the parts.  Here *)
(* an operator for the layer is given the results for the parts, and is     *)
(* applied MaxDepth = 6 times, which is the depth of ProofEvaluations, the  *)
(* deepest type of the bindings.                                            *)
(***************************************************************************)
EXTENDS Integers, Sequences, SequencesExt

-----------------------------------------------------------------------------
(* JavaScript values.                                                       *)

Num(n) == [js |-> "number", v |-> n]

Arr(s) == [js |-> "array", v |-> s]

Uint8Array(s) == [js |-> "bytes", v |-> s]

Undefined == [js |-> "undefined"]

Failed == [js |-> "error"]

\* Reading an array past its end.
Get(a, i) == IF i + 1 \in DOMAIN a.v THEN a.v[i + 1] ELSE Undefined

-----------------------------------------------------------------------------
(* Layers of a value.                                                       *)

Composite == {"option", "seq", "struct"}

\* A composite value is the sequence of its parts.
Parts(T, x) == IF T.k \in Composite THEN x ELSE <<>>

PartType(T, i) == IF T.k = "struct" THEN T.fields[i] ELSE T.of

\* Layer(T, x, results) applied from the parts upwards; at the greatest depth there
\* are no parts.
Fold1(Layer(_, _, _), T, x) == Layer(T, x, <<>>)

Fold2(Layer(_, _, _), T, x) ==
    Layer(T, x, [i \in DOMAIN Parts(T, x) |-> Fold1(Layer, PartType(T, i), Parts(T, x)[i])])

Fold3(Layer(_, _, _), T, x) ==
    Layer(T, x, [i \in DOMAIN Parts(T, x) |-> Fold2(Layer, PartType(T, i), Parts(T, x)[i])])

Fold4(Layer(_, _, _), T, x) ==
    Layer(T, x, [i \in DOMAIN Parts(T, x) |-> Fold3(Layer, PartType(T, i), Parts(T, x)[i])])

Fold5(Layer(_, _, _), T, x) ==
    Layer(T, x, [i \in DOMAIN Parts(T, x) |-> Fold4(Layer, PartType(T, i), Parts(T, x)[i])])

Fold6(Layer(_, _, _), T, x) ==
    Layer(T, x, [i \in DOMAIN Parts(T, x) |-> Fold5(Layer, PartType(T, i), Parts(T, x)[i])])

-----------------------------------------------------------------------------
(* Types.                                                                   *)

\* The types that neither serializer handles.
Unsupported == {"u64", "string", "enum", "newtype", "map"}

IsSeq(x) == Len(x) \in Nat /\ x = [i \in 1..Len(x) |-> x[i]]

TypeLayer(T, x, parts) ==
    /\ T.k \in {"bool", "i32", "char", "unit", "bytes"} \cup Composite \cup Unsupported
    /\ T.k = "bool" => x \in BOOLEAN
    /\ T.k = "i32" => x \in Int
    /\ T.k = "char" => x \in Nat
    /\ T.k = "unit" => x = 0
    /\ T.k \in Composite =>
         /\ IsSeq(x) /\ Len(parts) = Len(x)
         /\ \A i \in DOMAIN x : parts[i]
    /\ T.k = "option" => Len(x) <= 1
    /\ T.k = "struct" => IsSeq(T.fields) /\ Len(x) = Len(T.fields)

\* x is a value of type T.
HasType(T, x) == Fold6(TypeLayer, T, x)

\* Nothing in the value is of an unsupported type.
CarriedLayer(T, x, parts) ==
    T.k \notin Unsupported /\ \A i \in DOMAIN parts : parts[i]

Carried(T, x) == Fold6(CarriedLayer, T, x)

\* No character in the value is above 255.
NarrowLayer(T, x, parts) ==
    (T.k = "char" => x < 256) /\ \A i \in DOMAIN parts : parts[i]

Narrow(T, x) == Fold6(NarrowLayer, T, x)

-----------------------------------------------------------------------------
(* Serialization.                                                           *)

\* ArraySerializer: a 0 and then the elements; the first error is the result.
ArraySerializer(elems) ==
    IF \E i \in DOMAIN elems : elems[i] = Failed THEN Failed ELSE Arr(<<Num(0)>> \o elems)

\* The types that are not listed have no serialization.
Serializer(T, x, parts) ==
    CASE T.k = "bool" -> Num(IF x THEN 1 ELSE 0)
      [] T.k \in {"i32", "char"} -> Num(x)
      [] T.k = "unit" -> Num(0)
      [] T.k = "bytes" -> Uint8Array(x)
      [] T.k = "option" -> IF x = <<>> THEN Num(0) ELSE ArraySerializer(parts)
      [] T.k \in {"seq", "struct"} -> ArraySerializer(parts)
      [] OTHER -> Failed

Serialize(T, x) == Fold6(Serializer, T, x)

-----------------------------------------------------------------------------
(* Deserialization: <<x>>, or <<>> when it fails.                           *)

\* All of the results, if there is no failure among them.
SeqAccess(results) ==
    IF \E i \in DOMAIN results : results[i] = <<>> THEN <<>>
    ELSE << [i \in DOMAIN results |-> results[i][1]] >>

\* Where the parts are: an option has one, in a sequence there is an element at every
\* index but 0, and the fields of a structure are at the indexes from 1 on.
ObjectAccess(T, j) ==
    IF j.js # "array" THEN {}
    ELSE CASE T.k = "option" -> {1}
           [] T.k = "seq" -> 1..(Len(j.v) - 1)
           [] T.k = "struct" -> DOMAIN T.fields
           [] OTHER -> {}

\* Faulty: an empty option inside a full one is taken for an empty one.
FaultyDeserializeOption(T, j, parts) ==
    IF j.js # "array" THEN <<<<>>>>
    ELSE IF parts[1] = <<>> \/ (T.of.k = "option" /\ Get(j, 1).js # "array") THEN parts[1]
    ELSE <<parts[1]>>

\* An array is Some of its second element, everything else is None.
DeserializeOption(T, j, parts) ==
    IF j.js # "array" THEN <<<<>>>>
    ELSE IF parts[1] = <<>> THEN <<>> ELSE <<parts[1]>>

\* Numbers are cast to the width of the type, a character to 8 bits; a cast from a
\* floating point number saturates.
Deserializer(T, j, parts) ==
    CASE T.k = "bool" /\ j.js = "number" -> <<j.v # 0>>
      [] T.k = "i32" /\ j.js = "number" -> <<j.v>>
      [] T.k = "char" /\ j.js = "number" -> <<IF j.v > 255 THEN 255 ELSE j.v>>
      [] T.k = "unit" -> <<0>>
      [] T.k = "bytes" /\ j.js = "bytes" -> <<j.v>>
      [] T.k = "option" -> DeserializeOption(T, j, parts)
      [] T.k \in {"seq", "struct"} /\ j.js = "array" -> SeqAccess(parts)
      [] OTHER -> <<>>

Deserialize1(T, j) == Deserializer(T, j, [i \in ObjectAccess(T, j) |-> <<>>])

Deserialize2(T, j) ==
    Deserializer(T, j, [i \in ObjectAccess(T, j) |-> Deserialize1(PartType(T, i), Get(j, i))])

Deserialize3(T, j) ==
    Deserializer(T, j, [i \in ObjectAccess(T, j) |-> Deserialize2(PartType(T, i), Get(j, i))])

Deserialize4(T, j) ==
    Deserializer(T, j, [i \in ObjectAccess(T, j) |-> Deserialize3(PartType(T, i), Get(j, i))])

Deserialize5(T, j) ==
    Deserializer(T, j, [i \in ObjectAccess(T, j) |-> Deserialize4(PartType(T, i), Get(j, i))])

Deserialize(T, j) ==
    Deserializer(T, j, [i \in ObjectAccess(T, j) |-> Deserialize5(PartType(T, i), Get(j, i))])

-----------------------------------------------------------------------------
(* Flat vectors.  A field element has FlattenedSize bytes; here a byte is   *)
(* one bit and an element is a number below 2^FlattenedSize.                *)

FlattenedSize == 2

Element == 0..3

Flatten(x) == <<x % 2, x \div 2>>

Unflatten(bytes) == bytes[1] + 2 * bytes[2]

\* The bytes of the elements one after the other.
IntoAbi(v) ==
    [n \in 1..(FlattenedSize * Len(v)) |->
        Flatten(v[((n - 1) \div FlattenedSize) + 1])[((n - 1) % FlattenedSize) + 1]]

\* The bytes are collected into a buffer that is emptied when it is full, so that
\* element i is made of the i-th group; bytes that are left over are a failed
\* assertion, here <<>>.
FromAbi(data) ==
    IF Len(data) % FlattenedSize # 0 THEN <<>>
    ELSE << [i \in 1..(Len(data) \div FlattenedSize) |->
                Unflatten([b \in 1..FlattenedSize |-> data[FlattenedSize * (i - 1) + b]])] >>
=============================================================================
