------------------------- MODULE MCPlonkConversions -------------------------
(***************************************************************************)
(* All circuits over the optional gates, and small proofs and values.       *)
(***************************************************************************)
EXTENDS PlonkConversions

AllGates == OptionalGates \cup {"lookup"}

\* Runtime tables come with lookups only.
MCCircuits ==
    {c \in [gates : SUBSET AllGates, runtime : BOOLEAN, zk_rows : {3, 5}] :
        c.runtime => LookupPatterns(c.gates) # NoPatterns}

P1 == [x |-> 1, y |-> 2, infinity |-> FALSE]

Infinite == [x |-> 0, y |-> 1, infinity |-> TRUE]

MCOpenings == UNION {[1..n -> {<<P1, P1>>, <<P1, Infinite>>}] : n \in 0..1} \cup {<<<<P1, P1>>, <<P1, Infinite>>>>}

MCPublics == UNION {[1..n -> {0, 2, 3}] : n \in 0..2}

Points == {<< <<<<0>>>>, <<<<1>>>> >>, << <<<<0>>, <<1>>>>, <<<<1>>, <<0>>>> >>}

Optional == {<<>>} \cup {<<p>> : p \in Points}

MCEvals ==
    {<<<<p, q>>, q, <<o, r>>, o>> : p, q \in Points, o, r \in Optional}

\* Challenges of every earlier proof: the same number for each, possibly none.
MCPrevs ==
    UNION {[1..n -> [chals : [1..m -> {1, 2}], comm : {<<P1>>}]] :
              n \in 0..2, m \in 0..2}

T(k) == [k |-> k]

Option(t) == [k |-> "option", of |-> t]

SeqType(t) == [k |-> "seq", of |-> t]

Struct(ts) == [k |-> "struct", fields |-> ts]

\* The values of a type: of atoms a few, of composites all over at most two parts.
RECURSIVE Values(_)
Values(t) ==
    CASE t.k = "bool" -> BOOLEAN
      [] t.k = "i32" -> {-1, 0, 1}
      [] t.k = "char" -> {65, 255, 256, 1000}
      [] t.k \in {"unit", "u64"} -> {0}
      [] t.k = "bytes" -> {<<>>, <<0>>, <<0, 255>>}
      [] t.k = "option" -> {<<>>} \cup {<<x>> : x \in Values(t.of)}
      [] t.k = "seq" -> {<<>>} \cup {<<x>> : x \in Values(t.of)}
                          \cup {<<x, y>> : x, y \in Values(t.of)}
      [] t.k = "struct" -> {<<x, y>> : x \in Values(t.fields[1]), y \in Values(t.fields[2])}
      [] OTHER -> {"text"}

\* The closed forms against the loops of the code: bytes pushed to a buffer, vectors
\* appended to one another.
FromAbiLoop(data) ==
    LET Push(acc, x) ==
            LET buf == Append(acc.buf, x)
            IN  IF Len(buf) >= FlattenedSize
                THEN [res |-> Append(acc.res, Unflatten(buf)), buf |-> <<>>]
                ELSE [acc EXCEPT !.buf = buf]
        end == FoldLeft(Push, [res |-> <<>>, buf |-> <<>>], data)
    IN  IF end.buf = <<>> THEN <<end.res>> ELSE <<>>

ASSUME ClosedFormsAreTheLoops ==
    /\ \A n \in 0..5 : \A data \in [1..n -> 0..1] : FromAbi(data) = FromAbiLoop(data)
    /\ \A n \in 0..3 : \A v \in [1..n -> Element] :
         IntoAbi(v) = FoldLeft(LAMBDA data, x : data \o Flatten(x), <<>>, v)
    /\ \A prev \in MCPrevs :
         AllChallenges(prev) = FlattenSeq([i \in DOMAIN prev |-> prev[i].chals])

Atoms == {T(k) : k \in {"bool", "i32", "unit", "bytes", "u64", "string"}}

Level1 == Atoms \cup {Option(t) : t \in Atoms} \cup {SeqType(t) : t \in Atoms}

Types ==
    {T("char")} \cup Level1
      \cup {Option(t) : t \in Level1} \cup {SeqType(t) : t \in {Option(T("bool")), SeqType(T("i32"))}}
      \cup {SeqType(T("char")), Struct(<<Option(T("char")), SeqType(T("u64"))>>)}
      \cup {Struct(<<a, b>>) : a, b \in {Option(T("i32")), SeqType(T("bool")), T("u64"),
                                         Option(Option(T("unit")))}}

MCInts == {-3, 0, 5}

\* Small fields, whose orders leave some room below 2^Bits, as the real ones do.
MCOrder == [f \in Fields |-> IF f = "fp" THEN 11 ELSE 13]

MCSerdes == UNION {{[type |-> t, value |-> x] : x \in Values(t)} : t \in Types}
=============================================================================
