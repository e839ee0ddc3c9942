--------------------------- MODULE PlonkConversions ---------------------------
(***************************************************************************)
(* The representations of verification keys and proofs in the two builds of *)
(* the Kimchi bindings, native (OCaml records) and wasm (objects that       *)
(* JavaScript reads through getters and makes through constructors), and    *)
(* the operations that carry them from one representation to another:       *)
(* creation, files, JSON, deep copies, and taking an object apart and       *)
(* putting it together again, which is what js_of_ocaml code does.          *)
(*                                                                          *)
(* The Rust side needs more than the representations hold: what it derives  *)
(* again when a value comes back is where meaning can be lost.              *)
(***************************************************************************)
EXTENDS OcamlSerde, PastaNumbers

CONSTANTS
    Circuits,     \* the circuits to consider
    Openings,     \* the opening proofs: sequences of pairs of points
    Publics,      \* public inputs (and challenges): sequences of field elements
    Evals,        \* evaluations of a proof: values of ProofEvaluations
    Prevs,        \* recursion challenges: sequences of [chals, comm]
    Serdes,       \* pairs of a type and a value of it, for the serde format
    MaxSteps      \* bound on the operations on one object

VARIABLES
    circuit,    \* the circuit the key was made for, or NoKey
    key,        \* the verification key the program holds, or NoKey
    text,       \* a key in a file or in JSON, or NoKey
    proof,      \* the proof the program holds (wasm), or NoKey
    sent,       \* auxiliary: what the prover was given and what it returned
    crossing,   \* auxiliary: a value, and what is left of it after a round trip
    steps       \* operations so far

vars == <<platform, number, circuit, key, text, proof, sent, crossing, steps>>

NoKey == [none |-> TRUE]

PERMUTS == 7

ASSUME StepsAssumption == MaxSteps \in Nat

-----------------------------------------------------------------------------
(* What the prover library makes of a circuit (external).                   *)

OptionalGates == {"xor", "range_check0", "range_check1", "foreign_field_add",
                  "foreign_field_mul", "rot"}

LookupPatterns(gates) ==
    [xor |-> "xor" \in gates, lookup |-> "lookup" \in gates,
     range_check |-> gates \cap {"range_check0", "range_check1", "rot"} # {},
     foreign_field_mul |-> "foreign_field_mul" \in gates]

NoPatterns == [xor |-> FALSE, lookup |-> FALSE, range_check |-> FALSE,
               foreign_field_mul |-> FALSE]

joint_lookups_used(patterns) == patterns.xor \/ patterns.lookup

Features(patterns, runtime) ==
    [patterns |-> patterns, joint_lookup_used |-> joint_lookups_used(patterns),
     uses_runtime_tables |-> runtime]

\* Runtime tables come with lookups only.
ASSUME CircuitsAssumption ==
    \A c \in Circuits :
      /\ c = [gates |-> c.gates, runtime |-> c.runtime, zk_rows |-> c.zk_rows]
      /\ c.gates \subseteq OptionalGates \cup {"lookup"}
      /\ c.runtime \in BOOLEAN
      /\ c.runtime => LookupPatterns(c.gates) # NoPatterns
      /\ c.zk_rows \in Nat

\* The constraints that the verifier evaluates depend on the gates and features.
expr_linearization(gates, features) == [gates |-> gates, lookup |-> features]

VerifierIndex(c) ==
    LET patterns == LookupPatterns(c.gates)
        features == Features(patterns, c.runtime)
    IN  [comms |-> [g \in OptionalGates |-> g \in c.gates],
         shift |-> [n \in 1..PERMUTS |-> n],
         zk_rows |-> c.zk_rows, w |-> c.zk_rows, vanishing |-> c.zk_rows,
         lookup_index |->
            IF patterns = NoPatterns THEN <<>>
            ELSE <<[joint_lookup_used |-> features.joint_lookup_used,
                    lookup_selectors |->
                       [xor |-> patterns.xor, lookup |-> patterns.lookup,
                        range_check |-> patterns.range_check,
                        ffmul |-> patterns.foreign_field_mul],
                    features |-> features, runtime_tables_selector |-> c.runtime]>>,
         linearization |-> expr_linearization(c.gates \ {"lookup"}, features)]

\* A file or a JSON text has the fields that serde does not skip.
Persisted(vi) ==
    [comms |-> vi.comms, shift |-> vi.shift, zk_rows |-> vi.zk_rows,
     lookup_index |-> vi.lookup_index]

-----------------------------------------------------------------------------
(* Keys in the native build.                                                *)

CamlLookupSelectors(s) ==
    [lookup |-> s.lookup, xor |-> s.xor, range_check |-> s.range_check, ffmul |-> s.ffmul]

CamlLookupVerifierIndex(li) ==
    [joint_lookup_used |-> li.joint_lookup_used,
     lookup_selectors |-> CamlLookupSelectors(li.lookup_selectors),
     lookup_info |-> [features |-> li.features],
     runtime_tables_selector |-> li.runtime_tables_selector]

LookupVerifierIndexOfCaml(li) ==
    [joint_lookup_used |-> li.joint_lookup_used,
     lookup_selectors |-> CamlLookupSelectors(li.lookup_selectors),
     features |-> li.lookup_info.features,
     runtime_tables_selector |-> li.runtime_tables_selector]

OptionMap(F(_), x) == IF x = <<>> THEN <<>> ELSE <<F(x[1])>>

ToCaml(vi) ==
    [evals |-> vi.comms, shifts |-> vi.shift, zk_rows |-> vi.zk_rows,
     lookup_index |-> OptionMap(CamlLookupVerifierIndex, vi.lookup_index)]

\* The features of the lookups are the ones kept with the lookup index, and none
\* without it.
FeatureFlagsOfCaml(k) ==
    IF k.lookup_index = <<>> THEN Features(NoPatterns, FALSE)
    ELSE k.lookup_index[1].lookup_info.features

\* Vectors are converted to arrays of their expected size, or panic: NoKey.
OfCaml(k) ==
    IF Len(k.shifts) # PERMUTS THEN NoKey
    ELSE [comms |-> k.evals, shift |-> k.shifts,
          zk_rows |-> k.zk_rows, w |-> k.zk_rows, vanishing |-> k.zk_rows,
          lookup_index |-> OptionMap(LookupVerifierIndexOfCaml, k.lookup_index),
          linearization |->
             expr_linearization({g \in OptionalGates : k.evals[g]}, FeatureFlagsOfCaml(k))]

\* The dummy key has one shift too few.
DummyCaml ==
    [evals |-> [g \in OptionalGates |-> FALSE], shifts |-> [n \in 1..(PERMUTS - 1) |-> 1],
     zk_rows |-> 3, lookup_index |-> <<>>]

-----------------------------------------------------------------------------
(* Keys in the wasm build.                                                  *)

WasmLookupSelectors(s) ==
    [xor |-> s.xor, lookup |-> s.lookup, range_check |-> s.range_check, ffmul |-> s.ffmul]

WasmLookupVerifierIndex(li) ==
    [joint_lookup_used |-> li.joint_lookup_used,
     lookup_selectors |-> WasmLookupSelectors(li.lookup_selectors),
     lookup_info |-> [features |-> li.features],
     runtime_tables_selector |-> li.runtime_tables_selector]

LookupVerifierIndexOfWasm(li) ==
    [joint_lookup_used |-> li.joint_lookup_used,
     lookup_selectors |-> WasmLookupSelectors(li.lookup_selectors),
     features |-> li.lookup_info.features,
     runtime_tables_selector |-> li.runtime_tables_selector]

WasmShifts(shift) == [s0 |-> shift[1], s1 |-> shift[2], s2 |-> shift[3], s3 |-> shift[4],
                      s4 |-> shift[5], s5 |-> shift[6], s6 |-> shift[7]]

ShiftsOfWasm(s) == <<s.s0, s.s1, s.s2, s.s3, s.s4, s.s5, s.s6>>

to_wasm(vi) ==
    [evals |-> vi.comms, shifts |-> WasmShifts(vi.shift), zk_rows |-> vi.zk_rows,
     lookup_index |-> OptionMap(WasmLookupVerifierIndex, vi.lookup_index)]

\* Faulty: rotations are not counted among the range checks.
FaultyFeatureFlags(k) ==
    LET patterns == [xor |-> k.evals["xor"],
                     lookup |-> k.lookup_index # <<>>
                                  /\ k.lookup_index[1].lookup_info.features.patterns.lookup,
                     range_check |-> k.evals["range_check0"] \/ k.evals["range_check1"],
                     foreign_field_mul |-> k.evals["foreign_field_mul"]]
    IN  Features(patterns, FALSE)

\* The features are inferred from the commitments, except for the lookup gate,
\* which has none; runtime tables are taken to be absent.
compute_feature_flags(k) ==
    LET patterns == [xor |-> k.evals["xor"],
                     lookup |-> k.lookup_index # <<>>
                                  /\ k.lookup_index[1].lookup_info.features.patterns.lookup,
                     range_check |-> k.evals["range_check0"] \/ k.evals["range_check1"]
                                       \/ k.evals["rot"],
                     foreign_field_mul |-> k.evals["foreign_field_mul"]]
    IN  Features(patterns, FALSE)

\* The permutation uses 3 zero-knowledge rows whatever the key says.
of_wasm(k) ==
    [comms |-> k.evals, shift |-> ShiftsOfWasm(k.shifts),
     zk_rows |-> k.zk_rows, w |-> 3, vanishing |-> 3,
     lookup_index |-> OptionMap(LookupVerifierIndexOfWasm, k.lookup_index),
     linearization |->
        expr_linearization({g \in OptionalGates : k.evals[g]}, compute_feature_flags(k))]

DummyWasm ==
    [evals |-> [g \in OptionalGates |-> FALSE], shifts |-> WasmShifts([n \in 1..PERMUTS |-> 1]),
     zk_rows |-> 3, lookup_index |-> <<>>]

\* JavaScript reads every part with its getter and passes it to a constructor.
RebuiltEvals(e) == [g \in OptionalGates |-> e[g]]

RebuiltLookup(li) ==
    [joint_lookup_used |-> li.joint_lookup_used,
     lookup_selectors |-> WasmLookupSelectors(li.lookup_selectors),
     lookup_info |-> li.lookup_info, runtime_tables_selector |-> li.runtime_tables_selector]

Rebuilt(k) ==
    [evals |-> RebuiltEvals(k.evals), shifts |-> WasmShifts(ShiftsOfWasm(k.shifts)),
     zk_rows |-> k.zk_rows, lookup_index |-> OptionMap(RebuiltLookup, k.lookup_index)]

-----------------------------------------------------------------------------
(* Proofs in the wasm build.                                                *)

\* The types of the evaluations: two points per polynomial, several chunks each.  Of the
\* fields of one type there is one here: w, z, lookup_sorted and lookup_table.
PointEvaluations ==
    LET chunks == [k |-> "seq", of |-> [k |-> "bytes"]]
    IN  [k |-> "struct", fields |-> <<chunks, chunks>>]

ProofEvaluations ==
    [k |-> "struct",
     fields |-> <<[k |-> "seq", of |-> PointEvaluations], PointEvaluations,
                  [k |-> "seq", of |-> [k |-> "option", of |-> PointEvaluations]],
                  [k |-> "option", of |-> PointEvaluations]>>]

\* Every earlier proof has one commitment of one point and as many challenges as the
\* others, which is the number of rounds of the opening.
ASSUME ProofsAssumption ==
    /\ \A lr \in Openings : /\ IsSeq(lr)
                             /\ \A i \in DOMAIN lr : lr[i] = <<lr[i][1], lr[i][2]>>
    /\ Publics \subseteq Seq(Element)
    /\ \A e \in Evals : HasType(ProofEvaluations, e)
    /\ \A prev \in Prevs :
         /\ IsSeq(prev)
         /\ \A i \in DOMAIN prev :
              /\ prev[i] = [chals |-> prev[i].chals, comm |-> <<prev[i].comm[1]>>]
              /\ prev[i].chals \in Seq(Element)
              /\ Len(prev[i].chals) = Len(prev[1].chals)

ASSUME SerdesAssumption == \A s \in Serdes : HasType(s.type, s.value)

\* Faulty: the groups start one after the other instead of one group apart.
FaultyRecursionChallenges(challenges, sgs) ==
    IF challenges = <<>> THEN <<>>
    ELSE LET per_sg == Len(challenges) \div Len(sgs)
         IN  [i \in DOMAIN sgs |->
                [chals |-> SubSeq(challenges, i, i - 1 + per_sg),
                 comm |-> <<sgs[i]>>]]

\* The challenges arrive in one vector and are divided among the commitments, which
\* are dropped if there is no challenge.
RecursionChallenges(challenges, sgs) ==
    IF challenges = <<>> THEN <<>>
    ELSE LET per_sg == Len(challenges) \div Len(sgs)
         IN  [i \in DOMAIN sgs |->
                [chals |-> SubSeq(challenges, (i - 1) * per_sg + 1, i * per_sg),
                 comm |-> <<sgs[i]>>]]

\* The vector that the caller passes: the challenges of the proofs one after the
\* other, as many for each.
AllChallenges(prev) ==
    IF prev = <<>> THEN <<>>
    ELSE LET rounds == Len(prev[1].chals)
         IN  [n \in 1..(rounds * Len(prev)) |->
                prev[((n - 1) \div rounds) + 1].chals[((n - 1) % rounds) + 1]]

\* A commitment in wasm is the vector of its points and no shifted point.
WasmPolyComm(elems) == [unshifted |-> elems, shifted |-> <<>>]

\* unzip, and zip, which stops at the shorter of the two.
Unzip(s) == [left |-> [i \in DOMAIN s |-> s[i][1]], right |-> [i \in DOMAIN s |-> s[i][2]]]

ZipShortest(a, b) == [i \in 1..(IF Len(a) < Len(b) THEN Len(a) ELSE Len(b)) |-> <<a[i], b[i]>>]

WasmOpeningProof(lr) == [lr_0 |-> Unzip(lr).left, lr_1 |-> Unzip(lr).right]

OpeningProofOfWasm(p) == ZipShortest(p.lr_0, p.lr_1)

WasmProverProof(p, public) ==
    [proof |-> WasmOpeningProof(p.lr), evals |-> p.evals, public |-> public,
     prev_challenges_scalars |-> [i \in DOMAIN p.prev |-> p.prev[i].chals],
     prev_challenges_comms |-> [i \in DOMAIN p.prev |-> WasmPolyComm(p.prev[i].comm)]]

ProverProofOfWasm(w) ==
    [lr |-> OpeningProofOfWasm(w.proof), evals |-> w.evals,
     prev |-> LET pairs == ZipShortest(w.prev_challenges_scalars, w.prev_challenges_comms)
              IN  [i \in DOMAIN pairs |->
                     [chals |-> pairs[i][1], comm |-> pairs[i][2].unshifted]]]

\* What JavaScript holds once it has read the parts: the evaluations in the serde
\* format, vectors of field elements as bytes, vectors of objects as they are.
Exposed(w) ==
    [proof |-> w.proof, evals |-> Serialize(ProofEvaluations, w.evals),
     public |-> IntoAbi(w.public),
     prev_challenges_scalars |->
        [i \in DOMAIN w.prev_challenges_scalars |-> IntoAbi(w.prev_challenges_scalars[i])],
     prev_challenges_comms |-> w.prev_challenges_comms]

\* The constructor that the parts are passed to.
Constructed(j) ==
    [proof |-> j.proof, evals |-> Deserialize(ProofEvaluations, j.evals)[1],
     public |-> FromAbi(j.public)[1],
     prev_challenges_scalars |->
        [i \in DOMAIN j.prev_challenges_scalars |-> FromAbi(j.prev_challenges_scalars[i])[1]],
     prev_challenges_comms |-> j.prev_challenges_comms]

-----------------------------------------------------------------------------
(* The program.                                                             *)

Init ==
    /\ platform \in {"native", "wasm"}
    /\ circuit = NoKey /\ key = NoKey /\ text = NoKey /\ proof = NoKey /\ sent = NoKey /\ crossing = NoKey
    /\ number = NoNumber /\ steps = 0

Step == steps < MaxSteps /\ steps' = steps + 1

\* A behaviour follows one object: nothing was made yet.
Fresh == <<circuit, key, text, proof, sent, crossing>> = [n \in 1..6 |-> NoKey] /\ number = NoNumber

ToHost(vi) == IF platform = "native" THEN ToCaml(vi) ELSE to_wasm(vi)

OfHost(k) == IF platform = "native" THEN OfCaml(k) ELSE of_wasm(k)

\* A key or what a file holds of one; `dummy' is auxiliary.
Key(dummy, value) == [dummy |-> dummy, value |-> value]

\* verifier_index_create.  Only the native build makes circuits with more than
\* three zero-knowledge rows.
Create(c) ==
    /\ Step
    /\ platform = "wasm" => c.zk_rows = 3
    /\ circuit' = c
    /\ key' = Key(FALSE, ToHost(VerifierIndex(c)))
    /\ UNCHANGED <<platform, number, text, proof, sent, crossing>>

Dummy ==
    /\ Step
    /\ key' = Key(TRUE, IF platform = "native" THEN DummyCaml ELSE DummyWasm)
    /\ UNCHANGED <<platform, number, circuit, text, proof, sent, crossing>>

\* Writing converts the key to the library's; a panic writes nothing.
Write(format) ==
    /\ Step /\ key # NoKey
    /\ format = "json" => platform = "wasm"
    /\ LET vi == OfHost(key.value)
       IN  text' = IF vi = NoKey THEN text ELSE Key(key.dummy, Persisted(vi))
    /\ UNCHANGED <<platform, number, circuit, key, proof, sent, crossing>>

\* A file that a native program wrote.
Receive(c) ==
    /\ Step /\ platform = "wasm"
    /\ circuit' = c
    /\ text' = Key(FALSE, Persisted(VerifierIndex(c)))
    /\ UNCHANGED <<platform, number, key, proof, sent, crossing>>

Read ==
    /\ Step /\ text # NoKey
    /\ key' = Key(text.dummy, ToHost(text.value))
    /\ UNCHANGED <<platform, number, circuit, text, proof, sent, crossing>>

Rebuild ==
    /\ Step /\ platform = "wasm" /\ key # NoKey
    /\ key' = Key(key.dummy, Rebuilt(key.value))
    /\ UNCHANGED <<platform, number, circuit, text, proof, sent, crossing>>

\* proof_create: the challenges of the earlier proofs are passed as one vector.
CreateProof(lr, public, evals, prev) ==
    /\ Step /\ platform = "wasm"
    /\ LET challenges == AllChallenges(prev)
           sgs == [i \in DOMAIN prev |-> prev[i].comm[1]]
           made == [lr |-> lr, evals |-> evals,
                    prev |-> RecursionChallenges(FromAbi(IntoAbi(challenges))[1], sgs)]
       IN  proof' = WasmProverProof(made, public)
    /\ sent' = [proof |-> [lr |-> lr, evals |-> evals, prev |-> prev], public |-> public]
    /\ UNCHANGED <<platform, number, circuit, key, text, crossing>>

\* Challenges without a commitment to divide them among: the call panics and does not
\* return.
CreateProofPanics(challenges) ==
    /\ Step /\ platform = "wasm"
    /\ challenges # <<>>
    /\ sent' = [challenges |-> challenges]
    /\ UNCHANGED <<platform, number, circuit, key, text, proof, crossing>>

RebuildProof ==
    /\ Step /\ proof # NoKey
    /\ proof' = Constructed(Exposed(proof))
    /\ UNCHANGED <<platform, number, circuit, key, text, sent, crossing>>

\* Some other value is given to OCaml and taken back.
CrossValue(s) ==
    /\ Step /\ platform = "wasm"
    /\ LET js == Serialize(s.type, s.value)
       IN  crossing' = [type |-> s.type, value |-> s.value,
                        back |-> IF js = Failed THEN <<>> ELSE Deserialize(s.type, js)]
    /\ UNCHANGED <<platform, number, circuit, key, text, proof, sent>>

\* A number is converted and computed with.
NumberStep ==
    /\ steps = 0
    /\ NumberOperation
    /\ UNCHANGED <<circuit, key, text, proof, sent, crossing, steps>>

\* What starts a behaviour.
Begin ==
    /\ Fresh
    /\ \/ \E c \in Circuits : Create(c) \/ Receive(c)
       \/ Dummy
       \/ \E lr \in Openings, public \in Publics, evals \in Evals, prev \in Prevs :
            CreateProof(lr, public, evals, prev)
       \/ \E challenges \in Publics : CreateProofPanics(challenges)
       \/ \E s \in Serdes : CrossValue(s)

Next ==
    \/ Begin \/ NumberStep
    \/ Read \/ Rebuild \/ RebuildProof
    \/ \E format \in {"file", "json"} : Write(format)

Spec == Init /\ [][Next]_vars

-----------------------------------------------------------------------------
(* Properties                                                               *)

\* A key that comes back, however often it was written, read and rebuilt, stands for
\* the circuit it was made for: the verifier derives from it the constraints and the
\* permutation of the prover's index.  The wasm build derives others exactly for the
\* circuits with runtime tables and for those with other than 3 zero-knowledge rows,
\* and only the native dummy cannot be converted at all.
KeysKeepTheirMeaning ==
    key # NoKey =>
      IF key.dummy THEN OfHost(key.value) = NoKey <=> platform = "native"
      ELSE OfHost(key.value) = VerifierIndex(circuit)
             <=> platform = "native" \/ (~circuit.runtime /\ circuit.zk_rows = 3)

\* What a caller sent of earlier proofs, without commitments that have no challenges.
Effective(prev) == IF \A i \in DOMAIN prev : prev[i].chals = <<>> THEN <<>> ELSE prev

\* The proof that the verifier is given is the one the prover returned, made for the
\* recursion challenges of the caller, and so is the public input, although vectors
\* of pairs are kept as pairs of vectors and the parts cross as arrays and bytes.  The
\* commitments of earlier proofs are lost exactly when none has a challenge.
ProofsSurviveTheBoundary ==
    proof # NoKey =>
      /\ ProverProofOfWasm(proof) = [sent.proof EXCEPT !.prev = Effective(@)]
      /\ proof.public = sent.public

\* A value of whatever nesting of options, sequences and structures is the same after
\* a round trip (an empty option inside a full one is not confused with an empty one),
\* unless a character in it is above 255 and becomes 255; a value with something of an
\* unsupported type in it is refused, and never turned into something else.
ValuesSurviveTheFormat ==
    crossing # NoKey =>
      LET carried == Carried(crossing.type, crossing.value)
      IN  /\ crossing.back = <<>> <=> ~carried
          /\ crossing.back = <<crossing.value>>
               <=> carried /\ Narrow(crossing.type, crossing.value)
=============================================================================
