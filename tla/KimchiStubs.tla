----------------------------- MODULE KimchiStubs -----------------------------
(***************************************************************************)
(* The native bindings of the Kimchi prover (kimchi_bindings/stubs): the    *)
(* Rust objects that an OCaml program reaches through custom blocks, who    *)
(* owns them, what is shared between them, and what happens to them while a *)
(* proof is computed with the OCaml runtime lock released.                  *)
(*                                                                          *)
(* An SRS is an Arc that prover and verifier indexes share; its cache of    *)
(* Lagrange bases is mutated through a shared reference.  Field vectors     *)
(* and gate vectors are mutable and are copied where they are used.         *)
(*                                                                          *)
(* The Fp and the Fq half of the bindings are the same program twice; a     *)
(* behaviour exercises one of them, chosen by `curve'.                      *)
(***************************************************************************)
EXTENDS Naturals, Sequences, FiniteSets

CONSTANTS
    Threads,      \* OCaml system threads
    Srs,          \* places for an SRS
    Vectors,      \* places for a field vector
    Indexes,      \* places for a prover index
    Keys,         \* verifier indexes the program holds
    Elems,        \* field elements
    Nothing,      \* marks an object that does not exist
    MaxLen,       \* bound on the length of a vector
    MaxRows,      \* bound on the number of gates
    WrapRows,     \* rows whose wires are redirected
    Publics,      \* numbers of public inputs
    MaxFile,      \* bound on the number of objects in the key file
    MaxProofs     \* bound on the proofs the program keeps

ASSUME BoundsAssumption ==
    /\ MaxLen \in Nat /\ MaxRows \in Nat /\ MaxFile \in Nat /\ MaxProofs \in Nat
    /\ WrapRows \subseteq Nat /\ Publics \subseteq Nat

\* The holders of an SRS are told apart by their names.
ASSUME HoldersAssumption ==
    /\ IsFiniteSet(Indexes) /\ IsFiniteSet(Keys)
    /\ Indexes \cap Keys = {} /\ "block" \notin Indexes \cup Keys

VARIABLES
    curve,    \* which half of the bindings is in use
    srs,      \* srs[s]: status, Arc strong count and cached Lagrange bases
    vec,      \* vec[v]: the field vector behind an Rc, or Nothing
    gates,    \* the gate vector under construction
    index,    \* index[i]: the boxed prover index, or Nothing
    key,      \* key[k]: a verifier index, an OCaml record, or Nothing
    job,      \* job[t]: the proof that thread t is computing, or Nothing
    proofs,   \* proofs handed back to the program
    file      \* the key file: the objects appended to it

vars == <<curve, srs, vec, gates, index, key, job, proofs, file>>

-----------------------------------------------------------------------------
(* Circuits.  A gate is 0 when it is added and 1 once a wire of it has been *)
(* redirected; a circuit is the copy of the gates that an index keeps.      *)

Circuits == UNION {[1..n -> {0, 1}] : n \in 0..MaxRows}

\* The evaluation domain is the smallest that holds the rows: here its log2.
DomainOf(c) == IF Len(c) <= 1 THEN 1 ELSE 2

Domains == {1, 2}

\* What a prover index keeps: its own copy of the gates, shared hold on an SRS.
\* `from' is auxiliary: the circuit as it was when the index was created.
MakeIndex(c, public, s, from) ==
    [gates |-> c, public |-> public, domain |-> DomainOf(c), srs |-> s, from |-> from]

-----------------------------------------------------------------------------
(* The objects.                                                             *)

Gates == Seq({0, 1})

ProverIndex ==
    [gates : Gates, public : Nat, domain : Domains, srs : Srs, from : Gates \X Nat]

VerifierIndex ==
    [gates : Gates, public : Nat, domain : Domains, srs : Srs, from : Gates \X Nat,
     made : BOOLEAN]

Job ==
    [index : Indexes, vector : Vectors, public_input : Seq(Elems), asked : Seq(Elems),
     verify : BOOLEAN, raced : BOOLEAN]

Proof ==
    [gates : Gates, public_input : Seq(Elems), from : Gates \X Nat, asked : Seq(Elems),
     raced : BOOLEAN]

Written ==
    [kind : {"srs", "torn"}]
      \cup [kind : {"index", "key"}, gates : Gates, public : Nat, from : Gates \X Nat]

ASSUME NothingAssumption ==
    Nothing \notin ProverIndex \cup VerifierIndex \cup Job \cup Seq(Elems)

-----------------------------------------------------------------------------
(* Ownership of an SRS: every OCaml block and every index holds an Arc.     *)

NoSrs == [status |-> "freed", count |-> 0, bases |-> {}, block |-> FALSE]

Live(s) == srs[s].status = "live"

\* Faulty: the last holder does not free the SRS.
FaultyDropArc(r) == [r EXCEPT !.count = @ - 1]

\* The last holder frees the SRS together with its bases.
DropArc(r) ==
    IF r.count = 1 THEN [r EXCEPT !.status = "freed", !.count = 0, !.bases = {}]
                   ELSE [r EXCEPT !.count = @ - 1]

CloneArc(r) == [r EXCEPT !.count = @ + 1]

\* SRS::add_lagrange_basis: the basis is computed unless it is cached.
AddLagrangeBasis(r, d) == [r EXCEPT !.bases = @ \cup {d}]

\* Verification: the length of the public input is compared first; then the basis
\* of the key's domain is looked up in the SRS of the key, and a missing one is a
\* panic (nothing adds it here); then the proof is checked against the circuit.
Verify(k, p) ==
    IF k.public # Len(p.public_input) THEN "rejects"
    ELSE IF k.domain \notin srs[k.srs].bases THEN "panics"
    ELSE IF k.gates = p.gates THEN "accepts" ELSE "rejects"

\* A proof in progress reads the cache of its SRS; an insertion at that time
\* is a data race, whose effect on the reader is not defined.
Reading(t, s) == job[t] # Nothing /\ index[job[t].index].srs = s

MarkRaces(s, d) ==
    job' = [t \in Threads |->
              IF Reading(t, s) /\ d \notin srs[s].bases
              THEN [job[t] EXCEPT !.raced = TRUE]
              ELSE job[t]]

Idle(t) == job[t] = Nothing

\* The bound on the proofs the program keeps and is waiting for.
Room == Cardinality(proofs) + Cardinality({t \in Threads : ~Idle(t)}) < MaxProofs

-----------------------------------------------------------------------------
Init ==
    /\ curve \in {"fp", "fq"}
    /\ srs = [s \in Srs |-> NoSrs]
    /\ vec = [v \in Vectors |-> Nothing]
    /\ gates = <<>>
    /\ index = [i \in Indexes |-> Nothing]
    /\ key = [k \in Keys |-> Nothing]
    /\ job = [t \in Threads |-> Nothing]
    /\ proofs = {}
    /\ file = <<>>

(* ------------------------------------------------------------------ SRS *)

\* A fresh SRS with an empty cache, in a block of its own.
SrsCreate(s) ==
    /\ ~Live(s)
    /\ srs' = [srs EXCEPT ![s] = [status |-> "live", count |-> 1,
                                  bases |-> {}, block |-> TRUE]]
    /\ UNCHANGED <<curve, vec, gates, index, key, job, proofs, file>>

\* The points are appended to a file that exists; the bases are not written.
SrsWrite(s) ==
    /\ Live(s) /\ srs[s].block /\ Len(file) < MaxFile
    /\ file' = Append(file, [kind |-> "srs"])
    /\ UNCHANGED <<curve, srs, vec, gates, index, key, job, proofs>>

\* What is read is another SRS, with an empty cache; if the file does not hold one at
\* the offset, nothing is returned.
SrsRead(s, n) ==
    /\ ~Live(s) /\ n \in DOMAIN file /\ file[n].kind = "srs"
    /\ srs' = [srs EXCEPT ![s] = [status |-> "live", count |-> 1,
                                  bases |-> {}, block |-> TRUE]]
    /\ UNCHANGED <<curve, vec, gates, index, key, job, proofs, file>>

\* The program adds a basis in advance, or asks for one of its commitments.
SrsAddLagrangeBasis(s, d) ==
    /\ Live(s) /\ srs[s].block
    /\ srs' = [srs EXCEPT ![s] = AddLagrangeBasis(@, d)]
    /\ MarkRaces(s, d)
    /\ UNCHANGED <<curve, vec, gates, index, key, proofs, file>>

\* lagrange_commitment rounds the size it is given up to a domain, caches the
\* basis under the size of the domain, and reads the commitment there.
SrsLagrangeCommitment(s, size) ==
    /\ Live(s) /\ srs[s].block
    /\ LET d == DomainOf([j \in 1..size |-> 0])
       IN  /\ srs' = [srs EXCEPT ![s] = AddLagrangeBasis(@, d)]
           /\ MarkRaces(s, d)
    /\ UNCHANGED <<curve, vec, gates, index, key, proofs, file>>

\* The collector finalizes the block of an SRS the program has forgotten.
SrsFinalize(s) ==
    /\ Live(s) /\ srs[s].block
    /\ srs' = [srs EXCEPT ![s] = [DropArc(@) EXCEPT !.block = FALSE]]
    /\ UNCHANGED <<curve, vec, gates, index, key, job, proofs, file>>

(* -------------------------------------------------- vectors and circuits *)

VectorCreate(v) ==
    /\ vec[v] = Nothing
    /\ vec' = [vec EXCEPT ![v] = <<>>]
    /\ UNCHANGED <<curve, srs, gates, index, key, job, proofs, file>>

VectorEmplaceBack(v, x) ==
    /\ vec[v] # Nothing /\ Len(vec[v]) < MaxLen
    /\ vec' = [vec EXCEPT ![v] = Append(@, x)]
    /\ UNCHANGED <<curve, srs, gates, index, key, job, proofs, file>>

\* An index outside the vector is an Invalid_argument and changes nothing.
VectorSet(v, n, x) ==
    /\ vec[v] # Nothing /\ n \in DOMAIN vec[v]
    /\ vec' = [vec EXCEPT ![v][n] = x]
    /\ UNCHANGED <<curve, srs, gates, index, key, job, proofs, file>>

\* A call in progress holds clones of the Rc of its witness only until the
\* contents are copied, so a finalized vector is gone.
VectorFinalize(v) ==
    /\ vec[v] # Nothing
    /\ vec' = [vec EXCEPT ![v] = Nothing]
    /\ UNCHANGED <<curve, srs, gates, index, key, job, proofs, file>>

GateVectorAdd ==
    /\ Len(gates) < MaxRows
    /\ gates' = Append(gates, 0)
    /\ UNCHANGED <<curve, srs, vec, index, key, job, proofs, file>>

GateVectorWrap(row) ==
    /\ row \in DOMAIN gates
    /\ gates' = [gates EXCEPT ![row] = 1]
    /\ UNCHANGED <<curve, srs, vec, index, key, job, proofs, file>>

\* The old gate vector is dropped and a new one is created.
GateVectorCreate ==
    /\ gates # <<>>
    /\ gates' = <<>>
    /\ UNCHANGED <<curve, srs, vec, index, key, job, proofs, file>>

(* --------------------------------------------------------- prover indexes *)

\* The gates are copied, the basis of the circuit's domain is cached in the
\* SRS, and the index holds a clone of the SRS.
IndexCreate(i, public, s) ==
    /\ index[i] = Nothing /\ gates # <<>> /\ public <= Len(gates)
    /\ Live(s) /\ srs[s].block
    /\ LET new == MakeIndex(gates, public, s, <<gates, public>>)
       IN  /\ index' = [index EXCEPT ![i] = new]
           /\ srs' = [srs EXCEPT ![s] = CloneArc(AddLagrangeBasis(@, new.domain))]
           /\ MarkRaces(s, new.domain)
    /\ UNCHANGED <<curve, vec, gates, key, proofs, file>>

\* Faulty: the index may be finalized while a call uses it.
FaultyIndexFinalize(i) ==
    /\ index[i] # Nothing
    /\ index' = [index EXCEPT ![i] = Nothing]
    /\ srs' = [srs EXCEPT ![index[i].srs] = DropArc(@)]
    /\ UNCHANGED <<curve, vec, gates, key, job, proofs, file>>

\* A call roots the index it was given, so that it is not finalized under it.
IndexFinalize(i) ==
    /\ index[i] # Nothing
    /\ \A t \in Threads : job[t] # Nothing => job[t].index # i
    /\ index' = [index EXCEPT ![i] = Nothing]
    /\ srs' = [srs EXCEPT ![index[i].srs] = DropArc(@)]
    /\ UNCHANGED <<curve, vec, gates, key, job, proofs, file>>

\* The index is appended to a file that exists; its SRS is not written.
IndexWrite(i) ==
    /\ index[i] # Nothing /\ Len(file) < MaxFile
    /\ file' = Append(file, [kind |-> "index", gates |-> index[i].gates,
                             public |-> index[i].public, from |-> index[i].from])
    /\ UNCHANGED <<curve, srs, vec, gates, index, key, job, proofs>>

\* The index at an offset of the file, attached to the SRS of the caller.  No
\* Lagrange basis is added here.
IndexRead(i, n, s) ==
    /\ index[i] = Nothing /\ Live(s) /\ srs[s].block
    /\ n \in DOMAIN file /\ file[n].kind = "index"
    /\ index' = [index EXCEPT ![i] =
                    MakeIndex(file[n].gates, file[n].public, s, file[n].from)]
    /\ srs' = [srs EXCEPT ![s] = CloneArc(@)]
    /\ UNCHANGED <<curve, vec, gates, key, job, proofs, file>>

(* ------------------------------------------------------- verifier indexes *)

\* The record that represents a VerifierIndex in OCaml: its srs is a block of
\* its own with a clone of the Arc.  `made' is auxiliary.
ToCaml(vi, made) ==
    [gates |-> vi.gates, public |-> vi.public, domain |-> vi.domain,
     srs |-> vi.srs, from |-> vi.from, made |-> made]

\* Faulty: the key is made without adding the basis.
FaultyVerifierIndexCreate(k, i) ==
    /\ index[i] # Nothing /\ key[k] = Nothing
    /\ key' = [key EXCEPT ![k] = ToCaml(index[i], TRUE)]
    /\ srs' = [srs EXCEPT ![index[i].srs] = CloneArc(@)]
    /\ UNCHANGED <<curve, vec, gates, index, job, proofs, file>>

\* Faulty: the key is made from the gate vector, not from the index's copy.
AliasedVerifierIndexCreate(k, i) ==
    /\ index[i] # Nothing /\ key[k] = Nothing
    /\ key' = [key EXCEPT ![k] = ToCaml([index[i] EXCEPT !.gates = gates], TRUE)]
    /\ srs' = [srs EXCEPT ![index[i].srs] = CloneArc(AddLagrangeBasis(@, index[i].domain))]
    /\ MarkRaces(index[i].srs, index[i].domain)
    /\ UNCHANGED <<curve, vec, gates, index, proofs, file>>

\* The basis is added before the commitments of the key are computed with it.
VerifierIndexCreate(k, i) ==
    /\ index[i] # Nothing /\ key[k] = Nothing
    /\ LET s == index[i].srs
       IN  /\ key' = [key EXCEPT ![k] = ToCaml(index[i], TRUE)]
           /\ srs' = [srs EXCEPT ![s] = CloneArc(AddLagrangeBasis(@, index[i].domain))]
           /\ MarkRaces(s, index[i].domain)
    /\ UNCHANGED <<curve, vec, gates, index, proofs, file>>

VerifierIndexWrite(k) ==
    /\ key[k] # Nothing /\ Len(file) < MaxFile
    /\ file' = Append(file, [kind |-> "key", gates |-> key[k].gates,
                             public |-> key[k].public, from |-> key[k].from])
    /\ UNCHANGED <<curve, srs, vec, gates, index, key, job, proofs>>

\* Read back with the SRS of the caller; no basis is added here either.
VerifierIndexRead(k, n, s) ==
    /\ key[k] = Nothing /\ Live(s) /\ srs[s].block
    /\ n \in DOMAIN file /\ file[n].kind = "key"
    /\ key' = [key EXCEPT ![k] =
                  ToCaml(MakeIndex(file[n].gates, file[n].public, s, file[n].from), FALSE)]
    /\ srs' = [srs EXCEPT ![s] = CloneArc(@)]
    /\ UNCHANGED <<curve, vec, gates, index, job, proofs, file>>

\* The collector frees the record and the SRS block in it.
VerifierIndexFinalize(k) ==
    /\ key[k] # Nothing
    /\ key' = [key EXCEPT ![k] = Nothing]
    /\ srs' = [srs EXCEPT ![key[k].srs] = DropArc(@)]
    /\ UNCHANGED <<curve, vec, gates, index, job, proofs, file>>

(* ------------------------------------------------------------------ proofs *)

\* The basis is added and the witness is copied with the runtime lock held;
\* then the lock is released.  `asked' is auxiliary: the public input at the
\* time of the call.
ProofCreate(t, i, v, verify) ==
    /\ Idle(t) /\ Room /\ index[i] # Nothing /\ vec[v] # Nothing
    /\ Len(vec[v]) >= index[i].public
    /\ LET s == index[i].srs
           d == index[i].domain
           public_input == SubSeq(vec[v], 1, index[i].public)
       IN  /\ srs' = [srs EXCEPT ![s] = AddLagrangeBasis(@, d)]
           /\ job' = [u \in Threads |->
                 IF u = t
                 THEN [index |-> i, vector |-> v, public_input |-> public_input,
                       asked |-> public_input, verify |-> verify, raced |-> FALSE]
                 ELSE IF Reading(u, s) /\ d \notin srs[s].bases
                 THEN [job[u] EXCEPT !.raced = TRUE]
                 ELSE job[u]]
    /\ UNCHANGED <<curve, vec, gates, index, key, proofs, file>>

\* A witness with the wrong number of columns, or too short for the public
\* input, is refused, but only after the basis has been added.
ProofRejected(t, i) ==
    /\ Idle(t) /\ index[i] # Nothing
    /\ srs' = [srs EXCEPT ![index[i].srs] = AddLagrangeBasis(@, index[i].domain)]
    /\ MarkRaces(index[i].srs, index[i].domain)
    /\ UNCHANGED <<curve, vec, gates, index, key, proofs, file>>

\* Faulty: the witness is read when the proof is done.
LatePublicInput(t) ==
    LET v == job[t].vector
    IN  IF vec[v] = Nothing THEN <<>> ELSE SubSeq(vec[v], 1, index[job[t].index].public)

\* The public input that goes with the proof: the copy taken at the call.
PublicInput(t) == job[t].public_input

\* The prover's result.  What it computed during a race may be no proof.
Outcomes(t) ==
    LET i == index[job[t].index]
        proof == [gates |-> i.gates, public_input |-> PublicInput(t), from |-> i.from,
                  asked |-> job[t].asked, raced |-> job[t].raced]
    IN  IF job[t].raced THEN {proof, [proof EXCEPT !.gates = <<>>]} ELSE {proof}

\* create_and_verify returns the proof only if it verifies.
ProofReturns(t) ==
    /\ job[t] # Nothing
    /\ \E p \in Outcomes(t) :
         proofs' = IF job[t].verify => Verify(index[job[t].index], p) = "accepts"
                   THEN proofs \cup {p} ELSE proofs
    /\ job' = [job EXCEPT ![t] = Nothing]
    /\ UNCHANGED <<curve, srs, vec, gates, index, key, file>>

\* The example functions build a circuit, its index and a proof in one call,
\* with the lock held throughout.  Some have public inputs and some have none.
ProofExample(i, s, c, public_input) ==
    /\ index[i] = Nothing /\ Live(s) /\ srs[s].block
    /\ LET from == <<c, Len(public_input)>>
           new == MakeIndex(c, Len(public_input), s, from)
           p == [gates |-> c, public_input |-> public_input, from |-> from,
                 asked |-> public_input, raced |-> FALSE]
       IN  /\ Room
           /\ index' = [index EXCEPT ![i] = new]
           /\ srs' = [srs EXCEPT ![s] = CloneArc(AddLagrangeBasis(@, new.domain))]
           /\ MarkRaces(s, new.domain)
           /\ proofs' = proofs \cup {p}
    /\ UNCHANGED <<curve, vec, gates, key, file>>

(* ----------------------------------------------------------------- process *)

\* The process is killed, perhaps in the middle of a write, and started again:
\* only the file and the proofs that were sent elsewhere remain.
Kill(torn) ==
    /\ torn => Len(file) < MaxFile
    /\ file' = IF torn THEN Append(file, [kind |-> "torn"]) ELSE file
    /\ srs' = [s \in Srs |-> NoSrs]
    /\ vec' = [v \in Vectors |-> Nothing]
    /\ gates' = <<>>
    /\ index' = [i \in Indexes |-> Nothing]
    /\ key' = [k \in Keys |-> Nothing]
    /\ job' = [t \in Threads |-> Nothing]
    /\ UNCHANGED <<curve, proofs>>

-----------------------------------------------------------------------------
(* The two halves.                                                          *)

SrsStep ==
    \E s \in Srs :
        \/ SrsCreate(s) \/ SrsWrite(s)
        \/ \E n \in 1..MaxFile : SrsRead(s, n)
        \/ \E d \in Domains : SrsAddLagrangeBasis(s, d)
        \/ \E size \in 1..MaxRows : SrsLagrangeCommitment(s, size)
        \/ SrsFinalize(s)

VectorStep ==
    \E v \in Vectors :
        \/ VectorCreate(v)
        \/ \E x \in Elems : VectorEmplaceBack(v, x)
        \/ \E n \in 1..MaxLen, x \in Elems : VectorSet(v, n, x)
        \/ VectorFinalize(v)

GateVectorStep ==
    \/ GateVectorCreate
    \/ GateVectorAdd
    \/ \E row \in WrapRows : GateVectorWrap(row)

IndexStep ==
    \E i \in Indexes :
        \/ \E public \in Publics, s \in Srs : IndexCreate(i, public, s)
        \/ \E n \in 1..MaxFile, s \in Srs : IndexRead(i, n, s)
        \/ IndexWrite(i)
        \/ IndexFinalize(i)

VerifierIndexStep ==
    \E k \in Keys :
        \/ \E i \in Indexes : VerifierIndexCreate(k, i)
        \/ \E n \in 1..MaxFile, s \in Srs : VerifierIndexRead(k, n, s)
        \/ VerifierIndexWrite(k)
        \/ VerifierIndexFinalize(k)

ProofStep(verify) ==
    \E t \in Threads :
        \/ \E i \in Indexes, v \in Vectors : ProofCreate(t, i, v, verify)
        \/ \E i \in Indexes : ProofRejected(t, i)
        \/ ProofReturns(t)

FpGateVector == curve = "fp" /\ GateVectorStep

FqGateVector == curve = "fq" /\ GateVectorStep

FpPlonkIndex == curve = "fp" /\ IndexStep

FqPlonkIndex == curve = "fq" /\ IndexStep

FpPlonkVerifierIndex == curve = "fp" /\ VerifierIndexStep

FqPlonkVerifierIndex == curve = "fq" /\ VerifierIndexStep

\* Only the Fp half has create_and_verify and the examples.
FpPlonkProof ==
    /\ curve = "fp"
    /\ \/ \E verify \in BOOLEAN : ProofStep(verify)
       \/ \E i \in Indexes, s \in Srs, n \in 0..MaxLen :
            \E public_input \in [1..n -> Elems] : ProofExample(i, s, <<0, 1>>, public_input)

FqPlonkProof == curve = "fq" /\ ProofStep(FALSE)

Next ==
    \/ SrsStep \/ VectorStep
    \/ FpGateVector \/ FqGateVector
    \/ FpPlonkIndex \/ FqPlonkIndex
    \/ FpPlonkVerifierIndex \/ FqPlonkVerifierIndex
    \/ FpPlonkProof \/ FqPlonkProof
    \/ \E torn \in BOOLEAN : Kill(torn)

Spec == Init /\ [][Next]_vars

-----------------------------------------------------------------------------
(* Properties                                                               *)

\* The variables keep their types; in particular a thread's job refers to an index
\* that exists.
TypeOK ==
    /\ curve \in {"fp", "fq"}
    /\ srs \in [Srs -> [status : {"live", "freed"}, count : Nat,
                        bases : SUBSET Domains, block : BOOLEAN]]
    /\ vec \in [Vectors -> Seq(Elems) \cup {Nothing}]
    /\ gates \in Circuits
    /\ index \in [Indexes -> ProverIndex \cup {Nothing}]
    /\ key \in [Keys -> VerifierIndex \cup {Nothing}]
    /\ job \in [Threads -> Job \cup {Nothing}]
    /\ \A t \in Threads : job[t] # Nothing => index[job[t].index] # Nothing
    /\ proofs \subseteq Proof
    /\ file \in Seq(Written)

\* Everything that holds an SRS: its block, prover indexes, verifier indexes.
Holders(s) ==
    (IF srs[s].block THEN {"block"} ELSE {})
      \cup {i \in Indexes : index[i] # Nothing /\ index[i].srs = s}
      \cup {k \in Keys : key[k] # Nothing /\ key[k].srs = s}

\* The Arc count of an SRS is the number of its holders, and it is alive as long
\* as there is one: no index or key, made or read, in whatever order blocks are
\* finalized, is left with a freed SRS, and none is leaked.
SrsOutlivesHolders ==
    \A s \in Srs : /\ srs[s].count = Cardinality(Holders(s))
                   /\ Live(s) <=> Holders(s) # {}

\* What verification and proving look up in the SRS is there: the basis for the
\* domain of every key made in this process and of every proof in progress.
\* (A key that was read has none until somebody adds it.)
BasisIsThere ==
    /\ \A k \in Keys :
         key[k] # Nothing /\ key[k].made => key[k].domain \in srs[key[k].srs].bases
    /\ \A t \in Threads :
         job[t] # Nothing => LET i == index[job[t].index] IN i.domain \in srs[i.srs].bases

\* A proof is accepted under every key of its circuit that was made in this process,
\* whatever was done to the gate vector since, to files and by earlier processes.
\* A key that was read from a file accepts it exactly once somebody has put the basis
\* of its domain into its SRS; until then verification panics, but never rejects.
HonestProofsVerify ==
    \A p \in proofs, k \in Keys :
        (~p.raced /\ key[k] # Nothing /\ key[k].from = p.from) =>
            Verify(key[k], p) =
                IF key[k].made \/ key[k].domain \in srs[key[k].srs].bases
                THEN "accepts" ELSE "panics"

\* The public input returned with a proof is the one at the time of the call, even
\* if the vectors were written to, or freed, while the proof was computed.
ProofsAnswerTheirCall == \A p \in proofs : p.public_input = p.asked

\* "We're single-threaded, so it's safe to grab this pointer as mutable": no basis
\* is inserted into an SRS while a proof that reads it is being computed.
NoInsertionWhileProving == \A t \in Threads : job[t] # Nothing => ~job[t].raced
=============================================================================
