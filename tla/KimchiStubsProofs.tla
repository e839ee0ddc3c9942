-------------------------- MODULE KimchiStubsProofs --------------------------
(***************************************************************************)
(* Theorems about the objects of the native bindings, for any number of     *)
(* threads, SRSs, vectors, indexes and keys and for files of any length.    *)
(***************************************************************************)
EXTENDS KimchiStubs, FiniteSetTheorems, SequenceTheorems, TLAPS

\* What an index, a key, a written object or a proof says of its circuit is what the
\* index was created from; a job keeps the public input it was given, and its length
\* is the one of the index.
FromIsKept ==
    /\ \A i \in Indexes : index[i] # Nothing => index[i].from = <<index[i].gates, index[i].public>>
    /\ \A k \in Keys : key[k] # Nothing => key[k].from = <<key[k].gates, key[k].public>>
    /\ \A n \in DOMAIN file :
         file[n].kind \in {"index", "key"} => file[n].from = <<file[n].gates, file[n].public>>
    /\ \A p \in proofs : ~p.raced => p.from = <<p.gates, Len(p.public_input)>>
    /\ \A t \in Threads :
         job[t] # Nothing => Len(job[t].public_input) = index[job[t].index].public

\* A job has not lost the public input of its call.
JobsKeepTheirCall ==
    \A t \in Threads : job[t] # Nothing => job[t].public_input = job[t].asked

\* The inductive invariant.
StubsInv ==
    /\ TypeOK
    /\ SrsOutlivesHolders
    /\ BasisIsThere
    /\ FromIsKept
    /\ JobsKeepTheirCall
    /\ ProofsAnswerTheirCall

-----------------------------------------------------------------------------
(* Circuits are sequences.                                                  *)

\* A circuit is a sequence of gates that is not too long.
LEMMA CircuitsAreSequences ==
    \A c : c \in Circuits <=> c \in Seq({0, 1}) /\ Len(c) <= MaxRows
<1>1. ASSUME NEW c \in Circuits PROVE c \in Seq({0, 1}) /\ Len(c) <= MaxRows
  <2>1. PICK n \in 0..MaxRows : c \in [1..n -> {0, 1}]
    BY DEF Circuits
  <2> QED
    BY <2>1, BoundsAssumption
<1>2. ASSUME NEW c \in Seq({0, 1}), Len(c) <= MaxRows PROVE c \in Circuits
  <2>1. Len(c) \in 0..MaxRows /\ c \in [1..Len(c) -> {0, 1}]
    BY <1>2, BoundsAssumption
  <2> QED
    BY <2>1 DEF Circuits
<1> QED
  BY <1>1, <1>2
-----------------------------------------------------------------------------
(* Counting the holders of an SRS.                                          *)

SrsRecord ==
    [status : {"live", "freed"}, count : Nat, bases : SUBSET Domains, block : BOOLEAN]

\* The SRS r is alive as long as H is not empty, and counts the elements of H.
Counts(r, H) == r.count = Cardinality(H) /\ (r.status = "live" <=> H # {})

\* SrsOutlivesHolders, by this name.
LEMMA OutlivesIsCounts ==
    SrsOutlivesHolders <=> \A s \in Srs : Counts(srs[s], Holders(s))
BY DEF SrsOutlivesHolders, Counts, Live

\* An SRS has finitely many holders.
LEMMA HoldersAreFinite == ASSUME NEW s PROVE IsFiniteSet(Holders(s))
<1> DEFINE All == ({"block"} \cup Indexes) \cup Keys
<1>1. IsFiniteSet({"block"}) /\ IsFiniteSet(Indexes) /\ IsFiniteSet(Keys)
  BY FS_Singleton, HoldersAssumption
<1>2. IsFiniteSet({"block"} \cup Indexes)
  BY <1>1, FS_Union
<1>3. IsFiniteSet(All)
  BY <1>1, <1>2, FS_Union
<1>4. Holders(s) \subseteq All
  BY DEF Holders
<1> QED
  BY <1>3, <1>4, FS_Subset

\* A clone of the Arc for one more holder.
LEMMA CloneCounts ==
    ASSUME NEW r \in SrsRecord, NEW H, IsFiniteSet(H), Counts(r, H), H # {},
           NEW h, h \notin H
    PROVE  CloneArc(r) \in SrsRecord /\ Counts(CloneArc(r), H \cup {h})
<1>1. Cardinality(H) \in Nat /\ Cardinality(H \cup {h}) = Cardinality(H) + 1
  BY FS_CardinalityType, FS_AddElement
<1> QED
  BY <1>1 DEF Counts, CloneArc, SrsRecord

\* A holder drops its Arc; the last one frees the SRS.
LEMMA DropCounts ==
    ASSUME NEW r \in SrsRecord, NEW H, IsFiniteSet(H), Counts(r, H), NEW h \in H
    PROVE  DropArc(r) \in SrsRecord /\ Counts(DropArc(r), H \ {h})
<1>1. Cardinality(H) \in Nat /\ Cardinality(H \ {h}) = Cardinality(H) - 1
  BY FS_CardinalityType, FS_RemoveElement
<1>2. IsFiniteSet(H \ {h})
  BY FS_RemoveElement
<1>3. Cardinality(H \ {h}) \in Nat /\ (Cardinality(H \ {h}) = 0 <=> H \ {h} = {})
  BY <1>2, FS_CardinalityType, FS_EmptySet
<1>4. CASE r.count = 1
  <2>1. DropArc(r) = [r EXCEPT !.status = "freed", !.count = 0, !.bases = {}]
    BY <1>4 DEF DropArc
  <2>2. DropArc(r) = [status |-> "freed", count |-> 0, bases |-> {}, block |-> r.block]
    BY <2>1 DEF SrsRecord
  <2>3. r.block \in BOOLEAN /\ {} \in SUBSET Domains
    BY DEF SrsRecord
  <2>4. DropArc(r) \in SrsRecord /\ DropArc(r).count = 0 /\ DropArc(r).status = "freed"
    BY <2>2, <2>3 DEF SrsRecord
  <2>5. Cardinality(H \ {h}) = 0 /\ H \ {h} = {}
    BY <1>1, <1>3, <1>4 DEF Counts
  <2> QED
    BY <2>4, <2>5 DEF Counts
<1>5. CASE r.count # 1
  BY <1>1, <1>3, <1>5 DEF Counts, DropArc, SrsRecord
<1> QED
  BY <1>4, <1>5

\* If the last holder drops its Arc nobody else holds the SRS; otherwise its bases
\* stay.
LEMMA DropKeepsBases ==
    ASSUME NEW r \in SrsRecord, NEW H, IsFiniteSet(H), Counts(r, H), NEW h \in H,
           NEW g \in H, g # h
    PROVE  DropArc(r).bases = r.bases
<1>1. Cardinality(H) # 1
  BY FS_Singleton
<1> QED
  BY <1>1 DEF Counts, DropArc, SrsRecord

\* Adding a basis changes neither the count nor the status.
LEMMA AddKeepsCounts ==
    ASSUME NEW r \in SrsRecord, NEW H, Counts(r, H), NEW d \in Domains
    PROVE  /\ AddLagrangeBasis(r, d) \in SrsRecord
           /\ Counts(AddLagrangeBasis(r, d), H)
           /\ AddLagrangeBasis(r, d).bases = r.bases \cup {d}
BY DEF Counts, AddLagrangeBasis, SrsRecord

-----------------------------------------------------------------------------
(* Jobs.                                                                    *)

\* The races that an insertion causes change nothing else of a job.
JobsKept ==
    /\ job' \in [Threads -> Job \cup {Nothing}]
    /\ \A t \in Threads :
         /\ job'[t] = Nothing <=> job[t] = Nothing
         /\ job[t] # Nothing => /\ job'[t].index = job[t].index
                                /\ job'[t].public_input = job[t].public_input
                                /\ job'[t].asked = job[t].asked

\* Marking a race keeps the jobs, and so does leaving them alone.
LEMMA MarkRacesKeepsJobs ==
    ASSUME TypeOK, NEW s, NEW d, MarkRaces(s, d) \/ UNCHANGED job
    PROVE  JobsKept
<1>1. CASE MarkRaces(s, d)
  <2>1. ASSUME NEW t \in Threads, job[t] # Nothing
        PROVE  /\ [job[t] EXCEPT !.raced = TRUE] \in Job
               /\ [job[t] EXCEPT !.raced = TRUE].index = job[t].index
               /\ [job[t] EXCEPT !.raced = TRUE].public_input = job[t].public_input
               /\ [job[t] EXCEPT !.raced = TRUE].asked = job[t].asked
    BY <2>1 DEF TypeOK, Job
  <2>2. Nothing \notin Job
    BY NothingAssumption
  <2> QED
    BY <1>1, <2>1, <2>2 DEF MarkRaces, JobsKept, Reading, TypeOK
<1>2. CASE UNCHANGED job
  BY <1>2 DEF JobsKept, TypeOK
<1> QED
  BY <1>1, <1>2
-----------------------------------------------------------------------------
(* The steps, by what they do to the objects.                               *)

\* What the invariant says of an SRS.
LEMMA SrsFacts ==
    ASSUME StubsInv, NEW s \in Srs
    PROVE  /\ srs[s] \in SrsRecord
           /\ Counts(srs[s], Holders(s))
           /\ IsFiniteSet(Holders(s))
           /\ Live(s) <=> Holders(s) # {}
<1>1. srs[s] \in SrsRecord
  BY DEF StubsInv, TypeOK, SrsRecord
<1> QED
  BY <1>1, OutlivesIsCounts, HoldersAreFinite DEF StubsInv, Counts, Live

\* A basis is added to an SRS.
LEMMA BasisAdded ==
    ASSUME StubsInv, NEW s \in Srs, NEW d \in Domains,
           srs' = [srs EXCEPT ![s] = AddLagrangeBasis(@, d)],
           MarkRaces(s, d),
           UNCHANGED <<curve, vec, gates, index, key, proofs, file>>
    PROVE  StubsInv'
<1>1. JobsKept
  BY MarkRacesKeepsJobs DEF StubsInv
<1>2. srs'[s] = AddLagrangeBasis(srs[s], d) /\ \A u \in Srs \ {s} : srs'[u] = srs[u]
  BY DEF StubsInv, TypeOK
<1>3. \A u \in Srs : /\ srs'[u] \in SrsRecord
                      /\ srs'[u].block = srs[u].block
                      /\ srs[u].bases \subseteq srs'[u].bases
                      /\ Counts(srs'[u], Holders(u))
  <2>1. AddLagrangeBasis(srs[s], d).block = srs[s].block
    BY SrsFacts DEF AddLagrangeBasis, SrsRecord
  <2> QED
    BY <1>2, <2>1, SrsFacts, AddKeepsCounts
<1>4. \A u \in Srs : Holders(u)' = Holders(u)
  BY <1>3 DEF Holders
<1>5. TypeOK'
  <2>1. srs' \in [Srs -> SrsRecord]
    BY <1>3 DEF StubsInv, TypeOK
  <2> QED
    BY <1>1, <2>1 DEF StubsInv, TypeOK, SrsRecord, JobsKept
<1>6. SrsOutlivesHolders'
  BY <1>3, <1>4 DEF SrsOutlivesHolders, Counts, Live
<1>7. BasisIsThere'
  BY <1>1, <1>3 DEF BasisIsThere, StubsInv, TypeOK, JobsKept, Job, ProverIndex, VerifierIndex
<1>8. FromIsKept' /\ JobsKeepTheirCall' /\ ProofsAnswerTheirCall'
  BY <1>1 DEF StubsInv, FromIsKept, JobsKeepTheirCall, ProofsAnswerTheirCall, JobsKept
<1> QED
  BY <1>5, <1>6, <1>7, <1>8 DEF StubsInv

\* A step changes the count and the bases of s at most, and no basis is lost.
OnlyGrows(s) ==
    \A u \in Srs : /\ srs'[u].block = srs[u].block
                   /\ srs[u].bases \subseteq srs'[u].bases
                   /\ u # s => srs'[u] = srs[u]

\* What a step does to the SRS that gets one more holder, and to the others.
SharedWith(s) ==
    /\ srs' \in [Srs -> SrsRecord]
    /\ OnlyGrows(s)
    /\ \A h : h \notin Holders(s) => Counts(srs'[s], Holders(s) \cup {h})

\* Cloning the Arc of an SRS that is alive, perhaps with one more basis.
LEMMA CloneIsShared ==
    ASSUME StubsInv, NEW s \in Srs, Live(s), NEW d \in Domains,
           \/ srs' = [srs EXCEPT ![s] = CloneArc(@)]
           \/ srs' = [srs EXCEPT ![s] = CloneArc(AddLagrangeBasis(@, d))]
    PROVE  /\ SharedWith(s)
           /\ srs' = [srs EXCEPT ![s] = CloneArc(AddLagrangeBasis(@, d))]
                => d \in srs'[s].bases
<1> DEFINE added == AddLagrangeBasis(srs[s], d)
<1>1. /\ srs[s] \in SrsRecord /\ Counts(srs[s], Holders(s))
      /\ IsFiniteSet(Holders(s)) /\ Holders(s) # {}
  BY SrsFacts
<1>2. /\ added \in SrsRecord /\ Counts(added, Holders(s))
      /\ added.bases = srs[s].bases \cup {d} /\ added.block = srs[s].block
  <2>1. added.block = srs[s].block
    BY <1>1 DEF AddLagrangeBasis, SrsRecord
  <2> QED
    BY <1>1, <2>1, AddKeepsCounts
<1>3. ASSUME NEW r \in SrsRecord, Counts(r, Holders(s))
      PROVE  /\ CloneArc(r) \in SrsRecord
             /\ CloneArc(r).bases = r.bases /\ CloneArc(r).block = r.block
             /\ \A h : h \notin Holders(s) => Counts(CloneArc(r), Holders(s) \cup {h})
  <2>1. \A h : h \notin Holders(s) =>
          CloneArc(r) \in SrsRecord /\ Counts(CloneArc(r), Holders(s) \cup {h})
    BY <1>1, <1>3, CloneCounts
  <2>2. /\ CloneArc(r) \in SrsRecord
        /\ CloneArc(r).bases = r.bases /\ CloneArc(r).block = r.block
    BY DEF CloneArc, SrsRecord
  <2> QED
    BY <2>1, <2>2
<1>4. srs \in [Srs -> SrsRecord]
  BY DEF StubsInv, TypeOK, SrsRecord
<1>5. CASE srs' = [srs EXCEPT ![s] = CloneArc(srs[s])]
  <2>1. srs'[s] = CloneArc(srs[s]) /\ \A u \in Srs \ {s} : srs'[u] = srs[u]
    BY <1>4, <1>5
  <2>2. srs' \in [Srs -> SrsRecord]
    BY <1>1, <1>3, <1>4, <1>5
  <2>3. SharedWith(s)
    BY <1>1, <1>3, <2>1, <2>2 DEF SharedWith, OnlyGrows
  <2>4. srs' = [srs EXCEPT ![s] = CloneArc(added)] => d \in srs'[s].bases
    BY <1>2, <1>3, <1>4
  <2> QED
    BY <2>3, <2>4
<1>6. CASE srs' = [srs EXCEPT ![s] = CloneArc(added)]
  <2>1. srs'[s] = CloneArc(added) /\ \A u \in Srs \ {s} : srs'[u] = srs[u]
    BY <1>4, <1>6
  <2>2. srs' \in [Srs -> SrsRecord]
    BY <1>2, <1>3, <1>4, <1>6
  <2>3. SharedWith(s)
    BY <1>2, <1>3, <2>1, <2>2 DEF SharedWith, OnlyGrows
  <2> QED
    BY <1>2, <1>3, <2>1, <2>3
<1> QED
  BY <1>5, <1>6

\* A prover index comes into being, made or read, with a hold on its SRS.
LEMMA IndexAdded ==
    ASSUME StubsInv, NEW i \in Indexes, NEW new \in ProverIndex, index[i] = Nothing,
           new.from = <<new.gates, new.public>>,
           index' = [index EXCEPT ![i] = new],
           SharedWith(new.srs), JobsKept,
           UNCHANGED <<curve, vec, gates, key, file>>,
           proofs' \subseteq Proof,
           \A p \in proofs' \ proofs :
              p.from = <<p.gates, Len(p.public_input)>> /\ p.public_input = p.asked
    PROVE  StubsInv'
<1> DEFINE s == new.srs
<1>1. s \in Srs /\ new # Nothing
  BY NothingAssumption DEF ProverIndex
<1>2. index'[i] = new /\ \A j \in Indexes \ {i} : index'[j] = index[j]
  BY DEF StubsInv, TypeOK
<1>3. i \notin Holders(s) /\ i \notin Keys /\ i # "block"
  BY HoldersAssumption DEF Holders
<1>b. /\ \A u \in Srs : srs'[u].block = srs[u].block /\ srs[u].bases \subseteq srs'[u].bases
      /\ \A u \in Srs \ {s} : srs'[u] = srs[u]
  <2>1. OnlyGrows(s)
    BY DEF SharedWith
  <2> QED
    BY <2>1 DEF OnlyGrows
<1>4. Holders(s)' = Holders(s) \cup {i}
  BY <1>1, <1>2, <1>3, <1>b DEF Holders
<1>5. \A u \in Srs \ {s} : Holders(u)' = Holders(u)
  BY <1>1, <1>2, <1>b DEF Holders
<1>6. TypeOK'
  <2>1. index' \in [Indexes -> ProverIndex \cup {Nothing}]
    BY DEF StubsInv, TypeOK
  <2>2. \A t \in Threads : job'[t] # Nothing => index'[job'[t].index] # Nothing
    BY <1>1, <1>2 DEF StubsInv, TypeOK, JobsKept, Job
  <2> QED
    BY <2>1, <2>2 DEF StubsInv, TypeOK, SharedWith, JobsKept, SrsRecord
<1>7. SrsOutlivesHolders'
  <2>1. Counts(srs'[s], Holders(s) \cup {i})
    BY <1>3 DEF SharedWith
  <2>2. \A u \in Srs \ {s} : Counts(srs'[u], Holders(u)')
    BY <1>5, <1>b, SrsFacts
  <2> QED
    BY <1>4, <2>1, <2>2 DEF SrsOutlivesHolders, Counts, Live
<1>8. BasisIsThere'
  <2>1. \A t \in Threads : job'[t] # Nothing => index'[job'[t].index] = index[job[t].index]
    BY <1>2 DEF StubsInv, TypeOK, JobsKept, Job
  <2> QED
    BY <1>b, <2>1 DEF BasisIsThere, StubsInv, TypeOK, JobsKept, Job, ProverIndex, VerifierIndex
<1>9. FromIsKept' /\ JobsKeepTheirCall' /\ ProofsAnswerTheirCall'
  <2>1. \A t \in Threads : job'[t] # Nothing => index'[job'[t].index] = index[job[t].index]
    BY <1>2 DEF StubsInv, TypeOK, JobsKept, Job
  <2> QED
    BY <1>2, <2>1 DEF StubsInv, FromIsKept, JobsKeepTheirCall, ProofsAnswerTheirCall, JobsKept
<1> QED
  BY <1>6, <1>7, <1>8, <1>9 DEF StubsInv

\* The same for a verifier index; if it is made here, its basis is there.
LEMMA KeyAdded ==
    ASSUME StubsInv, NEW k \in Keys, NEW new \in VerifierIndex, key[k] = Nothing,
           new.from = <<new.gates, new.public>>,
           new.made => new.domain \in srs'[new.srs].bases,
           key' = [key EXCEPT ![k] = new],
           SharedWith(new.srs), JobsKept,
           UNCHANGED <<curve, vec, gates, index, proofs, file>>
    PROVE  StubsInv'
<1> DEFINE s == new.srs
<1>1. s \in Srs /\ new # Nothing
  BY NothingAssumption DEF VerifierIndex
<1>2. key'[k] = new /\ \A j \in Keys \ {k} : key'[j] = key[j]
  BY DEF StubsInv, TypeOK
<1>3. k \notin Holders(s) /\ k \notin Indexes /\ k # "block"
  BY HoldersAssumption DEF Holders
<1>b. /\ \A u \in Srs : srs'[u].block = srs[u].block /\ srs[u].bases \subseteq srs'[u].bases
      /\ \A u \in Srs \ {s} : srs'[u] = srs[u]
  <2>1. OnlyGrows(s)
    BY DEF SharedWith
  <2> QED
    BY <2>1 DEF OnlyGrows
<1>4. Holders(s)' = Holders(s) \cup {k}
  BY <1>1, <1>2, <1>3, <1>b DEF Holders
<1>5. \A u \in Srs \ {s} : Holders(u)' = Holders(u)
  BY <1>1, <1>2, <1>b DEF Holders
<1>6. TypeOK'
  <2>1. key' \in [Keys -> VerifierIndex \cup {Nothing}]
    BY DEF StubsInv, TypeOK
  <2> QED
    BY <2>1 DEF StubsInv, TypeOK, SharedWith, JobsKept, SrsRecord
<1>7. SrsOutlivesHolders'
  <2>1. Counts(srs'[s], Holders(s) \cup {k})
    BY <1>3 DEF SharedWith
  <2>2. \A u \in Srs \ {s} : Counts(srs'[u], Holders(u)')
    BY <1>5, <1>b, SrsFacts
  <2> QED
    BY <1>4, <2>1, <2>2 DEF SrsOutlivesHolders, Counts, Live
<1>8. BasisIsThere'
  BY <1>1, <1>2, <1>b DEF BasisIsThere, StubsInv, TypeOK, JobsKept, Job, ProverIndex, VerifierIndex
<1>9. FromIsKept' /\ JobsKeepTheirCall' /\ ProofsAnswerTheirCall'
  BY <1>2 DEF StubsInv, FromIsKept, JobsKeepTheirCall, ProofsAnswerTheirCall, JobsKept
<1> QED
  BY <1>6, <1>7, <1>8, <1>9 DEF StubsInv

\* What dropping the Arc that h holds does to an SRS and to its other holders.
LEMMA ArcDropped ==
    ASSUME StubsInv, NEW s \in Srs, NEW h \in Holders(s)
    PROVE  /\ DropArc(srs[s]) \in SrsRecord
           /\ DropArc(srs[s]).block = srs[s].block
           /\ Counts(DropArc(srs[s]), Holders(s) \ {h})
           /\ \A g \in Holders(s) \ {h} : DropArc(srs[s]).bases = srs[s].bases
<1>1. /\ srs[s] \in SrsRecord /\ Counts(srs[s], Holders(s))
      /\ IsFiniteSet(Holders(s))
  BY SrsFacts
<1>2. DropArc(srs[s]).block = srs[s].block
  BY <1>1 DEF DropArc, SrsRecord
<1> QED
  BY <1>1, <1>2, DropCounts, DropKeepsBases

\* Every index and every key is a holder of its SRS.
LEMMA IndexesAndKeysHold ==
    ASSUME TypeOK
    PROVE  /\ \A i \in Indexes :
                index[i] # Nothing => index[i].srs \in Srs /\ i \in Holders(index[i].srs)
           /\ \A k \in Keys :
                key[k] # Nothing => key[k].srs \in Srs /\ k \in Holders(key[k].srs)
BY DEF TypeOK, ProverIndex, VerifierIndex, Holders

\* The bases of an SRS stay as long as somebody else than h holds it.
BasesStay(s, h) ==
    /\ \A g \in Holders(s) \ {h} : srs'[s].bases = srs[s].bases
    /\ \A u \in Srs \ {s} : srs'[u] = srs[u]

\* The block of an SRS is finalized.
LEMMA SrsFinalizeStep ==
    ASSUME StubsInv, NEW s \in Srs, SrsFinalize(s)
    PROVE  StubsInv'
<1> DEFINE r == DropArc(srs[s])
<1>1. "block" \in Holders(s) /\ srs[s].block
  BY DEF SrsFinalize, Holders
<1>2. /\ r \in SrsRecord
      /\ Counts(r, Holders(s) \ {"block"})
      /\ \A g \in Holders(s) \ {"block"} : r.bases = srs[s].bases
  BY <1>1, ArcDropped
<1>3. /\ [r EXCEPT !.block = FALSE] \in SrsRecord
      /\ [r EXCEPT !.block = FALSE].count = r.count
      /\ [r EXCEPT !.block = FALSE].status = r.status
      /\ [r EXCEPT !.block = FALSE].bases = r.bases
      /\ [r EXCEPT !.block = FALSE].block = FALSE
  <2> HIDE DEF r
  <2> QED
    BY <1>2 DEF SrsRecord
<1>4. /\ srs'[s] = [r EXCEPT !.block = FALSE]
      /\ \A u \in Srs \ {s} : srs'[u] = srs[u]
      /\ srs' \in [Srs -> SrsRecord]
  <2>1. srs \in [Srs -> SrsRecord]
    BY DEF StubsInv, TypeOK, SrsRecord
  <2> QED
    BY <1>3, <2>1 DEF SrsFinalize
<1>5. /\ Holders(s)' = Holders(s) \ {"block"}
      /\ \A u \in Srs \ {s} : Holders(u)' = Holders(u)
  BY <1>3, <1>4, HoldersAssumption DEF Holders, SrsFinalize
<1>6. TypeOK'
  BY <1>4 DEF StubsInv, TypeOK, SrsFinalize, SrsRecord
<1>7. SrsOutlivesHolders'
  <2>1. Counts(srs'[s], Holders(s)')
    BY <1>2, <1>3, <1>4, <1>5 DEF Counts
  <2>2. \A u \in Srs \ {s} : Counts(srs'[u], Holders(u)')
    BY <1>4, <1>5, SrsFacts
  <2> QED
    BY <2>1, <2>2 DEF SrsOutlivesHolders, Counts, Live
<1>8. BasisIsThere'
  <2> HIDE DEF r
  <2>0. BasesStay(s, "block") /\ TypeOK
    BY <1>2, <1>3, <1>4 DEF BasesStay, StubsInv
  <2>1. \A i \in Indexes : index[i] # Nothing => srs'[index[i].srs].bases = srs[index[i].srs].bases
    BY <2>0, IndexesAndKeysHold, HoldersAssumption DEF BasesStay
  <2>2. \A k \in Keys : key[k] # Nothing => srs'[key[k].srs].bases = srs[key[k].srs].bases
    BY <2>0, IndexesAndKeysHold, HoldersAssumption DEF BasesStay
  <2> QED
    BY <2>1, <2>2 DEF BasisIsThere, StubsInv, SrsFinalize, TypeOK, Job
<1>9. FromIsKept' /\ JobsKeepTheirCall' /\ ProofsAnswerTheirCall'
  BY DEF StubsInv, FromIsKept, JobsKeepTheirCall, ProofsAnswerTheirCall, SrsFinalize
<1> QED
  BY <1>6, <1>7, <1>8, <1>9 DEF StubsInv

\* A prover index is finalized: no job uses it.
LEMMA IndexFinalizeStep ==
    ASSUME StubsInv, NEW i \in Indexes, IndexFinalize(i)
    PROVE  StubsInv'
<1>0. index[i].srs \in Srs /\ i \in Holders(index[i].srs)
  BY DEF IndexFinalize, Holders, StubsInv, TypeOK, ProverIndex
<1>1. PICK s \in Srs : s = index[i].srs /\ i \in Holders(s)
  BY <1>0
<1> DEFINE r == DropArc(srs[s])
<1>2. /\ r \in SrsRecord /\ r.block = srs[s].block
      /\ Counts(r, Holders(s) \ {i})
      /\ \A g \in Holders(s) \ {i} : r.bases = srs[s].bases
  BY <1>1, ArcDropped
<1>3. index'[i] = Nothing /\ \A j \in Indexes \ {i} : index'[j] = index[j]
  BY DEF IndexFinalize, StubsInv, TypeOK
<1>4. /\ srs'[s] = r
      /\ \A u \in Srs \ {s} : srs'[u] = srs[u]
      /\ srs' \in [Srs -> SrsRecord]
  <2>1. srs \in [Srs -> SrsRecord]
    BY DEF StubsInv, TypeOK, SrsRecord
  <2> QED
    BY <1>1, <1>2, <2>1 DEF IndexFinalize
<1>5. /\ Holders(s)' = Holders(s) \ {i}
      /\ \A u \in Srs \ {s} : Holders(u)' = Holders(u)
  <2> HIDE DEF r
  <2>1. \A u \in Srs : srs'[u].block = srs[u].block
    BY <1>1, <1>2, <1>4
  <2>2. UNCHANGED key
    BY DEF IndexFinalize
  <2> QED
    BY <1>1, <1>3, <2>1, <2>2, HoldersAssumption DEF Holders
<1>6. TypeOK'
  <2>1. index' \in [Indexes -> ProverIndex \cup {Nothing}]
    BY DEF StubsInv, TypeOK, IndexFinalize
  <2>2. \A t \in Threads : job[t] # Nothing => job[t].index \in Indexes \ {i}
    BY DEF StubsInv, TypeOK, IndexFinalize, Job
  <2> QED
    BY <1>3, <1>4, <2>1, <2>2 DEF StubsInv, TypeOK, IndexFinalize, SrsRecord
<1>7. SrsOutlivesHolders'
  <2>1. \A u \in Srs \ {s} : Counts(srs'[u], Holders(u)')
    BY <1>4, <1>5, SrsFacts
  <2>2. Counts(srs'[s], Holders(s)')
    BY <1>2, <1>4, <1>5
  <2> QED
    BY <1>1, <2>1, <2>2 DEF SrsOutlivesHolders, Counts, Live
<1>8. BasisIsThere'
  <2> HIDE DEF r
  <2>0. BasesStay(s, i) /\ TypeOK
    BY <1>2, <1>4 DEF BasesStay, StubsInv
  <2>1. \A j \in Indexes \ {i} :
          index[j] # Nothing => srs'[index[j].srs].bases = srs[index[j].srs].bases
    BY <2>0, IndexesAndKeysHold DEF BasesStay
  <2>2. \A k \in Keys : key[k] # Nothing => srs'[key[k].srs].bases = srs[key[k].srs].bases
    BY <2>0, IndexesAndKeysHold, HoldersAssumption DEF BasesStay
  <2>3. \A t \in Threads : job[t] # Nothing => job[t].index \in Indexes \ {i}
    BY DEF StubsInv, TypeOK, IndexFinalize, Job
  <2> QED
    BY <1>3, <2>1, <2>2, <2>3 DEF BasisIsThere, StubsInv, IndexFinalize, TypeOK, Job
<1>9. FromIsKept' /\ JobsKeepTheirCall' /\ ProofsAnswerTheirCall'
  <2>1. \A t \in Threads : job[t] # Nothing => job[t].index \in Indexes \ {i}
    BY DEF StubsInv, TypeOK, IndexFinalize, Job
  <2> QED
    BY <1>3, <2>1 DEF StubsInv, FromIsKept, JobsKeepTheirCall, ProofsAnswerTheirCall,
                      IndexFinalize
<1> QED
  BY <1>6, <1>7, <1>8, <1>9 DEF StubsInv

\* A verifier index is finalized.
LEMMA VerifierIndexFinalizeStep ==
    ASSUME StubsInv, NEW k \in Keys, VerifierIndexFinalize(k)
    PROVE  StubsInv'
<1>0. key[k].srs \in Srs /\ k \in Holders(key[k].srs)
  BY DEF VerifierIndexFinalize, Holders, StubsInv, TypeOK, VerifierIndex
<1>1. PICK s \in Srs : s = key[k].srs /\ k \in Holders(s)
  BY <1>0
<1> DEFINE r == DropArc(srs[s])
<1>2. /\ r \in SrsRecord /\ r.block = srs[s].block
      /\ Counts(r, Holders(s) \ {k})
      /\ \A g \in Holders(s) \ {k} : r.bases = srs[s].bases
  BY <1>1, ArcDropped
<1>3. key'[k] = Nothing /\ \A j \in Keys \ {k} : key'[j] = key[j]
  BY DEF VerifierIndexFinalize, StubsInv, TypeOK
<1>4. /\ srs'[s] = r
      /\ \A u \in Srs \ {s} : srs'[u] = srs[u]
      /\ srs' \in [Srs -> SrsRecord]
  <2>1. srs \in [Srs -> SrsRecord]
    BY DEF StubsInv, TypeOK, SrsRecord
  <2> QED
    BY <1>1, <1>2, <2>1 DEF VerifierIndexFinalize
<1>5. /\ Holders(s)' = Holders(s) \ {k}
      /\ \A u \in Srs \ {s} : Holders(u)' = Holders(u)
  <2> HIDE DEF r
  <2>1. \A u \in Srs : srs'[u].block = srs[u].block
    BY <1>1, <1>2, <1>4
  <2>2. UNCHANGED index
    BY DEF VerifierIndexFinalize
  <2> QED
    BY <1>1, <1>3, <2>1, <2>2, HoldersAssumption DEF Holders
<1>6. TypeOK'
  <2>1. key' \in [Keys -> VerifierIndex \cup {Nothing}]
    BY DEF StubsInv, TypeOK, VerifierIndexFinalize
  <2> QED
    BY <1>4, <2>1 DEF StubsInv, TypeOK, VerifierIndexFinalize, SrsRecord
<1>7. SrsOutlivesHolders'
  <2>1. \A u \in Srs \ {s} : Counts(srs'[u], Holders(u)')
    BY <1>4, <1>5, SrsFacts
  <2>2. Counts(srs'[s], Holders(s)')
    BY <1>2, <1>4, <1>5
  <2> QED
    BY <1>1, <2>1, <2>2 DEF SrsOutlivesHolders, Counts, Live
<1>8. BasisIsThere'
  <2> HIDE DEF r
  <2>0. BasesStay(s, k) /\ TypeOK
    BY <1>2, <1>4 DEF BasesStay, StubsInv
  <2>1. \A i \in Indexes : index[i] # Nothing => srs'[index[i].srs].bases = srs[index[i].srs].bases
    BY <2>0, IndexesAndKeysHold, HoldersAssumption DEF BasesStay
  <2>2. \A j \in Keys \ {k} :
          key[j] # Nothing => srs'[key[j].srs].bases = srs[key[j].srs].bases
    BY <2>0, IndexesAndKeysHold DEF BasesStay
  <2> QED
    BY <1>3, <2>1, <2>2 DEF BasisIsThere, StubsInv, VerifierIndexFinalize, TypeOK, Job
<1>9. FromIsKept' /\ JobsKeepTheirCall' /\ ProofsAnswerTheirCall'
  BY <1>3 DEF StubsInv, FromIsKept, JobsKeepTheirCall, ProofsAnswerTheirCall,
              VerifierIndexFinalize
<1> QED
  BY <1>6, <1>7, <1>8, <1>9 DEF StubsInv

-----------------------------------------------------------------------------
(* The steps that leave the objects alone.                                  *)

\* Whoever appends to the file appends an object that says where it comes from.
HonestlyWritten(w) ==
    w \in Written /\ (w.kind \in {"index", "key"} => w.from = <<w.gates, w.public>>)

\* A step on vectors, on the gate vector or on the file.
LEMMA ObjectsUntouched ==
    ASSUME StubsInv,
           vec' \in [Vectors -> Seq(Elems) \cup {Nothing}],
           gates' \in Circuits,
           file' = file \/ \E w : HonestlyWritten(w) /\ file' = Append(file, w),
           UNCHANGED <<curve, srs, index, key, job, proofs>>
    PROVE  StubsInv'
<1>1. /\ file' \in Seq(Written)
      /\ \A n \in DOMAIN file' :
           file'[n].kind \in {"index", "key"} => file'[n].from = <<file'[n].gates, file'[n].public>>
  <2>1. CASE file' = file
    BY <2>1 DEF StubsInv, TypeOK, FromIsKept
  <2>2. CASE \E w : HonestlyWritten(w) /\ file' = Append(file, w)
    <3>1. PICK w : HonestlyWritten(w) /\ file' = Append(file, w)
      BY <2>2
    <3>2. file \in Seq(Written) /\ w \in Written
      BY <3>1 DEF StubsInv, TypeOK, HonestlyWritten
    <3>3. \A n \in DOMAIN file' : (n \in DOMAIN file /\ file'[n] = file[n]) \/ file'[n] = w
      BY <3>1, <3>2
    <3>4. file' \in Seq(Written)
      BY <3>1, <3>2
    <3> QED
      BY <3>1, <3>3, <3>4 DEF HonestlyWritten, StubsInv, FromIsKept
  <2> QED
    BY <2>1, <2>2
<1>2. TypeOK'
  BY <1>1 DEF StubsInv, TypeOK
<1>3. SrsOutlivesHolders'
  BY DEF StubsInv, SrsOutlivesHolders, Holders, Live
<1>4. BasisIsThere'
  BY DEF StubsInv, BasisIsThere
<1>5. FromIsKept' /\ JobsKeepTheirCall' /\ ProofsAnswerTheirCall'
  BY <1>1 DEF StubsInv, FromIsKept, JobsKeepTheirCall, ProofsAnswerTheirCall
<1> QED
  BY <1>2, <1>3, <1>4, <1>5 DEF StubsInv

\* A field vector is created, extended, written to or freed.
LEMMA VectorSteps == ASSUME StubsInv, VectorStep PROVE StubsInv'
<1>0. PICK v \in Vectors :
        \/ VectorCreate(v)
        \/ \E x \in Elems : VectorEmplaceBack(v, x)
        \/ \E n \in 1..MaxLen, x \in Elems : VectorSet(v, n, x)
        \/ VectorFinalize(v)
  BY DEF VectorStep
<1>t. vec \in [Vectors -> Seq(Elems) \cup {Nothing}] /\ gates \in Circuits
  BY DEF StubsInv, TypeOK
<1>1. CASE VectorCreate(v)
  BY <1>1, <1>t, ObjectsUntouched DEF VectorCreate
<1>2. ASSUME NEW x \in Elems, VectorEmplaceBack(v, x) PROVE StubsInv'
  BY <1>2, <1>t, ObjectsUntouched DEF VectorEmplaceBack
<1>3. ASSUME NEW n \in 1..MaxLen, NEW x \in Elems, VectorSet(v, n, x) PROVE StubsInv'
  <2>1. vec[v] \in Seq(Elems) /\ n \in DOMAIN vec[v]
    BY <1>3, <1>t DEF VectorSet
  <2>2. [vec[v] EXCEPT ![n] = x] \in Seq(Elems)
    BY <2>1
  <2>3. vec' = [vec EXCEPT ![v] = [vec[v] EXCEPT ![n] = x]]
    BY <1>3 DEF VectorSet
  <2> HIDE DEF VectorSet
  <2>4. vec' \in [Vectors -> Seq(Elems) \cup {Nothing}]
    BY <1>t, <2>2, <2>3
  <2> QED
    BY <1>3, <1>t, <2>4, ObjectsUntouched DEF VectorSet
<1>4. CASE VectorFinalize(v)
  BY <1>4, <1>t, ObjectsUntouched DEF VectorFinalize
<1> QED
  BY <1>0, <1>1, <1>2, <1>3, <1>4

\* The gate vector is created, extended or has a wire redirected.
LEMMA GateVectorSteps == ASSUME StubsInv, GateVectorStep PROVE StubsInv'
<1>t. /\ vec \in [Vectors -> Seq(Elems) \cup {Nothing}]
      /\ gates \in Seq({0, 1}) /\ Len(gates) <= MaxRows
  BY CircuitsAreSequences DEF StubsInv, TypeOK
<1>1. CASE GateVectorCreate
  <2>1. gates' \in Seq({0, 1}) /\ Len(gates') <= MaxRows
    BY <1>1, BoundsAssumption DEF GateVectorCreate
  <2> QED
    BY <1>1, <1>t, <2>1, CircuitsAreSequences, ObjectsUntouched DEF GateVectorCreate
<1>2. CASE GateVectorAdd
  <2>1. gates' \in Seq({0, 1}) /\ Len(gates') <= MaxRows
    BY <1>2, <1>t, BoundsAssumption DEF GateVectorAdd
  <2> QED
    BY <1>2, <1>t, <2>1, CircuitsAreSequences, ObjectsUntouched DEF GateVectorAdd
<1>3. ASSUME NEW row \in WrapRows, GateVectorWrap(row) PROVE StubsInv'
  <2>1. gates' \in Seq({0, 1}) /\ Len(gates') <= MaxRows
    BY <1>3, <1>t DEF GateVectorWrap
  <2> QED
    BY <1>3, <1>t, <2>1, CircuitsAreSequences, ObjectsUntouched DEF GateVectorWrap
<1> QED
  BY <1>1, <1>2, <1>3 DEF GateVectorStep

\* An SRS, an index or a key is written to the file.
LEMMA WriteSteps ==
    ASSUME StubsInv,
           \/ \E s \in Srs : SrsWrite(s)
           \/ \E i \in Indexes : IndexWrite(i)
           \/ \E k \in Keys : VerifierIndexWrite(k)
    PROVE  StubsInv'
<1>t. vec \in [Vectors -> Seq(Elems) \cup {Nothing}] /\ gates \in Circuits
  BY DEF StubsInv, TypeOK
<1>1. ASSUME NEW s \in Srs, SrsWrite(s) PROVE StubsInv'
  <2>1. HonestlyWritten([kind |-> "srs"])
    BY DEF HonestlyWritten, Written
  <2> QED
    BY <1>1, <1>t, <2>1, ObjectsUntouched DEF SrsWrite
<1>2. ASSUME NEW i \in Indexes, IndexWrite(i) PROVE StubsInv'
  <2>1. index[i] \in ProverIndex /\ index[i].from = <<index[i].gates, index[i].public>>
    BY <1>2 DEF IndexWrite, StubsInv, TypeOK, FromIsKept
  <2> DEFINE w == [kind |-> "index", gates |-> index[i].gates,
                   public |-> index[i].public, from |-> index[i].from]
  <2>2. HonestlyWritten(w)
    BY <2>1 DEF HonestlyWritten, Written, ProverIndex
  <2> QED
    BY <1>2, <1>t, <2>2, ObjectsUntouched DEF IndexWrite
<1>3. ASSUME NEW k \in Keys, VerifierIndexWrite(k) PROVE StubsInv'
  <2>1. key[k] \in VerifierIndex /\ key[k].from = <<key[k].gates, key[k].public>>
    BY <1>3 DEF VerifierIndexWrite, StubsInv, TypeOK, FromIsKept
  <2> DEFINE w == [kind |-> "key", gates |-> key[k].gates,
                   public |-> key[k].public, from |-> key[k].from]
  <2>2. HonestlyWritten(w)
    BY <2>1 DEF HonestlyWritten, Written, VerifierIndex
  <2> QED
    BY <1>3, <1>t, <2>2, ObjectsUntouched DEF VerifierIndexWrite
<1> QED
  BY <1>1, <1>2, <1>3

-----------------------------------------------------------------------------
(* The remaining steps on SRSs, indexes and keys.                           *)

\* An SRS is created, or read, in a place that nothing holds.
LEMMA SrsMade ==
    ASSUME StubsInv, NEW s \in Srs, SrsCreate(s) \/ \E n \in 1..MaxFile : SrsRead(s, n)
    PROVE  StubsInv'
<1> DEFINE r == [status |-> "live", count |-> 1, bases |-> {}, block |-> TRUE]
<1>1. /\ srs' = [srs EXCEPT ![s] = r] /\ ~Live(s)
      /\ UNCHANGED <<curve, vec, gates, index, key, job, proofs, file>>
  BY DEF SrsCreate, SrsRead
<1>2. Holders(s) = {} /\ srs \in [Srs -> SrsRecord] /\ TypeOK
  BY <1>1, SrsFacts DEF StubsInv, TypeOK, SrsRecord
<1>3. r \in SrsRecord /\ r.block
  BY DEF SrsRecord
<1>4. srs' \in [Srs -> SrsRecord] /\ srs'[s] = r /\ \A u \in Srs \ {s} : srs'[u] = srs[u]
  BY <1>1, <1>2, <1>3
<1>5. /\ \A i \in Indexes : index[i] # Nothing => index[i].srs \in Srs \ {s}
      /\ \A k \in Keys : key[k] # Nothing => key[k].srs \in Srs \ {s}
  BY <1>2, IndexesAndKeysHold
<1>6. Holders(s)' = {"block"} /\ \A u \in Srs \ {s} : Holders(u)' = Holders(u)
  <2>1. Holders(s)' = {"block"}
    BY <1>1, <1>3, <1>4, <1>5 DEF Holders
  <2> HIDE DEF r
  <2>2. \A u \in Srs \ {s} : Holders(u)' = Holders(u)
    BY <1>1, <1>4 DEF Holders
  <2> QED
    BY <2>1, <2>2
<1>7. TypeOK'
  BY <1>1, <1>2, <1>4 DEF TypeOK, SrsRecord
<1>8. SrsOutlivesHolders'
  <2>1. Cardinality({"block"}) = 1
    BY FS_Singleton
  <2>2. Counts(srs'[s], Holders(s)')
    BY <1>4, <1>6, <2>1 DEF Counts
  <2> HIDE DEF r
  <2>3. \A u \in Srs \ {s} : Counts(srs'[u], Holders(u)')
    BY <1>4, <1>6, SrsFacts
  <2> QED
    BY <2>2, <2>3 DEF SrsOutlivesHolders, Counts, Live
<1>9. BasisIsThere'
  <2> HIDE DEF r
  <2> QED
    BY <1>1, <1>2, <1>4, <1>5 DEF BasisIsThere, StubsInv, TypeOK, Job
<1>10. FromIsKept' /\ JobsKeepTheirCall' /\ ProofsAnswerTheirCall'
  BY <1>1 DEF StubsInv, FromIsKept, JobsKeepTheirCall, ProofsAnswerTheirCall
<1> QED
  BY <1>7, <1>8, <1>9, <1>10 DEF StubsInv

\* The domain of a circuit is a domain.
LEMMA DomainOfType == \A c : DomainOf(c) \in Domains
BY DEF DomainOf, Domains

\* What MakeIndex returns.
LEMMA MadeObjects ==
    ASSUME NEW c \in Gates, NEW public \in Nat, NEW s \in Srs
    PROVE  LET i == MakeIndex(c, public, s, <<c, public>>)
           IN  /\ i \in ProverIndex /\ i.srs = s /\ i.domain = DomainOf(c)
               /\ i.from = <<i.gates, i.public>>
<1>1. <<c, public>> \in Gates \X Nat
  OBVIOUS
<1> QED
  BY <1>1, DomainOfType DEF MakeIndex, ProverIndex

\* A key says of its circuit what the index it is made from says.
LEMMA MadeKeys ==
    ASSUME NEW i \in ProverIndex, i.from = <<i.gates, i.public>>, NEW made \in BOOLEAN
    PROVE  LET k == ToCaml(i, made)
           IN  /\ k \in VerifierIndex /\ k.srs = i.srs /\ k.domain = i.domain
               /\ k.made = made /\ k.from = <<k.gates, k.public>>
BY DEF ToCaml, ProverIndex, VerifierIndex

\* A prover index is created from the gate vector.
LEMMA IndexCreateStep ==
    ASSUME StubsInv, NEW i \in Indexes, NEW public \in Publics, NEW s \in Srs,
           IndexCreate(i, public, s)
    PROVE  StubsInv'
<1> DEFINE new == MakeIndex(gates, public, s, <<gates, public>>)
<1>1. gates \in Gates /\ public \in Nat
  BY CircuitsAreSequences, BoundsAssumption DEF StubsInv, TypeOK, Gates
<1>2. PICK n : n = new
  OBVIOUS
<1>3. /\ n \in ProverIndex /\ n.srs = s /\ n.domain = DomainOf(gates)
      /\ n.from = <<n.gates, n.public>>
  BY <1>1, <1>2, MadeObjects
<1>4. /\ index[i] = Nothing /\ Live(s)
      /\ index' = [index EXCEPT ![i] = n]
      /\ srs' = [srs EXCEPT ![s] = CloneArc(AddLagrangeBasis(@, n.domain))]
      /\ MarkRaces(s, n.domain)
      /\ UNCHANGED <<curve, vec, gates, key, proofs, file>>
  BY <1>2 DEF IndexCreate
<1>5. SharedWith(n.srs) /\ JobsKept
  BY <1>3, <1>4, CloneIsShared, DomainOfType, MarkRacesKeepsJobs DEF StubsInv
<1>6. proofs' = proofs /\ proofs \subseteq Proof
  BY <1>4 DEF StubsInv, TypeOK
<1> HIDE DEF new
<1> QED
  BY <1>3, <1>4, <1>5, <1>6, IndexAdded

\* What the file holds of an index or a key.
LEMMA FileFacts ==
    ASSUME StubsInv, NEW n \in DOMAIN file, file[n].kind \in {"index", "key"}
    PROVE  /\ file[n].gates \in Gates /\ file[n].public \in Nat
           /\ file[n].from = <<file[n].gates, file[n].public>>
<1>1. file[n] \in Written
  BY DEF StubsInv, TypeOK
<1>2. file[n] \in [kind : {"index", "key"}, gates : Gates, public : Nat, from : Gates \X Nat]
  BY <1>1 DEF Written
<1> QED
  BY <1>2 DEF StubsInv, FromIsKept

\* A prover index is read and attached to an SRS.
LEMMA IndexReadStep ==
    ASSUME StubsInv, NEW i \in Indexes, NEW m \in 1..MaxFile, NEW s \in Srs,
           IndexRead(i, m, s)
    PROVE  StubsInv'
<1>1. /\ file[m].gates \in Gates /\ file[m].public \in Nat
      /\ file[m].from = <<file[m].gates, file[m].public>>
  BY FileFacts DEF IndexRead
<1>2. PICK n : n = MakeIndex(file[m].gates, file[m].public, s, file[m].from)
  OBVIOUS
<1>3. n \in ProverIndex /\ n.srs = s /\ n.from = <<n.gates, n.public>>
  BY <1>1, <1>2, MadeObjects
<1>4. /\ index[i] = Nothing /\ Live(s)
      /\ index' = [index EXCEPT ![i] = n]
      /\ srs' = [srs EXCEPT ![s] = CloneArc(@)]
      /\ UNCHANGED <<curve, vec, gates, key, job, proofs, file>>
  BY <1>2 DEF IndexRead
<1>5. SharedWith(n.srs) /\ JobsKept
  <2>1. 1 \in Domains
    BY DEF Domains
  <2> QED
    BY <1>3, <1>4, <2>1, CloneIsShared, MarkRacesKeepsJobs DEF StubsInv
<1>6. proofs' = proofs /\ proofs \subseteq Proof
  BY <1>4 DEF StubsInv, TypeOK
<1> QED
  BY <1>3, <1>4, <1>5, <1>6, IndexAdded

\* A verifier index is made from a prover index.
LEMMA VerifierIndexCreateStep ==
    ASSUME StubsInv, NEW k \in Keys, NEW i \in Indexes, VerifierIndexCreate(k, i)
    PROVE  StubsInv'
<1>1. index[i] \in ProverIndex /\ index[i].from = <<index[i].gates, index[i].public>>
  BY DEF VerifierIndexCreate, StubsInv, TypeOK, FromIsKept
<1>2. PICK n : n = ToCaml(index[i], TRUE)
  OBVIOUS
<1>3. PICK s \in Srs : s = index[i].srs
  BY <1>1 DEF ProverIndex
<1>4. PICK d \in Domains : d = index[i].domain
  BY <1>1 DEF ProverIndex
<1>5. /\ n \in VerifierIndex /\ n.srs = s /\ n.domain = d
      /\ n.from = <<n.gates, n.public>>
  BY <1>1, <1>2, <1>3, <1>4, MadeKeys
<1>6. /\ key[k] = Nothing
      /\ key' = [key EXCEPT ![k] = n]
      /\ srs' = [srs EXCEPT ![s] = CloneArc(AddLagrangeBasis(@, d))]
      /\ MarkRaces(s, d)
      /\ UNCHANGED <<curve, vec, gates, index, proofs, file>>
  BY <1>2, <1>3, <1>4 DEF VerifierIndexCreate
<1>7. Live(s)
  <2>1. i \in Holders(s)
    BY <1>1, <1>3, IndexesAndKeysHold, NothingAssumption DEF StubsInv
  <2> QED
    BY <2>1, SrsFacts
<1>8. SharedWith(n.srs) /\ d \in srs'[s].bases /\ JobsKept
  BY <1>5, <1>6, <1>7, CloneIsShared, MarkRacesKeepsJobs DEF StubsInv
<1> QED
  BY <1>5, <1>6, <1>8, KeyAdded

\* A verifier index is read and attached to an SRS.
LEMMA VerifierIndexReadStep ==
    ASSUME StubsInv, NEW k \in Keys, NEW m \in 1..MaxFile, NEW s \in Srs,
           VerifierIndexRead(k, m, s)
    PROVE  StubsInv'
<1>1. /\ file[m].gates \in Gates /\ file[m].public \in Nat
      /\ file[m].from = <<file[m].gates, file[m].public>>
  BY FileFacts DEF VerifierIndexRead
<1>2. PICK i : i = MakeIndex(file[m].gates, file[m].public, s, file[m].from)
  OBVIOUS
<1>3. i \in ProverIndex /\ i.srs = s /\ i.from = <<i.gates, i.public>>
  BY <1>1, <1>2, MadeObjects
<1>4. PICK n : n = ToCaml(i, FALSE)
  OBVIOUS
<1>5. n \in VerifierIndex /\ n.srs = s /\ ~n.made /\ n.from = <<n.gates, n.public>>
  BY <1>3, <1>4, MadeKeys
<1>6. /\ key[k] = Nothing /\ Live(s)
      /\ key' = [key EXCEPT ![k] = n]
      /\ srs' = [srs EXCEPT ![s] = CloneArc(@)]
      /\ UNCHANGED <<curve, vec, gates, index, job, proofs, file>>
  BY <1>2, <1>4 DEF VerifierIndexRead
<1>7. SharedWith(n.srs) /\ JobsKept
  <2>1. 1 \in Domains
    BY DEF Domains
  <2> QED
    BY <1>5, <1>6, <2>1, CloneIsShared, MarkRacesKeepsJobs DEF StubsInv
<1> QED
  BY <1>5, <1>6, <1>7, KeyAdded

-----------------------------------------------------------------------------
(* Proofs.                                                                  *)

\* The job that a thread starts: the basis of its index is in the SRS, and the public
\* input is a copy with as many elements as the index asks for.
LEMMA ProofCreateStep ==
    ASSUME StubsInv, NEW t \in Threads, NEW i \in Indexes, NEW v \in Vectors,
           NEW verify \in BOOLEAN, ProofCreate(t, i, v, verify)
    PROVE  StubsInv'
<1>1. index[i] \in ProverIndex /\ index[i] # Nothing
  BY DEF ProofCreate, StubsInv, TypeOK
<1>2. PICK s \in Srs : s = index[i].srs
  BY <1>1 DEF ProverIndex
<1>3. PICK d \in Domains : d = index[i].domain
  BY <1>1 DEF ProverIndex
<1>4. PICK new : new = [index |-> i, vector |-> v,
                        public_input |-> SubSeq(vec[v], 1, index[i].public),
                        asked |-> SubSeq(vec[v], 1, index[i].public),
                        verify |-> verify, raced |-> FALSE]
  OBVIOUS
<1>5. /\ srs' = [srs EXCEPT ![s] = AddLagrangeBasis(@, d)]
      /\ job' = [u \in Threads |->
                   IF u = t THEN new
                   ELSE IF Reading(u, s) /\ d \notin srs[s].bases
                   THEN [job[u] EXCEPT !.raced = TRUE]
                   ELSE job[u]]
      /\ UNCHANGED <<curve, vec, gates, index, key, proofs, file>>
  BY <1>2, <1>3, <1>4 DEF ProofCreate
<1>6. /\ new \in Job /\ new.index = i /\ new.public_input = new.asked
      /\ Len(new.public_input) = index[i].public
  <2>1. /\ vec[v] \in Seq(Elems) /\ index[i].public \in Nat
        /\ index[i].public <= Len(vec[v])
    BY <1>1 DEF ProofCreate, StubsInv, TypeOK, ProverIndex
  <2>2. /\ SubSeq(vec[v], 1, index[i].public) \in Seq(Elems)
        /\ Len(SubSeq(vec[v], 1, index[i].public)) = index[i].public
    BY <2>1, SubSeqProperties
  <2> QED
    BY <1>4, <2>2 DEF Job
<1>7. PICK marked : marked = [u \in Threads |->
                       IF Reading(u, s) /\ d \notin srs[s].bases
                       THEN [job[u] EXCEPT !.raced = TRUE]
                       ELSE job[u]]
  OBVIOUS
<1>8. /\ marked \in [Threads -> Job \cup {Nothing}]
      /\ \A u \in Threads :
           /\ marked[u] = Nothing <=> job[u] = Nothing
           /\ job[u] # Nothing => /\ marked[u].index = job[u].index
                                  /\ marked[u].public_input = job[u].public_input
                                  /\ marked[u].asked = job[u].asked
  <2>1. ASSUME NEW u \in Threads, job[u] # Nothing
        PROVE  /\ [job[u] EXCEPT !.raced = TRUE] \in Job
               /\ [job[u] EXCEPT !.raced = TRUE].index = job[u].index
               /\ [job[u] EXCEPT !.raced = TRUE].public_input = job[u].public_input
               /\ [job[u] EXCEPT !.raced = TRUE].asked = job[u].asked
    BY <2>1 DEF StubsInv, TypeOK, Job
  <2>2. Nothing \notin Job
    BY NothingAssumption
  <2>3. job \in [Threads -> Job \cup {Nothing}]
    BY DEF StubsInv, TypeOK
  <2> QED
    BY <1>7, <2>1, <2>2, <2>3 DEF Reading
<1>9. job'[t] = new /\ \A u \in Threads \ {t} : job'[u] = marked[u]
  BY <1>5, <1>7
<1>10. \A u \in Srs : /\ srs'[u] \in SrsRecord
                      /\ srs'[u].block = srs[u].block
                      /\ srs[u].bases \subseteq srs'[u].bases
                      /\ Counts(srs'[u], Holders(u))
  <2>1. AddLagrangeBasis(srs[s], d).block = srs[s].block
    BY SrsFacts DEF AddLagrangeBasis, SrsRecord
  <2>2. srs'[s] = AddLagrangeBasis(srs[s], d) /\ \A u \in Srs \ {s} : srs'[u] = srs[u]
    BY <1>5 DEF StubsInv, TypeOK
  <2> QED
    BY <2>1, <2>2, SrsFacts, AddKeepsCounts
<1>11. d \in srs'[s].bases
  <2>1. srs'[s] = AddLagrangeBasis(srs[s], d)
    BY <1>5 DEF StubsInv, TypeOK
  <2> QED
    BY <2>1, SrsFacts, AddKeepsCounts
<1>12. \A u \in Srs : Holders(u)' = Holders(u)
  BY <1>5, <1>10 DEF Holders
<1>13. TypeOK'
  <2>1. srs' \in [Srs -> SrsRecord]
    BY <1>5, <1>10 DEF StubsInv, TypeOK
  <2>2. job' \in [Threads -> Job \cup {Nothing}]
    BY <1>5, <1>6, <1>8, <1>9
  <2>a. \A u \in Threads : job[u] # Nothing => index[job[u].index] # Nothing
    BY DEF StubsInv, TypeOK
  <2>3. \A u \in Threads : job'[u] # Nothing => index[job'[u].index] # Nothing
    BY <1>1, <1>6, <1>8, <1>9, <2>a
  <2> QED
    BY <1>5, <2>1, <2>2, <2>3 DEF StubsInv, TypeOK, SrsRecord
<1>14. SrsOutlivesHolders'
  BY <1>10, <1>12 DEF SrsOutlivesHolders, Counts, Live
<1>15. BasisIsThere'
  <2>1. \A k \in Keys :
          key[k] # Nothing /\ key[k].made => key[k].domain \in srs'[key[k].srs].bases
    BY <1>10 DEF StubsInv, BasisIsThere, TypeOK, VerifierIndex
  <2>2. \A u \in Threads : job[u] # Nothing =>
          index[job[u].index].domain \in srs'[index[job[u].index].srs].bases
    BY <1>10 DEF StubsInv, BasisIsThere, TypeOK, Job, ProverIndex
  <2>3. \A u \in Threads : job'[u] # Nothing =>
          index[job'[u].index].domain \in srs'[index[job'[u].index].srs].bases
    BY <1>2, <1>3, <1>6, <1>8, <1>9, <1>11, <2>2
  <2> QED
    BY <1>5, <2>1, <2>3 DEF BasisIsThere
<1>16. FromIsKept' /\ JobsKeepTheirCall' /\ ProofsAnswerTheirCall'
  <2>1. \A u \in Threads : job'[u] # Nothing =>
          /\ Len(job'[u].public_input) = index[job'[u].index].public
          /\ job'[u].public_input = job'[u].asked
    BY <1>6, <1>8, <1>9 DEF StubsInv, FromIsKept, JobsKeepTheirCall
  <2> QED
    BY <1>5, <2>1 DEF StubsInv, FromIsKept, JobsKeepTheirCall, ProofsAnswerTheirCall
<1> QED
  BY <1>13, <1>14, <1>15, <1>16 DEF StubsInv

\* A thread gets the prover's result.
LEMMA ProofReturnsStep ==
    ASSUME StubsInv, NEW t \in Threads, ProofReturns(t)
    PROVE  StubsInv'
<1>1. /\ job[t] \in Job /\ job[t] # Nothing /\ index[job[t].index] \in ProverIndex
      /\ job[t].public_input = job[t].asked
      /\ Len(job[t].public_input) = index[job[t].index].public
      /\ index[job[t].index].from =
           <<index[job[t].index].gates, index[job[t].index].public>>
  BY DEF ProofReturns, StubsInv, TypeOK, Job, FromIsKept, JobsKeepTheirCall
<1>2. ASSUME NEW p \in Outcomes(t)
      PROVE  /\ p \in Proof /\ p.public_input = p.asked
             /\ ~p.raced => p.from = <<p.gates, Len(p.public_input)>>
  <2> DEFINE i == index[job[t].index]
  <2>0. PICK proof : proof = [gates |-> i.gates, public_input |-> job[t].public_input,
                              from |-> i.from, asked |-> job[t].asked,
                              raced |-> job[t].raced]
    OBVIOUS
  <2>1. p = proof \/ (job[t].raced /\ p = [proof EXCEPT !.gates = <<>>])
    BY <2>0 DEF Outcomes, PublicInput
  <2>2. /\ proof \in Proof /\ proof.public_input = proof.asked
        /\ proof.from = <<proof.gates, Len(proof.public_input)>>
        /\ proof.raced = job[t].raced
    BY <1>1, <2>0 DEF Proof, ProverIndex, Job
  <2>3. /\ [proof EXCEPT !.gates = <<>>] \in Proof
        /\ [proof EXCEPT !.gates = <<>>].public_input = proof.public_input
        /\ [proof EXCEPT !.gates = <<>>].asked = proof.asked
        /\ [proof EXCEPT !.gates = <<>>].raced = proof.raced
    <3>1. <<>> \in Gates
      BY DEF Gates
    <3> QED
      BY <2>2, <3>1 DEF Proof
  <2> QED
    BY <2>1, <2>2, <2>3
<1>3. \E p \in Outcomes(t) : proofs' \subseteq proofs \cup {p}
  BY DEF ProofReturns
<1>4. job' = [job EXCEPT ![t] = Nothing] /\ UNCHANGED <<curve, srs, vec, gates, index, key, file>>
  BY DEF ProofReturns
<1>5. job'[t] = Nothing /\ \A u \in Threads \ {t} : job'[u] = job[u]
  BY <1>4 DEF StubsInv, TypeOK
<1>6. TypeOK'
  BY <1>2, <1>3, <1>4, <1>5 DEF StubsInv, TypeOK
<1>7. SrsOutlivesHolders'
  BY <1>4 DEF StubsInv, SrsOutlivesHolders, Holders, Live
<1>8. BasisIsThere'
  BY <1>4, <1>5 DEF StubsInv, BasisIsThere
<1>9. FromIsKept' /\ JobsKeepTheirCall' /\ ProofsAnswerTheirCall'
  BY <1>2, <1>3, <1>4, <1>5
     DEF StubsInv, FromIsKept, JobsKeepTheirCall, ProofsAnswerTheirCall
<1> QED
  BY <1>6, <1>7, <1>8, <1>9 DEF StubsInv

\* An example makes an index and a proof of its own.
LEMMA ProofExampleStep ==
    ASSUME StubsInv, NEW i \in Indexes, NEW s \in Srs, NEW public_input \in Seq(Elems),
           ProofExample(i, s, <<0, 1>>, public_input)
    PROVE  StubsInv'
<1>1. PICK c : c = <<0, 1>>
  OBVIOUS
<1>2. c \in Gates /\ Len(public_input) \in Nat
  BY <1>1 DEF Gates
<1>3. PICK n : n = MakeIndex(c, Len(public_input), s, <<c, Len(public_input)>>)
  OBVIOUS
<1>4. /\ n \in ProverIndex /\ n.srs = s /\ n.domain = DomainOf(c)
      /\ n.from = <<n.gates, n.public>>
  BY <1>2, <1>3, MadeObjects
<1>5. PICK p : p = [gates |-> c, public_input |-> public_input,
                    from |-> <<c, Len(public_input)>>,
                    asked |-> public_input, raced |-> FALSE]
  OBVIOUS
<1>6. /\ index[i] = Nothing /\ Live(s)
      /\ index' = [index EXCEPT ![i] = n]
      /\ srs' = [srs EXCEPT ![s] = CloneArc(AddLagrangeBasis(@, n.domain))]
      /\ MarkRaces(s, n.domain)
      /\ proofs' = proofs \cup {p}
      /\ UNCHANGED <<curve, vec, gates, key, file>>
  BY <1>1, <1>3, <1>5 DEF ProofExample
<1>7. /\ p \in Proof /\ p.from = <<p.gates, Len(p.public_input)>>
      /\ p.public_input = p.asked
  BY <1>2, <1>5 DEF Proof
<1>8. SharedWith(n.srs) /\ JobsKept
  BY <1>4, <1>6, CloneIsShared, DomainOfType, MarkRacesKeepsJobs DEF StubsInv
<1>9. /\ proofs' \subseteq Proof
      /\ \A q \in proofs' \ proofs :
           q.from = <<q.gates, Len(q.public_input)>> /\ q.public_input = q.asked
  BY <1>6, <1>7 DEF StubsInv, TypeOK
<1> QED
  BY <1>4, <1>6, <1>8, <1>9, IndexAdded

\* An SRS that nothing holds.
LEMMA FreedSrs == NoSrs \in SrsRecord /\ ~NoSrs.block /\ Counts(NoSrs, {})
<1>1. NoSrs \in SrsRecord /\ ~NoSrs.block
  BY DEF NoSrs, SrsRecord
<1>2. Counts(NoSrs, {})
  BY FS_EmptySet DEF NoSrs, Counts
<1> QED
  BY <1>1, <1>2

\* The empty gate vector is a circuit.
LEMMA EmptyCircuit == <<>> \in Circuits
<1>1. <<>> \in Seq({0, 1}) /\ Len(<<>>) <= MaxRows
  BY BoundsAssumption
<1> QED
  BY <1>1, CircuitsAreSequences

\* The invariant holds at the start.
LEMMA StubsInit == Init => StubsInv
<1> SUFFICES ASSUME Init PROVE StubsInv
  OBVIOUS
<1>1. \A s \in Srs : srs[s] = NoSrs /\ Holders(s) = {}
  BY FreedSrs DEF Init, Holders
<1>2. TypeOK
  <2>1. srs \in [Srs -> SrsRecord]
    BY FreedSrs DEF Init
  <2> QED
    BY <2>1, EmptyCircuit DEF Init, TypeOK, SrsRecord
<1>3. SrsOutlivesHolders
  BY <1>1, FreedSrs DEF SrsOutlivesHolders, Counts, Live
<1>4. BasisIsThere /\ FromIsKept /\ JobsKeepTheirCall /\ ProofsAnswerTheirCall
  BY DEF Init, BasisIsThere, FromIsKept, JobsKeepTheirCall, ProofsAnswerTheirCall
<1> QED
  BY <1>2, <1>3, <1>4 DEF StubsInv

\* The process is killed and starts again with the file and the proofs it had.
LEMMA KillStep ==
    ASSUME StubsInv, NEW torn \in BOOLEAN, Kill(torn)
    PROVE  StubsInv'
<1>1. \A s \in Srs : srs'[s] = NoSrs /\ Holders(s)' = {}
  BY FreedSrs DEF Kill, Holders
<1>2. /\ file' \in Seq(Written)
      /\ \A n \in DOMAIN file' :
           file'[n].kind \in {"index", "key"} => file'[n].from = <<file'[n].gates, file'[n].public>>
  <2>1. CASE ~torn
    BY <2>1 DEF Kill, StubsInv, TypeOK, FromIsKept
  <2>2. CASE torn
    <3>1. PICK w : w = [kind |-> "torn"]
      OBVIOUS
    <3>2. w \in Written /\ w.kind = "torn" /\ file \in Seq(Written) /\ file' = Append(file, w)
      BY <2>2, <3>1 DEF Kill, StubsInv, TypeOK, Written
    <3>3. \A n \in DOMAIN file' : (n \in DOMAIN file /\ file'[n] = file[n]) \/ file'[n] = w
      BY <3>2
    <3> QED
      BY <3>2, <3>3 DEF StubsInv, FromIsKept
  <2> QED
    BY <2>1, <2>2
<1>3. TypeOK'
  <2>1. srs' \in [Srs -> SrsRecord]
    BY FreedSrs DEF Kill
  <2> QED
    BY <1>2, <2>1, EmptyCircuit DEF Kill, StubsInv, TypeOK, SrsRecord
<1>4. SrsOutlivesHolders'
  BY <1>1, FreedSrs DEF SrsOutlivesHolders, Counts, Live
<1>5. BasisIsThere' /\ JobsKeepTheirCall' /\ ProofsAnswerTheirCall'
  BY DEF Kill, StubsInv, BasisIsThere, JobsKeepTheirCall, ProofsAnswerTheirCall
<1>6. FromIsKept'
  BY <1>2 DEF Kill, StubsInv, FromIsKept
<1> QED
  BY <1>3, <1>4, <1>5, <1>6 DEF StubsInv

-----------------------------------------------------------------------------
(* Every step, and the theorems.                                            *)

\* Every step keeps the invariant.
LEMMA StubsStep == StubsInv /\ [Next]_vars => StubsInv'
<1> SUFFICES ASSUME StubsInv, [Next]_vars PROVE StubsInv'
  OBVIOUS
<1>1. CASE SrsStep
  <2>0. PICK s \in Srs :
          \/ SrsCreate(s) \/ SrsWrite(s)
          \/ \E n \in 1..MaxFile : SrsRead(s, n)
          \/ \E d \in Domains : SrsAddLagrangeBasis(s, d)
          \/ \E size \in 1..MaxRows : SrsLagrangeCommitment(s, size)
          \/ SrsFinalize(s)
    BY <1>1 DEF SrsStep
  <2>1. CASE SrsCreate(s) \/ \E n \in 1..MaxFile : SrsRead(s, n)
    BY <2>1, SrsMade
  <2>2. CASE SrsWrite(s)
    BY <2>2, WriteSteps
  <2>3. ASSUME NEW d \in Domains, SrsAddLagrangeBasis(s, d) PROVE StubsInv'
    BY <2>3, BasisAdded DEF SrsAddLagrangeBasis
  <2>4. ASSUME NEW size \in 1..MaxRows, SrsLagrangeCommitment(s, size) PROVE StubsInv'
    <3>1. PICK d \in Domains : d = DomainOf([j \in 1..size |-> 0])
      BY DomainOfType
    <3> QED
      BY <2>4, <3>1, BasisAdded DEF SrsLagrangeCommitment
  <2>5. CASE SrsFinalize(s)
    BY <2>5, SrsFinalizeStep
  <2> QED
    BY <2>0, <2>1, <2>2, <2>3, <2>4, <2>5
<1>2. CASE VectorStep
  BY <1>2, VectorSteps
<1>3. CASE GateVectorStep
  BY <1>3, GateVectorSteps
<1>4. CASE IndexStep
  BY <1>4, IndexCreateStep, IndexReadStep, WriteSteps, IndexFinalizeStep DEF IndexStep
<1>5. CASE VerifierIndexStep
  BY <1>5, VerifierIndexCreateStep, VerifierIndexReadStep, WriteSteps,
     VerifierIndexFinalizeStep DEF VerifierIndexStep
<1>6. ASSUME NEW verify \in BOOLEAN, ProofStep(verify) PROVE StubsInv'
  <2>1. ASSUME NEW t \in Threads, NEW i \in Indexes, ProofRejected(t, i) PROVE StubsInv'
    <3>1. index[i] \in ProverIndex
      BY <2>1 DEF ProofRejected, StubsInv, TypeOK
    <3>2. PICK s \in Srs, d \in Domains : s = index[i].srs /\ d = index[i].domain
      BY <3>1 DEF ProverIndex
    <3> QED
      BY <2>1, <3>2, BasisAdded DEF ProofRejected
  <2> QED
    BY <1>6, <2>1, ProofCreateStep, ProofReturnsStep DEF ProofStep
<1>7. ASSUME NEW i \in Indexes, NEW s \in Srs, NEW n \in 0..MaxLen,
             NEW public_input \in [1..n -> Elems], ProofExample(i, s, <<0, 1>>, public_input)
      PROVE  StubsInv'
  <2>1. public_input \in Seq(Elems)
    BY BoundsAssumption
  <2> QED
    BY <1>7, <2>1, ProofExampleStep
<1>8. ASSUME NEW torn \in BOOLEAN, Kill(torn) PROVE StubsInv'
  BY <1>8, KillStep
<1>9. CASE UNCHANGED vars
  BY <1>9, ObjectsUntouched DEF vars, StubsInv, TypeOK
<1> QED
  BY <1>1, <1>2, <1>3, <1>4, <1>5, <1>6, <1>7, <1>8, <1>9
     DEF Next, FpGateVector, FqGateVector, FpPlonkIndex, FqPlonkIndex,
         FpPlonkVerifierIndex, FqPlonkVerifierIndex, FpPlonkProof, FqPlonkProof

\* The inductive invariant holds in every reachable state.
THEOREM StubsInvariant == Spec => []StubsInv
BY StubsInit, StubsStep, PTL DEF Spec

\* The native objects keep their types: what a thread works with exists, however
\* many threads prove, write, read and collect.
THEOREM StubsTypeOK == Spec => []TypeOK
<1>1. StubsInv => TypeOK
  BY DEF StubsInv
<1> QED
  BY <1>1, StubsInvariant, PTL

\* No index or key outlives its SRS and no SRS is leaked.
THEOREM NoDanglingSrs == Spec => []SrsOutlivesHolders
<1>1. StubsInv => SrsOutlivesHolders
  BY DEF StubsInv
<1> QED
  BY <1>1, StubsInvariant, PTL

\* The Lagrange basis that a made key or a proof in progress looks up is cached.
THEOREM LookedUpBasisIsThere == Spec => []BasisIsThere
<1>1. StubsInv => BasisIsThere
  BY DEF StubsInv
<1> QED
  BY <1>1, StubsInvariant, PTL

\* A proof is about the public input of the call that asked for it.
THEOREM PublicInputIsTheCalls == Spec => []ProofsAnswerTheirCall
<1>1. StubsInv => ProofsAnswerTheirCall
  BY DEF StubsInv
<1> QED
  BY <1>1, StubsInvariant, PTL

\* A proof that was not computed during a race is accepted under every key of its
\* circuit made in this process, and under one that was read as soon as the basis of
\* its domain is in the SRS: the key and the proof both come from that circuit, and the
\* basis of a made key cannot be lost.
THEOREM ProofsOfACircuitVerify == Spec => []HonestProofsVerify
<1>1. StubsInv => HonestProofsVerify
  <2> SUFFICES ASSUME StubsInv, NEW p \in proofs, NEW k \in Keys,
                      ~p.raced, key[k] # Nothing, key[k].from = p.from
               PROVE  Verify(key[k], p) =
                        IF key[k].made \/ key[k].domain \in srs[key[k].srs].bases
                        THEN "accepts" ELSE "panics"
    BY DEF HonestProofsVerify
  <2>1. /\ key[k].from = <<key[k].gates, key[k].public>>
        /\ p.from = <<p.gates, Len(p.public_input)>>
    BY DEF StubsInv, FromIsKept
  <2>2. key[k].gates = p.gates /\ key[k].public = Len(p.public_input)
    <3>1. \A a, b, c, d : <<a, b>> = <<c, d>> => a = c /\ b = d
      OBVIOUS
    <3>2. <<key[k].gates, key[k].public>> = <<p.gates, Len(p.public_input)>>
      BY <2>1, Zenon
    <3> QED
      BY <3>1, <3>2, Zenon
  <2>3. key[k].made => key[k].domain \in srs[key[k].srs].bases
    BY DEF StubsInv, BasisIsThere
  <2> QED
    BY <2>2, <2>3 DEF Verify
<1> QED
  BY <1>1, StubsInvariant, PTL
=============================================================================
