----------------------------- MODULE LifeProofs -----------------------------
(***************************************************************************)
(* Recovery of a fabric's contents is exact, for every set of commands,    *)
(* every installed fabric and every bound.                                 *)
(*                                                                         *)
(* The inductive invariant names the fabrics the records of the journal    *)
(* have led to, one after the other.  That the replay, a function defined  *)
(* by recursion over the journal, returns the last of them follows by      *)
(* looking at the first record at which it would differ.  A snapshot       *)
(* beyond the default limits is passed over, which loses nothing as long   *)
(* as a record is left: the first one stands for itself.                   *)
(***************************************************************************)
EXTENDS FabricLife, FiniteSetTheorems, WellFoundedInduction, TLAPS

\* Leaves go to Zenon unless they cite another prover.
USE Zenon

-----------------------------------------------------------------------------
(* Numbers and sequences.                                                  *)

\* A set of numbers has a lowest member.
LEMMA LowestNumber ==
    ASSUME NEW S \in SUBSET Nat, S # {}
    PROVE  \E x \in S : \A y \in S : ~(y < x)
  <1>1. PICK x \in S : \A y \in S : ~(<<y, x>> \in OpToRel(<, Nat))
    BY NatLessThanWellFounded, WFMin
  <1>2. \A y \in S : y < x => <<y, x>> \in OpToRel(<, Nat)
    BY SMT DEF OpToRel
  <1> QED BY <1>1, <1>2

\* The parts of what replaying a record returns.
LEMMA Parts == \A x : <<TRUE, x>>[1] /\ <<TRUE, x>>[2] = x
  OBVIOUS

\* more is a sequence of records and one more.
Extends(recs, r, more) ==
    /\ Len(recs) \in Nat /\ Len(more) = Len(recs) + 1
    /\ \A i \in 1..Len(recs) : more[i] = recs[i]
    /\ more[Len(recs) + 1] = r

\* Appending to a sequence extends it by one record.
LEMMA Appended ==
    ASSUME NEW S, NEW recs \in Seq(S), NEW r
    PROVE  (\E T : Append(recs, r) \in Seq(T)) /\ Extends(recs, r, Append(recs, r))
  <1>1. recs \in Seq(S \cup {r}) /\ r \in S \cup {r}
    BY SMT
  <1>2. Append(recs, r) \in Seq(S \cup {r})
    BY <1>1, SMT
  <1>3. Extends(recs, r, Append(recs, r))
    BY <1>1, SMT DEF Extends
  <1> QED BY <1>2, <1>3

-----------------------------------------------------------------------------
(* Stored forms.                                                           *)

FabricFields == {"gen", "epoch", "state", "options", "domains", "leaves", "spines",
                 "ports", "links", "history", "evidence"}

\* A fabric that the reader of records accepts.
Readable(f) ==
    /\ DOMAIN f = FabricFields /\ f = [x \in FabricFields |-> f[x]]
    /\ Within(f, Limits)
    /\ NodesAccepted(f) /\ read_links(f) /\ ReadEvidence(f) /\ freeze(f)

\* A fabric is not the absence of one, and a snapshot not the absence of one.
LEMMA Present ==
    /\ \A f : Readable(f) => f # NoFabric
    /\ \A f, n : Snapshot(f, n) # NoSnapshot
  <1>1. DOMAIN NoFabric = {"gen"} /\ DOMAIN NoSnapshot = {"covers"}
    BY DEF NoFabric, NoSnapshot
  <1>2. \A f, n : DOMAIN Snapshot(f, n) = {"fab", "covers"}
    BY DEF Snapshot
  <1>3. "links" \in FabricFields /\ "links" # "gen" /\ "fab" # "covers"
    BY DEF FabricFields
  <1> QED BY <1>1, <1>2, <1>3 DEF Readable

\* What is written of a fabric is read as that fabric, if it is within the limits.
LEMMA FabricReadBack ==
    ASSUME NEW f, Readable(f), NEW limits
    PROVE  deserialize_fabric(serialize_fabric(f), limits)
             = IF Within(f, limits) THEN f ELSE NoFabric
  <1>1. Decoded(serialize_fabric(f)) = f
    BY SMT DEF Decoded, serialize_fabric, canonical_topology, canonical_evidence,
               Readable, FabricFields
  <1> QED BY <1>1 DEF deserialize_fabric, Readable

\* What is written of a command is accepted and read as that command.
LEMMA CommandReadBack ==
    ASSUME NEW c \in Commands
    PROVE  /\ Decodable(serialize_command(c))
           /\ deserialize_command(serialize_command(c)) = c
  <1>1. c \in GovernedCommand
    BY InputsAssumption
  <1>2. Decodable(serialize_command(c))
    BY <1>1, SMT DEF Decodable, serialize_command, GovernedCommand, LinkRecord,
                     ObservationRecord, FabricOptions, NodeKeys, Tier
  <1>3. deserialize_command(serialize_command(c)) = c
    BY <1>1, SMT DEF deserialize_command, serialize_command, GovernedCommand
  <1> QED BY <1>2, <1>3

\* A fabric that passed the builder is accepted by the reader, unless a link has
\* the identity of a retired one.
LEMMA BuiltReadable ==
    ASSUME NEW f, DOMAIN f = FabricFields, f = [x \in FabricFields |-> f[x]],
           Rebuilt(f), Within(f, Limits), ~Reuses(f)
    PROVE  Readable(f)
  <1>1. \A i \in DOMAIN f.history : add_history_link(f, i, DOMAIN f.links)
    <2> SUFFICES ASSUME NEW i \in DOMAIN f.history
                 PROVE  add_history_link(f, i, DOMAIN f.links)
      OBVIOUS
    <2>1. i \notin DOMAIN f.links
      BY DEF Reuses
    <2>2. add_history_link(f, i, {})
      BY DEF Rebuilt
    <2> QED BY <2>1, <2>2 DEF add_history_link
  <1> QED BY <1>1 DEF Readable, read_links, ReadEvidence, Rebuilt

\* The recursion that the sum of no numbers stands for.
NoSum(it) ==
    it = [s \in SUBSET {} |->
            IF s = {} THEN 0
            ELSE EmptyCounts[CHOOSE x \in s : TRUE] + it[s \ {CHOOSE x \in s : TRUE}]]

\* No observations are none.
LEMMA SumOfNone == SumFunction(EmptyCounts) = 0
  <1>1. DOMAIN EmptyCounts = {}
    BY DEF EmptyCounts
  <1>2. SumFunction(EmptyCounts) = (CHOOSE it : NoSum(it))[{}]
    BY <1>1 DEF SumFunction, SumFunctionOnSet, FoldFunctionOnSet, MapThenFoldSet, NoSum
  <1>3. PICK zero : zero = [s \in SUBSET {} |-> 0]
    OBVIOUS
  <1>4. \A s \in SUBSET {} : s = {}
    OBVIOUS
  <1>5. NoSum(zero)
    BY <1>3, <1>4 DEF NoSum
  <1>6. PICK it : it = CHOOSE i : NoSum(i)
    OBVIOUS
  <1>7. NoSum(it)
    BY <1>5, <1>6
  <1>8. it[{}] = 0
    BY <1>4, <1>7 DEF NoSum
  <1> QED BY <1>2, <1>6, <1>8

\* The fabric of a first start is within all limits and bounds.
LEMMA EmptyReadable ==
    /\ Readable(EmptyFabric) /\ Within(EmptyFabric, SnapshotLimits)
    /\ FitsRecord(EmptyFabric) /\ FitsSnapshot(EmptyFabric)
  <1>1. /\ DOMAIN EmptyFabric = FabricFields
        /\ EmptyFabric = [x \in FabricFields |-> EmptyFabric[x]]
    BY SMT DEF EmptyFabric, FabricFields
  <1>2. /\ EmptyFabric.options = DefaultOptions
        /\ EmptyFabric.domains = <<>> /\ EmptyFabric.leaves = <<>>
        /\ EmptyFabric.spines = <<>> /\ EmptyFabric.ports = <<>>
        /\ EmptyFabric.links = <<>> /\ EmptyFabric.history = <<>>
        /\ EmptyFabric.evidence = EmptyCounts
    BY DEF EmptyFabric
  <1>3. DOMAIN <<>> = {}
    BY SMT
  <1>4. DOMAIN EmptyCounts = {}
    BY DEF EmptyCounts
  <1>5. NodesAccepted(EmptyFabric)
    BY <1>2, <1>3, InputsAssumption DEF NodesAccepted, OptionsOk
  <1>6. read_links(EmptyFabric) /\ ReadEvidence(EmptyFabric) /\ freeze(EmptyFabric)
    BY <1>2, <1>3, <1>4 DEF read_links, ReadEvidence, freeze, validate_links
  <1>7. Cardinality({}) = 0
    BY FS_EmptySet
  <1>8. ASSUME NEW limits \in [LimitNames -> Nat] PROVE Within(EmptyFabric, limits)
    <2>1. \A kind \in LimitNames : 0 <= limits[kind]
      BY SMT
    <2>2. \A kind \in {"domains", "leaves", "spines", "ports", "links", "history"} :
            Cardinality(DOMAIN EmptyFabric[kind]) <= limits[kind]
      BY <1>2, <1>3, <1>7, <2>1 DEF LimitNames
    <2>3. SumFunction(EmptyFabric.evidence) <= limits["evidence"]
      BY <1>2, <2>1, SumOfNone DEF LimitNames
    <2> QED BY <1>2, <1>3, <2>2, <2>3 DEF Within
  <1>9. Within(EmptyFabric, Limits) /\ Within(EmptyFabric, SnapshotLimits)
    BY <1>8, LimitsAssumption, LifeAssumption
  <1>10. StoredBytes(EmptyFabric) = 0 + 0 + 0
    BY <1>2, <1>3, <1>7, SumOfNone DEF StoredBytes
  <1>11. FitsRecord(EmptyFabric) /\ FitsSnapshot(EmptyFabric)
    BY SMT, <1>10, LifeAssumption DEF FitsRecord, FitsSnapshot
  <1> QED BY <1>1, <1>5, <1>6, <1>9, <1>11 DEF Readable

\* A command changes fields of a fabric and adds or removes none.
LEMMA CandidateFields ==
    ASSUME NEW f, DOMAIN f = FabricFields, NEW c \in GovernedCommand,
           NEW g, NEW ep, NEW observer, NEW o, o = Candidate(f, c, g, ep, observer)
    PROVE  DOMAIN o = FabricFields /\ o = [x \in FabricFields |-> o[x]]
  <1>1. PICK e : e = Effect(f, c, g, ep, observer)
    OBVIOUS
  <1>2. DOMAIN e = FabricFields
    BY <1>1 DEF Effect, Retire, GovernedCommand, CommandKinds
  <1>3. o = Restamp(e, g, ep)
    BY <1>1 DEF Candidate
  <1> QED BY <1>2, <1>3 DEF Restamp

-----------------------------------------------------------------------------
(* Replaying one record.                                                   *)

\* Replaying a record takes one fabric to another.
Leads(before, r, after) == ReplayRecord(before, r) = <<TRUE, after>>

\* A fabric record leads to the fabric it was written from.
LEMMA FabricReplayed ==
    ASSUME NEW f, NEW before, Readable(f)
    PROVE  Leads(before, FabricRecord(f), f)
  <1>1. FabricRecord(f).type = "fabric" /\ FabricRecord(f).fab = serialize_fabric(f)
    BY DEF FabricRecord
  <1>2. deserialize_fabric(serialize_fabric(f), Limits) = f /\ f # NoFabric
    BY FabricReadBack, Present DEF Readable
  <1> QED BY <1>1, <1>2 DEF ReplayRecord, Leads

\* A commit record leads to the fabric the command was acknowledged with, and
\* that fabric can be read back unless it reuses an identity.
LEMMA CommitReplayed ==
    ASSUME NEW f, Readable(f), NEW c \in Commands,
           NEW o \in Validated(f, c, epoch, inc)
    PROVE  /\ Leads(f, CommitRecord(c, TargetGeneration(f, c)), o)
           /\ ~Reuses(o) => Readable(o)
  <1>1. PICK g : g = TargetGeneration(f, c)
    OBVIOUS
  <1>2. PICK r : r = CommitRecord(c, g)
    OBVIOUS
  <1>3. /\ r.type = "commit" /\ r.cmd = serialize_command(c)
        /\ r.gen = g /\ r.epoch = epoch /\ r.inc = inc
    BY <1>2 DEF CommitRecord
  <1>4. /\ o = Candidate(f, c, g, epoch, inc) /\ Within(o, Limits) /\ Rebuilt(o)
        /\ apply_command_to(f, c, g, epoch, inc) = {o}
    BY <1>1 DEF Validated, apply_command_to, builder_from_modified
  <1>5. ReplayCommand(f, r) = <<TRUE, o>>
    <2>1. apply_command_to(f, deserialize_command(r.cmd), r.gen, r.epoch, r.inc) = {o}
      BY <1>3, <1>4, CommandReadBack
    <2>2. {o} # {} /\ (CHOOSE p \in {o} : TRUE) = o
      OBVIOUS
    <2> QED BY <2>1, <2>2 DEF ReplayCommand
  <1>6. Leads(f, r, o)
    <2>1. Decodable(r.cmd)
      BY <1>3, CommandReadBack
    <2>2. f # NoFabric /\ r.type # "fabric"
      BY <1>3, Present
    <2> QED BY <1>5, <2>1, <2>2 DEF ReplayRecord, Leads
  <1>7. ASSUME ~Reuses(o) PROVE Readable(o)
    <2>1. DOMAIN f = FabricFields /\ c \in GovernedCommand
      BY InputsAssumption DEF Readable
    <2>2. DOMAIN o = FabricFields /\ o = [x \in FabricFields |-> o[x]]
      BY <1>4, <2>1, CandidateFields, SMT
    <2> QED BY <1>4, <1>7, <2>2, BuiltReadable
  <1> QED BY <1>1, <1>2, <1>6, <1>7

-----------------------------------------------------------------------------
(* The inductive invariant.                                                *)

\* Nothing was committed that the reader of records refuses.
Legal(strays) == "reused" \notin strays /\ "limits" \notin strays

\* A fabric that can be read from a record, and from a snapshot too unless
\* fabrics beyond the default limits were committed.
Legible(f, strays) ==
    /\ Readable(f)
    /\ "defaults" \notin strays => Within(f, SnapshotLimits)

\* st[i] is the fabric the first i records of the journal lead to; st[0] is what
\* there was before them, on which the first record does not depend.  A snapshot
\* holds one of these fabrics.
History(st, recs, snap, strays) ==
    /\ st[0] = NoFabric \/ Legible(st[0], strays)
    /\ \A i \in 1..Len(recs) :
         /\ Legible(st[i], strays)
         /\ Leads(st[i - 1], recs[i], st[i])
    /\ Len(recs) # 0 => Leads(NoFabric, recs[1], st[1])
    /\ IF snap = NoSnapshot THEN st[0] = NoFabric
       ELSE \E n \in 0..Len(recs) : snap = Snapshot(st[n], n) /\ Legible(st[n], strays)

\* The records lead to a fabric.
LeftBy(recs, snap, strays, f) ==
    \E st : History(st, recs, snap, strays) /\ st[Len(recs)] = f

\* A fabric is the one last committed, unless a snapshot was passed over and the
\* controller began anew.
Shows(f, last, strays) ==
    LET begun == IF f = NoFabric THEN EmptyFabric ELSE f
    IN  last = begun \/ ("defaults" \in strays /\ begun = EmptyFabric)

\* Unless the reader of records refuses some, what is stored has a history, and
\* the live fabric is the one it ends in.
LifeInv ==
    /\ \E S : journal \in Seq(S)
    /\ Legal(strayed) =>
         \E st : /\ History(st, journal, snapshot, strayed)
                 /\ Shows(st[Len(journal)], shown, strayed)
                 /\ phase = "up" => /\ Len(journal) # 0 /\ fabric = st[Len(journal)]
                                    /\ Legible(fabric, strayed)
    /\ RefusedOnlyFor

\* The length of the journal.
LEMMA JournalLength ==
    ASSUME \E S : journal \in Seq(S)
    PROVE  Len(journal) \in Nat
  BY SMT

\* What has a history has one still when more has strayed.
LEMMA HistoryKept ==
    ASSUME NEW st, NEW recs, NEW snap, NEW strays, History(st, recs, snap, strays), NEW more
    PROVE  History(st, recs, snap, strays \cup more)
  <1>1. \A f : Legible(f, strays) => Legible(f, strays \cup more)
    BY DEF Legible
  <1> QED BY <1>1 DEF History

\* What a committed fabric is when nothing the reader of records refuses strayed.
LEMMA Committed ==
    ASSUME NEW strays, NEW f, Legal(strays \cup Strays(f))
    PROVE  /\ Legal(strays) /\ ~Reuses(f) /\ Within(f, Limits)
           /\ Readable(f) => Legible(f, strays \cup Strays(f))
  <1>1. /\ Legal(strays) /\ "reused" \notin Strays(f) /\ "limits" \notin Strays(f)
    BY DEF Legal
  <1>2. ~Reuses(f) /\ Within(f, Limits)
    BY <1>1 DEF Strays
  <1>3. "defaults" \notin Strays(f) => Within(f, SnapshotLimits)
    BY DEF Strays
  <1> QED BY <1>1, <1>2, <1>3 DEF Legible

\* start() takes the snapshot for the fabric it was written from, or passes it
\* over.
LEMMA LoadedFrom ==
    ASSUME NEW st, NEW strays, History(st, journal, snapshot, strays), Len(journal) \in Nat
    PROVE  \/ Covered \in 0..Len(journal) /\ Loaded = st[Covered]
           \/ Covered = 0 /\ Loaded = NoFabric /\ "defaults" \in strays
  <1>1. CASE snapshot = NoSnapshot
    <2>1. Loaded = NoFabric /\ Covered = 0 /\ st[0] = NoFabric
      BY <1>1 DEF Loaded, Covered, History
    <2>2. 0 \in 0..Len(journal)
      BY SMT
    <2> QED BY <2>1, <2>2
  <1>2. CASE snapshot # NoSnapshot
    <2>1. PICK n \in 0..Len(journal) : snapshot = Snapshot(st[n], n) /\ Legible(st[n], strays)
      BY <1>2 DEF History
    <2>2. snapshot.fab = serialize_fabric(st[n]) /\ snapshot.covers = n
      BY <2>1 DEF Snapshot
    <2>3. Readable(st[n]) /\ st[n] # NoFabric
      BY <2>1, Present DEF Legible
    <2>4. Loaded = IF Within(st[n], SnapshotLimits) THEN st[n] ELSE NoFabric
      BY <1>2, <2>2, <2>3, FabricReadBack DEF Loaded
    <2>5. CASE Within(st[n], SnapshotLimits)
      BY <2>2, <2>3, <2>4, <2>5 DEF Covered
    <2>6. CASE ~Within(st[n], SnapshotLimits)
      BY <2>1, <2>4, <2>6 DEF Covered, Legible
    <2> QED BY <2>5, <2>6
  <1> QED BY <1>1, <1>2

\* Every record leads from one fabric to the next.
Chain(st, recs) == \A i \in 1..Len(recs) : Leads(st[i - 1], recs[i], st[i])

\* The replay of the journal ends in the last of the fabrics.
LEMMA ReplayEnds ==
    ASSUME NEW st, Chain(st, journal), Len(journal) \in Nat,
           Covered \in 0..Len(journal), Loaded = st[Covered]
    PROVE  Recovered = <<TRUE, st[Len(journal)]>>
  <1>1. Covered \in 0..Len(journal) /\ Loaded = st[Covered]
    OBVIOUS
  <1>2. PICK from, upto : from = Covered /\ upto = Len(journal)
    OBVIOUS
  <1>3. from \in Nat /\ upto \in Nat /\ from <= upto
    BY <1>1, <1>2, SMT
  <1> DEFINE Step(g, i) == IF i = from THEN <<TRUE, Loaded>>
                           ELSE IF g[i - 1][1] THEN ReplayRecord(g[i - 1][2], journal[i])
                           ELSE g[i - 1]
  <1>4. \A i \in from..upto :
          i = from \/ (i - 1 \in from..upto /\ i \in 1..Len(journal) /\ i - 1 < i)
    BY <1>2, <1>3, SMT
  <1>5. \A i \in from..upto : \A g :
          (i # from => g[i - 1] = <<TRUE, st[i - 1]>>) => Step(g, i) = <<TRUE, st[i]>>
    <2> SUFFICES ASSUME NEW i \in from..upto, NEW g,
                        i # from => g[i - 1] = <<TRUE, st[i - 1]>>
                 PROVE  Step(g, i) = <<TRUE, st[i]>>
      OBVIOUS
    <2>1. CASE i = from
      BY <1>1, <1>2, <2>1
    <2>2. CASE i # from
      <3>1. ReplayRecord(st[i - 1], journal[i]) = <<TRUE, st[i]>>
        BY <1>4, <2>2 DEF Chain, Leads
      <3>2. g[i - 1] = <<TRUE, st[i - 1]>>
        BY <2>2
      <3>3. g[i - 1][1] /\ g[i - 1][2] = st[i - 1]
        BY <3>2, Parts
      <3> QED BY <2>2, <3>1, <3>3
    <2> QED BY <2>1, <2>2
  <1>6. PICK h : h = [i \in from..upto |-> <<TRUE, st[i]>>]
    OBVIOUS
  <1>7. h = [i \in from..upto |-> Step(h, i)]
    <2>1. \A i \in from..upto : Step(h, i) = <<TRUE, st[i]>>
      <3> HIDE DEF Step
      <3> QED BY <1>4, <1>5, <1>6
    <2> HIDE DEF Step
    <2> QED BY <1>6, <2>1
  <1>8. Replayed = CHOOSE g : g = [i \in from..upto |-> Step(g, i)]
    BY <1>2 DEF Replayed
  <1>9. Replayed = [i \in from..upto |-> Step(Replayed, i)]
    <2> HIDE DEF Step
    <2> QED BY <1>7, <1>8
  <1> HIDE DEF Step
  <1>10. PICK R : R = Replayed
    OBVIOUS
  <1>11. PICK Bad : Bad = {i \in from..upto : R[i] # <<TRUE, st[i]>>}
    OBVIOUS
  <1>12. Bad = {}
    <2> SUFFICES ASSUME Bad # {} PROVE FALSE
      OBVIOUS
    <2>1. Bad \in SUBSET Nat
      <3>1. \A i \in from..upto : i \in Nat
        BY <1>3, SMT
      <3> QED BY <1>11, <3>1
    <2>2. PICK i \in Bad : \A j \in Bad : ~(j < i)
      BY <2>1, LowestNumber
    <2>3. i \in from..upto /\ R[i] # <<TRUE, st[i]>>
      BY <1>11, <2>2
    <2>4. i # from => R[i - 1] = <<TRUE, st[i - 1]>>
      BY <1>4, <1>11, <2>2, <2>3
    <2>5. R[i] = Step(R, i)
      BY <1>9, <1>10, <2>3
    <2> QED BY <1>5, <2>3, <2>4, <2>5
  <1>13. upto \in from..upto
    BY <1>3, SMT
  <1> QED BY <1>2, <1>10, <1>11, <1>12, <1>13 DEF Recovered

\* The replay ends in the last fabric of the history also when the snapshot is
\* passed over, if there is a record.
LEMMA Replays ==
    ASSUME NEW st, NEW strays, History(st, journal, snapshot, strays), Len(journal) \in Nat
    PROVE  \/ Recovered = <<TRUE, st[Len(journal)]>>
           \/ /\ Recovered = <<TRUE, NoFabric>> /\ Len(journal) = 0
              /\ "defaults" \in strays
  <1>1. Chain(st, journal)
    BY DEF Chain, History
  <1>2. CASE Covered \in 0..Len(journal) /\ Loaded = st[Covered]
    BY <1>1, <1>2, ReplayEnds
  <1>3. CASE Covered = 0 /\ Loaded = NoFabric /\ "defaults" \in strays
    <2>1. PICK new : new = [i \in Nat |-> IF i = 0 THEN NoFabric ELSE st[i]]
      OBVIOUS
    <2>2. /\ new[0] = NoFabric /\ 0 \in 0..Len(journal)
          /\ Len(journal) # 0 => new[Len(journal)] = st[Len(journal)]
      BY <2>1, SMT
    <2>3. \A i \in 1..Len(journal) :
            /\ new[i] = st[i]
            /\ (i = 1 /\ i - 1 = 0 /\ Len(journal) # 0) \/ new[i - 1] = st[i - 1]
      BY <2>1, SMT
    <2>4. Chain(new, journal)
      <3> SUFFICES ASSUME NEW i \in 1..Len(journal)
                   PROVE  Leads(new[i - 1], journal[i], new[i])
        BY DEF Chain
      <3>1. CASE i = 1 /\ i - 1 = 0 /\ Len(journal) # 0
        BY <2>2, <2>3, <3>1 DEF History
      <3>2. CASE new[i - 1] = st[i - 1]
        BY <1>1, <2>3, <3>2 DEF Chain
      <3> QED BY <2>3, <3>1, <3>2
    <2>5. Recovered = <<TRUE, new[Len(journal)]>>
      BY <1>3, <2>2, <2>4, ReplayEnds
    <2> QED BY <1>3, <2>2, <2>5
  <1> QED BY <1>2, <1>3, LoadedFrom

-----------------------------------------------------------------------------
(* The steps.                                                              *)

\* One more record, which the replay can use.
LEMMA HistoryGrows ==
    ASSUME NEW recs, NEW snap, NEW strays, NEW st, History(st, recs, snap, strays),
           NEW r, NEW more, Extends(recs, r, more), NEW f, Legible(f, strays),
           Leads(st[Len(recs)], r, f), Len(recs) = 0 => Leads(NoFabric, r, f)
    PROVE  LeftBy(more, snap, strays, f)
  <1>1. PICK len : len = Len(recs)
    OBVIOUS
  <1>2. PICK new : new = [i \in Nat |-> IF i <= len THEN st[i] ELSE f]
    OBVIOUS
  <1>3. /\ len \in Nat /\ Len(more) = len + 1 /\ more[len + 1] = r
        /\ \A i \in 1..len : more[i] = recs[i]
    BY <1>1 DEF Extends
  <1>4. /\ new[len + 1] = f /\ 0 \in Nat /\ 0 <= len
        /\ \A i \in 0..len : new[i] = st[i]
    BY <1>2, <1>3, SMT
  <1>5. /\ \A i \in 1..(len + 1) :
             i = len + 1 \/ (i \in 1..len /\ i - 1 \in 0..len /\ i \in 0..len)
        /\ (len + 1) - 1 = len /\ len \in 0..len /\ 0 \in 0..len
        /\ \A n \in 0..len : n \in 0..(len + 1)
        /\ len = 0 \/ (1 \in 1..len /\ 1 \in 0..len)
    BY <1>3, SMT
  <1>6. new[0] = NoFabric \/ Legible(new[0], strays)
    BY <1>4, <1>5 DEF History
  <1>7. \A i \in 1..(len + 1) :
          /\ Legible(new[i], strays)
          /\ Leads(new[i - 1], more[i], new[i])
    <2> SUFFICES ASSUME NEW i \in 1..(len + 1)
                 PROVE  /\ Legible(new[i], strays)
                        /\ Leads(new[i - 1], more[i], new[i])
      OBVIOUS
    <2>1. CASE i = len + 1
      BY <1>1, <1>3, <1>4, <1>5, <2>1
    <2>2. CASE i \in 1..len /\ i - 1 \in 0..len /\ i \in 0..len
      <3>1. new[i] = st[i] /\ new[i - 1] = st[i - 1] /\ more[i] = recs[i]
        BY <1>3, <1>4, <2>2
      <3> QED BY <1>1, <2>2, <3>1 DEF History
    <2> QED BY <1>5, <2>1, <2>2
  <1>8. IF snap = NoSnapshot THEN new[0] = NoFabric
        ELSE \E n \in 0..(len + 1) : snap = Snapshot(new[n], n) /\ Legible(new[n], strays)
    <2>1. CASE snap = NoSnapshot
      BY <1>4, <1>5, <2>1 DEF History
    <2>2. CASE snap # NoSnapshot
      <3>1. PICK n \in 0..len : snap = Snapshot(st[n], n) /\ Legible(st[n], strays)
        BY <1>1, <2>2 DEF History
      <3> QED BY <1>4, <1>5, <2>2, <3>1
    <2> QED BY <2>1, <2>2
  <1>9. Leads(NoFabric, more[1], new[1])
    <2>1. CASE len = 0
      <3>1. len + 1 = 1
        BY <2>1, SMT
      <3>2. more[1] = r /\ new[1] = f
        BY <1>3, <1>4, <3>1
      <3> QED BY <1>1, <2>1, <3>2
    <2>2. CASE 1 \in 1..len /\ 1 \in 0..len
      <3>1. more[1] = recs[1] /\ new[1] = st[1] /\ len # 0
        BY <1>3, <1>4, <2>2, SMT
      <3> QED BY <1>1, <3>1 DEF History
    <2> QED BY <1>5, <2>1, <2>2
  <1>10. History(new, more, snap, strays)
    BY <1>3, <1>6, <1>7, <1>8, <1>9 DEF History
  <1> QED BY <1>3, <1>4, <1>10 DEF LeftBy

\* A snapshot in place of all records.
LEMMA HistoryPruned ==
    ASSUME NEW f, NEW strays, Legible(f, strays)
    PROVE  LeftBy(<<>>, Snapshot(f, 0), strays, f)
  <1>1. PICK new : new = [i \in {0} |-> f]
    OBVIOUS
  <1>2. /\ new[0] = f /\ Len(<<>>) = 0 /\ 0 \in 0..0
        /\ \A i \in 1..0 : FALSE
    BY <1>1, SMT
  <1>3. Snapshot(f, 0) # NoSnapshot
    BY Present
  <1>4. PICK recs : recs = <<>>
    OBVIOUS
  <1>5. Len(recs) = 0
    BY <1>2, <1>4
  <1>6. History(new, recs, Snapshot(f, 0), strays)
    BY <1>2, <1>3, <1>5 DEF History
  <1> QED BY <1>2, <1>4, <1>6 DEF LeftBy

\* A command is committed.
LEMMA AppliedKeeps ==
    ASSUME LifeInv, NEW c \in Commands, Apply(c)
    PROVE  LifeInv'
  <1>1. PICK S : journal \in Seq(S)
    BY DEF LifeInv
  <1>2. PICK r : r = CommitRecord(c, TargetGeneration(fabric, c))
    OBVIOUS
  <1>3. /\ journal' = Append(journal, r) /\ snapshot' = snapshot
        /\ phase = "up" /\ phase' = "up"
        /\ shown' = fabric' /\ strayed' = strayed \cup Strays(fabric')
    BY <1>2 DEF Apply
  <1>4. \E T : journal' \in Seq(T)
    BY <1>1, <1>3, Appended
  <1>5. ASSUME Legal(strayed')
        PROVE  \E st : /\ History(st, journal', snapshot', strayed')
                       /\ Shows(st[Len(journal')], shown', strayed')
                       /\ Len(journal') # 0 /\ fabric' = st[Len(journal')]
                       /\ Legible(fabric', strayed')
    <2>1. /\ Legal(strayed) /\ ~Reuses(fabric')
          /\ Readable(fabric') => Legible(fabric', strayed')
      BY <1>3, <1>5, Committed
    <2>2. PICK st : /\ History(st, journal, snapshot, strayed) /\ Len(journal) # 0
                    /\ fabric = st[Len(journal)] /\ Readable(fabric)
      BY <1>3, <2>1 DEF LifeInv, Legible
    <2>3. History(st, journal, snapshot, strayed')
      BY <1>3, <2>2, HistoryKept
    <2>4. Leads(st[Len(journal)], r, fabric') /\ Legible(fabric', strayed')
      <3>1. fabric' \in Validated(fabric, c, epoch, inc)
        BY DEF Apply
      <3> QED BY <1>2, <2>1, <2>2, <3>1, CommitReplayed
    <2>5. Extends(journal, r, journal')
      BY <1>1, <1>3, Appended
    <2>6. LeftBy(journal', snapshot, strayed', fabric')
      BY <2>2, <2>3, <2>4, <2>5, HistoryGrows
    <2>7. Shows(fabric', shown', strayed')
      BY <1>3, <2>4, Present DEF Shows, Legible
    <2>8. Len(journal') # 0
      BY <2>5, SMT DEF Extends
    <2> QED BY <1>3, <2>4, <2>6, <2>7, <2>8 DEF LeftBy
  <1>6. RefusedOnlyFor'
    BY <1>3 DEF RefusedOnlyFor
  <1> QED BY <1>4, <1>5, <1>6 DEF LifeInv

\* An operator's fabric is installed.
LEMMA InstalledKeeps ==
    ASSUME LifeInv, NEW f \in Specs, install_fabric(f)
    PROVE  LifeInv'
  <1>1. PICK S : journal \in Seq(S)
    BY DEF LifeInv
  <1>2. PICK r : r = FabricRecord(f)
    OBVIOUS
  <1>3. /\ journal' = Append(journal, r) /\ snapshot' = snapshot /\ phase = "up"
        /\ phase' = "up" /\ shown' = f /\ fabric' = f
        /\ strayed' = strayed \cup Strays(f)
    BY <1>2 DEF install_fabric
  <1>4. \E T : journal' \in Seq(T)
    BY <1>1, <1>3, Appended
  <1>5. ASSUME Legal(strayed')
        PROVE  \E st : /\ History(st, journal', snapshot', strayed')
                       /\ Shows(st[Len(journal')], shown', strayed')
                       /\ Len(journal') # 0 /\ fabric' = st[Len(journal')]
                       /\ Legible(fabric', strayed')
    <2>1. /\ Legal(strayed) /\ ~Reuses(f) /\ Within(f, Limits)
          /\ Readable(f) => Legible(f, strayed')
      BY <1>3, <1>5, Committed
    <2>2. PICK st : History(st, journal, snapshot, strayed)
      BY <2>1 DEF LifeInv
    <2>3. History(st, journal, snapshot, strayed')
      BY <1>3, <2>2, HistoryKept
    <2>4. /\ Leads(st[Len(journal)], r, fabric') /\ Leads(NoFabric, r, fabric')
          /\ Legible(fabric', strayed')
      <3>1. DOMAIN f = FabricFields /\ Rebuilt(f) /\ f = [x \in DOMAIN f |-> f[x]]
        BY InputsAssumption DEF FabricShape, FabricFields
      <3>2. Readable(f)
        BY <2>1, <3>1, BuiltReadable
      <3>3. Leads(st[Len(journal)], r, f) /\ Leads(NoFabric, r, f)
        BY <1>2, <3>2, FabricReplayed
      <3> QED BY <1>3, <2>1, <3>2, <3>3
    <2>5. Extends(journal, r, journal')
      BY <1>1, <1>3, Appended
    <2>6. LeftBy(journal', snapshot, strayed', fabric')
      BY <2>3, <2>4, <2>5, HistoryGrows
    <2>7. Shows(fabric', shown', strayed')
      BY <1>3, <2>4, Present DEF Shows, Legible
    <2>8. Len(journal') # 0
      BY <2>5, SMT DEF Extends
    <2> QED BY <1>3, <2>4, <2>6, <2>7, <2>8 DEF LeftBy
  <1>6. RefusedOnlyFor'
    BY <1>3 DEF RefusedOnlyFor
  <1> QED BY <1>4, <1>5, <1>6 DEF LifeInv

\* A snapshot of the live fabric is one of what the records so far lead to.
LEMMA CompactedKeeps ==
    ASSUME LifeInv, compact
    PROVE  LifeInv'
  <1>1. /\ phase = "up" /\ snapshot' = Snapshot(fabric, Len(journal))
        /\ UNCHANGED <<phase, fabric, journal, shown, strayed>>
    BY DEF compact
  <1>2. ASSUME NEW st, History(st, journal, snapshot, strayed),
               fabric = st[Len(journal)], Legible(fabric, strayed)
        PROVE  History(st, journal', snapshot', strayed')
    <2>1. Len(journal) \in 0..Len(journal)
      BY SMT, JournalLength DEF LifeInv
    <2>2. snapshot' # NoSnapshot
      BY <1>1, Present
    <2> QED BY <1>1, <1>2, <2>1, <2>2 DEF History
  <1>3. RefusedOnlyFor'
    BY <1>1 DEF RefusedOnlyFor
  <1> QED BY <1>1, <1>2, <1>3 DEF LifeInv

\* The end of the process leaves the disk as it is.
LEMMA DownKeeps ==
    ASSUME LifeInv, Down
    PROVE  LifeInv'
  <1>1. /\ phase' = "down" /\ UNCHANGED <<journal, snapshot, shown, strayed>>
    BY DEF Down, disk
  <1>2. RefusedOnlyFor'
    BY <1>1 DEF RefusedOnlyFor
  <1> QED BY <1>1, <1>2 DEF LifeInv

\* What start() finds: the fabric last committed, or nothing when a snapshot is
\* passed over.
LEMMA Found ==
    ASSUME LifeInv, Legal(strayed)
    PROVE  \E l : /\ Recovered = <<TRUE, l>>
                  /\ l = NoFabric \/ Legible(l, strayed)
                  /\ Shows(l, shown, strayed)
  <1>1. PICK st : /\ History(st, journal, snapshot, strayed)
                  /\ Shows(st[Len(journal)], shown, strayed)
    BY DEF LifeInv
  <1>2. Len(journal) \in Nat
    BY JournalLength DEF LifeInv
  <1>3. CASE Recovered = <<TRUE, st[Len(journal)]>>
    <2>1. Len(journal) = 0 \/ Len(journal) \in 1..Len(journal)
      BY <1>2, SMT
    <2>2. st[Len(journal)] = NoFabric \/ Legible(st[Len(journal)], strayed)
      BY <1>1, <2>1 DEF History
    <2> QED BY <1>1, <1>3, <2>2
  <1>4. CASE Recovered = <<TRUE, NoFabric>> /\ "defaults" \in strayed
    BY <1>4 DEF Shows
  <1> QED BY <1>1, <1>2, <1>3, <1>4, Replays

\* start() gives up.
LEMMA RefusedKeeps ==
    ASSUME LifeInv, StartRefused(Recovered), UNCHANGED <<shown, strayed>>
    PROVE  LifeInv'
  <1>1. phase' = "refused" /\ UNCHANGED <<journal, snapshot>>
    BY DEF StartRefused, disk
  <1>2. ASSUME Legal(strayed) PROVE ~FitsSnapshot(shown)
    <2>1. PICK l : Recovered = <<TRUE, l>> /\ Shows(l, shown, strayed)
      BY <1>2, Found
    <2>2. Recovered[1] /\ Recovered[2] = l
      BY <2>1, Parts
    <2>3. AtBound(l) /\ ~FitsSnapshot(l)
      BY <2>2 DEF StartRefused, PruneFits
    <2>4. l # NoFabric /\ l # EmptyFabric
      BY <2>3, EmptyReadable DEF AtBound
    <2> QED BY <2>1, <2>3, <2>4 DEF Shows
  <1>3. RefusedOnlyFor'
    BY <1>1, <1>2 DEF RefusedOnlyFor, FitsSnapshot, Legal
  <1> QED BY <1>1, <1>3 DEF LifeInv

\* start() is cut short behind the pruning.
LEMMA CutKeeps ==
    ASSUME LifeInv, StartCut(Recovered), UNCHANGED <<shown, strayed>>
    PROVE  LifeInv'
  <1>1. phase' = "down"
    BY DEF StartCut
  <1>2. journal' = <<>> /\ snapshot' = Snapshot(Recovered[2], 0) /\ Recovered[2] # NoFabric
    BY DEF StartCut, Pruned, AtBound
  <1>3. \E T : journal' \in Seq(T)
    <2>1. <<>> \in Seq({})
      BY SMT
    <2> QED BY <1>2, <2>1
  <1>4. ASSUME Legal(strayed)
        PROVE  \E st : /\ History(st, journal', snapshot', strayed')
                       /\ Shows(st[Len(journal')], shown', strayed')
    <2>1. PICK l : /\ Recovered = <<TRUE, l>>
                   /\ l = NoFabric \/ Legible(l, strayed)
                   /\ Shows(l, shown, strayed)
      BY <1>4, Found
    <2>2. Recovered[2] = l
      BY <2>1, Parts
    <2>3. LeftBy(<<>>, Snapshot(l, 0), strayed, l)
      BY <1>2, <2>1, <2>2, HistoryPruned
    <2> QED BY <1>2, <2>1, <2>2, <2>3 DEF LeftBy
  <1>5. RefusedOnlyFor'
    BY <1>1 DEF RefusedOnlyFor
  <1> QED BY <1>1, <1>3, <1>4, <1>5 DEF LifeInv

\* start() begins a segment with what it has found, if that fits a record.
LEMMA DoneKeeps ==
    ASSUME LifeInv, StartDone(Recovered), UNCHANGED <<shown, strayed>>
    PROVE  LifeInv'
  <1>1. PICK f, kept : /\ f = IF Recovered[2] = NoFabric THEN EmptyFabric ELSE Recovered[2]
                       /\ kept = Pruned(Recovered[2])
    OBVIOUS
  <1>2. /\ snapshot' = kept.snapshot
        /\ journal' = IF FitsRecord(f) THEN Append(kept.journal, FabricRecord(f))
                      ELSE kept.journal
        /\ phase' = IF FitsRecord(f) THEN "up" ELSE "refused"
        /\ fabric' = IF FitsRecord(f) THEN f ELSE NoFabric
    BY <1>1 DEF StartDone
  <1>3. \/ kept.journal = journal /\ kept.snapshot = snapshot
        \/ /\ kept.journal = <<>> /\ kept.snapshot = Snapshot(Recovered[2], 0)
           /\ Recovered[2] # NoFabric
    BY <1>1 DEF Pruned, AtBound
  <1>4. PICK S : kept.journal \in Seq(S)
    <2>1. <<>> \in Seq({})
      BY SMT
    <2> QED BY <1>3, <2>1 DEF LifeInv
  <1>5. \E T : journal' \in Seq(T)
    BY <1>2, <1>4, Appended
  <1>6. ASSUME Legal(strayed)
        PROVE  /\ Legible(f, strayed) /\ Shows(f, shown, strayed)
               /\ \E old : /\ History(old, kept.journal, kept.snapshot, strayed)
                          /\ Shows(old[Len(kept.journal)], shown, strayed)
    <2>1. PICK l : /\ Recovered = <<TRUE, l>>
                   /\ l = NoFabric \/ Legible(l, strayed)
                   /\ Shows(l, shown, strayed)
      BY <1>6, Found
    <2>2. Recovered[2] = l
      BY <2>1, Parts
    <2>3. Legible(EmptyFabric, strayed) /\ EmptyFabric # NoFabric
      BY EmptyReadable, Present DEF Legible
    <2>4. Legible(f, strayed) /\ Shows(f, shown, strayed)
      BY <1>1, <2>1, <2>2, <2>3 DEF Shows
    <2>5. CASE kept.journal = journal /\ kept.snapshot = snapshot
      BY <1>6, <2>4, <2>5 DEF LifeInv
    <2>6. CASE /\ kept.journal = <<>> /\ kept.snapshot = Snapshot(Recovered[2], 0)
               /\ Recovered[2] # NoFabric
      <3>1. LeftBy(<<>>, Snapshot(l, 0), strayed, l)
        BY <2>1, <2>2, <2>6, HistoryPruned
      <3> QED BY <2>1, <2>2, <2>4, <2>6, <3>1 DEF LeftBy
    <2> QED BY <1>3, <2>5, <2>6
  <1>7. ASSUME Legal(strayed), FitsRecord(f)
        PROVE  \E st : /\ History(st, journal', snapshot', strayed')
                       /\ Shows(st[Len(journal')], shown', strayed')
                       /\ Len(journal') # 0 /\ fabric' = st[Len(journal')]
                       /\ Legible(fabric', strayed')
    <2>1. PICK old : History(old, kept.journal, kept.snapshot, strayed)
      BY <1>6, <1>7
    <2>2. Legible(f, strayed) /\ Shows(f, shown, strayed)
      BY <1>6, <1>7
    <2>3. /\ Leads(old[Len(kept.journal)], FabricRecord(f), f)
          /\ Leads(NoFabric, FabricRecord(f), f)
      BY <2>2, FabricReplayed DEF Legible
    <2>4. Extends(kept.journal, FabricRecord(f), journal')
      BY <1>2, <1>4, <1>7, Appended
    <2>5. LeftBy(journal', kept.snapshot, strayed, f)
      BY <2>1, <2>2, <2>3, <2>4, HistoryGrows
    <2>6. Len(journal') # 0
      BY <2>4, SMT DEF Extends
    <2> QED BY <1>2, <1>7, <2>2, <2>5, <2>6 DEF LeftBy
  <1>8. ASSUME Legal(strayed), ~FitsRecord(f)
        PROVE  /\ \E st : /\ History(st, journal', snapshot', strayed')
                          /\ Shows(st[Len(journal')], shown', strayed')
               /\ f = shown /\ ~FitsRecord(shown)
    <2>1. f # NoFabric /\ f # EmptyFabric
      BY <1>6, <1>8, EmptyReadable, Present DEF Legible
    <2>2. f = shown
      BY <1>6, <1>8, <2>1 DEF Shows
    <2> QED BY <1>2, <1>6, <1>8, <2>2
  <1>9. RefusedOnlyFor'
    BY <1>2, <1>8 DEF RefusedOnlyFor, FitsRecord, Legal
  <1>10. phase' = "up" => FitsRecord(f)
    BY <1>2
  <1> QED BY <1>5, <1>7, <1>8, <1>9, <1>10 DEF LifeInv

\* Every step of a controller and every start keep the history of what is stored.
LEMMA LifeInductive == LifeInv /\ [Next]_vars => LifeInv'
  <1> SUFFICES ASSUME LifeInv, [Next]_vars PROVE LifeInv'
    OBVIOUS
  <1>1. ASSUME NEW c \in Commands, Apply(c) PROVE LifeInv'
    BY <1>1, AppliedKeeps
  <1>2. ASSUME NEW f \in Specs, install_fabric(f) PROVE LifeInv'
    BY <1>2, InstalledKeeps
  <1>3. CASE compact
    BY <1>3, CompactedKeeps
  <1>4. CASE Down
    BY <1>4, DownKeeps
  <1>5. CASE start
    <2>1. /\ StartRefused(Recovered) \/ StartCut(Recovered) \/ StartDone(Recovered)
          /\ UNCHANGED <<shown, strayed>>
      BY <1>5 DEF start
    <2> QED BY <2>1, RefusedKeeps, CutKeeps, DoneKeeps
  <1>6. CASE UNCHANGED vars
    BY <1>6 DEF vars, disk, LifeInv, RefusedOnlyFor, FitsRecord, FitsSnapshot
  <1> QED BY <1>1, <1>2, <1>3, <1>4, <1>5, <1>6 DEF Next

\* An empty state directory has the empty history.
LEMMA LifeBegins == Init => LifeInv
  <1> SUFFICES ASSUME Init PROVE LifeInv
    OBVIOUS
  <1>1. journal = <<>> /\ snapshot = NoSnapshot /\ shown = EmptyFabric /\ phase = "down"
    BY DEF Init
  <1>2. PICK st : st = [i \in {0} |-> NoFabric]
    OBVIOUS
  <1>3. /\ st[0] = NoFabric /\ Len(<<>>) = 0 /\ <<>> \in Seq({})
        /\ \A i \in 1..0 : FALSE
    BY <1>2, SMT
  <1>4. History(st, journal, snapshot, strayed) /\ Shows(st[Len(journal)], shown, strayed)
    BY <1>1, <1>3 DEF History, Shows
  <1>5. RefusedOnlyFor
    BY <1>1 DEF RefusedOnlyFor
  <1> QED BY <1>1, <1>3, <1>4, <1>5 DEF LifeInv

\* Recovery (ControllerRuntime::start) yields exactly the fabric that was last
\* committed, out of any snapshot and any journal of fabrics and commands a
\* controller can have written, as long as no link identity was reused and no
\* fabric beyond the limits of the configuration or the default ones committed.
THEOREM RecoveryExactUnlessStrayed == Spec => []ReadsBack
  <1>1. LifeInv => ReadsBack
    <2> SUFFICES ASSUME LifeInv, phase = "up", strayed = {} PROVE fabric = shown
      BY DEF ReadsBack
    <2>1. Legal(strayed) /\ "defaults" \notin strayed
      BY DEF Legal
    <2>2. PICK st : /\ Shows(st[Len(journal)], shown, strayed)
                    /\ fabric = st[Len(journal)] /\ Legible(fabric, strayed)
      BY <2>1 DEF LifeInv
    <2> QED BY <2>1, <2>2, Present DEF Shows, Legible
  <1> QED BY <1>1, LifeBegins, LifeInductive, PTL DEF Spec

\* start() gives up over what it stored itself only because a link identity was
\* reused, because a fabric beyond the limits of the configuration was installed
\* or because the fabric exceeds the bound of a record or a snapshot; a snapshot
\* it cannot read under the default limits does not stop it.
THEOREM StartsUnlessReusedOrLarge == Spec => []RefusedOnlyFor
  <1>1. LifeInv => RefusedOnlyFor
    BY DEF LifeInv
  <1> QED BY <1>1, LifeBegins, LifeInductive, PTL DEF Spec
=============================================================================
