---------------------------- MODULE CommandProofs ---------------------------
(***************************************************************************)
(* What becomes of a command across kills and restarts: its observation    *)
(* stays attributed to the incarnation that made it, without a snapshot it *)
(* takes effect at most once, and the authority it is sent under is        *)
(* exclusive and, once fenced, gone for good.                              *)
(***************************************************************************)
EXTENDS ControllerProofs, FiniteSetTheorems

\* Leaves go to Zenon unless they cite another prover.
USE Zenon

-----------------------------------------------------------------------------
(* Where the contents of a fabric come from.                               *)

\* What is accounted for stays so when there are more commands and installs.
LEMMA AccountedMore ==
    ASSUME NEW seen, NEW more, NEW n, NEW m, seen \subseteq more, m = 0 => n = 0
    PROVE  /\ \A f : Accounted(f, seen, n) => Accounted(f, more, m)
           /\ \A rec : RecordAccounted(rec, seen, n) => RecordAccounted(rec, more, m)
  BY DEF Accounted, RecordAccounted

\* apply_command_to adds at most the observation of its own command.
LEMMA ApplyAccounted ==
    ASSUME NEW f, NEW r, NEW g, NEW e, NEW o, NEW seen,
           NEW n, Accounted(f, seen, n), f # NoFabric, <<r, o>> \in seen
    PROVE  Accounted(ApplyCommand(f, r, g, e, o), seen, n)
  <1> DEFINE new == [req |-> r, inc |-> o, epoch |-> e, gen |-> g]
  <1>1. ApplyCommand(f, r, g, e, o).evid \subseteq f.evid \cup {new}
    BY DEF ApplyCommand
  <1>2. new.req = r /\ new.inc = o
    OBVIOUS
  <1>3. ApplyCommand(f, r, g, e, o).base = f.base
    BY DEF ApplyCommand
  <1> HIDE DEF new
  <1> QED BY <1>1, <1>2, <1>3 DEF Accounted

\* Replaying a record that is accounted for keeps the recovered fabric so.
LEMMA ReplayAccounted ==
    ASSUME NEW f, NEW rec, NEW seen, NEW n, Accounted(f, seen, n),
           RecordAccounted(rec, seen, n)
    PROVE  Accounted(Replayed(f, rec), seen, n)
  <1>1. CASE rec.type = "FabricSnapshot"
    BY <1>1 DEF Replayed, RecordAccounted
  <1>2. CASE rec.type = "CommandCommit" /\ f # NoFabric
    <2>1. <<rec.req, rec.inc>> \in seen
      BY <1>2 DEF RecordAccounted
    <2>2. Accounted(ApplyCommand(f, rec.req, rec.gen, rec.epoch, rec.inc), seen, n)
      BY <1>2, <2>1, ApplyAccounted
    <2> QED BY <1>2, <2>2 DEF Replayed
  <1>3. CASE rec.type # "FabricSnapshot"
               /\ ~(rec.type = "CommandCommit" /\ f # NoFabric)
    BY <1>3 DEF Replayed
  <1> QED BY <1>1, <1>2, <1>3

\* The records of a start and of a fence carry no contents.
LEMMA RecordsAccounted ==
    ASSUME NEW seen, NEW n
    PROVE  /\ RecordAccounted(StartRecord, seen, n)
           /\ RecordAccounted(FenceRecord, seen, n)
           /\ \A f : Accounted(f, seen, n) => RecordAccounted(FabricRecord(f), seen, n)
           /\ \A r : <<r, inc>> \in seen => RecordAccounted(CommitRecord(r), seen, n)
  BY DEF RecordAccounted, Accounted, StartRecord, FenceRecord, FabricRecord,
         CommitRecord, Rec

\* After an append, whatever became of it, the journal holds the old records
\* and at most the new one.
LEMMA OldOrNew ==
    ASSUME NEW rec, AppendOk(rec) \/ NotAppended(rec)
    PROVE  /\ \A s \in DOMAIN log' :
                (s \in DOMAIN log /\ log'[s] = log[s]) \/ log'[s] = rec
           /\ snapshot' = snapshot
  <1>1. snapshot' = snapshot /\ (log' = log \/ log' = Extended(log, last + 1, rec))
    BY DEF AppendOk, NotAppended
  <1> QED BY <1>1 DEF Extended

\* A step keeps the invariant when the fabrics it stores are accounted for.
LEMMA OriginKept ==
    ASSUME OriginInv, observed \subseteq observed', installs' = 0 => installs = 0,
           Accounted(fabric', observed', installs'),
           snapshot' # NoSnapshot =>
             snapshot' = snapshot \/ Accounted(snapshot'.fab, observed', installs'),
           pending' # NoPending =>
             pending' = pending \/ Accounted(pending'.fab, observed', installs'),
           \A s \in DOMAIN log' :
             \/ s \in DOMAIN log /\ log'[s] = log[s]
             \/ RecordAccounted(log'[s], observed', installs')
    PROVE  OriginInv'
  <1>1. /\ \A f : Accounted(f, observed, installs) => Accounted(f, observed', installs')
        /\ \A rec : RecordAccounted(rec, observed, installs)
                      => RecordAccounted(rec, observed', installs')
    BY AccountedMore
  <1>2. snapshot' # NoSnapshot => Accounted(snapshot'.fab, observed', installs')
    BY <1>1 DEF OriginInv
  <1>3. pending' # NoPending => Accounted(pending'.fab, observed', installs')
    BY <1>1 DEF OriginInv
  <1>4. \A s \in DOMAIN log' : RecordAccounted(log'[s], observed', installs')
    BY <1>1 DEF OriginInv
  <1> QED BY <1>2, <1>3, <1>4 DEF OriginInv

\* The steps of start() replay observations under the incarnations recorded
\* with them.
LEMMA StartOrigin ==
    ASSUME TInv, OriginInv, StartRecovery \/ StartStep
    PROVE  OriginInv'
  <1>0. /\ Accounted(NoFabric, observed, installs) /\ Accounted(EmptyFabric, observed, installs)
        /\ Accounted(fabric, observed, installs)
    BY DEF Accounted, EmptyFabric, OriginInv
  <1>1. CASE StartRecovery
    <2>1. UNCHANGED <<log, snapshot, pending, observed, installs>>
      BY <1>1 DEF StartRecovery, disk, history, effects
    <2>2. Accounted(fabric', observed, installs)
      BY <1>0, <1>1 DEF StartRecovery, OriginInv
    <2> QED BY <2>1, <2>2, OriginKept
  <1>2. ASSUME NEW s \in DOMAIN log, ScanRecord(s)
        PROVE  OriginInv'
    <2>1. UNCHANGED <<log, snapshot, pending, observed, installs>>
      BY <1>2 DEF ScanRecord, disk, history, effects
    <2>2. Accounted(fabric', observed, installs)
      BY <1>0, <1>2, ReplayAccounted DEF ScanRecord, OriginInv
    <2> QED BY <2>1, <2>2, OriginKept
  <1>3. CASE Prune
    <2>1. UNCHANGED <<log, fabric, pending, observed, installs>>
            /\ snapshot'.fab = fabric
      BY SMT, <1>3 DEF Prune, WriteSnapshot, window, history, effects
    <2> QED BY <1>0, <2>1, OriginKept
  <1>4. CASE NoPrune \/ CreateSegment
    <2>1. UNCHANGED <<log, snapshot, pending, observed, installs>>
            /\ fabric' \in {fabric, EmptyFabric}
      BY <1>4 DEF NoPrune, CreateSegment, storeVars, window, history, effects
    <2> QED BY <1>0, <2>1, OriginKept
  <1>5. ASSUME NEW g \in doomed, RemoveSegment(g)
        PROVE  OriginInv'
    <2>1. UNCHANGED <<fabric, snapshot, pending, observed, installs>>
      BY <1>5 DEF RemoveSegment, window, effects
    <2>2. \A s \in DOMAIN log' : s \in DOMAIN log /\ log'[s] = log[s]
      BY <1>5 DEF RemoveSegment, RemoveFile, Restrict
    <2> QED BY <1>0, <2>1, <2>2, OriginKept
  <1>6. CASE PruneFails \/ CreateFails
    <2>1. UNCHANGED <<log, snapshot, observed, installs>> /\ Halt
      BY <1>6 DEF PruneFails, CreateFails, Halt, disk, effects
    <2>2. fabric' = NoFabric /\ pending' = NoPending
      BY <2>1 DEF Halt
    <2> QED BY <1>0, <2>1, <2>2, OriginKept
  <1>7. CASE Announce
    <2>1. UNCHANGED <<fabric, pending, observed, installs>> /\ AppendOk(StartRecord)
      BY <1>7 DEF Announce, window, effects
    <2> QED BY <1>0, <2>1, OldOrNew, RecordsAccounted, OriginKept
  <1>8. CASE Baseline
    <2>1. UNCHANGED <<fabric, pending, observed, installs>> /\ AppendOk(FabricRecord(fabric))
      BY <1>8 DEF Baseline, window
    <2> QED BY <1>0, <2>1, OldOrNew, RecordsAccounted, OriginKept
  <1>9. CASE StartAppendFails
    <2>1. fabric' = NoFabric /\ pending' = NoPending
            /\ UNCHANGED <<observed, installs>>
      BY <1>9 DEF StartAppendFails, Halt
    <2>2. NotAppended(StartRecord) \/ NotAppended(FabricRecord(fabric))
      BY <1>9 DEF StartAppendFails
    <2> QED BY <1>0, <2>1, <2>2, OldOrNew, RecordsAccounted, OriginKept
  <1> QED
    BY <1>1, <1>2, <1>3, <1>4, <1>5, <1>6, <1>7, <1>8, <1>9 DEF StartStep

\* apply() attributes what it observes to the running incarnation, whether or not
\* its append succeeds.
LEMMA CommandOrigin ==
    ASSUME TInv, OriginInv, NEW r \in Requests, NEW t, NEW want,
           ApplyCommit(r, t, want) \/ ApplyFails(r, t, want)
    PROVE  OriginInv'
  <1> DEFINE more == observed \cup {<<r, inc>>}
  <1>0. fabric' = fabric /\ fabric # NoFabric /\ Accounted(fabric, more, installs)
    <2>1. fabric' = fabric /\ phase = "up"
      BY DEF ApplyCommit, ApplyFails, Admitted
    <2>2. fabric \in Fabric
      BY <2>1 DEF TInv, ShapeInv, Live
    <2>3. Accounted(fabric, observed, installs)
      BY DEF OriginInv
    <2> QED BY <2>1, <2>2, <2>3, AccountedMore, SpecAssumption
  <1>1. RecordAccounted(CommitRecord(r), more, installs)
    BY RecordsAccounted
  <1>2. Accounted(Applied(r), more, installs)
    BY <1>0, ApplyAccounted DEF Applied
  <1> HIDE DEF more
  <1>3. CASE ApplyCommit(r, t, want)
    <2>1. observed' = more /\ pending'.fab = Applied(r) /\ installs' = installs
      BY <1>3 DEF ApplyCommit, more
    <2>2. AppendOk(CommitRecord(r))
      BY <1>3 DEF ApplyCommit
    <2>3. observed \subseteq more
      BY DEF more
    <2> QED BY <1>0, <1>1, <1>2, <2>1, <2>2, <2>3, OldOrNew, OriginKept
  <1>4. CASE ApplyFails(r, t, want)
    <2>1. UNCHANGED <<pending, installs>> /\ NotAppended(CommitRecord(r))
      BY <1>4 DEF ApplyFails, window, AppendFails
    <2>2. snapshot' = snapshot
      BY <2>1, OldOrNew
    <2>3. CASE log' = log
      <3>1. observed' = observed
        BY <1>4, <2>3 DEF ApplyFails
      <3>2. Accounted(fabric', observed', installs')
        BY <1>0, <2>1, <3>1 DEF OriginInv
      <3> QED BY <2>1, <2>2, <2>3, <3>1, <3>2, OriginKept
    <2>4. CASE log' # log
      <3>1. observed' = more /\ observed \subseteq more
        BY <1>4, <2>4 DEF ApplyFails, more
      <3> QED BY <1>0, <1>1, <2>1, <3>1, OldOrNew, OriginKept
    <2> QED BY <2>3, <2>4
  <1> QED BY <1>3, <1>4

\* Every other step of a running controller only publishes, drops or stores what
\* is accounted for already.
LEMMA RunOrigin ==
    ASSUME TInv, OriginInv,
           PublishStep \/ ClientStep \/ Expire \/ SweepLease \/ Compact \/ Stop
             \/ Kill \/ UNCHANGED vars
    PROVE  OriginInv'
  <1>0. Accounted(NoFabric, observed, installs) /\ Accounted(fabric, observed, installs)
    BY DEF Accounted, OriginInv
  <1>1. CASE PublishStep
    <2>1. /\ UNCHANGED <<log, snapshot, observed, installs>> /\ fabric' = pending.fab
          /\ pending' = NoPending /\ phase = "commit"
      BY <1>1 DEF PublishStep, ApplyPublish, InstallPublish, storeVars
    <2>2. Accounted(pending.fab, observed, installs)
      BY <2>1 DEF OriginInv, TInv, ShapeInv
    <2> QED BY <2>1, <2>2, OriginKept
  <1>2. CASE AcquireAuthority \/ AcquireFails \/ RevokeAuthority
    <2>1. UNCHANGED <<fabric, pending, observed, installs>>
            /\ (AppendOk(FenceRecord) \/ NotAppended(FenceRecord))
      BY <1>2
      DEF AcquireAuthority, AcquireFails, RevokeAuthority, AppendFails, window,
          effects, history
    <2> QED BY <1>0, <2>1, OldOrNew, RecordsAccounted, OriginKept
  <1>3. CASE \E r \in Requests, i \in issued, want \in Coordinates :
               ApplyCommit(r, i.tok, want) \/ ApplyFails(r, i.tok, want)
    BY <1>3, CommandOrigin
  <1>4. ASSUME NEW f \in Specs, NEW replace \in BOOLEAN,
               InstallCommit(f, replace) \/ InstallFails(f, replace)
        PROVE  OriginInv'
    <2>1. installs' = installs + 1 /\ installs \in Nat
      BY <1>4 DEF InstallCommit, InstallFails, TInv, TypeOK
    <2>2. Accounted(f, observed, installs')
      BY SMT, <2>1, SpecAssumption DEF Accounted
    <2>3. /\ UNCHANGED <<fabric, observed>>
          /\ pending' = pending \/ pending'.fab = f
          /\ AppendOk(FabricRecord(f)) \/ NotAppended(FabricRecord(f))
      BY SMT, <1>4 DEF InstallCommit, InstallFails, AppendFails, window
    <2>4. Accounted(fabric, observed, installs')
      BY SMT, <1>0, <2>1 DEF Accounted
    <2> QED BY SMT, <2>1, <2>2, <2>3, <2>4, OldOrNew, RecordsAccounted, OriginKept
  <1>5. CASE (\E d \in dedup : ApplyDuplicate(d)) \/ Expire \/ SweepLease
               \/ UNCHANGED vars
    <2>1. UNCHANGED <<log, snapshot, fabric, pending, observed, installs>>
      BY <1>5
      DEF ApplyDuplicate, Expire, SweepLease, vars, storeVars, window, effects,
          history
    <2> QED BY <1>0, <2>1, OriginKept
  <1>6. CASE Compact
    <2>1. UNCHANGED <<log, fabric, pending, observed, installs>> /\ snapshot'.fab = fabric
      BY <1>6 DEF Compact, WriteSnapshot, window, effects, history
    <2> QED BY <1>0, <2>1, OriginKept
  <1>7. CASE Stop \/ Kill
    <2>1. UNCHANGED <<log, snapshot, observed, installs>> /\ Halt
      BY <1>7 DEF Stop, Kill, CloseClean, CloseFails, Halt, effects
    <2>2. fabric' = NoFabric /\ pending' = NoPending
      BY <2>1 DEF Halt
    <2> QED BY <1>0, <2>1, <2>2, OriginKept
  <1> QED
    BY <1>1, <1>2, <1>3, <1>4, <1>5, <1>6, <1>7 DEF ClientStep

\* Nothing is observed at first.
LEMMA OriginInit == Init => OriginInv
  BY DEF Init, StoreInit, OriginInv, Accounted

\* Every step keeps observations with the incarnations that made them.
LEMMA OriginStep == TInv /\ OriginInv /\ [Next]_vars => OriginInv'
  BY StartOrigin, RunOrigin DEF Next

\* An observation is attributed to the incarnation that made it, however often
\* it was snapshotted, compacted, pruned and replayed since, and whichever of
\* these a kill or an I/O error cut short (apply_command_to's observer).
THEOREM ObservationsAttributed == Spec => []EvidenceAttribution
  <1>1. Init => TInv /\ OriginInv
    BY InitType, OriginInit
  <1>2. TInv /\ OriginInv /\ [Next]_vars => TInv' /\ OriginInv'
    BY StepType, OriginStep
  <1>3. OriginInv => EvidenceAttribution
    BY DEF OriginInv, Accounted, EvidenceAttribution
  <1> QED BY <1>1, <1>2, <1>3, PTL DEF Spec

-----------------------------------------------------------------------------
(* Commands without a snapshot.                                            *)

\* A window that misses one commit is smaller than the journal's commits.
LEMMA FewerThan ==
    ASSUME NEW C, IsFiniteSet(C), NEW D, NEW f, NEW x \in C,
           \A d \in D : \E s \in C : s # x /\ d = f[s]
    PROVE  IsFiniteSet(D) /\ Cardinality(D) < Cardinality(C)
  <1> DEFINE B == C \ {x}
             T == {f[s] : s \in B}
             h == [s \in B |-> f[s]]
  <1>1. IsFiniteSet(B) /\ Cardinality(B) = Cardinality(C) - 1
          /\ Cardinality(C) \in Nat
    BY FS_RemoveElement, FS_CardinalityType
  <1>2. h \in Surjection(B, T)
    BY DEF Surjection
  <1> HIDE DEF B, h, T
  <1>3. IsFiniteSet(T) /\ Cardinality(T) <= Cardinality(B)
    BY <1>1, <1>2, FS_Surjection
  <1>4. D \in SUBSET T
    BY DEF T, B
  <1>5. IsFiniteSet(D) /\ Cardinality(D) <= Cardinality(T)
    BY <1>3, <1>4, FS_Subset
  <1>6. Cardinality(D) \in Nat /\ Cardinality(T) \in Nat
    BY <1>3, <1>5, FS_CardinalityType
  <1> QED BY SMT, <1>1, <1>3, <1>5, <1>6

\* A window that holds all commits, each under its own result, is as large.
LEMMA NoMoreThan ==
    ASSUME NEW C, IsFiniteSet(C), NEW D, NEW f,
           \A s \in C : f[s] \in D,
           \A s, t \in C : f[s] = f[t] => s = t,
           \A d \in D : \E s \in C : d = f[s]
    PROVE  Cardinality(C) <= Cardinality(D)
  <1> DEFINE h == [s \in C |-> f[s]]
  <1>1. h \in Injection(C, D)
    BY DEF Injection, IsInjective
  <1>2. h \in Surjection(C, D)
    BY DEF Surjection
  <1> HIDE DEF h
  <1>3. IsFiniteSet(D)
    BY <1>2, FS_Surjection
  <1> QED BY <1>1, <1>3, FS_Injection

\* What the type invariant says of a commit.
LEMMA CommitTypes ==
    ASSUME TInv
    PROVE  /\ \A s \in DOMAIN log : s \in Nat /\ s > 0
           /\ \A s \in Committed(log) : s \in DOMAIN log /\ log[s].req \in Requests
           /\ \A rec : ResultOf(rec).req = rec.req
           /\ last \in Nat /\ cursor \in Nat /\ MaxDedup \in Nat
  BY SMT, ControllerAssumption
  DEF TInv, TypeOK, StoreTypeOK, ShapeInv, Committed, ResultOf, Result

\* One more effect that is not there yet is there once (apply_command_to).
LEMMA ApplyOnce ==
    ASSUME NEW f \in Fabric, NEW r \in Requests, NEW g, NEW e, NEW o,
           DuplicateFree(f), \A i \in DOMAIN f.topo : f.topo[i] # r,
           \A v \in f.evid : v.req # r
    PROVE  LET a == ApplyCommand(f, r, g, e, o)
           IN  /\ DuplicateFree(a)
               /\ \A i \in DOMAIN a.topo :
                    a.topo[i] = r \/ (i \in DOMAIN f.topo /\ a.topo[i] = f.topo[i])
               /\ \A v \in a.evid : v.req = r \/ v \in f.evid
  <1> DEFINE a == ApplyCommand(f, r, g, e, o)
             new == [req |-> r, inc |-> o, epoch |-> e, gen |-> g]
  <1>1. a.topo \in {f.topo, Append(f.topo, r)}
    BY DEF ApplyCommand
  <1>2. a.evid \subseteq f.evid \cup {new} /\ new.req = r
    BY DEF ApplyCommand
  <1>3. f.topo \in Seq(Requests)
    BY DEF Fabric
  <1> HIDE DEF a, new
  <1>4. \A i \in DOMAIN a.topo :
          \/ i \in DOMAIN f.topo /\ a.topo[i] = f.topo[i]
          \/ i = Len(f.topo) + 1 /\ a.topo[i] = r
    <2>1. CASE a.topo = f.topo
      BY <2>1
    <2>2. CASE a.topo = Append(f.topo, r)
      BY SMT, <1>3, <2>2
    <2> QED BY <1>1, <2>1, <2>2
  <1>5. \A i, j \in DOMAIN a.topo : a.topo[i] = a.topo[j] => i = j
    BY <1>4 DEF DuplicateFree
  <1>6. \A u, v \in a.evid : u.req = v.req => u = v
    BY <1>2 DEF DuplicateFree
  <1>7. DuplicateFree(a)
    BY <1>5, <1>6 DEF DuplicateFree
  <1>8. \A i \in DOMAIN a.topo :
          a.topo[i] = r \/ (i \in DOMAIN f.topo /\ a.topo[i] = f.topo[i])
    BY <1>4
  <1>9. \A v \in a.evid : v.req = r \/ v \in f.evid
    BY <1>2
  <1> QED BY <1>7, <1>8, <1>9 DEF a

\* A command whose request no commit up to n made leaves a fabric that owes its
\* effects to those commits and its own.
LEMMA ApplyOwed ==
    ASSUME NEW jnl, DOMAIN jnl \subseteq Nat, NEW f \in Fabric, NEW n \in Nat,
           OwedTo(f, n, jnl), NEW r \in Requests, NEW g, NEW e, NEW o,
           ~CommittedBy(n, r, jnl), NEW m \in Nat, n <= m, CommittedBy(m, r, jnl)
    PROVE  OwedTo(ApplyCommand(f, r, g, e, o), m, jnl)
  <1> DEFINE a == ApplyCommand(f, r, g, e, o)
  <1>1. f # NoFabric
    BY SpecAssumption
  <1>2. /\ DuplicateFree(f)
        /\ \A i \in DOMAIN f.topo : CommittedBy(n, f.topo[i], jnl)
        /\ \A v \in f.evid : CommittedBy(n, v.req, jnl)
    BY <1>1 DEF OwedTo
  <1>3. /\ DuplicateFree(a)
        /\ \A i \in DOMAIN a.topo :
             a.topo[i] = r \/ (i \in DOMAIN f.topo /\ a.topo[i] = f.topo[i])
        /\ \A v \in a.evid : v.req = r \/ v \in f.evid
    BY SMTT(30), <1>2, ApplyOnce
  <1>4. \A q : CommittedBy(n, q, jnl) => CommittedBy(m, q, jnl)
    BY SMT DEF CommittedBy, Committed
  <1> HIDE DEF a
  <1>5. OwedTo(a, m, jnl)
    BY <1>2, <1>3, <1>4 DEF OwedTo
  <1> QED BY <1>5 DEF a

\* What is owed stays owed as the journal grows.
LEMMA OwedMore ==
    ASSUME NEW jnl, NEW more, DOMAIN jnl \subseteq Nat,
           \A s \in DOMAIN jnl : s \in DOMAIN more /\ more[s] = jnl[s],
           NEW n \in Nat, NEW m \in Nat, n <= m
    PROVE  /\ \A r : CommittedBy(n, r, jnl) => CommittedBy(m, r, more)
           /\ \A f : OwedTo(f, n, jnl) => OwedTo(f, m, more)
  <1>1. \A r : CommittedBy(n, r, jnl) => CommittedBy(m, r, more)
    BY SMT DEF CommittedBy, Committed
  <1> QED BY <1>1 DEF OwedTo

\* A fabric without effects owes nothing.
LEMMA OwesNothing ==
    ASSUME NEW n, NEW jnl
    PROVE  /\ OwedTo(NoFabric, n, jnl) /\ OwedTo(EmptyFabric, n, jnl)
           /\ \A f \in Specs : OwedTo(f, n, jnl)
  <1>1. \A f : f.topo = <<>> /\ f.evid = {} => OwedTo(f, n, jnl)
    BY SMT DEF OwedTo, DuplicateFree
  <1>2. EmptyFabric.topo = <<>> /\ EmptyFabric.evid = {}
    BY DEF EmptyFabric
  <1> QED BY <1>1, <1>2, SpecAssumption DEF OwedTo

-----------------------------------------------------------------------------
(* The journal grows by one record at its end.                             *)

\* What a record appended to the journal may be: a fabric that owes its effects
\* to the commits before it, or a commit of a request not committed yet, as
\* long as the window has room.
Fits(rec) ==
    /\ OwedTo(rec.fab, last, log)
    /\ rec.type = "CommandCommit" =>
         /\ ~CommittedBy(last, rec.req, log)
         /\ Cardinality(Committed(log)) < MaxDedup

\* One more record, with the number n, makes one more commit at most.
OneMore(jnl, more, n, rec) ==
    /\ DOMAIN more = DOMAIN jnl \cup {n} /\ more[n] = rec
    /\ n \notin DOMAIN jnl
    /\ \A s \in DOMAIN jnl : more[s] = jnl[s]
    /\ Committed(more) = IF rec.type = "CommandCommit"
                         THEN Committed(jnl) \cup {n} ELSE Committed(jnl)
    /\ Committed(jnl) \subseteq DOMAIN jnl

\* An append adds one record behind the last and leaves the others alone.
LEMMA Grown ==
    ASSUME TInv, Ends(last), NEW rec, NEW more,
           more = Extended(log, last + 1, rec)
    PROVE  OneMore(log, more, last + 1, rec)
  <1>1. \A s \in DOMAIN log : s \in Nat
    BY CommitTypes
  <1>2. last \in Nat
    BY CommitTypes
  <1>3. last + 1 \notin DOMAIN log
    BY SMT, <1>1, <1>2 DEF Ends
  <1>4. /\ DOMAIN more = DOMAIN log \cup {last + 1} /\ more[last + 1] = rec
        /\ \A s \in DOMAIN log : more[s] = log[s]
    BY <1>3 DEF Extended
  <1>5. Committed(more) = IF rec.type = "CommandCommit"
                          THEN Committed(log) \cup {last + 1}
                          ELSE Committed(log)
    BY <1>3, <1>4 DEF Committed
  <1> QED BY <1>3, <1>4, <1>5 DEF OneMore, Committed

\* A record that Fits is behind the others without committing a request again.
LEMMA JournalGrown ==
    ASSUME TInv, Ends(last), NEW rec, NEW more,
           more = Extended(log, last + 1, rec),
           JournalInv(log, replies), Fits(rec)
    PROVE  JournalInv(more, replies)
  <1> DEFINE C == Committed(log)
             new == last + 1
  <1>1. /\ DOMAIN more = DOMAIN log \cup {new} /\ more[new] = rec
        /\ new \notin DOMAIN log
        /\ \A s \in DOMAIN log : more[s] = log[s]
        /\ Committed(more) = IF rec.type = "CommandCommit" THEN C \cup {new} ELSE C
        /\ C \subseteq DOMAIN log
    <2>1. OneMore(log, more, last + 1, rec)
      BY Grown
    <2> QED BY <2>1 DEF OneMore
  <1>2. last \in Nat /\ new \in Nat /\ last <= new /\ MaxDedup \in Nat
          /\ \A s \in DOMAIN log : s \in Nat
    BY SMT, CommitTypes
  <1>3. \A s \in C : rec.type = "CommandCommit" => log[s].req # rec.req
    BY <1>1 DEF Fits, CommittedBy, Ends
  <1>4. \A s, t \in Committed(more) : more[s].req = more[t].req => s = t
    <2>1. \A s, t \in C : more[s].req = more[t].req => s = t
      BY <1>1 DEF JournalInv
    <2> QED BY SMT, <1>1, <1>3, <2>1
  <1>5. IsFiniteSet(Committed(more)) /\ Cardinality(Committed(more)) <= MaxDedup
    <2>1. IsFiniteSet(C) /\ Cardinality(C) <= MaxDedup
      BY DEF JournalInv
    <2>2. IsFiniteSet(C \cup {new}) /\ Cardinality(C \cup {new}) = Cardinality(C) + 1
            /\ Cardinality(C) \in Nat
      BY <1>1, <2>1, FS_AddElement, FS_CardinalityType
    <2>3. rec.type = "CommandCommit" => Cardinality(C) + 1 <= MaxDedup
      BY SMT, <1>2, <2>2 DEF Fits
    <2> QED BY <1>1, <2>1, <2>2, <2>3
  <1>6. \A a \in replies : \E s \in Committed(more) : a = ResultOf(more[s])
    BY SMT, <1>1 DEF JournalInv
  <1>7. \A s \in DOMAIN more : OwedTo(more[s].fab, s, more)
    <2>1. DOMAIN log \subseteq Nat
            /\ \A s \in DOMAIN log : s \in DOMAIN more /\ more[s] = log[s]
      BY <1>1, <1>2
    <2>2. \A s \in DOMAIN log : OwedTo(log[s].fab, s, log)
      BY DEF JournalInv
    <2>3. \A s \in DOMAIN log : OwedTo(more[s].fab, s, more)
      BY SMT, <1>2, <2>1, <2>2, OwedMore
    <2>4. OwedTo(rec.fab, new, more)
      BY <1>2, <2>1, OwedMore DEF Fits
    <2> QED BY <1>1, <2>3, <2>4
  <1> QED BY <1>4, <1>5, <1>6, <1>7 DEF JournalInv

-----------------------------------------------------------------------------
(* The steps of the runtime.                                               *)

\* What the invariant says without a snapshot.
Once == snapshot = NoSnapshot /\ OnceInv

\* The parts of the exactly-once invariant while nothing has been compacted.
LEMMA OnceParts ==
    Once => StandInv /\ JournalInv(log, replies) /\ WindowInv /\ OwedInv
  BY DEF Once, OnceInv

\* A halt forgets everything but the journal.
LEMMA HaltOnce ==
    ASSUME Halt, JournalInv(log, replies)'
    PROVE  OnceInv'
  <1>1. /\ phase' = "down" /\ fabric' = NoFabric /\ dedup' = {} /\ ~poisoned'
    BY DEF Halt
  <1>2. StandInv'
    BY <1>1 DEF StandInv
  <1>3. WindowInv'
    BY <1>1 DEF WindowInv, Halted
  <1>4. OwedInv'
    BY <1>1, OwesNothing DEF OwedInv
  <1> QED BY <1>2, <1>3, <1>4 DEF OnceInv

\* A step that moves none of this keeps it.
LEMMA QuietOnce ==
    ASSUME OnceInv,
           UNCHANGED <<log, snapshot, phase, last, poisoned, cursor, fabric,
                       dedup, pending, epoch, replies>>
    PROVE  OnceInv'
  BY DEF OnceInv, StandInv, WindowInv, OwedInv, Ends

\* An append goes to the end of the journal.
LEMMA AtTheEnd ==
    ASSUME TInv, Once, CanAppend, phase \in {"announce", "baseline", "up"}
    PROVE  Ends(last) /\ phase \notin Halted \cup {"scan", "create", "commit"}
  <1>1. ~poisoned
    BY DEF CanAppend
  <1> QED BY <1>1, OnceParts DEF StandInv, Ends, Halted

\* The records of a start, a fence and an installation fit.
LEMMA PlainFits ==
    ASSUME Once
    PROVE  /\ Fits(StartRecord) /\ Fits(FenceRecord) /\ Fits(FabricRecord(fabric))
           /\ StartRecord.type # "CommandCommit" /\ FenceRecord.type # "CommandCommit"
           /\ \A f : FabricRecord(f).type # "CommandCommit"
           /\ \A f \in Specs : Fits(FabricRecord(f))
  <1>1. /\ StartRecord.type = "IncarnationStart" /\ StartRecord.fab = NoFabric
        /\ FenceRecord.type = "Fence" /\ FenceRecord.fab = NoFabric
        /\ \A f : FabricRecord(f).type = "FabricSnapshot" /\ FabricRecord(f).fab = f
    BY DEF StartRecord, FenceRecord, FabricRecord, Rec
  <1>2. OwedTo(fabric, last, log)
    BY OnceParts DEF OwedInv
  <1>3. OwedTo(NoFabric, last, log) /\ \A f \in Specs : OwedTo(f, last, log)
    BY OwesNothing
  <1> QED BY <1>1, <1>2, <1>3 DEF Fits

\* A request the window does not remember was never committed, and a window
\* with room left has room for its commit (apply_locked's two checks).
LEMMA CommitFits ==
    ASSUME TInv, Once, phase = "up", Ends(last), NEW r \in Requests,
           ~Remembered(r), Cardinality(dedup) < MaxDedup
    PROVE  /\ Fits(CommitRecord(r)) /\ CommitRecord(r).type = "CommandCommit"
           /\ CommitRecord(r).req = r /\ ~CommittedBy(last, r, log)
  <1> DEFINE C == Committed(log)
             f == [s \in C |-> ResultOf(log[s])]
  <1>1. /\ CommitRecord(r).type = "CommandCommit" /\ CommitRecord(r).req = r
        /\ CommitRecord(r).fab = NoFabric
    BY DEF CommitRecord, Rec
  <1>2. WindowInv /\ JournalInv(log, replies)
    BY OnceParts
  <1>3. \A s \in C : ResultOf(log[s]) \in dedup
    BY <1>2 DEF WindowInv, Halted, Ends, Committed
  <1>4. \A s \in C : ResultOf(log[s]).req = log[s].req
    BY DEF ResultOf, Result
  <1>5. \A s \in C : log[s].req # r
    BY <1>3, <1>4 DEF Remembered
  <1>6. ~CommittedBy(last, r, log)
    BY <1>5 DEF CommittedBy
  <1>7. Cardinality(C) <= Cardinality(dedup) /\ IsFiniteSet(dedup) /\ IsFiniteSet(C)
    <2>1. IsFiniteSet(C) /\ \A s, t \in C : log[s].req = log[t].req => s = t
      BY <1>2 DEF JournalInv
    <2>2. \A s \in C : f[s] \in dedup
      BY <1>3
    <2>3. \A s, t \in C : f[s] = f[t] => s = t
      BY <1>4, <2>1
    <2>4. \A d \in dedup : \E s \in C : d = f[s]
      BY <1>2 DEF WindowInv
    <2> HIDE DEF C, f
    <2>5. Cardinality(C) <= Cardinality(dedup)
      BY <2>1, <2>2, <2>3, <2>4, NoMoreThan
    <2>6. IsFiniteSet(dedup)
      <3> DEFINE h == [s \in C |-> f[s]]
      <3>1. h \in Surjection(C, dedup)
        BY <2>2, <2>4 DEF Surjection
      <3> HIDE DEF h
      <3> QED BY <2>1, <3>1, FS_Surjection
    <2> QED BY <2>1, <2>5, <2>6
  <1>8. Cardinality(C) < MaxDedup
    BY SMT, <1>7, FS_CardinalityType, CommitTypes
  <1>9. OwedTo(NoFabric, last, log)
    BY OwesNothing
  <1> QED BY <1>1, <1>6, <1>8, <1>9 DEF Fits

\* A record that commits nothing is appended.
LEMMA PlainAppend ==
    ASSUME TInv, Once, NEW rec, AppendOk(rec), Fits(rec),
           rec.type # "CommandCommit", phase \in {"announce", "baseline", "up"},
           phase' \in {"baseline", "up"}, UNCHANGED <<fabric, dedup, replies>>
    PROVE  OnceInv'
  <1>1. /\ log' = Extended(log, last + 1, rec) /\ last' = last + 1
        /\ UNCHANGED poisoned /\ CanAppend
    BY DEF AppendOk
  <1>2. Ends(last) /\ phase \notin Halted \cup {"commit"}
    BY <1>1, AtTheEnd
  <1>3. StandInv /\ JournalInv(log, replies) /\ WindowInv /\ OwedInv
    BY OnceParts
  <1>4. JournalInv(log', replies)
    BY <1>1, <1>2, <1>3, JournalGrown
  <1>5. OneMore(log, log', last + 1, rec)
    BY <1>1, <1>2, Grown
  <1>6. last \in Nat /\ \A s \in DOMAIN log : s \in Nat
    BY CommitTypes
  <1>7. Committed(log') = Committed(log) /\ DOMAIN log' = DOMAIN log \cup {last + 1}
          /\ (\A s \in DOMAIN log : log'[s] = log[s])
          /\ (\A s \in Committed(log) : s \in Nat /\ s <= last /\ log'[s] = log[s])
    BY <1>2, <1>5, <1>6 DEF OneMore, Ends
  <1>8. StandInv'
    BY SMT, <1>1, <1>2, <1>3, <1>6, <1>7 DEF StandInv, Ends, CanAppend
  <1>9. WindowInv'
    BY SMTT(30), <1>1, <1>2, <1>3, <1>6, <1>7 DEF WindowInv, Halted
  <1>10. OwedInv'
    <2>1. OwedTo(fabric, last + 1, log')
      BY SMT, <1>3, <1>6, <1>7, OwedMore DEF OwedInv
    <2> QED BY <1>1, <2>1 DEF OwedInv
  <1> QED BY <1>4, <1>8, <1>9, <1>10 DEF OnceInv

\* An append that fails may leave the record behind, past the last number the
\* runtime knows of; it takes no further record.
LEMMA FailedOnce ==
    ASSUME TInv, Once, NEW rec, AppendFails(rec), CanAppend => Fits(rec),
           phase = "up", UNCHANGED <<phase, fabric, dedup, replies>>
    PROVE  OnceInv'
  <1>1. /\ poisoned' = (poisoned \/ CanAppend) /\ last' = last
        /\ log' = log \/ (CanAppend /\ log' = Extended(log, last + 1, rec))
    BY DEF AppendFails, NotAppended
  <1>2. StandInv /\ JournalInv(log, replies) /\ WindowInv /\ OwedInv
    BY OnceParts
  <1>3. last \in Nat /\ DOMAIN log \subseteq Nat
    BY CommitTypes
  <1>4. CASE log' = log
    <2>1. StandInv'
      BY <1>1, <1>2, <1>4 DEF StandInv
    <2>2. WindowInv' /\ OwedInv'
      BY <1>1, <1>2, <1>4 DEF WindowInv, OwedInv
    <2> QED BY <1>2, <1>4, <2>1, <2>2 DEF OnceInv
  <1>5. CASE CanAppend /\ log' = Extended(log, last + 1, rec)
    <2>1. Ends(last)
      BY <1>5, AtTheEnd
    <2>2. JournalInv(log', replies)
      BY <1>2, <1>5, <2>1, JournalGrown
    <2>3. OneMore(log, log', last + 1, rec)
      BY <1>5, <2>1, Grown
    <2>4. /\ DOMAIN log' = DOMAIN log \cup {last + 1}
          /\ \A s \in DOMAIN log : log'[s] = log[s]
          /\ \A s \in Committed(log) : s \in Nat /\ s \in Committed(log')
                                         /\ log'[s] = log[s]
          /\ \A s \in Committed(log') : s <= last => s \in Committed(log)
      BY SMT, <1>3, <2>3 DEF OneMore
    <2>5. StandInv'
      BY <1>1, <1>2, <1>5, <2>1, <2>4 DEF StandInv, Ends
    <2>6. WindowInv'
      BY <1>1, <1>2, <2>4 DEF WindowInv, Halted
    <2>7. OwedInv'
      <3>1. OwedTo(fabric, last, log')
        BY SMT, <1>2, <1>3, <2>4, OwedMore DEF OwedInv
      <3> QED BY <1>1, <3>1 DEF OwedInv
    <2> QED BY <2>2, <2>5, <2>6, <2>7 DEF OnceInv
  <1> QED BY <1>1, <1>4, <1>5

\* A command's commit record, or the fabric of an installation, is durable; it
\* is published in the next step.
LEMMA CommitOnce ==
    ASSUME TInv, Once, NEW rec, AppendOk(rec), Fits(rec), phase = "up",
           phase' = "commit", UNCHANGED <<fabric, dedup, replies, epoch>>,
           OwedTo(pending'.fab, last + 1, log'),
           IF pending'.req = NoRequest THEN rec.type # "CommandCommit"
           ELSE rec.type = "CommandCommit"
                  /\ ResultOf(rec) = Result(pending'.req, pending'.fab.gen, epoch)
    PROVE  OnceInv'
  <1>1. /\ log' = Extended(log, last + 1, rec) /\ last' = last + 1
        /\ UNCHANGED poisoned /\ CanAppend
    BY DEF AppendOk
  <1>2. Ends(last)
    BY <1>1, AtTheEnd
  <1>3. StandInv /\ JournalInv(log, replies) /\ WindowInv /\ OwedInv
    BY OnceParts
  <1>4. JournalInv(log', replies)
    BY <1>1, <1>2, <1>3, JournalGrown
  <1>5. OneMore(log, log', last + 1, rec)
    BY <1>1, <1>2, Grown
  <1>6. last \in Nat /\ \A s \in DOMAIN log : s \in Nat
    BY CommitTypes
  <1>7. /\ DOMAIN log' = DOMAIN log \cup {last + 1} /\ log'[last + 1] = rec
        /\ \A s \in DOMAIN log : log'[s] = log[s]
        /\ \A s \in Committed(log) : s \in Nat /\ s <= last /\ s \in Committed(log')
                                       /\ log'[s] = log[s]
        /\ \A s \in Committed(log') : s \in Committed(log) \/ s = last + 1
        /\ last + 1 \in Committed(log') <=> rec.type = "CommandCommit"
    BY <1>2, <1>5, <1>6 DEF OneMore, Ends
  <1>8. StandInv'
    BY SMTT(30), <1>1, <1>2, <1>3, <1>6, <1>7 DEF StandInv, Ends, CanAppend
  <1>9. WindowInv'
    <2>1. ASSUME NEW d \in dedup
          PROVE  \E s \in Committed(log') : s <= last' /\ d = ResultOf(log'[s])
      <3>1. PICK s \in Committed(log) : s <= last /\ d = ResultOf(log[s])
        BY <1>3 DEF WindowInv
      <3>2. s \in Committed(log') /\ log'[s] = log[s] /\ s \in Nat
        BY <1>7
      <3> QED BY SMT, <1>1, <1>6, <3>1, <3>2
    <2>2. ASSUME NEW s \in Committed(log'), s < last'
          PROVE  ResultOf(log'[s]) \in dedup
      <3>1. s \in Committed(log)
        BY SMT, <1>1, <1>6, <1>7, <2>2
      <3>2. s <= last /\ log'[s] = log[s]
        BY <1>7, <3>1
      <3> QED BY <1>3, <3>1, <3>2 DEF WindowInv, Halted
    <2>3. IF pending'.req = NoRequest THEN last' \notin Committed(log')
          ELSE /\ last' \in Committed(log')
               /\ ResultOf(log'[last']) = Result(pending'.req, pending'.fab.gen, epoch')
      BY <1>1, <1>7
    <2> QED BY <2>1, <2>2, <2>3 DEF WindowInv, Halted
  <1>10. OwedInv'
    <2>1. OwedTo(fabric, last, log)
      BY <1>3 DEF OwedInv
    <2>2. OwedTo(fabric, last + 1, log')
      <3>1. /\ DOMAIN log \subseteq Nat
            /\ \A s \in DOMAIN log : s \in DOMAIN log' /\ log'[s] = log[s]
            /\ last \in Nat /\ last + 1 \in Nat /\ last <= last + 1
        BY SMT, <1>6, <1>7
      <3>2. PICK m : m = last + 1
        OBVIOUS
      <3>3. PICK more : more = log'
        OBVIOUS
      <3> QED BY <2>1, <3>1, <3>2, <3>3, OwedMore
    <2> QED BY <1>1, <2>2 DEF OwedInv
  <1> QED BY <1>4, <1>8, <1>9, <1>10 DEF OnceInv

\* apply_locked up to the commit.
LEMMA ApplyCommitOnce ==
    ASSUME TInv, Once, NEW r \in Requests, NEW t, NEW want, ApplyCommit(r, t, want)
    PROVE  OnceInv'
  <1>1. /\ phase = "up" /\ phase' = "commit" /\ ~Remembered(r)
        /\ Cardinality(dedup) < MaxDedup /\ AppendOk(CommitRecord(r))
        /\ UNCHANGED <<fabric, dedup, replies, epoch>>
        /\ pending' = [req |-> r, fab |-> Applied(r)]
    BY DEF ApplyCommit, Admitted
  <1>2. Ends(last) /\ log' = Extended(log, last + 1, CommitRecord(r))
    BY <1>1, AtTheEnd DEF AppendOk
  <1>3. /\ Fits(CommitRecord(r)) /\ CommitRecord(r).type = "CommandCommit"
        /\ CommitRecord(r).req = r /\ ~CommittedBy(last, r, log)
    BY <1>1, <1>2, CommitFits
  <1>4. /\ pending'.req = r /\ pending'.fab = Applied(r) /\ r # NoRequest
        /\ fabric \in Fabric
    BY <1>1, CommandAssumption DEF TInv, ShapeInv, Live
  <1>5. ResultOf(CommitRecord(r)) = Result(r, Applied(r).gen, epoch)
    BY DEF ResultOf, CommitRecord, Rec, Applied, ApplyCommand
  <1>6. OwedTo(Applied(r), last + 1, log')
    <2>1. OneMore(log, log', last + 1, CommitRecord(r))
      BY <1>2, Grown
    <2>2. last \in Nat /\ DOMAIN log \subseteq Nat
      BY CommitTypes
    <2>3. /\ DOMAIN log' \subseteq Nat
          /\ \A s \in DOMAIN log : s \in DOMAIN log' /\ log'[s] = log[s]
      BY SMT, <2>1, <2>2 DEF OneMore
    <2>4. OwedTo(fabric, last, log')
      BY SMT, <2>2, <2>3, OwedMore, OnceParts DEF OwedInv
    <2>5. CommittedBy(last + 1, r, log')
      BY SMTT(30), <1>3, <2>1, <2>2 DEF OneMore, CommittedBy
    <2>6. ~CommittedBy(last, r, log')
      BY SMTT(30), <1>3, <2>1, <2>2 DEF OneMore, CommittedBy
    <2> QED BY SMTT(30), <1>4, <2>2, <2>3, <2>4, <2>5, <2>6, ApplyOwed DEF Applied
  <1> QED BY <1>1, <1>3, <1>4, <1>5, <1>6, CommitOnce

\* start() begins with an empty window at the beginning of the journal.
LEMMA RestartOnce ==
    ASSUME TInv, Once, StartRecovery
    PROVE  OnceInv'
  <1>1. /\ phase \in Halted /\ phase' \in {"refused", "scan"} /\ cursor' = 0
        /\ last' = Watermark /\ dedup' = {} /\ UNCHANGED <<log, replies, poisoned>>
    BY DEF StartRecovery, disk, history
  <1>2. last' = 0 /\ fabric' = NoFabric
    BY <1>1 DEF Once, Watermark, StartRecovery
  <1>3. StandInv /\ JournalInv(log, replies)
    BY OnceParts
  <1>4. StandInv'
    BY <1>1, <1>2, <1>3 DEF StandInv, Halted
  <1>5. WindowInv'
    <2>1. \A s \in Committed(log) : s \in Nat /\ s > 0
      BY CommitTypes
    <2> QED BY SMT, <1>1, <1>2, <2>1 DEF WindowInv
  <1>6. OwedInv'
    BY <1>1, <1>2, OwesNothing DEF OwedInv
  <1> QED BY <1>1, <1>3, <1>4, <1>5, <1>6 DEF OnceInv

\* The replay reads one record: a commit it reads is not in the window, whose
\* bound therefore leaves room for it, nor is its effect in the fabric.
LEMMA ScanOnce ==
    ASSUME TInv, Once, NEW s \in DOMAIN log, ScanRecord(s)
    PROVE  OnceInv'
  <1>1. /\ phase = "scan" /\ phase' = "scan" /\ NextRecord(s) /\ cursor' = s
        /\ UNCHANGED <<log, replies, poisoned>> /\ last' = Larger(last, s)
    BY DEF ScanRecord, disk, history
  <1>2. StandInv /\ JournalInv(log, replies) /\ WindowInv /\ OwedInv
    BY OnceParts
  <1>3. /\ last = cursor /\ last \in Nat /\ s \in Nat /\ s > 0
        /\ \A t \in DOMAIN log : t \in Nat
    BY <1>1, <1>2, CommitTypes DEF StandInv
  <1>4. last < s /\ last' = s /\ \A t \in DOMAIN log : t <= s => t <= last \/ t = s
    BY SMT, <1>1, <1>3 DEF NextRecord, Larger
  <1>5. ~Covered(s)
    BY SMT, <1>3 DEF Once, Covered, Watermark
  <1>6. /\ fabric' = Replayed(fabric, log[s])
        /\ dedup' = IF log[s].type # "CommandCommit" THEN dedup
                    ELSE Remember(dedup, log[s])
    BY <1>5 DEF ScanRecord
  <1>7. /\ \A t \in Committed(log) : t \in DOMAIN log
        /\ s \in Committed(log) <=> log[s].type = "CommandCommit"
    BY DEF Committed
  <1>8. \A d \in dedup : \E t \in Committed(log) : t <= last /\ d = ResultOf(log[t])
    BY <1>2 DEF WindowInv
  <1>9. \A t \in Committed(log) : t <= last => ResultOf(log[t]) \in dedup
    BY <1>1, <1>2 DEF WindowInv, Halted
  <1>10. log[s].type = "CommandCommit" => dedup' = dedup \cup {ResultOf(log[s])}
    <2> SUFFICES ASSUME log[s].type = "CommandCommit"
                 PROVE  dedup' = dedup \cup {ResultOf(log[s])}
      OBVIOUS
    <2> DEFINE C == Committed(log)
               f == [t \in C |-> ResultOf(log[t])]
    <2>1. s \in C /\ IsFiniteSet(C) /\ Cardinality(C) <= MaxDedup
      BY <1>2, <1>7 DEF JournalInv
    <2>2. \A d \in dedup : \E t \in C : t # s /\ d = f[t]
      BY SMT, <1>3, <1>4, <1>8
    <2> HIDE DEF C, f
    <2>3. IsFiniteSet(dedup) /\ Cardinality(dedup) < Cardinality(C)
      BY <2>1, <2>2, FewerThan
    <2>4. Cardinality(dedup) < MaxDedup
      BY SMT, <2>1, <2>3, FS_CardinalityType, CommitTypes
    <2> QED BY <1>6, <2>4 DEF Remember, ResultOf
  <1>11. StandInv'
    BY <1>1, <1>2, <1>4 DEF StandInv
  <1>12. WindowInv'
    <2>1. \A d \in dedup' : \E t \in Committed(log) : t <= s /\ d = ResultOf(log[t])
      BY SMTT(30), <1>3, <1>4, <1>6, <1>7, <1>8, <1>10
    <2>2. \A t \in Committed(log) : t <= s => ResultOf(log[t]) \in dedup'
      BY <1>4, <1>6, <1>7, <1>9, <1>10
    <2> QED BY <1>1, <1>4, <2>1, <2>2 DEF WindowInv
  <1>13. OwedTo(fabric', s, log)
    <2>1. DOMAIN log \subseteq Nat /\ last <= s
      BY SMT, <1>3, <1>4
    <2>2. OwedTo(fabric, last, log)
      BY <1>2 DEF OwedInv
    <2>3. CASE log[s].type = "FabricSnapshot"
      <3>1. OwedTo(log[s].fab, s, log)
        BY <1>2 DEF JournalInv
      <3> QED BY <1>6, <2>3, <3>1 DEF Replayed
    <2>4. CASE log[s].type = "CommandCommit" /\ fabric # NoFabric
      <3>1. fabric \in Fabric /\ log[s].req \in Requests
        BY <2>4 DEF TInv, TypeOK, ShapeInv
      <3>2. CommittedBy(s, log[s].req, log)
        BY SMT, <1>3, <1>7, <2>4 DEF CommittedBy
      <3>3. ~CommittedBy(last, log[s].req, log)
        BY SMTT(30), <1>2, <1>3, <1>4, <1>7, <2>4 DEF CommittedBy, JournalInv
      <3>4. fabric' = ApplyCommand(fabric, log[s].req, log[s].gen, log[s].epoch,
                                   log[s].inc)
        BY <1>6, <2>4 DEF Replayed
      <3> QED BY <1>3, <2>1, <2>2, <3>1, <3>2, <3>3, <3>4, ApplyOwed
    <2>5. CASE /\ log[s].type # "FabricSnapshot"
               /\ ~(log[s].type = "CommandCommit" /\ fabric # NoFabric)
      <3>1. fabric' = fabric
        BY <1>6, <2>5 DEF Replayed
      <3>2. OwedTo(fabric, s, log)
        BY <1>3, <2>1, <2>2, OwedMore
      <3> QED BY <3>1, <3>2
    <2> QED BY <2>3, <2>4, <2>5
  <1>14. OwedInv'
    BY <1>1, <1>4, <1>13 DEF OwedInv
  <1> QED BY <1>1, <1>2, <1>11, <1>12, <1>14 DEF OnceInv

\* The rest of start() up to the new segment.
LEMMA BootOnce ==
    ASSUME TInv, Once, NoPrune \/ CreateSegment
    PROVE  OnceInv'
  <1>1. /\ UNCHANGED <<log, last, dedup, replies>>
        /\ phase \in {"scan", "create"} /\ phase' \in {"create", "announce"}
        /\ poisoned' => poisoned
        /\ fabric' \in {fabric, EmptyFabric}
    BY SMT DEF NoPrune, CreateSegment, Scanned, storeVars, history, window
  <1>2. StandInv /\ JournalInv(log, replies) /\ WindowInv /\ OwedInv
    BY OnceParts
  <1>3. Ends(last)
    BY <1>2 DEF NoPrune, CreateSegment, Scanned, StandInv, Ends
  <1>4. StandInv'
    BY <1>1, <1>2, <1>3 DEF StandInv, Ends
  <1>5. WindowInv'
    BY <1>1, <1>2 DEF WindowInv, Halted
  <1>6. OwedInv'
    BY <1>1, <1>2, OwesNothing DEF OwedInv
  <1> QED BY <1>1, <1>2, <1>4, <1>5, <1>6 DEF OnceInv

\* A durable commit is published; a command's result enters the window.
LEMMA PublishOnce ==
    ASSUME TInv, Once, PublishStep
    PROVE  OnceInv'
  <1>1. /\ phase = "commit" /\ phase' = "up" /\ fabric' = pending.fab
        /\ UNCHANGED <<log, last, poisoned>>
    BY DEF PublishStep, ApplyPublish, InstallPublish, storeVars
  <1>2. StandInv /\ JournalInv(log, replies) /\ WindowInv /\ OwedInv
    BY OnceParts
  <1>3. last \in Nat /\ \A s \in Committed(log) : s \in Nat
    BY CommitTypes
  <1>4. StandInv' /\ OwedInv'
    BY <1>1, <1>2 DEF StandInv, OwedInv
  <1>5. CASE ApplyPublish
    <2>1. /\ last \in Committed(log)
          /\ dedup' = dedup \cup {ResultOf(log[last])}
          /\ replies' = replies \cup {ResultOf(log[last])}
      BY <1>2, <1>5 DEF ApplyPublish, WindowInv
    <2>2. JournalInv(log, replies)'
      BY <1>1, <1>2, <2>1 DEF JournalInv
    <2>3. WindowInv'
      <3>1. \A d \in dedup' :
              \E s \in Committed(log) : s <= last /\ d = ResultOf(log[s])
        BY SMT, <1>2, <1>3, <2>1 DEF WindowInv
      <3>2. \A s \in Committed(log) : s <= last => s < last \/ s = last
        BY SMT, <1>3
      <3>3. \A s \in Committed(log) : s <= last => ResultOf(log[s]) \in dedup'
        BY <1>1, <1>2, <2>1, <3>2 DEF WindowInv
      <3> QED BY <1>1, <3>1, <3>3 DEF WindowInv
    <2> QED BY <1>4, <2>2, <2>3 DEF OnceInv
  <1>6. CASE InstallPublish
    <2>1. last \notin Committed(log) /\ UNCHANGED <<dedup, replies>>
      BY <1>2, <1>6 DEF InstallPublish, WindowInv
    <2>2. WindowInv'
      BY SMTT(30), <1>1, <1>2, <1>3, <2>1 DEF WindowInv
    <2> QED BY <1>1, <1>2, <1>4, <2>1, <2>2 DEF OnceInv
  <1> QED BY <1>5, <1>6 DEF PublishStep

\* Everything a client asks of the runtime.
LEMMA ClientOnce ==
    ASSUME TInv, Once, ClientStep
    PROVE  OnceInv'
  <1>1. CASE AcquireAuthority \/ RevokeAuthority \/ AcquireFails
    <2>1. /\ phase = "up" /\ phase' = "up" /\ UNCHANGED <<fabric, dedup, replies>>
          /\ AppendOk(FenceRecord) \/ AppendFails(FenceRecord)
      BY <1>1 DEF AcquireAuthority, RevokeAuthority, AcquireFails, window, history
    <2> QED BY <2>1, PlainFits, PlainAppend, FailedOnce
  <1>2. ASSUME NEW r \in Requests, NEW i \in issued, NEW want \in Coordinates,
               ApplyFails(r, i.tok, want)
        PROVE  OnceInv'
    <2>1. /\ phase = "up" /\ UNCHANGED <<phase, fabric, dedup, replies>>
          /\ AppendFails(CommitRecord(r)) /\ ~Remembered(r)
          /\ Cardinality(dedup) < MaxDedup
      BY <1>2 DEF ApplyFails, Admitted, window
    <2>2. CanAppend => Fits(CommitRecord(r))
      BY <2>1, AtTheEnd, CommitFits
    <2> QED BY <2>1, <2>2, FailedOnce
  <1>3. CASE \E d \in dedup : ApplyDuplicate(d)
    <2>1. PICK d \in dedup : ApplyDuplicate(d)
      BY <1>3
    <2>2. /\ UNCHANGED <<log, phase, last, poisoned, cursor, fabric, dedup, pending,
                         epoch>>
          /\ replies' = replies \cup {d}
      BY <2>1 DEF ApplyDuplicate, storeVars, boot, window
    <2>3. StandInv /\ JournalInv(log, replies) /\ WindowInv /\ OwedInv
      BY OnceParts
    <2>4. \E s \in Committed(log) : d = ResultOf(log[s])
      BY <2>3 DEF WindowInv
    <2>5. JournalInv(log, replies)'
      BY <2>2, <2>3, <2>4 DEF JournalInv
    <2>6. StandInv' /\ WindowInv' /\ OwedInv'
      BY <2>2, <2>3 DEF StandInv, WindowInv, OwedInv, Ends
    <2> QED BY <2>5, <2>6 DEF OnceInv
  <1>4. ASSUME NEW f \in Specs, NEW replace \in BOOLEAN, InstallCommit(f, replace)
        PROVE  OnceInv'
    <2>1. /\ phase = "up" /\ phase' = "commit" /\ AppendOk(FabricRecord(f))
          /\ UNCHANGED <<fabric, dedup, replies, epoch>>
          /\ pending'.req = NoRequest /\ pending'.fab = f
      BY <1>4 DEF InstallCommit
    <2> QED BY <2>1, PlainFits, OwesNothing, CommitOnce
  <1>5. ASSUME NEW f \in Specs, NEW replace \in BOOLEAN, InstallFails(f, replace)
        PROVE  OnceInv'
    <2>1. /\ phase = "up" /\ UNCHANGED <<phase, fabric, dedup, replies>>
          /\ AppendFails(FabricRecord(f))
      BY <1>5 DEF InstallFails, window
    <2> QED BY <2>1, PlainFits, FailedOnce
  <1> QED BY <1>1, <1>2, <1>3, <1>4, <1>5, ApplyCommitOnce DEF ClientStep

\* Appends of start() that fail end the start, and leave at most a record that
\* commits nothing.
LEMMA StartFailsOnce ==
    ASSUME TInv, Once, StartAppendFails
    PROVE  OnceInv'
  <1>1. PICK rec \in {StartRecord, FabricRecord(fabric)} :
          NotAppended(rec) /\ phase \in {"announce", "baseline"}
    BY DEF StartAppendFails
  <1>2. Halt /\ replies' = replies
    BY DEF StartAppendFails, Halt
  <1>3. Fits(rec)
    BY PlainFits
  <1>4. log' = log \/ (CanAppend /\ log' = Extended(log, last + 1, rec))
    BY <1>1 DEF NotAppended
  <1>5. JournalInv(log', replies)
    BY <1>1, <1>3, <1>4, OnceParts, AtTheEnd, JournalGrown
  <1> QED BY <1>2, <1>5, HaltOnce

\* Every step keeps each request committed once, its effect and its remembered
\* result owed to that commit.
LEMMA OnceStep == TInv /\ OnceInv /\ [Next]_vars => OnceInv'
  <1> SUFFICES ASSUME TInv, OnceInv, [Next]_vars, snapshot' = NoSnapshot
               PROVE  OnceInv'
    BY DEF OnceInv
  <1>1. CASE Prune \/ Compact
    <2>1. fabric \in Fabric
      BY <1>1 DEF Prune, AtBound, Compact, TInv, TypeOK, ShapeInv, Live
    <2>2. \E w \in Nat : snapshot' = [fab |-> fabric, mark |-> w]
      BY <1>1, CommitTypes DEF Prune, Compact, WriteSnapshot
    <2>3. snapshot' \in Snapshot
      BY SMT, <2>1, <2>2 DEF Snapshot
    <2> QED BY <2>3, StoreAssumption
  <1>2. CASE ~(Prune \/ Compact)
    <2>1. Once
      BY <1>2
      DEF Once, Next, vars, storeVars, disk, StartRecovery, StartStep, ScanRecord,
          PruneFails, NoPrune, RemoveSegment, CreateSegment, CreateFails, Announce,
          Baseline, StartAppendFails, AppendOk, AppendFails, NotAppended,
          PublishStep, ApplyPublish, InstallPublish, ClientStep, AcquireAuthority,
          AcquireFails, RevokeAuthority, ApplyCommit, ApplyFails, ApplyDuplicate,
          InstallCommit, InstallFails, Expire, SweepLease, Stop, CloseClean,
          CloseFails, Kill
    <2>2. CASE PruneFails \/ CreateFails \/ Stop \/ Kill
      <3>1. Halt /\ UNCHANGED <<log, replies>>
        BY <2>2
        DEF PruneFails, CreateFails, Stop, Kill, Halt, CloseClean, CloseFails, disk
      <3>2. JournalInv(log, replies)'
        BY <2>1, <3>1, OnceParts
      <3> QED BY <3>1, <3>2, HaltOnce
    <2>3. CASE \E g \in doomed : RemoveSegment(g)
      BY <2>1, <2>3, OnceParts DEF RemoveSegment, StandInv
    <2>4. CASE Announce \/ Baseline
      <3>1. PICK rec \in {StartRecord, FabricRecord(fabric)} : AppendOk(rec)
        BY <2>4 DEF Announce, Baseline
      <3>2. /\ phase \in {"announce", "baseline"} /\ phase' \in {"baseline", "up"}
            /\ UNCHANGED <<fabric, dedup, replies>>
        BY <2>4 DEF Announce, Baseline, window
      <3> QED BY <2>1, <3>1, <3>2, PlainFits, PlainAppend
    <2>5. CASE StartStep
      BY <1>2, <2>1, <2>2, <2>3, <2>4, <2>5, ScanOnce, BootOnce, StartFailsOnce
      DEF StartStep
    <2>6. CASE Expire \/ SweepLease \/ UNCHANGED vars
      BY <2>6, QuietOnce
      DEF Expire, SweepLease, vars, storeVars, boot, window, history
    <2> QED
      BY <1>2, <2>1, <2>2, <2>5, <2>6, RestartOnce, PublishOnce, ClientOnce DEF Next
  <1> QED BY <1>1, <1>2

\* The journal of a first start is empty.
LEMMA OnceInit == Init => OnceInv
  <1> SUFFICES ASSUME Init PROVE StandInv /\ JournalInv(log, replies) /\ WindowInv /\ OwedInv
    BY DEF OnceInv
  <1>1. /\ phase = "down" /\ fabric = NoFabric /\ dedup = {} /\ ~poisoned
        /\ replies = {} /\ DOMAIN log = {}
    BY DEF Init, StoreInit
  <1>2. Committed(log) = {}
    BY <1>1 DEF Committed
  <1>3. IsFiniteSet(Committed(log)) /\ Cardinality(Committed(log)) <= MaxDedup
    BY SMT, <1>2, FS_EmptySet, ControllerAssumption
  <1> QED
    BY <1>1, <1>2, <1>3, OwesNothing DEF StandInv, JournalInv, WindowInv, OwedInv, Halted

\* As long as no snapshot was taken, every command takes effect at most once
\* and its successful replies agree, across kills, failed appends and restarts
\* (apply_locked's window, rebuilt by the replay in start()).
THEOREM CommandsOnce == Spec => []OnceUntilSnapshot
  <1>1. Spec => [](TInv /\ OnceInv)
    BY InitType, StepType, OnceInit, OnceStep, PTL DEF Spec
  <1>2. TInv /\ OnceInv => OnceUntilSnapshot
    <2> SUFFICES ASSUME TInv, OnceInv, snapshot = NoSnapshot
                 PROVE  /\ fabric # NoFabric => DuplicateFree(fabric)
                        /\ \A a, b \in replies : a.req = b.req => a = b
      BY DEF OnceUntilSnapshot
    <2>1. JournalInv(log, replies) /\ OwedInv
      BY DEF OnceInv
    <2>2. \A s \in Committed(log) : ResultOf(log[s]).req = log[s].req
      BY DEF ResultOf, Result
    <2>3. \A a, b \in replies : a.req = b.req => a = b
      BY SMTT(30), <2>1, <2>2 DEF JournalInv
    <2> QED BY <2>1, <2>3 DEF OwedInv, OwedTo
  <1> QED BY <1>1, <1>2, PTL

-----------------------------------------------------------------------------
(* Leases are exclusive and fencing is final, for every number of          *)
(* requests, restarts, grants and I/O errors.                              *)

\* A step that leaves the leases alone and halts nothing.
LEMMA LeaseFrame ==
    ASSUME LeaseInv, UNCHANGED <<issued, grants, inc, lease, leases>>,
           phase \notin Halted,
           phase \in {"up", "commit"} => phase' \in {"up", "commit"}
    PROVE  LeaseInv'
  BY DEF LeaseInv

\* A step that leaves no active lease.
LEMMA LeaseDropped ==
    ASSUME TInv, LeaseInv, UNCHANGED <<issued, inc>>, lease' = NoLease,
           \/ phase' \in Halted
           \/ phase \notin Halted /\ leases' \in Nat /\ leases' >= leases
    PROVE  LeaseInv'
  <1>1. \A i \in issued : i.tok.inc \in Nat /\ i.tok.lease \in Nat
    BY DEF TInv, TypeOK, Tokens
  <1>2. leases \in Nat /\ inc \in Nat
    BY DEF TInv, TypeOK
  <1> QED BY SMT, <1>1, <1>2 DEF LeaseInv

\* acquire_authority: the new id is above every id of this incarnation.
LEMMA LeaseGranted ==
    ASSUME TInv, LeaseInv, AcquireAuthority
    PROVE  LeaseInv'
  <1>1. \A i \in issued : i.tok.inc \in Nat /\ i.tok.lease \in Nat
    BY DEF TInv, TypeOK, Tokens
  <1>2. leases \in Nat /\ inc \in Nat /\ epoch \in Nat /\ grants \in Nat
          /\ fabric \in Fabric /\ phase = "up"
    BY DEF TInv, TypeOK, ShapeInv, Live, AcquireAuthority
  <1>3. leases' = leases + 1 /\ inc' = inc /\ phase' = phase
    BY DEF AcquireAuthority, NewLeaseId
  <1>4. lease'.inc = inc /\ lease'.lease = leases'
    BY SMT, <1>2, <1>3, MintType DEF AcquireAuthority
  <1>5. \A i \in issued' :
          i \in issued \/ (i.tok = lease' /\ i.grant = grants')
    BY SMT DEF AcquireAuthority
  <1>6. \A i \in issued : i.tok.inc <= inc
                            /\ (i.tok.inc = inc => i.tok.lease <= leases)
    BY <1>2 DEF LeaseInv, Halted
  <1>7. \A i \in issued' :
          /\ i.tok.inc <= inc
          /\ i.tok.inc = inc => i.tok.lease <= leases'
          /\ i.tok.inc = inc /\ i.tok.lease = leases' => i.grant = grants'
    BY SMT, <1>1, <1>2, <1>3, <1>4, <1>5, <1>6
  <1> QED BY <1>2, <1>3, <1>4, <1>7 DEF LeaseInv

\* A command's publication re-mints the token of the active lease.
LEMMA LeaseRefreshed ==
    ASSUME TInv, LeaseInv, ApplyPublish
    PROVE  LeaseInv'
  <1>1. phase = "commit" /\ phase' = "up"
          /\ UNCHANGED <<inc, leases, grants>>
    BY DEF ApplyPublish
  <1>2. CASE lease = NoLease
    <2>1. UNCHANGED <<lease, issued>>
      BY <1>2 DEF ApplyPublish
    <2> QED BY <1>1, <2>1, LeaseFrame DEF Halted
  <1>3. CASE lease # NoLease
    <2>1. lease \in Tokens
      BY <1>3 DEF TInv, TypeOK
    <2>2. lease' = [lease EXCEPT !.gen = pending.fab.gen,
                                 !.digest = Digest(pending.fab)]
      BY <1>3 DEF ApplyPublish
    <2>3. lease'.inc = lease.inc /\ lease'.lease = lease.lease
      BY <2>1, <2>2 DEF Tokens
    <2>4. \A i \in issued' :
            i \in issued \/ (i.tok = lease' /\ i.grant = grants)
      BY SMT, <1>3 DEF ApplyPublish
    <2>5. lease.inc = inc /\ lease.lease = leases /\ inc \in Nat
            /\ leases \in Nat
      BY <1>3 DEF LeaseInv, TInv, TypeOK
    <2>6. \A i \in issued : /\ i.tok.inc <= inc
                            /\ i.tok.inc = inc => i.tok.lease <= leases
                            /\ i.tok.inc = inc /\ i.tok.lease = leases
                                 => i.grant = grants
      BY <1>1, <1>3 DEF LeaseInv, Halted
    <2>7. \A i \in issued' : /\ i.tok.inc <= inc
                             /\ i.tok.inc = inc => i.tok.lease <= leases
                             /\ i.tok.inc = inc /\ i.tok.lease = leases
                                  => i.grant = grants
      BY SMT, <2>3, <2>4, <2>5, <2>6
    <2> QED BY <1>1, <2>3, <2>5, <2>7 DEF LeaseInv
  <1> QED BY <1>2, <1>3

\* Every step keeps the active lease the one granted last, under an id of its own.
LEMMA LeaseStep == TInv /\ LeaseInv /\ [Next]_vars => LeaseInv'
  <1> SUFFICES ASSUME TInv, LeaseInv, [Next]_vars PROVE LeaseInv'
    OBVIOUS
  <1>0. leases \in Nat /\ inc \in Nat
          /\ \A i \in issued : i.tok.inc \in Nat
    BY DEF TInv, TypeOK, Tokens
  <1>1. CASE StartRecovery
    <2>1. lease' = NoLease
      BY <1>1 DEF StartRecovery, LeaseInv, Halted
    <2>2. inc' = inc + 1 /\ issued' = issued
      BY <1>1 DEF StartRecovery, history, authority
    <2>3. \A i \in issued : i.tok.inc <= inc /\ i.tok.inc # inc'
      BY SMT, <1>0, <2>2 DEF LeaseInv
    <2> QED BY SMT, <1>0, <2>1, <2>2, <2>3 DEF LeaseInv
  <1>2. CASE StartStep
    <2>1. CASE PruneFails \/ CreateFails \/ StartAppendFails
      <3>1. Halt
        BY <2>1 DEF PruneFails, CreateFails, StartAppendFails
      <3> QED BY <3>1, LeaseDropped DEF Halt, Halted, authority
    <2>2. CASE Baseline
      BY SMT, <1>0, <2>2, LeaseDropped DEF Baseline, Halted, authority
    <2>3. CASE (\E s \in DOMAIN log : ScanRecord(s)) \/ Prune \/ NoPrune
                 \/ (\E g \in doomed : RemoveSegment(g)) \/ CreateSegment
                 \/ Announce
      <3>1. UNCHANGED <<issued, grants, inc, lease, leases>>
              /\ phase \in {"scan", "prune", "create", "announce"}
        BY <2>3
        DEF ScanRecord, Prune, Scanned, NoPrune, RemoveSegment, CreateSegment,
            Announce, history, authority, leaseVars
      <3> QED BY <3>1, LeaseFrame DEF Halted
    <2> QED BY <1>2, <2>1, <2>2, <2>3 DEF StartStep
  <1>3. CASE PublishStep
    <2>1. CASE InstallPublish
      BY <2>1, LeaseFrame DEF InstallPublish, leaseVars, authority, Halted
    <2> QED BY <1>3, <2>1, LeaseRefreshed DEF PublishStep
  <1>4. CASE ClientStep
    <2>1. CASE AcquireFails
      <3>1. /\ UNCHANGED <<issued, inc>> /\ lease' = NoLease
            /\ phase = "up" /\ leases' = leases + 1
        BY <2>1 DEF AcquireFails, NewLeaseId, history, authority
      <3>2. phase \notin Halted /\ leases' \in Nat /\ leases' >= leases
        BY SMT, <1>0, <3>1 DEF Halted
      <3> QED BY <3>1, <3>2, LeaseDropped
    <2>2. CASE RevokeAuthority
      <3>1. /\ UNCHANGED <<issued, inc>> /\ lease' = NoLease
            /\ phase = "up" /\ leases' = leases
        BY <2>2 DEF RevokeAuthority, history, authority
      <3>2. phase \notin Halted /\ leases' \in Nat /\ leases' >= leases
        BY SMT, <1>0, <3>1 DEF Halted
      <3> QED BY <3>1, <3>2, LeaseDropped
    <2>3. CASE (\E r \in Requests, i \in issued, want \in Coordinates :
                  ApplyCommit(r, i.tok, want) \/ ApplyFails(r, i.tok, want))
      <3>1. UNCHANGED <<issued, grants, inc, lease, leases>> /\ phase = "up"
              /\ phase' \in {"up", "commit"}
        BY <2>3 DEF ApplyCommit, ApplyFails, Admitted, leaseVars, authority
      <3> QED BY <3>1, LeaseFrame DEF Halted
    <2>4. CASE \E d \in dedup : ApplyDuplicate(d)
      BY <2>4, LeaseFrame DEF ApplyDuplicate, leaseVars, authority, Halted
    <2>5. CASE (\E f \in Specs, replace \in BOOLEAN :
                  InstallCommit(f, replace) \/ InstallFails(f, replace))
      <3>1. UNCHANGED <<issued, grants, inc, lease, leases>> /\ phase = "up"
              /\ phase' \in {"up", "commit"}
        BY <2>5 DEF InstallCommit, InstallFails, leaseVars, authority
      <3> QED BY <3>1, LeaseFrame DEF Halted
    <2> QED
      BY <1>4, <2>1, <2>2, <2>3, <2>4, <2>5, LeaseGranted DEF ClientStep
  <1>5. CASE Expire
    BY <1>5, LeaseFrame DEF Expire, LeaseInv, history, authority, Halted
  <1>6. CASE SweepLease
    BY SMT, <1>0, <1>6, LeaseDropped DEF SweepLease, history, authority, Halted
  <1>7. CASE Compact
    BY <1>7, LeaseFrame DEF Compact, leaseVars, history, authority, Halted
  <1>8. CASE Stop \/ Kill
    <2>1. Halt
      BY <1>8 DEF Stop, Kill
    <2> QED BY <2>1, LeaseDropped DEF Halt, Halted, authority
  <1>9. CASE UNCHANGED vars
    BY <1>9 DEF vars, LeaseInv, history, authority, leaseVars
  <1> QED
    BY <1>1, <1>2, <1>3, <1>4, <1>5, <1>6, <1>7, <1>8, <1>9 DEF Next

\* Only the tokens of the grant made last validate (acquire_authority and
\* validate_token): neither a superseding lease nor a restart with its lease
\* counter at zero brings an older grant back to life.
THEOREM LeasesExclusive == Spec => []LeaseExclusive
  <1>1. Init => TInv /\ LeaseInv
    BY InitType DEF Init, LeaseInv, Halted
  <1>2. TInv /\ LeaseInv /\ [Next]_vars => TInv' /\ LeaseInv'
    BY StepType, LeaseStep
  <1>3. LeaseInv => LeaseExclusive
    BY DEF LeaseInv, LeaseExclusive, Valid
  <1> QED BY <1>1, <1>2, <1>3, PTL DEF Spec

-----------------------------------------------------------------------------
(* Fencing is final.                                                       *)

\* What a commit under way leads to, and that a controller with no topology
\* gets its first one.
LEMMA CommitStep == TInv /\ CommitInv /\ [Next]_vars => CommitInv'
  <1> SUFFICES ASSUME TInv, CommitInv, [Next]_vars, phase' = "commit"
               PROVE  IF pending'.req = NoRequest THEN pending'.fab \in Specs
                      ELSE pending'.fab = Applied(pending.req)'
    BY DEF CommitInv
  <1>1. ASSUME NEW r \in Requests, NEW t, NEW want, ApplyCommit(r, t, want)
        PROVE  pending'.req # NoRequest /\ pending'.fab = Applied(pending.req)'
    <2>1. UNCHANGED <<fabric, epoch, inc>>
            /\ pending' = [req |-> r, fab |-> Applied(r)]
      BY <1>1 DEF ApplyCommit
    <2>2. pending'.req = r /\ pending'.fab = Applied(r)
      BY <2>1
    <2>3. Applied(pending.req)' = Applied(r)
      BY <2>1, <2>2 DEF Applied
    <2> QED BY <2>2, <2>3, CommandAssumption
  <1>2. ASSUME NEW f \in Specs, NEW replace, InstallCommit(f, replace)
        PROVE  pending'.req = NoRequest /\ pending'.fab \in Specs
    BY <1>2 DEF InstallCommit
  <1>3. CASE Expire \/ UNCHANGED vars
    <2>1. UNCHANGED <<phase, pending, fabric, epoch, inc>>
      BY <1>3 DEF Expire, vars, window
    <2>2. Applied(pending.req)' = Applied(pending.req)
      BY <2>1 DEF Applied
    <2> QED BY <2>1, <2>2 DEF CommitInv
  <1>4. CASE StartRecovery \/ StartStep \/ PublishStep
    <2>1. ~Halt
      BY DEF Halt
    <2> QED
      BY <1>4, <2>1
      DEF StartRecovery, StartStep, PublishStep, ScanRecord, Prune, PruneFails,
          NoPrune, RemoveSegment, CreateSegment, CreateFails, Announce,
          Baseline, StartAppendFails, ApplyPublish, InstallPublish
  <1>5. CASE SweepLease \/ Compact \/ Stop \/ Kill
    BY <1>5 DEF SweepLease, Compact, Stop, Kill, Halt
  <1>6. CASE ClientStep
    <2>1. CASE AcquireAuthority \/ AcquireFails \/ RevokeAuthority
                 \/ (\E d \in dedup : ApplyDuplicate(d))
      BY <2>1 DEF AcquireAuthority, AcquireFails, RevokeAuthority, ApplyDuplicate
    <2>2. ASSUME NEW r \in Requests, NEW t, NEW want, ApplyFails(r, t, want)
          PROVE  FALSE
      BY <2>2 DEF ApplyFails, Admitted
    <2>3. ASSUME NEW f \in Specs, NEW replace, InstallFails(f, replace)
          PROVE  FALSE
      BY <2>3 DEF InstallFails
    <2> QED BY <1>1, <1>2, <1>6, <2>1, <2>2, <2>3 DEF ClientStep
  <1> QED BY <1>3, <1>4, <1>5, <1>6 DEF Next

\* A command moves the digest on: the coordinates never go back, and when the
\* generation and the epoch stay, so does the whole digest.
LEMMA CommandDigest ==
    ASSUME fabric \in Fabric, epoch \in Nat, NEW r \in Requests
    PROVE  /\ Digest(Applied(r)).base = fabric.base
           /\ Digest(Applied(r)).gen >= fabric.gen
           /\ Digest(Applied(r)).gen = Applied(r).gen
           /\ Digest(Applied(r)).epoch = epoch
           /\ Applied(r).gen = fabric.gen /\ fabric.epoch = epoch
                => Digest(Applied(r)) = Digest(fabric)
           /\ Applied(r).base = fabric.base /\ Applied(r).epoch = epoch
  <1>1. fabric.gen \in Nat
    BY FabricFacts
  <1>2. /\ Applied(r).base = fabric.base /\ Applied(r).epoch = epoch
        /\ Applied(r).gen = TargetGeneration(fabric, r)
        /\ ~IsTopologyCommand(r) => Applied(r).topo = fabric.topo
    BY DEF Applied, ApplyCommand
  <1>3. TargetGeneration(fabric, r) >= fabric.gen
          /\ (TargetGeneration(fabric, r) = fabric.gen => ~IsTopologyCommand(r))
    BY SMT, <1>1 DEF TargetGeneration, NextGeneration
  <1>4. \A f : /\ Digest(f).base = f.base /\ Digest(f).gen = f.gen
               /\ Digest(f).epoch = f.epoch
    BY DEF Digest
  <1>5. Applied(r).gen = fabric.gen /\ fabric.epoch = epoch
          => Digest(Applied(r)) = Digest(fabric)
    BY <1>2, <1>3 DEF Digest
  <1> QED BY <1>1, <1>2, <1>3, <1>4, <1>5

\* The digest of a token has a generation, and that of a fabric the fabric's.
LEMMA DigestFacts ==
    /\ \A f : /\ Digest(f).base = f.base /\ Digest(f).gen = f.gen
              /\ Digest(f).epoch = f.epoch
    /\ TInv => \A i \in issued : i.tok.digest.gen \in Nat
  BY DEF Digest, TInv, TypeOK, Tokens, Digests

\* A command is published: a token of the active lease that is not for the new
\* topology is for one that is gone for good.
LEMMA PublishFences ==
    ASSUME TInv, LeaseInv, CommitInv, FencingInv, ApplyPublish, lease # NoLease,
           installs <= 1, NEW i \in Tenure
    PROVE  \/ /\ i.tok.digest = Digest(fabric) /\ fabric.gen = fabric'.gen
              /\ Digest(fabric') = Digest(fabric)
           \/ i.tok.digest # Digest(fabric') /\ Outdated(i.tok.digest)'
  <1>1. /\ phase = "commit" /\ pending.req \in Requests /\ epoch \in Nat
        /\ fabric \in Fabric /\ fabric' = Applied(pending.req) /\ epoch' = epoch
    BY DEF ApplyPublish, CommitInv, TInv, TypeOK, ShapeInv, Live, Commits
  <1>2. /\ Digest(fabric').base = fabric.base /\ Digest(fabric').gen >= fabric.gen
        /\ Digest(fabric').gen = fabric'.gen /\ Digest(fabric').epoch = epoch
        /\ fabric'.gen = fabric.gen /\ fabric.epoch = epoch
             => Digest(fabric') = Digest(fabric)
        /\ fabric'.base = fabric.base /\ fabric'.epoch = epoch
    BY <1>1, CommandDigest
  <1>3. fabric.gen \in Nat /\ fabric'.gen \in Nat /\ i.tok.digest.gen \in Nat
    <2>1. fabric' \in Fabric
      BY <1>1 DEF ApplyPublish, TInv, TypeOK, Commits, ShapeInv
    <2> QED BY <1>1, <2>1, FabricFacts, DigestFacts DEF Tenure
  <1>4. i.tok.digest = Digest(fabric) \/ Outdated(i.tok.digest)
    BY DEF FencingInv
  <1>5. CASE Outdated(i.tok.digest)
    BY SMT, <1>1, <1>2, <1>3, <1>5 DEF Outdated
  <1>6. CASE i.tok.digest = Digest(fabric) /\ fabric'.gen = fabric.gen
               /\ fabric.epoch = epoch
    BY <1>2, <1>6
  <1>7. CASE i.tok.digest = Digest(fabric)
               /\ ~(fabric'.gen = fabric.gen /\ fabric.epoch = epoch)
    <2>1. /\ i.tok.digest.base = fabric.base /\ i.tok.digest.gen = fabric.gen
          /\ i.tok.digest.epoch = fabric.epoch
      BY <1>7, DigestFacts
    <2> QED BY SMT, <1>1, <1>2, <1>3, <1>7, <2>1 DEF Outdated
  <1> QED BY <1>4, <1>5, <1>6, <1>7

\* Before the first installation there is no topology, in no token either.
LEMMA NothingInstalled ==
    ASSUME TInv, OriginInv, FencingInv, installs = 0, phase = "up",
           lease # NoLease, NEW i \in Tenure
    PROVE  i.tok.digest.base = EmptyBase
  <1>1. fabric \in Fabric /\ fabric.base = EmptyBase
    BY SpecAssumption DEF OriginInv, Accounted, TInv, ShapeInv, Live
  <1>2. i.tok.digest = Digest(fabric) \/ Outdated(i.tok.digest)
    BY SMT DEF FencingInv
  <1> QED BY <1>1, <1>2, DigestFacts DEF Outdated

\* A step that leaves the active lease and the topology alone.
LEMMA FencingFrame ==
    ASSUME FencingInv,
           UNCHANGED <<issued, inc, lease, leases, fabric, epoch, installs>>,
           phase' = "commit" => UNCHANGED <<phase, pending>> \/ pending'.req # NoRequest
    PROVE  FencingInv'
  <1>1. Tenure' = Tenure
    BY DEF Tenure
  <1>2. \A i \in Tenure : Outdated(i.tok.digest)' <=> Outdated(i.tok.digest)
    BY DEF Outdated
  <1>3. Digest(fabric)' = Digest(fabric)
    BY DEF Digest
  <1> QED BY <1>1, <1>2, <1>3 DEF FencingInv

\* Every step keeps the tokens of the active lease at the live topology or at one
\* that is gone for good.
LEMMA FencingStep ==
    ASSUME \A f \in Specs : f.base # EmptyBase,
           TInv, LeaseInv, OriginInv, CommitInv, FencingInv, [Next]_vars
    PROVE  FencingInv'
  <1>1. CASE lease' = NoLease
    BY <1>1 DEF FencingInv
  <1>2. CASE AcquireAuthority
    <2>1. /\ phase = "up" /\ phase' = "up" /\ leases' = leases + 1
          /\ lease' = Token(inc, epoch, fabric, leases')
          /\ UNCHANGED <<inc, fabric>>
      BY <1>2 DEF AcquireAuthority, NewLeaseId
    <2>2. \A i \in issued' : i \in issued \/ i.tok = lease'
      BY SMT, <1>2 DEF AcquireAuthority
    <2>3. \A i \in issued : i.tok.inc = inc => i.tok.lease # leases'
      BY SMT, <2>1 DEF LeaseInv, Halted, TInv, TypeOK, Tokens
    <2>4. \A i \in Tenure' : i.tok.digest = Digest(fabric)
      BY SMT, <2>1, <2>2, <2>3 DEF Tenure, Token
    <2> QED BY <2>1, <2>4 DEF FencingInv, Digest
  <1>3. CASE ApplyPublish /\ lease' # NoLease
    <2>1. /\ lease # NoLease /\ UNCHANGED <<inc, leases, installs>>
          /\ phase' = "up" /\ fabric' = pending.fab
          /\ lease' = [lease EXCEPT !.gen = pending.fab.gen,
                                     !.digest = Digest(pending.fab)]
          /\ \A i \in issued' : i \in issued \/ i.tok = lease'
      BY SMT, <1>3 DEF ApplyPublish
    <2>2. lease'.digest = Digest(fabric')
      BY <2>1 DEF TInv, TypeOK, Tokens
    <2>3. \A i \in Tenure' : i \in Tenure \/ i.tok = lease'
      BY <2>1 DEF Tenure
    <2> SUFFICES ASSUME installs <= 1, NEW i \in Tenure'
                 PROVE  i.tok.digest = Digest(fabric') \/ Outdated(i.tok.digest)'
      BY <2>1 DEF FencingInv
    <2>4. CASE i.tok = lease'
      BY <2>2, <2>4
    <2>5. CASE i \in Tenure
      BY <1>3, <2>1, <2>5, PublishFences
    <2> QED BY <2>3, <2>4, <2>5
  <1>4. CASE InstallPublish /\ lease' # NoLease
    <2>1. /\ lease # NoLease /\ UNCHANGED <<inc, leases, installs, issued>>
          /\ phase = "commit" /\ phase' = "up" /\ fabric' = pending.fab
          /\ pending.req = NoRequest
      BY <1>4 DEF InstallPublish, leaseVars, authority
    <2>2. fabric'.base # EmptyBase
      BY <2>1 DEF CommitInv
    <2>3. Tenure' = Tenure
      BY <2>1 DEF Tenure
    <2>4. installs <= 1 => \A i \in Tenure : i.tok.digest.base = EmptyBase
      BY <2>1 DEF FencingInv
    <2> QED BY <2>1, <2>2, <2>3, <2>4 DEF FencingInv, Outdated
  <1>5. CASE \E f \in Specs, replace \in BOOLEAN :
               InstallCommit(f, replace) \/ InstallFails(f, replace)
    <2>1. /\ UNCHANGED <<inc, lease, leases, issued, fabric, epoch>>
          /\ installs' = installs + 1 /\ phase = "up"
      BY <1>5 DEF InstallCommit, InstallFails, leaseVars, authority
    <2>2. Tenure' = Tenure /\ Digest(fabric)' = Digest(fabric)
            /\ \A i \in Tenure : Outdated(i.tok.digest)' <=> Outdated(i.tok.digest)
      BY <2>1 DEF Tenure, Digest, Outdated
    <2>3. SUFFICES ASSUME installs' <= 1, lease # NoLease
                   PROVE  FencingInv'
      BY <2>1 DEF FencingInv
    <2>4. installs = 0
      BY SMT, <2>1, <2>3 DEF TInv, TypeOK
    <2>5. \A i \in Tenure : i.tok.digest.base = EmptyBase
      BY <2>1, <2>3, <2>4, NothingInstalled
    <2>6. \A i \in Tenure :
            i.tok.digest = Digest(fabric) \/ Outdated(i.tok.digest)
      BY SMT, <2>3, <2>4 DEF FencingInv
    <2> QED BY <2>2, <2>5, <2>6 DEF FencingInv
  <1>6. CASE \E r \in Requests, i \in issued, want \in Coordinates :
               ApplyCommit(r, i.tok, want) \/ ApplyFails(r, i.tok, want)
    <2>1. PICK r \in Requests, i \in issued, want \in Coordinates :
            ApplyCommit(r, i.tok, want) \/ ApplyFails(r, i.tok, want)
      BY <1>6
    <2>2. UNCHANGED <<issued, inc, lease, leases, fabric, epoch, installs>>
      BY <2>1 DEF ApplyCommit, ApplyFails, leaseVars, authority
    <2>3. phase' = "commit" => pending'.req # NoRequest
      BY SMT, <2>1, CommandAssumption DEF ApplyCommit, ApplyFails, Admitted
    <2> QED BY <2>2, <2>3, FencingFrame
  <1>7. CASE (\E d \in dedup : ApplyDuplicate(d)) \/ Expire \/ Compact
               \/ UNCHANGED vars
    <2>1. UNCHANGED <<issued, inc, lease, leases, fabric, epoch, installs, phase,
                      pending>>
      BY <1>7
      DEF ApplyDuplicate, Expire, Compact, vars, leaseVars, window, history,
          authority
    <2> QED BY <2>1, FencingFrame
  <1>8. CASE StartRecovery \/ StartStep
    <2>1. phase \notin {"up", "commit"}
      BY <1>8
      DEF StartRecovery, StartStep, ScanRecord, Prune, PruneFails, NoPrune,
          Scanned, RemoveSegment, CreateSegment, CreateFails, Announce, Baseline,
          StartAppendFails, Halted
    <2>2. lease = NoLease
      BY <2>1 DEF LeaseInv
    <2>3. lease' = NoLease
      BY <1>8, <2>2
      DEF StartRecovery, StartStep, ScanRecord, Prune, PruneFails, NoPrune,
          RemoveSegment, CreateSegment, CreateFails, Announce, Baseline,
          StartAppendFails, Halt, leaseVars
    <2> QED BY <1>1, <2>3
  <1>9. CASE AcquireFails \/ RevokeAuthority \/ SweepLease \/ Stop \/ Kill
    BY <1>1, <1>9 DEF AcquireFails, RevokeAuthority, SweepLease, Stop, Kill, Halt
  <1> QED
    BY <1>1, <1>2, <1>3, <1>4, <1>5, <1>6, <1>7, <1>8, <1>9
    DEF Next, PublishStep, ClientStep

\* What one step does to a token that does not validate.
LEMMA StaysFenced ==
    ASSUME \A f \in Specs : f.base # EmptyBase,
           TInv, LeaseInv, OriginInv, CommitInv, FencingInv, [Next]_vars,
           installs' <= 1, NEW i \in issued, Valid(i.tok)'
    PROVE  Valid(i.tok)
  <1>0. /\ lease' # NoLease /\ lease'.lease = i.tok.lease /\ ~expired'
        /\ i.tok.inc = inc' /\ i.tok.epoch = epoch' /\ i.tok.gen = fabric'.gen
        /\ i.tok.digest = Digest(fabric')
    BY DEF Valid
  <1>1. CASE AcquireAuthority
    <2>1. /\ phase = "up" /\ leases' = leases + 1 /\ inc' = inc
          /\ lease' = Token(inc, epoch, fabric, leases')
      BY <1>1 DEF AcquireAuthority, NewLeaseId
    <2>2. i.tok.lease = leases'
      BY <1>0, <2>1 DEF Token
    <2>3. leases \in Nat
      BY DEF TInv, TypeOK
    <2>4. i.tok.lease <= leases
      BY <1>0, <2>1 DEF LeaseInv, Halted
    <2> QED BY SMT, <2>1, <2>2, <2>3, <2>4
  <1>2. CASE ApplyPublish
    <2>1. /\ lease # NoLease /\ UNCHANGED <<inc, leases, installs, epoch, expired>>
          /\ lease' = [lease EXCEPT !.gen = pending.fab.gen,
                                     !.digest = Digest(pending.fab)]
      BY <1>0, <1>2 DEF ApplyPublish
    <2>2. lease'.lease = lease.lease /\ lease.lease = leases
      BY <2>1 DEF TInv, TypeOK, Tokens, LeaseInv
    <2>3. i \in Tenure
      BY <1>0, <2>1, <2>2 DEF Tenure
    <2>4. i.tok.digest = Digest(fabric) /\ fabric.gen = fabric'.gen
      BY <1>0, <1>2, <2>1, <2>3, PublishFences
    <2> QED BY <1>0, <2>1, <2>2, <2>4 DEF Valid
  <1>3. CASE InstallPublish
    <2>1. /\ lease # NoLease /\ UNCHANGED <<inc, leases, lease, installs>>
          /\ phase = "commit" /\ fabric' = pending.fab /\ pending.req = NoRequest
      BY <1>0, <1>3 DEF InstallPublish, leaseVars
    <2>2. fabric'.base # EmptyBase
      BY <2>1 DEF CommitInv
    <2>3. i \in Tenure
      BY <1>0, <2>1 DEF Tenure, LeaseInv
    <2>4. i.tok.digest.base = EmptyBase
      BY <2>1, <2>3 DEF FencingInv
    <2> QED BY <1>0, <2>2, <2>4, DigestFacts
  <1>4. CASE UNCHANGED <<lease, inc, epoch, fabric>> /\ (expired => expired')
    <2>1. Digest(fabric') = Digest(fabric)
      BY <1>4
    <2> QED BY <1>0, <1>4, <2>1 DEF Valid
  <1>5. CASE (\E d \in dedup : ApplyDuplicate(d)) \/ Expire \/ Compact
               \/ UNCHANGED vars
    BY SMT, <1>4, <1>5 DEF ApplyDuplicate, Expire, Compact, vars, leaseVars
  <1>6. CASE \/ \E f \in Specs, replace \in BOOLEAN :
                 InstallCommit(f, replace) \/ InstallFails(f, replace)
             \/ \E r \in Requests, j \in issued, want \in Coordinates :
                 ApplyCommit(r, j.tok, want) \/ ApplyFails(r, j.tok, want)
    BY <1>4, <1>6
    DEF InstallCommit, InstallFails, ApplyCommit, ApplyFails, leaseVars
  <1>7. CASE StartRecovery \/ StartStep
    <2>1. phase \notin {"up", "commit"}
      BY <1>7
      DEF StartRecovery, StartStep, ScanRecord, Prune, PruneFails, NoPrune,
          Scanned, RemoveSegment, CreateSegment, CreateFails, Announce, Baseline,
          StartAppendFails, Halted
    <2>2. lease = NoLease
      BY <2>1 DEF LeaseInv
    <2>3. lease' = NoLease
      BY <1>7, <2>2
      DEF StartRecovery, StartStep, ScanRecord, Prune, PruneFails, NoPrune,
          RemoveSegment, CreateSegment, CreateFails, Announce, Baseline,
          StartAppendFails, Halt, leaseVars
    <2> QED BY <1>0, <2>3
  <1>8. CASE AcquireFails \/ RevokeAuthority \/ SweepLease \/ Stop \/ Kill
    BY <1>0, <1>8 DEF AcquireFails, RevokeAuthority, SweepLease, Stop, Kill, Halt
  <1> QED
    BY <1>1, <1>2, <1>3, <1>5, <1>6, <1>7, <1>8 DEF Next, PublishStep, ClientStep

\* A token that has stopped validating (validate_token) never validates again:
\* no command, restart, new lease, expiry or I/O error brings it back, as long as
\* at most one topology was installed and it was not an empty one.
THEOREM FencedForGood ==
    (\A f \in Specs : f.base # EmptyBase) => (Spec => FencingIsFinal)
  <1> SUFFICES ASSUME \A f \in Specs : f.base # EmptyBase
               PROVE  Spec => FencingIsFinal
    OBVIOUS
  <1> DEFINE I == TInv /\ LeaseInv /\ OriginInv /\ CommitInv /\ FencingInv
             A == installs' <= 1 => \A i \in issued : ~Valid(i.tok) => ~Valid(i.tok)'
  <1>1. Init => I
    BY InitType, OriginInit DEF Init, LeaseInv, Halted, CommitInv, FencingInv
  <1>2. I /\ [Next]_vars => I'
    BY StepType, LeaseStep, OriginStep, CommitStep, FencingStep
  <1>3. I /\ [Next]_vars => [A]_vars
    BY StaysFenced
  <1> HIDE DEF I
  <1>4. Spec => [][A]_vars
    BY <1>1, <1>2, <1>3, PTL DEF Spec
  <1> QED BY <1>4 DEF FencingIsFinal
=============================================================================
