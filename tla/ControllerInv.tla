---------------------------- MODULE ControllerInv ---------------------------
(***************************************************************************)
(* The inductive invariants behind the properties of Controller, proved in *)
(* ControllerProofs (types, epochs and recovery) and CommandProofs         *)
(* (commands and leases).                                                  *)
(***************************************************************************)
EXTENDS Controller

\* The runtime holds an open segment.
Live == {"announce", "baseline", "up", "commit"}

\* What the phase says of the values: the sentinels are out of the way where
\* the code dereferences them, and a commit record names its request.
ShapeInv ==
    /\ phase \in Live => fabric \in Fabric
    /\ phase = "commit" => pending # NoPending
    /\ \A s \in DOMAIN log :
         log[s].type = "CommandCommit" => log[s].req \in Requests

\* Segments are written one after the other, each by one incarnation, so a
\* higher sequence number is never in an older segment.
SegmentInv ==
    /\ \A s \in DOMAIN log : log[s].seg \in DOMAIN tails
    /\ \A s, t \in DOMAIN log : s < t => log[s].seg <= log[t].seg
    /\ phase \in {"scan", "prune", "create"} => \A g \in DOMAIN tails : g < seg
    /\ phase \in Live => IsNewest(seg, DOMAIN tails)
    /\ poisoned => phase = "up"

\* Numbering is continuous and the next number is the right one, provided
\* removals succeed: the snapshot never covers more than the journal holds.
NumberInv ==
    /\ Continuous
    /\ DOMAIN log # {} => \E s \in DOMAIN log : Watermark <= s
    /\ phase \notin Halted => Watermark <= last
    /\ phase = "scan" =>
         cursor \in {0} \cup DOMAIN log /\ last = Larger(Watermark, cursor)
    /\ phase \in {"prune", "create", "announce"} =>
         DOMAIN log = {} \/ IsNewest(last, DOMAIN log)
    /\ phase \in {"baseline", "up", "commit"} =>
         /\ last \in DOMAIN log
         /\ \A s \in DOMAIN log : s <= last \/ (poisoned /\ s = last + 1)
    /\ phase = "prune" =>
         /\ doomed = DOMAIN tails /\ snapshot # NoSnapshot
         /\ \/ Watermark = 0
            \/ /\ Watermark \in DOMAIN log
               /\ IsNewest(log[Watermark].seg, DOMAIN tails)

\* A torn record in the open segment, and an unreadable segment, come from an
\* I/O error; a refusal has a cause that lasts.
CauseInv ==
    /\ phase \in Live /\ tails[seg] = "torn" => faults > 0
    /\ Unreadable => faults > 0
    /\ phase = "refused" => BeyondBounds \/ Unreadable

\* The journal remembers the highest live epoch, except between the removal
\* of segments and the record that announces the new incarnation.
EpochInv ==
    /\ pruning = "no" =>
         topEpoch = 0 \/ \E s \in DOMAIN log : log[s].epoch >= topEpoch
    /\ pruning = "removing" => phase \in {"prune", "create", "announce"}
    /\ phase = "scan" =>
         \A s \in DOMAIN log : s <= cursor => log[s].epoch <= epoch
    /\ pruning # "cut" /\ phase \in {"prune", "create", "up", "commit"} =>
         epoch >= topEpoch
    /\ phase = "baseline" => \E s \in DOMAIN log : log[s].epoch = epoch
    /\ EpochAdvancesUncut

\* Lease ids are unique within an incarnation, and the active lease is the one
\* granted last.
LeaseInv ==
    /\ \A i \in issued : i.tok.inc <= inc
    /\ lease # NoLease =>
         /\ phase \in {"up", "commit"}
         /\ lease.inc = inc /\ lease.lease = leases
         /\ \A i \in issued :
              i.tok.inc = inc /\ i.tok.lease = leases => i.grant = grants
    /\ phase \notin Halted =>
         \A i \in issued : i.tok.inc = inc => i.tok.lease <= leases

\* The contents of f are accounted for: its observations by commands in seen,
\* its topology by one of n installations.
Accounted(f, seen, n) ==
    f # NoFabric =>
      /\ \A e \in f.evid : <<e.req, e.inc>> \in seen
      /\ n = 0 => f.base = EmptyBase

\* So is what replaying rec makes of a fabric.
RecordAccounted(rec, seen, n) ==
    /\ Accounted(rec.fab, seen, n)
    /\ rec.type = "CommandCommit" => <<rec.req, rec.inc>> \in seen

\* Every fabric the runtime holds or has stored is accounted for.
OriginInv ==
    /\ Accounted(fabric, observed, installs)
    /\ snapshot # NoSnapshot => Accounted(snapshot.fab, observed, installs)
    /\ pending # NoPending => Accounted(pending.fab, observed, installs)
    /\ \A s \in DOMAIN log : RecordAccounted(log[s], observed, installs)

\* What a commit under way leads to.
CommitInv ==
    phase = "commit" =>
      IF pending.req = NoRequest THEN pending.fab \in Specs
      ELSE pending.fab = Applied(pending.req)

\* A digest the fabric cannot come back to: of no topology while there is one,
\* of an older generation, or from before a command of this incarnation.
Outdated(d) ==
    \/ d.base = EmptyBase /\ fabric.base # EmptyBase
    \/ /\ d.base = fabric.base
       /\ \/ d.gen < fabric.gen
          \/ d.gen = fabric.gen /\ d.epoch # epoch /\ fabric.epoch = epoch

\* The tokens of the active lease, superseded ones included.
Tenure == {i \in issued : i.tok.inc = inc /\ i.tok.lease = leases}

\* Up to one installation, every token of the active lease is for the live
\* topology or for one that is gone for good.
FencingInv ==
    installs <= 1 /\ lease # NoLease =>
      /\ \A i \in Tenure :
           i.tok.digest = Digest(fabric) \/ Outdated(i.tok.digest)
      /\ phase = "commit" /\ pending.req = NoRequest =>
           \A i \in Tenure : i.tok.digest.base = EmptyBase

\* What recovery relies on.
RecoveryInv == SegmentInv /\ NumberInv /\ CauseInv

\* The fabric the replay begins with, and the bounds of the journal.
Base == IF snapshot = NoSnapshot THEN NoFabric ELSE snapshot.fab
Before(m) == \A s \in DOMAIN log : m < s
Ends(m) == \A s \in DOMAIN log : s <= m

\* st[n] is the fabric a replay of all records up to n leads to, those the
\* snapshot covers included; top is beyond the last record.
Replay(st, top) ==
    /\ \A n \in Nat :
         st[n + 1] = IF n + 1 \in DOMAIN log THEN Replayed(st[n], log[n + 1])
                     ELSE st[n]
    /\ \A m \in Nat : Before(m) => st[m] = Base
    /\ Ends(top)
    /\ \A m \in Nat : Ends(m) => st[m] = st[top]

\* Skipping what the snapshot covers makes no difference, and the journal leads
\* to what readers were told, or were about to be told.
Told(st, top) ==
    /\ st[Watermark] = Base
    /\ st[top] \in {published} \cup maybe
    /\ phase = "scan" =>
         fabric = IF cursor <= Watermark THEN Base ELSE st[cursor]
    /\ phase \in {"prune", "create"} => fabric = st[top]
    /\ phase = "prune" => fabric = Base
    /\ phase \in {"announce", "baseline"} =>
         fabric = st[top] \/ (st[top] = NoFabric /\ fabric = EmptyFabric)
    /\ phase = "up" => st[last] = fabric /\ published = fabric
    /\ phase = "commit" => st[last] = pending.fab

\* A segment opens with a snapshot of the fabric its commits apply to.
Opens(u, g) ==
    u \in DOMAIN log /\ log[u].seg = g /\ log[u].type = "FabricSnapshot"
OpenedInv ==
    /\ \A s \in DOMAIN log :
         log[s].type = "CommandCommit" =>
           \E u \in DOMAIN log : u < s /\ Opens(u, log[s].seg)
    /\ phase \in {"up", "commit"} => \E u \in DOMAIN log : u <= last /\ Opens(u, seg)

DurableInv == OpenedInv /\ \E st : \E top \in Nat : Replay(st, top) /\ Told(st, top)

\* The commits in a journal, and the result a replay remembers of each.
Committed(jnl) == {s \in DOMAIN jnl : jnl[s].type = "CommandCommit"}
ResultOf(rec) == Result(rec.req, rec.gen, rec.epoch)

\* The request is that of a commit numbered up to n.
CommittedBy(n, r, jnl) == \E s \in Committed(jnl) : s <= n /\ jnl[s].req = r

\* Every effect in f is that of a commit up to n, and no effect is there twice.
OwedTo(f, n, jnl) ==
    f # NoFabric =>
      /\ DuplicateFree(f)
      /\ \A i \in DOMAIN f.topo : CommittedBy(n, f.topo[i], jnl)
      /\ \A e \in f.evid : CommittedBy(n, e.req, jnl)

\* Where a runtime without a snapshot stands in the journal.
StandInv ==
    /\ phase # "prune" /\ (poisoned => phase = "up")
    /\ phase = "scan" => last = cursor
    /\ phase \in {"create", "announce"} => Ends(last)
    /\ phase \in {"baseline", "up", "commit"} =>
         \A s \in DOMAIN log : s <= last \/ (poisoned /\ s = last + 1)

\* No request is committed twice, and the window has room for all commits;
\* replies are results of commits, and a fabric on record owes its effects to
\* the commits before it.
JournalInv(jnl, told) ==
    /\ \A s, t \in Committed(jnl) : jnl[s].req = jnl[t].req => s = t
    /\ IsFiniteSet(Committed(jnl)) /\ Cardinality(Committed(jnl)) <= MaxDedup
    /\ \A a \in told : \E s \in Committed(jnl) : a = ResultOf(jnl[s])
    /\ \A s \in DOMAIN jnl : OwedTo(jnl[s].fab, s, jnl)

\* The window holds the results of exactly the commits read or published.
WindowInv ==
    /\ \A d \in dedup : \E s \in Committed(log) : s <= last /\ d = ResultOf(log[s])
    /\ phase \notin Halted \cup {"commit"} =>
         \A s \in Committed(log) : s <= last => ResultOf(log[s]) \in dedup
    /\ phase = "commit" =>
         /\ \A s \in Committed(log) : s < last => ResultOf(log[s]) \in dedup
         /\ IF pending.req = NoRequest THEN last \notin Committed(log)
            ELSE /\ last \in Committed(log)
                 /\ ResultOf(log[last]) = Result(pending.req, pending.fab.gen, epoch)

\* The fabric held, and the one about to be, owe their effects to commits.
OwedInv ==
    /\ OwedTo(fabric, last, log)
    /\ phase = "commit" => OwedTo(pending.fab, last, log)

\* All of this as long as there is no snapshot.
OnceInv ==
    snapshot = NoSnapshot =>
      StandInv /\ JournalInv(log, replies) /\ WindowInv /\ OwedInv

\* The invariants the proofs rest on, together: the state start() rebuilds, the
\* epoch, the leases and, when removals succeed, the numbering of the journal.
IInv ==
    /\ TypeOK /\ ShapeInv /\ EpochInv /\ LeaseInv
    /\ ~RemovalsFail => RecoveryInv
=============================================================================
