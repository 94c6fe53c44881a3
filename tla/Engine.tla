------------------------------- MODULE Engine -------------------------------
(***************************************************************************)
(* The eligibility engine over every fabric that commands lead to.  A      *)
(* question is asked of the fabric, and then once more in another setting: *)
(* in the other direction, with failure domains lost, or with the links    *)
(* that were undecided observed.  The properties compare the two answers.  *)
(***************************************************************************)
EXTENDS Oracle, FabricCommands

CONSTANTS
    Initial,        \* the fabric installed at first
    Commands,       \* commands applied to it
    Queries,        \* constraints of the questions asked
    PathLimit,      \* largest bound on the number of paths asked for
    MaxCommands     \* bound of the model: commands applied

ASSUME EngineAssumption ==
    /\ WellFormed(Initial)
    /\ Commands \subseteq GovernedCommand
    /\ \A c \in Queries : c.minSpines \in Nat
    /\ PathLimit \in Nat

VARIABLES
    fabric,     \* the published fabric
    me,         \* the live incarnation
    epoch,      \* the live epoch
    applied,    \* commands applied so far
    first,      \* the question asked and its answer, or NoAnswer
    again       \* the setting of the second question and its answer, or NoAnswer

vars == <<fabric, me, epoch, applied, first, again>>

NoAnswer == [setting |-> "none"]

Init ==
    /\ fabric = Initial /\ me = 1 /\ epoch = 1 /\ applied = 0
    /\ first = NoAnswer /\ again = NoAnswer

\* A command is validated and published.
Publish(c) ==
    /\ first = NoAnswer /\ applied < MaxCommands
    /\ fabric' \in Validated(fabric, c, epoch, me) /\ applied' = applied + 1
    /\ UNCHANGED <<me, epoch, first, again>>

\* A restart: the same fabric, a new incarnation and epoch.
Restart ==
    /\ first = NoAnswer /\ me = 1
    /\ me' = 2 /\ epoch' = epoch + 1
    /\ UNCHANGED <<fabric, applied, first, again>>

-----------------------------------------------------------------------------
(* Questions.                                                              *)

LeafPairs == {p \in (DOMAIN fabric.leaves) \X (DOMAIN fabric.leaves) : p[1] # p[2]}

\* A question about two leaves; the shared uplinks it finds eligible are kept.
Reply(p, c) ==
    [setting |-> "asked", pair |-> p, query |-> c,
     answer |-> assess_leaf_pair(fabric, p[1], p[2], c, me),
     pool |-> EligiblePool(Combined(fabric, p[1], p[2], c, me))]

Ask(p, c) ==
    /\ first = NoAnswer /\ first' = Reply(p, c)
    /\ UNCHANGED <<fabric, me, epoch, applied, again>>

\* The fabric with every spine of some failure domains failed.
WithLost(lost) ==
    [fabric EXCEPT !.spines =
       [i \in DOMAIN @ |-> IF @[i].domain \in lost
                           THEN [@[i] EXCEPT !.state = "failed"] ELSE @[i]]]

\* The links whose observations decide nothing.
Undecided ==
    {id \in DOMAIN fabric.links :
       ObservedVerdict(fabric, id, requires_evidence(fabric, first.query), me) = "indeterminate"}

\* The fabric after a fresh observation of every undecided link.
WithObserved(outcome) ==
    LET Fresh(id) == [link |-> id, observed |-> outcome[id], gen |-> fabric.gen,
                      observer |-> me, epoch |-> fabric.epoch, seq |-> 1]
    IN  [fabric EXCEPT !.evidence =
           Counted(Without(@, DOMAIN outcome), {Fresh(id) : id \in DOMAIN outcome})]

\* The settings a question is asked again in; observations are of interest when
\* the first answer was a decided one.
Settings ==
    {[setting |-> "reversed", at |-> fabric, pair |-> <<first.pair[2], first.pair[1]>>]}
      \cup {[setting |-> "lost", at |-> WithLost(lost), pair |-> first.pair] :
              lost \in kSubset(first.answer.tolerance, first.answer.domains)}
      \cup {[setting |-> "observed", at |-> WithObserved(outcome), pair |-> first.pair] :
              outcome \in {o \in [Undecided -> {"up", "down"}] :
                             first.answer.verdict # "indeterminate"}}

ReplyIn(s) ==
    [setting |-> s.setting,
     answer |-> assess_leaf_pair(s.at, s.pair[1], s.pair[2], first.query, me)]

AskAgain ==
    /\ first # NoAnswer /\ again = NoAnswer
    /\ \E s \in Settings : again' = ReplyIn(s)
    /\ UNCHANGED <<fabric, me, epoch, applied, first>>

Next ==
    \/ Restart
    \/ \E c \in Commands : Publish(c)
    \/ \E p \in LeafPairs, c \in Queries : Ask(p, c)
    \/ AskAgain

Spec == Init /\ [][Next]_vars

-----------------------------------------------------------------------------
(* Properties.                                                             *)

Asked == first # NoAnswer
Again(setting) == again.setting = setting

\* structural_class and enumerate_paths tell the same story under every bound on
\* the number of paths.  What the search returns bears the class out: a step
\* between the two nodes, a leaf between them, or two spines between two leaves.
\* When it returns fewer paths than it may, its result also justifies the class:
\* a direct class has its step, one or several spines are one or several in the
\* middle, and a class over a peer or a leaf has a leaf there.
ClassifiesPaths ==
    ~Asked => \A a, b \in nodes(fabric), max_paths \in 1..PathLimit : a # b =>
      LET found == enumerate_paths(fabric, a, b, 2, max_paths)
          direct == \E w \in found : Len(w) = 1
          middle(tier) ==
            {k \in nodes(fabric) : Tier(k) = tier /\ \E w \in found : Len(w) = 2 /\ w[1].peer = k}
          leaves == Tier(a) = "leaf" /\ Tier(b) = "leaf"
          cls == structural_class(fabric, a, b)
      IN  /\ direct => cls \in {"DirectLeafSpine", "DirectPeer"}
          /\ middle("leaf") # {} => cls # "Unreachable"
          /\ leaves /\ Cardinality(middle("spine")) >= 2 =>
               cls \in {"DirectPeer", "LeafLeafMultiSpine"}
          /\ Cardinality(found) < max_paths =>
               /\ cls \in {"DirectLeafSpine", "DirectPeer"} => direct
               /\ cls \in {"LeafLeafSingleSpine", "LeafLeafMultiSpine"} <=>
                    leaves /\ ~direct /\ middle("spine") # {}
               /\ cls = "LeafLeafMultiSpine" => Cardinality(middle("spine")) >= 2
               /\ cls = "LeafLeafSingleSpine" => Cardinality(middle("spine")) = 1
               /\ cls \in {"LeafSpineViaPeer", "SpineSpineViaLeaf"} => middle("leaf") # {}

\* Path enumeration never returns duplicates: two paths of one result differ in
\* their nodes.
NoDuplicatePaths ==
    \A a, b \in nodes(fabric) :
      \A v, w \in enumerate_paths(fabric, a, b, 2, PathLimit) :
        NodesOf(v) = NodesOf(w) => v = w

\* A spine is reported eligible for a pair only if configuration allows it on
\* both sides, and, when no observation is involved and no two links are
\* parallel, every spine configuration allows is reported.
MatchesReference ==
    Asked =>
      LET p == first.pair
          found == DOMAIN first.answer.spines
          reference == eligible_spines_for_pair(fabric, p[1], p[2])
      IN  structural_class(fabric, Leaf(p[1]), Leaf(p[2]))
            \in {"LeafLeafSingleSpine", "LeafLeafMultiSpine"} =>
            /\ found \subseteq reference
            /\ ~Parallel(fabric) /\ ~requires_evidence(fabric, first.query)
                 /\ fabric.evidence = EmptyCounts => found = reference

\* Without parallel links a question names the same spines, sets and capacity in
\* both directions.  The verdict may differ, because an uplink ruled out on the
\* first leaf hides that the second leaf's is undecided, but never so that one
\* direction is eligible and the other ineligible.
Symmetric ==
    Again("reversed") /\ ~Parallel(fabric) =>
      LET there == first.answer
          back == again.answer
      IN  /\ there.spines = back.spines /\ there.capacity = back.capacity
          /\ there.sets = back.sets
          /\ {there.verdict, back.verdict} # {"eligible", "ineligible"}

\* The number of failure domains an answer claims may be lost can be lost: with
\* all spines of so many domains failed, some spine is still eligible.
ToleranceHonoured ==
    Again("lost") /\ first.answer.spines # EmptyCounts => again.answer.spines # EmptyCounts

\* When there are too many combinations to examine, the one set that is picked
\* domain by domain is the set the examination would have ranked first.
GreedyIsBest ==
    Asked /\ DOMAIN first.pool # {} => Greedy(first.pool) = Ranked(Enumerated(first.pool), 1)

\* An eligible answer for a pair counts both leaves as serving in the health of
\* the fabric under the same constraints, unless links are parallel.
EligibleLeavesServe ==
    Asked /\ ~Parallel(fabric) /\ first.answer.verdict = "eligible"
      /\ first.answer.spines # EmptyCounts =>
      \A m \in {first.pair[1], first.pair[2]} :
        LeafHealth(fabric, m, first.query, me) = "serving"

\* An eligible verdict rests on nothing undecided, and a path without any
\* eligible spine is called ineligible only if no observation can change that.
EvidenceMonotone ==
    Again("observed") =>
      /\ first.answer.verdict = "eligible" => again.answer.verdict = "eligible"
      /\ first.answer.verdict = "ineligible" /\ first.answer.spines = EmptyCounts
           /\ first.answer.cls # "DirectPeer" => again.answer.verdict # "eligible"

\* Indeterminate is never folded into ineligible: what is called ineligible
\* cannot become eligible by observing the links that are undecided.
UndecidedNotFolded ==
    Again("observed") /\ first.answer.verdict = "ineligible" =>
      again.answer.verdict # "eligible"
=============================================================================
