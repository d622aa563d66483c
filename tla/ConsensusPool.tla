--------------------------- MODULE ConsensusPool ---------------------------
(***************************************************************************)
(* The consensus pool (votor/src/consensus_pool.rs) between the signature  *)
(* verifier (bls-sigverify) and the voting loop: votes of the peers and    *)
(* own votes are counted, certificates are built or received, and the      *)
(* events of finalization and of the fallback votes are raised.  The       *)
(* thread around it is votor/src/consensus_pool_service.rs.                *)
(*                                                                         *)
(* The pool is a record and its methods are operators on it.  A method     *)
(* that pushes VotorEvents adds them to the field `events`, which keeps    *)
(* every event raised so far.  ParentReady events and genesis certificates *)
(* are in module ParentReady.                                              *)
(***************************************************************************)
EXTENDS SlotStakeCounters, ParentReadyTracker

CONSTANTS
    Self,         \* the identity with stake that this machine may run
    NoOne,        \* its identity as a hot spare
    Parent,       \* the parent of a block
    VoteSlots,    \* bound: the slots whose votes arrive
    VoteKinds,    \* bound: the kinds of votes that arrive
    Certificates, \* bound: the certificates that arrive
    MaxSwitches   \* bound: how often the identity is switched

(***************************************************************************)
(* A hot spare runs under an identity without stake.                       *)
(***************************************************************************)
ASSUME PoolAssumption ==
    Self \in Validators /\ NoOne \notin Validators /\ Certificates \subseteq CertType

VARIABLES
    me,           \* cluster_info.id()
    entries,      \* the vote pool of the signature verifier, by sender
    own,          \* the votes cast by the voting loop of this machine
    pool,         \* the consensus pool
    waiting,      \* pending_safe_to_notar of the service loop
    blockstore,   \* the blocks received in full
    bankRoot,     \* sharable_banks.root()
    generated,    \* history: the certificates built from votes
    certified,    \* history: the certificates inserted
    switches

vars == <<me, entries, own, pool, waiting, blockstore, bankRoot, generated,
          certified, switches>>

Event(type, s, id) == [type |-> type, slot |-> s, id |-> id]

(***************************************************************************)
(* The order of FinalizedSlot: fast before slow within a slot.             *)
(***************************************************************************)
Slow(s) == 2 * s

Fast(s) == 2 * s + 1

NotFinalized == -1

NewPool(b) ==
    [acc |-> [v \in Vote |-> NoVotes], counters |-> [s \in Slot |-> NewCounters],
     completed |-> {}, highest |-> NotFinalized, pending |-> {}, events |-> {},
     tracker |-> NewTracker(b.slot, Ready(b.slot + 1, b)), pruned |-> 0]

Init ==
    /\ me \in {Self, NoOne}
    /\ entries = [x \in Validators |-> {}]
    /\ own = {}
    /\ \E b \in Block : b.slot = 0 /\ pool = NewPool(b)
    /\ waiting = {}
    /\ blockstore = {}
    /\ bankRoot = 0
    /\ generated = {}
    /\ certified = {}
    /\ switches = 0

-----------------------------------------------------------------------------

NotarizedTracker(t, b) ==
    IF b.slot > t.root THEN add_notar_fallback_or_stronger(t, b) ELSE t

SkippedTracker(t, s) == IF s > t.root THEN add_new_skip(t, s) ELSE t

NotFromFast(t, c) ==    \* mutant: a fast finalization is not told to the tracker
    IF c.type \in {"Notarize", "NotarizeFallback"} THEN NotarizedTracker(t, BlockOf(c))
    ELSE IF c.type = "Skip" THEN SkippedTracker(t, c.slot) ELSE t

Track(t, c) ==
    IF c.type \in {"Notarize", "NotarizeFallback", "FinalizeFast"}
    THEN NotarizedTracker(t, BlockOf(c))
    ELSE IF c.type = "Skip" THEN SkippedTracker(t, c.slot) ELSE t

NotarizeLast(completed, c) ==    \* mutant: only a late notarize certificate finalizes
    When(c.type = "Notarize" /\ Finalize(c.slot) \in completed, {BlockOf(c)})

(***************************************************************************)
(* The block that certificate c finalizes slowly, whichever of its         *)
(* notarize and finalize certificates comes last.                          *)
(***************************************************************************)
FinalizedBlocks(completed, c) ==
    When(c.type = "Notarize" /\ Finalize(c.slot) \in completed, {BlockOf(c)})
    \cup When(c.type = "Finalize",
              {BlockOf(n) : n \in {n \in completed : n.type = "Notarize" /\ n.slot = c.slot}})

CertEvents(completed, c) ==
    {Event("Finalized", b.slot, b.id) : b \in FinalizedBlocks(completed, c)}
    \cup When(c.type = "FinalizeFast", {Event("FinalizedFast", c.slot, c.id)})
    \cup When(c.type = "Notarize", {Event("BlockNotarized", c.slot, c.id)})

highest_finalized(old, completed, c) ==
    IF c.type = "FinalizeFast" THEN Larger(old, Fast(c.slot))
    ELSE IF FinalizedBlocks(completed, c) # {} THEN Larger(old, Slow(c.slot)) ELSE old

insert_certificate(p, c) ==
    [p EXCEPT !.completed = @ \cup {c},
              !.tracker = Track(@, c),
              !.events = @ \cup CertEvents(p.completed, c),
              !.highest = highest_finalized(@, p.completed, c)]

add_cert(p, c, root) ==
    IF c.slot < root \/ c \in p.completed THEN p ELSE insert_certificate(p, c)

(***************************************************************************)
(* Inside a leader window the parent has to be checked first.              *)
(***************************************************************************)
FirstInWindow(s) == s % WindowSize = 0 \/ s = 1

CountVote(p, v, stake, isOwn) ==
    LET c == Counted(p.counters[v.slot], v, stake, isOwn)
        ids == SafeIds(c, isOwn)
        skip == SafeSkip(c, isOwn)
    IN  [p EXCEPT
            !.counters[v.slot] =
                [c EXCEPT !.safe_to_notar_sent = @ \cup ids,
                          !.safe_to_skip_sent = @ \/ skip],
            !.pending = @ \cup When(~FirstInWindow(v.slot),
                                    {[slot |-> v.slot, id |-> i] : i \in ids}),
            !.events = @ \cup When(FirstInWindow(v.slot),
                                   {Event("SafeToNotar", v.slot, i) : i \in ids})
                         \cup When(skip, {Event("SafeToSkip", v.slot, NoId)})]

(***************************************************************************)
(* A vote is counted in accumulator a, which is new or has grown: the      *)
(* fallback events first, then the certificate it completes.               *)
(***************************************************************************)
NewCerts(p, v, a) == try_produce_cert([p.acc EXCEPT ![v] = a], p.completed, v)

WithVote(p, v, a, isOwn) ==
    LET q == [p EXCEPT !.acc[v] = a]
        r == IF v.type \in {"Notarize", "Skip"} THEN CountVote(q, v, a.stake, isOwn) ELSE q
        certs == NewCerts(p, v, a)
    IN  IF certs = {} THEN r ELSE insert_certificate(r, CHOOSE c \in certs : TRUE)

AggregateVote(p, v, ranks) == WithVote(p, v, add_aggregate(p.acc[v], ranks), FALSE)

(***************************************************************************)
(* An own vote that was counted before is a Duplicate error.               *)
(***************************************************************************)
OwnVoteMessage(p, v, rank) ==
    LET a == add_own_vote_message(p.acc[v], rank)
    IN  IF a = p.acc[v] THEN p ELSE WithVote(p, v, a, TRUE)

maybe_prune(p, root) ==
    IF root <= p.pruned THEN p
    ELSE [p EXCEPT
            !.acc = [v \in Vote |-> IF v.slot >= root THEN @[v] ELSE NoVotes],
            !.counters = [s \in Slot |-> IF s >= root THEN @[s] ELSE NewCounters],
            !.completed = {c \in @ : c.slot >= root},
            !.pending = {b \in @ : b.slot >= root},
            !.tracker = set_tracker_root(@, root),
            !.pruned = root]

-----------------------------------------------------------------------------

Finalizations(events) == {e \in events : e.type \in {"Finalized", "FinalizedFast"}}

(***************************************************************************)
(* A message was handled, with result p.  The bank root has moved to a     *)
(* finalized block or not at all, and the pool is pruned to it.            *)
(***************************************************************************)
Handled(p, new) ==
    /\ Agreed(certified \cup new)
    /\ bankRoot' \in {bankRoot} \cup {s \in Slots(Finalizations(p.events)) : s > bankRoot}
    /\ pool' = maybe_prune(p, bankRoot')
    /\ certified' = certified \cup new
    /\ UNCHANGED <<me, waiting, blockstore, switches>>

(***************************************************************************)
(* keep_vote, and the votes that pass are handed to the pool as an         *)
(* aggregate.  Votes from self and votes that try_add_vote refuses change  *)
(* nothing.  The verifier drops votes below its root, the pool those below *)
(* its own, later one.  The votes of Self do not contradict each other,    *)
(* whichever machine it runs on.                                           *)
(***************************************************************************)
EntryOf(x, s) == {w \in entries[x] : w.slot = s}

SelfConsistent(v) ==
    ~Contradicts(({w \in own : w.slot = v.slot} \cup EntryOf(Self, v.slot)) \ {v}, v)

ReceiveVotes(v, senders) ==
    /\ senders # {}
    /\ me \notin senders
    /\ v.slot >= bankRoot
    /\ \A x \in senders : try_add_vote(EntryOf(x, v.slot), v) = "Ok"
    /\ Self \in senders => SelfConsistent(v)
    /\ entries' = [x \in Validators |-> entries[x] \cup When(x \in senders, {v})]
    /\ LET new == NewCerts(pool, v, add_aggregate(pool.acc[v], senders))
       IN  /\ Handled(AggregateVote(pool, v, senders), new)
           /\ generated' = generated \cup new
    /\ UNCHANGED own

(***************************************************************************)
(* What the voting loop may cast (module EventHandler): no contradiction,  *)
(* a finalize vote for a block it has notarized and knows to be notarized, *)
(* a fallback vote after the event that asks for it.                       *)
(***************************************************************************)
MayCast(v) ==
    /\ v \notin own
    /\ SelfConsistent(v)
    /\ v.type = "Finalize" =>
           \E w \in own : /\ w.type = "Notarize" /\ w.slot = v.slot
                          /\ Event("BlockNotarized", w.slot, w.id) \in pool.events
    /\ v.type = "NotarizeFallback" => Event("SafeToNotar", v.slot, v.id) \in pool.events
    /\ v.type = "SkipFallback" => Event("SafeToSkip", v.slot, NoId) \in pool.events

CastVote(v) ==
    /\ me = Self
    /\ v.slot >= bankRoot
    /\ MayCast(v)
    /\ own' = own \cup {v}
    /\ LET new == When(me \notin pool.acc[v].ranks,
                       NewCerts(pool, v, add_own_vote_message(pool.acc[v], me)))
       IN  /\ Handled(OwnVoteMessage(pool, v, me), new)
           /\ generated' = generated \cup new
    /\ UNCHANGED entries

ReceiveCertificate(c) ==
    /\ c \notin pool.completed
    /\ c.slot >= bankRoot
    /\ Handled(add_cert(pool, c, bankRoot), {c})
    /\ UNCHANGED <<entries, own, generated>>

(***************************************************************************)
(* process_pending_safe_to_notar, in every iteration of the loop.  The     *)
(* blocks of `full` did not fit in the channel to the repair service.      *)
(***************************************************************************)
HighestSlot == IF pool.highest = NotFinalized THEN 0 ELSE pool.highest \div 2

TakenOnce(full) == {b \in pool.pending \ full : b.slot > HighestSlot}    \* mutant: looked at once

Taken(full) == {b \in waiting \cup (pool.pending \ full) : b.slot > HighestSlot}

Resolved(S) == {b \in S \cap blockstore : Parent[b] \in pool.tracker.nf}

ProcessPending(full) ==
    /\ pool.pending # {} \/ waiting # {}
    /\ full \subseteq pool.pending \ waiting
    /\ pool' = [pool EXCEPT
                    !.pending = full,
                    !.events = @ \cup {Event("SafeToNotar", b.slot, b.id) :
                                           b \in Resolved(Taken(full))}]
    /\ waiting' = Taken(full) \ Resolved(Taken(full))
    /\ UNCHANGED <<me, entries, own, blockstore, bankRoot, generated, certified, switches>>

ReceiveBlock(b) ==
    /\ b \notin blockstore
    /\ blockstore' = blockstore \cup {b}
    /\ UNCHANGED <<me, entries, own, pool, waiting, bankRoot, generated, certified, switches>>

(***************************************************************************)
(* set-identity: Self moves to another machine, which knows the votes it   *)
(* has cast, or comes from there.                                          *)
(***************************************************************************)
SwitchIdentity ==
    /\ switches < MaxSwitches
    /\ me' = IF me = Self THEN NoOne ELSE Self
    /\ switches' = switches + 1
    /\ UNCHANGED <<entries, own, pool, waiting, blockstore, bankRoot, generated, certified>>

ArrivingVotes == {v \in Vote : v.slot \in VoteSlots /\ v.type \in VoteKinds}

Next ==
    \/ \E v \in ArrivingVotes, senders \in SUBSET Validators : ReceiveVotes(v, senders)
    \/ \E v \in ArrivingVotes : CastVote(v)
    \/ \E c \in Certificates : ReceiveCertificate(c)
    \/ \E full \in SUBSET pool.pending : ProcessPending(full)
    \/ \E b \in DOMAIN Parent : ReceiveBlock(b)
    \/ SwitchIdentity

Spec == Init /\ [][Next]_vars

(***************************************************************************)
(* The loop of the service comes round ("Will try event in next            *)
(* iteration"), and the repair service takes from its channel.             *)
(***************************************************************************)
FairSpec == Spec /\ WF_vars(ProcessPending({}))

-----------------------------------------------------------------------------

(***************************************************************************)
(* The validators whose vote v has reached the pool, each counted once,    *)
(* and those that stand behind a certificate.                              *)
(***************************************************************************)
VotedBy(v) == {x \in Validators : v \in entries[x] \/ (x = Self /\ v \in own)}

Backers(c) ==
    CASE c.type \in {"Notarize", "FinalizeFast"} -> VotedBy(Cert("Notarize", c))
      [] c.type = "NotarizeFallback" -> VotedBy(Cert("Notarize", c)) \cup VotedBy(c)
      [] c.type = "Finalize" -> VotedBy(c)
      [] c.type = "Skip" -> VotedBy(c) \cup VotedBy(SkipFallback(c.slot))

(***************************************************************************)
(* A certificate that the pool builds is backed by distinct validators     *)
(* with the stake it stands for, in whatever batches their votes came: no  *)
(* validator counts twice, neither within a vote nor as a primary and a    *)
(* fallback vote of one certificate ("The pool assumes that the            *)
(* bls-sigverifier has performed all conflicting votes checks").           *)
(***************************************************************************)
CertsBacked == \A c \in generated : Meets(c, Stake[Backers(c)])

(***************************************************************************)
(* The pool misses no certificate: once the votes it has taken carry the   *)
(* stake, the certificate or a stronger one is there, in whatever order    *)
(* votes and certificates came ("when enough stake has been received,      *)
(* produces appropriate certificates").                                    *)
(***************************************************************************)
Stronger(c) ==
    {c} \cup When(c.type = "Notarize", {Cert("FinalizeFast", c)})
        \cup When(c.type = "NotarizeFallback",
                  {Cert("Notarize", c), Cert("FinalizeFast", c)})

CertsComplete ==
    \A c \in CertType :
        c.slot > pool.pruned /\ Meets(c, Stake[Backers(c)]) =>
            Stronger(c) \cap pool.completed # {}

(***************************************************************************)
(* A block is finalized exactly when its certificates are there, whichever *)
(* came last (insert_certificate raises Finalized in both branches), also  *)
(* when the root and the pruning moved in between; and the finalization    *)
(* kept for block footers and for the standstill is the highest one that   *)
(* was ever reached, a fast one before a slow one of the same slot ("We    *)
(* prefer fast finalization").                                             *)
(***************************************************************************)
FinalizedAsDefined ==
    LET rank(e) == IF e.type = "FinalizedFast" THEN Fast(e.slot) ELSE Slow(e.slot)
        ranks == {rank(e) : e \in Finalizations(pool.events)}
    IN  /\ \A b \in Block :
              /\ Event("Finalized", b.slot, b.id) \in pool.events <=>
                     {Notarize(b), Finalize(b.slot)} \subseteq certified
              /\ Event("FinalizedFast", b.slot, b.id) \in pool.events <=>
                     Cert("FinalizeFast", Notarize(b)) \in certified
        /\ IF ranks = {} THEN pool.highest = NotFinalized
           ELSE pool.highest \in ranks /\ \A r \in ranks : r <= pool.highest

(***************************************************************************)
(* Above the root the tracker of ready parents knows exactly the blocks    *)
(* and the slots that the completed certificates certify, whichever of the *)
(* three kinds of certificate of a block it was.                           *)
(***************************************************************************)
TrackerFollowsCertificates ==
    /\ \A b \in Block :
           b.slot > pool.pruned =>
               (b \in pool.tracker.nf <=>
                    Stronger(NotarizeFallback(b)) \cap pool.completed # {})
    /\ \A s \in Slot :
           s > pool.pruned => (s \in pool.tracker.skip <=> Skip(s) \in pool.completed)

(***************************************************************************)
(* The stake behind a vote, each validator counted once, and the first     *)
(* vote of this validator in a slot.                                       *)
(***************************************************************************)
StakeOf(v) == Stake[VotedBy(v)]

OwnFirst(s) == {v \in own : v.slot = s /\ v.type \in {"Notarize", "Skip"}}

IsSafeToNotar(b) ==
    /\ OwnFirst(b.slot) \notin {{}, {Notarize(b)}}
    /\ \/ AtLeast(StakeOf(Notarize(b)), 40)
       \/ /\ AtLeast(StakeOf(Notarize(b)), 20)
          /\ AtLeast(StakeOf(Notarize(b)) + StakeOf(Skip(b.slot)), 60)

(***************************************************************************)
(* The condition of the white paper for NotarizeFallback, in full: it is   *)
(* safe exactly when it was noticed, whatever vote came last, the own one  *)
(* included.  In the first slot of a window the event was raised; inside a *)
(* window the block waits for its parent until the slot is finalized.  On  *)
(* a machine whose identity was switched nothing is said: an own vote that *)
(* came back from the network first is not counted as an own one.          *)
(***************************************************************************)
SafeToNotarAsDefined ==
    \A b \in Block :
        LET raised == Event("SafeToNotar", b.slot, b.id) \in pool.events
        IN  b.slot > pool.pruned /\ switches = 0 =>
            IF FirstInWindow(b.slot)
            THEN raised <=> IsSafeToNotar(b)
            ELSE /\ raised \/ b \in pool.pending \cup waiting => IsSafeToNotar(b)
                 /\ IsSafeToNotar(b) => \/ raised
                                        \/ b \in pool.pending \cup waiting
                                        \/ b.slot <= HighestSlot

(***************************************************************************)
(* The same for SkipFallback: the stake that is not with the block with    *)
(* the most stake, skips included, is 40% or more, and this validator has  *)
(* notarized.                                                              *)
(***************************************************************************)
NotarStakes(s) == {StakeOf(Notarize(b)) : b \in {b \in Block : b.slot = s}}

AllNotarStake(s) == Stake[UNION {VotedBy(Notarize(b)) : b \in {b \in Block : b.slot = s}}]

SafeToSkipAsDefined ==
    \A s \in Slot :
        s > pool.pruned =>
            (Event("SafeToSkip", s, NoId) \in pool.events <=>
                /\ \E v \in OwnFirst(s) : v.type = "Notarize"
                /\ \A top \in NotarStakes(s) :
                       (\A n \in NotarStakes(s) : n <= top) =>
                           AtLeast(StakeOf(Skip(s)) + AllNotarStake(s) - top, 40))

(***************************************************************************)
(* A block that waits for its parent does not wait for ever: once it is    *)
(* received and its parent is certified, the event is raised, unless the   *)
(* slot is finalized or the root passes the parent.                        *)
(***************************************************************************)
PendingIsResolved ==
    \A b \in DOMAIN Parent :
        (b \in pool.pending \cup waiting /\ b \in blockstore /\ Parent[b] \in pool.tracker.nf)
            ~> \/ Event("SafeToNotar", b.slot, b.id) \in pool.events
               \/ b.slot <= HighestSlot
               \/ Parent[b].slot < bankRoot
=============================================================================
