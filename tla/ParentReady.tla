---------------------------- MODULE ParentReady ----------------------------
(***************************************************************************)
(* The tracker at work in the thread of the consensus pool (votor/src/     *)
(* consensus_pool_service.rs): certificates are added one message at a     *)
(* time, the pool is pruned to the bank root after each, and the events    *)
(* collected are taken at the top of the loop, where the highest new ready *)
(* slot may start the production of a leader window.                       *)
(***************************************************************************)
EXTENDS ParentReadyTracker

CONSTANTS
    MySlots     \* the slots this validator leads

VARIABLES
    tracker,    \* consensus_pool.parent_ready_tracker
    bankRoot,   \* ctx.sharable_banks.root()
    events,     \* ParentReady events not yet taken by the loop
    produced,   \* highest_parent_ready of the loop
    windows,    \* ProduceWindow events: start slot and parent
    genesis,    \* the block after which Alpenglow takes over from TowerBFT
    phase,      \* migration_status
    kickedOff,  \* kick_off_parent_ready of the loop
    notarized,  \* history: the blocks whose certificate was accepted
    skips,      \* history: the slots whose skip certificate was accepted
    notified,   \* history: the parents ready at the start, or sent as an event
    missed,     \* history: the genesis block was learned by replaying its child
    found       \* the leader of a ready slot found a parent to build on

migration == <<genesis, phase, kickedOff, missed>>

vars == <<tracker, bankRoot, events, produced, windows, migration, notarized,
          skips, notified, found>>

InitTracker(root, r) ==
    /\ root <= r.parent.slot
    /\ r.parent.slot < r.slot
    /\ tracker = NewTracker(root, r)
    /\ bankRoot = root
    /\ produced = root
    /\ windows = {}
    /\ notarized = {r.parent}
    /\ skips = (r.parent.slot + 1)..(r.slot - 1)
    /\ notified = tracker.ready
    /\ missed = FALSE
    /\ found = TRUE

(***************************************************************************)
(* initial_parent_ready after the migration: the slot after the root       *)
(* block, or a later one restored from the vote history.  The loop starts  *)
(* with its event.                                                         *)
(***************************************************************************)
InitEnabled ==
    \E root \in Slot, r \in ParentReady :
        /\ InitTracker(root, r)
        /\ events = {r}
        /\ genesis \in {g \in Block : g.slot = root
                                      /\ (r.parent.slot = root => g = r.parent)}
        /\ phase = "AlpenglowEnabled"
        /\ kickedOff = TRUE

(***************************************************************************)
(* Before the migration: the slot after the root block.  TowerBFT will     *)
(* root no slot above the genesis block.                                   *)
(***************************************************************************)
InitMigration ==
    \E b \in Block :
        /\ InitTracker(b.slot, Ready(b.slot + 1, b))
        /\ events = {}
        /\ genesis \in {g \in Block : g.slot \in b.slot..(MaxSlot - 1)
                                        /\ (g.slot = b.slot => g = b)}
        /\ phase = "Migration"
        /\ kickedOff = FALSE

Init == InitEnabled \/ InitMigration

(***************************************************************************)
(* The bank root moves at any time, and the pool reads it when it prunes:  *)
(* with TowerBFT up to the genesis block, with Alpenglow to a block that   *)
(* was certified.                                                          *)
(***************************************************************************)
Roots ==
    {bankRoot} \cup
    (IF phase = "AlpenglowEnabled" THEN {s \in Slots(tracker.nf) : s > bankRoot}
                                   ELSE bankRoot..genesis.slot)

maybe_prune(t, root) == IF root > t.root THEN set_tracker_root(t, root) ELSE t

(***************************************************************************)
(* A message is handled.  The thread has panicked if ~found.               *)
(***************************************************************************)
Accept(t, new) ==
    /\ found
    /\ bankRoot' \in Roots
    /\ tracker' = maybe_prune(t, bankRoot')
    /\ events' = events \cup Notify(new)
    /\ notified' = notified \cup Notify(new)
    /\ UNCHANGED <<produced, windows, genesis, kickedOff, missed, found>>

(***************************************************************************)
(* Only slots after the genesis block are voted on.                        *)
(***************************************************************************)
NotarCertificate(b) ==
    /\ b.slot \in (genesis.slot + 1)..(MaxSlot - 1)
    /\ b.slot >= bankRoot
    /\ b.slot > tracker.root
    /\ Accept(add_notar_fallback_or_stronger(tracker, b), NewlyNotarized(tracker, b))
    /\ notarized' = notarized \cup {b}
    /\ UNCHANGED <<skips, phase>>

GenesisNotAdded ==    \* mutant: completes the migration without add_genesis
    /\ genesis.slot >= bankRoot
    /\ Accept(tracker, {})
    /\ phase' = IF phase = "Migration" THEN "ReadyToEnable" ELSE phase
    /\ notarized' = notarized \cup {genesis}
    /\ UNCHANGED skips

(***************************************************************************)
(* add_genesis: the block may be the root itself.  The replay stage has    *)
(* the block, so that the certificate completes the migration.             *)
(***************************************************************************)
GenesisCertificate ==
    /\ genesis.slot >= bankRoot
    /\ Accept(add_notar_fallback_or_stronger(tracker, genesis),
              NewlyNotarized(tracker, genesis))
    /\ phase' = IF phase = "Migration" THEN "ReadyToEnable" ELSE phase
    /\ notarized' = notarized \cup {genesis}
    /\ UNCHANGED skips

(***************************************************************************)
(* on_genesis_certificate of the block component processor: a validator    *)
(* that missed the migration replays a child of the genesis block.         *)
(***************************************************************************)
GenesisMarker ==
    /\ phase = "Migration"
    /\ phase' = "ReadyToEnable"
    /\ missed' = TRUE
    /\ UNCHANGED <<tracker, bankRoot, events, produced, windows, genesis,
                   kickedOff, notarized, skips, notified, found>>

EnableAlpenglow ==
    /\ phase = "ReadyToEnable"
    /\ phase' = "AlpenglowEnabled"
    /\ UNCHANGED <<tracker, bankRoot, events, produced, windows, genesis,
                   kickedOff, missed, notarized, skips, notified, found>>

SkipCertificate(s) ==
    /\ s \in (genesis.slot + 1)..(MaxSlot - 1)
    /\ s >= bankRoot
    /\ s > tracker.root
    /\ Accept(add_new_skip(tracker, s), NewlySkipped(tracker, s))
    /\ skips' = skips \cup {s}
    /\ UNCHANGED <<notarized, phase>>

KickOff == ~kickedOff /\ phase = "AlpenglowEnabled"

(***************************************************************************)
(* The slots of the events.  The kick-off is for the slot after the later  *)
(* one of the genesis block and the root block.                            *)
(***************************************************************************)
Pending == Slots(events) \cup When(KickOff, {Larger(genesis.slot, bankRoot) + 1})

HighestPending == CHOOSE s \in Pending : \A u \in Pending : u <= s

(***************************************************************************)
(* The lowest block; the order of the ids within a slot is arbitrary.      *)
(***************************************************************************)
LowestParents(S) == {b \in S : \A o \in S : b.slot <= o.slot}

Produces(s) == s > produced /\ s \in MySlots /\ ~MissedWindow(tracker, s)

(***************************************************************************)
(* The top of main_loop: the kick-off event, add_produce_block_event, and  *)
(* the events are sent to the voting loop.                                 *)
(***************************************************************************)
MainLoop ==
    /\ found
    /\ Pending # {}
    /\ LET s == HighestPending
           parents == ProductionParents(tracker, s)
       IN  /\ produced' = Larger(s, produced)
           /\ found' = (found /\ (Produces(s) => parents # {}))
           /\ \/ /\ Produces(s)
                 /\ \E b \in LowestParents(parents) : windows' = windows \cup {Ready(s, b)}
              \/ /\ ~Produces(s) \/ parents = {}
                 /\ UNCHANGED windows
    /\ events' = {}
    /\ kickedOff' = (kickedOff \/ KickOff)
    /\ UNCHANGED <<tracker, bankRoot, genesis, phase, notarized, skips, notified,
                   missed>>

Next ==
    \/ \E b \in Block : NotarCertificate(b)
    \/ \E s \in Slot : SkipCertificate(s)
    \/ GenesisCertificate
    \/ GenesisMarker
    \/ EnableAlpenglow
    \/ MainLoop

Spec == Init /\ [][Next]_vars

-----------------------------------------------------------------------------

(***************************************************************************)
(* Type invariant.                                                         *)
(***************************************************************************)
ReadyTypeOK ==
    /\ tracker \in Tracker
    /\ bankRoot \in Slot
    /\ events \subseteq ParentReady
    /\ produced \in Slot
    /\ windows \subseteq ParentReady
    /\ genesis \in Block
    /\ phase \in {"Migration", "ReadyToEnable", "AlpenglowEnabled"}
    /\ kickedOff \in BOOLEAN
    /\ missed \in BOOLEAN
    /\ notarized \subseteq Block
    /\ skips \subseteq Slot
    /\ notified \subseteq ParentReady
    /\ found \in BOOLEAN

(***************************************************************************)
(* The definition at the head of parent_ready_tracker.rs: block b is       *)
(* notarized or notarized-fallback, and the slots from slot(b) + 1 up to s *)
(* are skip-certified.                                                     *)
(***************************************************************************)
IsParentReady(s, b) ==
    /\ b \in notarized
    /\ b.slot < s
    /\ \A u \in (b.slot + 1)..(s - 1) : u \in skips

(***************************************************************************)
(* From the root on the tracker holds exactly the parents of the           *)
(* definition, in whatever order the certificates came and whatever was    *)
(* pruned below the root.                                                  *)
(***************************************************************************)
ReadyAsDefined ==
    \A s \in Slot, b \in Block :
        s >= tracker.root => (Ready(s, b) \in tracker.ready <=> IsParentReady(s, b))

(***************************************************************************)
(* The voting loop learns of every parent of the first slot of a window    *)
(* above the root, and of no other, as soon as it is ready: the events     *)
(* sent agree with the definition.                                         *)
(***************************************************************************)
EveryParentNotified ==
    \A s \in Slot, b \in Block :
        s >= tracker.root /\ s % WindowSize = 0 =>
            (Ready(s, b) \in notified <=> IsParentReady(s, b))

(***************************************************************************)
(* add_produce_block_event says `unreachable!` of a highest ready slot     *)
(* that is ours and has no parent, no later slot being ready.  It may only *)
(* be reached by a validator that learned of the genesis block from replay *)
(* and whose pool has not seen the genesis certificate.                    *)
(***************************************************************************)
LeaderFindsParent == ~found => (missed /\ genesis \notin notarized)

(***************************************************************************)
(* A leader window is built on a parent that is ready for it by the        *)
(* definition.                                                             *)
(***************************************************************************)
WindowsOnReadyParents == \A w \in windows : IsParentReady(w.slot, w.parent)

(***************************************************************************)
(* A ParentReady event is sent once: what a certificate adds to the events *)
(* was never sent before.                                                  *)
(***************************************************************************)
NotifiedOnce == [][(events' \ events) \cap notified = {}]_vars
=============================================================================
