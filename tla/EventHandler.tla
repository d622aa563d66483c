---------------------------- MODULE EventHandler ----------------------------
(***************************************************************************)
(* The event loop of Votor (votor/src/event_handler.rs): the thread that   *)
(* turns replayed blocks, certificates, timeouts and the pool's safe-to-   *)
(* notar and safe-to-skip signals into votes.                              *)
(*                                                                         *)
(* One step of the model is one event handled to its end; what the event   *)
(* does to the loop's state is a function of a context record, as          *)
(* handle_event is a function of the contexts it is passed.  Around it are *)
(* the things that can happen at any moment: replay freezes or replaces a  *)
(* bank, the bank root follows the votor root, the operator changes the    *)
(* identity or the authorized voter, the validator crashes, even half-way  *)
(* through an event, and starts again from the vote history on disk.       *)
(***************************************************************************)
EXTENDS VoteHistory, VotingRules, Sequences

CONSTANTS
    Blocks,         \* the blocks of the cluster, a subset of Block
    Notarizable,    \* the blocks that may get a notarization certificate
    Finalizable,    \* those that may get a finalization certificate
    Readyable,      \* the slots and parents that may become parent ready
    ShredSlots,     \* the slots whose first shred may be reported
    WaitToVote,     \* wait_to_vote_slot: no vote below it is signed
    MaxQueued,      \* bound on the Block events in the event channel
    Faults          \* bound: the sequences of "crash", "switch" and "voter" that may happen

ASSUME TreeAssumption ==
    /\ Genesis \in Block /\ Blocks \subseteq Block
    /\ Parent \in [Blocks -> Blocks \cup {Genesis}]
    /\ \A b \in Blocks : Parent[b].slot < b.slot
    /\ Finalizable \subseteq Notarizable /\ Notarizable \subseteq Blocks
    /\ \A r \in Readyable : r.slot % WindowSize = 0 /\ r.parent.slot < r.slot

VARIABLES
    hist,       \* vctx.vote_history
    pending,    \* local_context.pending_blocks: slot -> blocks as they came
    finalized,  \* local_context.finalized_blocks
    shreds,     \* local_context.received_shred
    standstill, \* local_context.standstill_slot, {} or a singleton
    timers,     \* the slots timeouts were set for
    highest,    \* ctx.highest_parent_ready
    setRoot,    \* the pending SetRoot command to replay, {} or a block
    own,        \* own votes handed to the consensus pool
    sent,       \* votes handed to the voting service, ever
    signed,     \* history: votes signed and saved, ever
    stored,     \* the vote history on disk of the staked identity
    staked,     \* is the identity the one the stake is delegated to?
    keys,       \* is an authorized voter key loaded?
    banks,      \* frozen banks in bank_forks
    replayed,   \* blocks frozen since the validator started
    queue,      \* blocks whose Block event is in the event channel
    bankRoot,   \* sharable_banks.root()
    kickoff,    \* the ParentReady event that starts the loop, until handled
    poolFinal,  \* highest finalized slot of the pool, {} or a singleton
    faults,     \* the crashes, identity switches and changes of voter keys so far
    ok          \* no assertion of the code has failed

local == <<hist, pending, finalized, shreds, standstill, timers, highest,
           setRoot, own>>

disk == <<stored, signed, sent>>

operator == <<staked, keys>>

world == <<banks, replayed, queue, bankRoot, kickoff, poolFinal>>

vars == <<local, disk, operator, world, faults, ok>>

Fault(f) ==
    /\ Append(faults, f) \in Faults
    /\ faults' = Append(faults, f)

EffectiveRoot(h) == Larger(h.root, bankRoot)

EmptyPending == [s \in Slot |-> <<>>]

(***************************************************************************)
(* What handling an event works on: the state of the loop, the histories   *)
(* it saves on the way, the votes it returns and the assertions it meets.  *)
(***************************************************************************)
Context ==
    [h |-> hist, pending |-> pending, finalized |-> finalized,
     shreds |-> shreds, standstill |-> standstill, timers |-> timers,
     highest |-> highest, root |-> setRoot, own |-> own,
     saves |-> <<>>, out |-> {}, ok |-> ok]

Assert(c, cond) == [c EXCEPT !.ok = @ /\ cond]

-----------------------------------------------------------------------------

(***************************************************************************)
(* generate_vote_tx: a vote is signed by a staked identity with its voter  *)
(* key, from wait_to_vote_slot on.                                         *)
(***************************************************************************)
CanSign == staked /\ keys

Signs(v) == CanSign /\ v.slot >= WaitToVote

SaveIf(signs, saves, h) == IF signs THEN Append(saves, h) ELSE saves

insert_vote(c, v) ==
    LET h == add_vote(c.h, v)
    IN  [c EXCEPT !.ok = @ /\ MayAdd(c.h, v),
                  !.h = h,
                  !.own = @ \cup When(Signs(v), {v}),
                  !.saves = SaveIf(Signs(v), @, h),
                  !.out = @ \cup When(Signs(v), {v})]

MayFinalize(h, b) ==
    /\ is_block_notarized(h, b)
    /\ ~its_over(h, b.slot)
    /\ ~bad_window(h, b.slot)
    /\ voted_notar(h, b)

try_final(c, b) ==
    LET d == Assert(c, is_block_notarized(c.h, b) => Known(c.h, b.slot))
    IN  IF MayFinalize(c.h, b) THEN insert_vote(d, Finalize(b.slot)) ELSE d

NotarizeAnyParent(h, b) ==    \* mutant: does not ask for a vote on the parent
    /\ ~voted(h, b.slot)
    /\ \/ FirstInWindow(b.slot) /\ is_parent_ready(h, b.slot, Parent[b])
       \/ ~FirstInWindow(b.slot) /\ Consecutive(b)

MayNotarize(h, b) ==
    /\ ~voted(h, b.slot)
    /\ \/ FirstInWindow(b.slot) /\ is_parent_ready(h, b.slot, Parent[b])
       \/ ~FirstInWindow(b.slot) /\ Consecutive(b) /\ voted_notar(h, Parent[b])

(***************************************************************************)
(* The slots try_notar looks up are not below the root of the history.     *)
(***************************************************************************)
NotarizeLookups(h, b) ==
    /\ Known(h, b.slot)
    /\ ~voted(h, b.slot) /\ ~FirstInWindow(b.slot) /\ Consecutive(b)
           => Known(h, Parent[b].slot)

try_notar(c, b) ==
    LET d == Assert(c, NotarizeLookups(c.h, b))
        e == insert_vote(d, Notarize(b))
    IN  IF MayNotarize(c.h, b)
        THEN try_final([e EXCEPT !.pending[b.slot] = <<>>], b)
        ELSE d

(***************************************************************************)
(* Every pending block, by slot and then as they came.                     *)
(***************************************************************************)
InOrder(p) ==
    LET f[s \in Slot] == IF s = 0 THEN p[s] ELSE f[s - 1] \o p[s]
    IN  f[MaxSlot]

check_pending_blocks(c) ==
    LET blocks == InOrder(c.pending)
        f[i \in 0..Len(blocks)] ==
            IF i = 0 THEN c ELSE try_notar(f[i - 1], blocks[i])
    IN  f[Len(blocks)]

SkipFrom(h, s) == Larger(FirstOfWindow(s), EffectiveRoot(h))

try_skip_window(c, s) ==
    LET start == SkipFrom(c.h, s)
        f[t \in (start - 1)..LastOfWindow(s)] ==
            IF t < start THEN c
            ELSE IF voted(f[t - 1].h, t) THEN f[t - 1]
            ELSE insert_vote(f[t - 1], Skip(t))
    IN  IF start > LastOfWindow(s)
        THEN c
        ELSE Assert(f[LastOfWindow(s)], Known(c.h, start))

-----------------------------------------------------------------------------

(***************************************************************************)
(* enqueue_set_root keeps the highest root that replay has not taken yet.  *)
(***************************************************************************)
enqueue_set_root(old, b) == IF \E o \in old : o.slot >= b.slot THEN old ELSE {b}

(***************************************************************************)
(* root_utils::set_root                                                    *)
(***************************************************************************)
set_votor_root(c, b) ==
    [c EXCEPT !.h = set_root(@, b.slot),
              !.pending = [s \in Slot |-> IF s >= b.slot THEN @[s] ELSE <<>>],
              !.finalized = {o \in @ : o.slot >= b.slot},
              !.shreds = {s \in @ : s >= b.slot},
              !.root = enqueue_set_root(@, b)]

Rootable(c) ==
    {b \in c.finalized \cap banks :
        b.slot > EffectiveRoot(c.h) /\ voted(c.h, b.slot)}

check_rootable_blocks(c) ==
    IF Rootable(c) = {}
    THEN c
    ELSE LET top == CHOOSE b \in Rootable(c) :
                        \A o \in Rootable(c) : o.slot <= b.slot
         IN  set_votor_root(c, top)

(***************************************************************************)
(* The bank of b has a parent only while it is above the bank root.        *)
(***************************************************************************)
MissingParentReady(c, b) ==
    /\ FirstOfWindow(b.slot) # 0
    /\ \A r \in c.h.parent_ready_slots : r.slot < FirstOfWindow(b.slot)
    /\ b \in c.finalized
    /\ b \in banks
    /\ b.slot > bankRoot

ReadyWithoutPending(c, s, p) ==    \* mutant: does not look at the pending blocks
    [c EXCEPT !.h = add_parent_ready(@, s, p),
              !.timers = @ \cup {s},
              !.highest = IF s > @.slot THEN [slot |-> s, parent |-> p] ELSE @]

handle_parent_ready_event(c, s, p) ==
    LET d == check_pending_blocks([c EXCEPT !.h = add_parent_ready(@, s, p)])
    IN  [d EXCEPT !.timers = @ \cup {s},
                  !.highest = IF s > @.slot THEN [slot |-> s, parent |-> p] ELSE @]

add_missing_parent_ready(c, b) ==
    IF MissingParentReady(c, b)
    THEN handle_parent_ready_event(c, b.slot, Parent[b])
    ELSE c

refresh_votes(c, s) ==
    [c EXCEPT !.out = @ \cup {v \in votes_cast_since(c.h, s) : Signs(v)}]

-----------------------------------------------------------------------------

(***************************************************************************)
(* handle_event, one operator per event.                                   *)
(***************************************************************************)
OnBlock(c, b) ==
    LET tried == try_notar(c, b)
        kept == [tried EXCEPT !.pending[b.slot] = Append(@, b)]
        noted == IF MayNotarize(c.h, b) THEN check_pending_blocks(tried)
                 ELSE IF voted(c.h, b.slot) THEN tried
                 ELSE kept
    IN  add_missing_parent_ready(check_rootable_blocks(noted), b)

OnBlockNotarized(c, b) ==
    try_final([c EXCEPT !.h = add_block_notarized(@, b)], b)

OnFirstShred(c, s) == [c EXCEPT !.shreds = @ \cup {s}]

OnTimeoutCrashedLeader(c, s) ==
    IF voted(c.h, s) \/ s \in c.shreds THEN c ELSE try_skip_window(c, s)

OnTimeout(c, s) == IF voted(c.h, s) THEN c ELSE try_skip_window(c, s)

FallbackOnly(c, b) ==    \* mutant: does not skip the window first
    IF its_over(c.h, b.slot) \/ voted_notar_fallback(c.h, b)
    THEN c
    ELSE insert_vote(c, NotarizeFallback(b))

OnSafeToNotar(c, b) ==
    LET d == try_skip_window(c, b.slot)
    IN  IF its_over(d.h, b.slot) \/ voted_notar_fallback(d.h, b)
        THEN d
        ELSE insert_vote(d, NotarizeFallback(b))

OnSafeToSkip(c, s) ==
    LET d == try_skip_window(c, s)
    IN  IF its_over(d.h, s) \/ voted_skip_fallback(d.h, s)
        THEN d
        ELSE insert_vote(d, SkipFallback(s))

OnFinalized(c, b) ==
    LET d == check_rootable_blocks([c EXCEPT !.finalized = @ \cup {b}])
        e == [d EXCEPT !.standstill = {s \in @ : s >= b.slot}]
    IN  add_missing_parent_ready(e, b)

OnStandstill(c, s) ==
    LET d == Assert(c, c.standstill \subseteq {s})
    IN  refresh_votes([d EXCEPT !.standstill = IF @ = {} THEN {s} ELSE @], s)

-----------------------------------------------------------------------------

(***************************************************************************)
(* The history found on disk for an identity.  The spare identity never    *)
(* signs, so none was ever saved for it.                                   *)
(***************************************************************************)
Restored(isStaked) == IF isStaked THEN stored ELSE NewHistory(0)

OwnVotes(h, root, signs) == When(signs, votes_cast_since(h, root - 1))

handle_set_identity(c, isStaked) ==
    LET old == IF isStaked = staked THEN c.h ELSE Restored(isStaked)
        h == initialize_genesis(old, Genesis)
        root == EffectiveRoot(h)
        Keep(s) == s > root /\ ~voted(h, s)
    IN  [c EXCEPT !.ok = @ /\ MayInitialize(old, Genesis),
                  !.h = h,
                  !.pending = [s \in Slot |-> IF Keep(s) THEN @[s] ELSE <<>>],
                  !.standstill = {s \in @ : s >= root},
                  !.own = @ \cup OwnVotes(h, root, isStaked /\ keys)]

Apply(c) ==
    /\ hist' = c.h
    /\ pending' = c.pending
    /\ finalized' = c.finalized
    /\ shreds' = c.shreds
    /\ standstill' = c.standstill
    /\ timers' = c.timers
    /\ highest' = c.highest
    /\ setRoot' = c.root
    /\ own' = c.own
    /\ ok' = c.ok
    /\ sent' = sent \cup c.out
    /\ signed' = signed \cup c.out
    /\ stored' = IF c.saves = <<>> THEN stored ELSE c.saves[Len(c.saves)]

AtRoot(s) == s >= EffectiveRoot(hist)    \* mutant: lets events at the root pass

(***************************************************************************)
(* should_ignore: events at or below the root are dropped.                 *)
(***************************************************************************)
Current(s) == s > EffectiveRoot(hist)

Quiet == UNCHANGED <<operator, world, faults>>

BlockEvent ==
    /\ queue # <<>>
    /\ LET b == Head(queue)
       IN  Apply(IF Current(b.slot) THEN OnBlock(Context, b) ELSE Context)
    /\ queue' = Tail(queue)
    /\ UNCHANGED <<operator, banks, replayed, bankRoot, kickoff, poolFinal, faults>>

BlockNotarized(b) ==
    /\ Current(b.slot)
    /\ Apply(OnBlockNotarized(Context, b))
    /\ Quiet

FirstShred(s) ==
    /\ Current(s)
    /\ Apply(OnFirstShred(Context, s))
    /\ Quiet

ParentReadyEvent(r) ==
    /\ Current(r.slot)
    /\ Apply(handle_parent_ready_event(Context, r.slot, r.parent))
    /\ Quiet

(***************************************************************************)
(* The pool kicks the loop off with a ParentReady event for the slot after *)
(* the root, or for the highest ready slot of the restored history.        *)
(***************************************************************************)
OnKickOff(c, r) ==
    IF Current(r.slot) THEN handle_parent_ready_event(c, r.slot, r.parent) ELSE c

KickOff(r) ==
    /\ Apply(OnKickOff(Context, r))
    /\ kickoff' = {}
    /\ UNCHANGED <<operator, banks, replayed, queue, bankRoot, poolFinal, faults>>

(***************************************************************************)
(* A timer set for a slot runs to the end of the slot's window.            *)
(***************************************************************************)
Timed(s) == \E t \in timers : t <= s /\ s <= LastOfWindow(t)

TimeoutCrashedLeader(s) ==
    /\ s \in timers
    /\ Current(s)
    /\ Apply(OnTimeoutCrashedLeader(Context, s))
    /\ Quiet

Timeout(s) ==
    /\ Timed(s)
    /\ Current(s)
    /\ Apply(OnTimeout(Context, s))
    /\ Quiet

(***************************************************************************)
(* The pool raises these two once it holds an own first vote of the slot   *)
(* that is not to notarize b, respectively not to skip s.                  *)
(***************************************************************************)
MayBeSafeToNotar(b) ==
    \E v \in own : /\ v.slot = b.slot
                   /\ v.type \in {"Notarize", "Skip"}
                   /\ v # Notarize(b)

MayBeSafeToSkip(s) == \E v \in own : v.slot = s /\ v.type = "Notarize"

SafeToNotar(b) ==
    /\ MayBeSafeToNotar(b)
    /\ Current(b.slot)
    /\ Apply(OnSafeToNotar(Context, b))
    /\ Quiet

SafeToSkip(s) ==
    /\ MayBeSafeToSkip(s)
    /\ Current(s)
    /\ Apply(OnSafeToSkip(Context, s))
    /\ Quiet

(***************************************************************************)
(* The pool's highest finalized slot is updated before the event is sent,  *)
(* and Finalized and Standstill events come from the pool in order.        *)
(***************************************************************************)
Finalized(b) ==
    /\ Apply(IF Current(b.slot) THEN OnFinalized(Context, b) ELSE Context)
    /\ poolFinal' = IF poolFinal = {} THEN {b.slot} ELSE {Larger(b.slot, s) : s \in poolFinal}
    /\ UNCHANGED <<operator, banks, replayed, queue, bankRoot, kickoff, faults>>

StandstillSlot == IF poolFinal = {} THEN bankRoot ELSE CHOOSE s \in poolFinal : TRUE

Standstill ==
    /\ StandstillSlot >= EffectiveRoot(hist)
    /\ Apply(OnStandstill(Context, StandstillSlot))
    /\ Quiet

SetIdentity(isStaked) ==
    /\ Fault("switch")
    /\ Apply(handle_set_identity(Context, isStaked))
    /\ staked' = isStaked
    /\ UNCHANGED <<keys, world>>

-----------------------------------------------------------------------------

(***************************************************************************)
(* The admin RPC adds an authorized voter key or removes them all.         *)
(***************************************************************************)
SetVoter ==
    /\ Fault("voter")
    /\ keys' = ~keys
    /\ UNCHANGED <<local, disk, staked, world, ok>>

(***************************************************************************)
(* The ancestors of b, b included.                                         *)
(***************************************************************************)
Chain(b) ==
    LET f[s \in Slot] ==    \* the block of the chain at or below slot s
            IF s >= b.slot THEN b
            ELSE IF f[s + 1].slot <= s \/ f[s + 1] = Genesis THEN f[s + 1]
            ELSE Parent[f[s + 1]]
    IN  {f[s] : s \in Slot}

(***************************************************************************)
(* Replay freezes a bank of a block whose parent is frozen, and queues its *)
(* Block event.  If it replayed another version of the slot before, that   *)
(* bank and its descendants are gone.                                      *)
(***************************************************************************)
Replaced(b) == {o \in banks : \E a \in Chain(o) : a.slot = b.slot /\ a # b}

Freeze(b) ==
    /\ b \notin replayed
    /\ b.slot > bankRoot
    /\ Parent[b] \in banks \cup {Genesis}
    /\ Len(queue) < MaxQueued
    /\ banks' = (banks \ Replaced(b)) \cup {b}
    /\ replayed' = replayed \cup {b}
    /\ queue' = Append(queue, b)
    /\ UNCHANGED <<local, disk, operator, bankRoot, kickoff, poolFinal, faults, ok>>

(***************************************************************************)
(* The replay thread takes the SetRoot command.  It drops it if the bank   *)
(* has been replaced meanwhile; otherwise it prunes the banks that do not  *)
(* descend from the new root.                                              *)
(***************************************************************************)
MatchesFrozenBank(b) == b \in banks /\ b.slot > bankRoot

ProcessSetRoot(b) ==
    /\ setRoot' = {}
    /\ bankRoot' = IF MatchesFrozenBank(b) THEN b.slot ELSE bankRoot
    /\ banks' = {o \in banks : MatchesFrozenBank(b) => b \in Chain(o)}
    /\ UNCHANGED <<hist, pending, finalized, shreds, standstill, timers, highest, own,
                   disk, operator, replayed, queue, kickoff, poolFinal, faults, ok>>

(***************************************************************************)
(* What the handlers of the events at hand that may vote would do.         *)
(***************************************************************************)
Handled ==
    {OnBlock(Context, queue[i]) : i \in {i \in DOMAIN queue : i = 1 /\ Current(queue[i].slot)}}
    \cup {OnBlockNotarized(Context, b) : b \in {b \in Notarizable : Current(b.slot)}}
    \cup {OnKickOff(Context, r) : r \in kickoff}
    \cup {handle_parent_ready_event(Context, r.slot, r.parent) :
              r \in {r \in Readyable : Current(r.slot)}}
    \cup {OnTimeout(Context, s) : s \in {s \in Slot : Timed(s) /\ Current(s)}}
    \cup {OnFinalized(Context, b) : b \in {b \in Finalizable : Current(b.slot)}}
    \cup {OnSafeToNotar(Context, b) :
              b \in {b \in Blocks : MayBeSafeToNotar(b) /\ Current(b.slot)}}
    \cup {OnSafeToSkip(Context, s) :
              s \in {s \in Slot : MayBeSafeToSkip(s) /\ Current(s)}}

(***************************************************************************)
(* The block the cluster roots in a slot, for a snapshot to start from.    *)
(***************************************************************************)
RootBlocks == Finalizable \cup {Genesis}

InitialParentReady(h, root) ==
    LET first == [slot |-> root.slot + 1, parent |-> root]
        best == highest_parent_ready(h)
    IN  IF \E r \in best : r.slot > first.slot THEN best
        ELSE When(first.slot \in Slot, {first})

(***************************************************************************)
(* The votor loop as it starts with history h, identity and voter keys.    *)
(***************************************************************************)
Start(h, root, signs) ==
    LET g == initialize_genesis(h, Genesis)
    IN  /\ hist' = g
        /\ ok' = (ok /\ MayInitialize(h, Genesis))
        /\ own' = OwnVotes(g, Larger(g.root, root.slot), signs)
        /\ kickoff' = InitialParentReady(h, root)
        /\ bankRoot' = root.slot
        /\ setRoot' = {}
        /\ banks' = {root} \ {Genesis}
        /\ pending' = EmptyPending
        /\ finalized' = {} /\ shreds' = {} /\ standstill' = {} /\ timers' = {}
        /\ highest' = [slot |-> 0, parent |-> Genesis]
        /\ replayed' = {} /\ queue' = <<>> /\ poolFinal' = {}

(***************************************************************************)
(* The histories a crash may leave on disk: the last one saved, or any of  *)
(* those that an event in progress saves.                                  *)
(***************************************************************************)
Survivors ==
    {stored} \cup UNION {{c.saves[i] : i \in DOMAIN c.saves} : c \in Handled}

Fresh(h, root) ==    \* mutant: gives up a history that is behind the snapshot
    IF h.root < root THEN NewHistory(root) ELSE h

Aged(h, root) == IF h.root < root THEN set_root(h, root) ELSE h

(***************************************************************************)
(* The validator stops and starts again from the history on disk and from  *)
(* a snapshot, older or newer than the root it had.                        *)
(***************************************************************************)
Crash(h, root) ==
    /\ Fault("crash")
    /\ stored' = h
    /\ signed' = signed \cup h.votes_cast
    /\ keys' = TRUE
    /\ Start(Aged(IF staked THEN h ELSE NewHistory(0), root.slot), root, staked)
    /\ UNCHANGED <<sent, staked>>

Init ==
    /\ hist = initialize_genesis(NewHistory(0), Genesis)
    /\ ok = TRUE
    /\ own = {}
    /\ kickoff = {[slot |-> Genesis.slot + 1, parent |-> Genesis]}
    /\ bankRoot = Genesis.slot
    /\ setRoot = {}
    /\ banks = {}
    /\ pending = EmptyPending
    /\ finalized = {} /\ shreds = {} /\ standstill = {} /\ timers = {}
    /\ highest = [slot |-> 0, parent |-> Genesis]
    /\ replayed = {} /\ queue = <<>> /\ poolFinal = {}
    /\ stored = NewHistory(0)
    /\ signed = {}
    /\ sent = {}
    /\ staked = TRUE
    /\ keys = TRUE
    /\ faults = <<>>

Event ==
    \/ BlockEvent
    \/ \E b \in Notarizable : BlockNotarized(b)
    \/ \E b \in Blocks : SafeToNotar(b)
    \/ \E b \in Finalizable : Finalized(b)
    \/ \E r \in Readyable : ParentReadyEvent(r)
    \/ \E r \in kickoff : KickOff(r)
    \/ \E s \in Slot : TimeoutCrashedLeader(s) \/ Timeout(s) \/ SafeToSkip(s)
    \/ \E s \in ShredSlots : FirstShred(s)
    \/ Standstill

Environment ==
    \/ \E i \in BOOLEAN : SetIdentity(i)
    \/ SetVoter
    \/ \E b \in Blocks : Freeze(b)
    \/ \E b \in setRoot : ProcessSetRoot(b)
    \/ \E h \in Survivors, root \in RootBlocks : Crash(h, root)

Next == Event \/ Environment

Spec == Init /\ [][Next]_vars

-----------------------------------------------------------------------------

(***************************************************************************)
(* No assertion of vote_history.rs or event_handler.rs fails: no slot      *)
(* below the root is looked up, no vote that add_vote refuses is cast, the *)
(* genesis block agrees with the history, and a standstill is reported at  *)
(* the slot it started at (debug_assert_eq in the Standstill handler).     *)
(***************************************************************************)
NoPanic == ok

(***************************************************************************)
(* The event loop implements the abstract voter: whatever order blocks,    *)
(* certificates, timeouts and signals come in, and across crashes and      *)
(* identity switches, the votes it signs and saves follow the voting rules *)
(* one by one, also those a crash keeps from being sent: a block inside a  *)
(* leader window only after its parent, a vote to finalize only after the  *)
(* vote for the certified block, and no fallback beside it.                *)
(***************************************************************************)
Abstract == INSTANCE Voter WITH
    cast <- signed,
    complete <- \A i \in DOMAIN faults : faults[i] # "voter",
    certified <- Notarizable

ImplementsVoter == Abstract!VoterSpec

Waiting(b) == \E i \in DOMAIN pending[b.slot] : pending[b.slot][i] = b

(***************************************************************************)
(* No vote is forgotten.  Between two events no pending block could be     *)
(* notarized and no notarized block could be finalized; and a replayed     *)
(* block whose event was handled is voted on, pending or below the root,   *)
(* whatever order blocks, certificates and parents came in                 *)
(* (check_pending_blocks after every vote and every ready parent).         *)
(***************************************************************************)
NoForgottenVotes ==
    /\ \A b \in Blocks : Waiting(b) => ~MayNotarize(hist, b)
    /\ \A b \in hist.notarized_blocks : b.slot > hist.root => ~MayFinalize(hist, b)
    /\ \A b \in replayed :
           \/ \E i \in DOMAIN queue : queue[i] = b
           \/ b.slot <= EffectiveRoot(hist)
           \/ voted(hist, b.slot)
           \/ Waiting(b)

(***************************************************************************)
(* Roots advance one way and votes never fall behind them: while the loop  *)
(* runs under one identity neither root moves back, the bank root follows  *)
(* the votor root, and a new vote is above both (should_ignore).           *)
(***************************************************************************)
RootsLead ==
    [][faults' = faults =>
           /\ hist'.root >= hist.root
           /\ bankRoot' >= bankRoot
           /\ bankRoot' > bankRoot => bankRoot' <= hist.root
           /\ \A v \in own' \ own : v.slot > EffectiveRoot(hist)]_vars
=============================================================================
