------------------------------- MODULE Voter -------------------------------
(***************************************************************************)
(* What the rest of the cluster sees of a validator that votes: a growing  *)
(* set of votes, each of them allowed by the votes before it.              *)
(***************************************************************************)
EXTENDS VotingRules, SequencesExt

VARIABLES
    cast,       \* the votes signed for the voting service
    complete,   \* every vote decided on was signed: the voter keys were there
    certified   \* the blocks that may have a notarization certificate

voterVars == <<cast, complete>>

VoterInit == cast = {} /\ complete = TRUE

(***************************************************************************)
(* One event may cast several votes, one after the other.                  *)
(***************************************************************************)
InTurn(order) ==
    \A i \in DOMAIN order :
        MayCast(cast \cup {order[j] : j \in 1..(i - 1)}, order[i], certified)

CastVotes ==
    /\ complete
    /\ cast \subseteq cast'
    /\ \E order \in SetToSeqs(cast' \ cast) : InTurn(order)
    /\ UNCHANGED complete

(***************************************************************************)
(* Without its keys a validator decides on votes that are not seen.  It    *)
(* still casts none that contradicts another.                              *)
(***************************************************************************)
LoseKeys ==
    /\ complete' = FALSE
    /\ UNCHANGED cast

CastSome ==
    /\ ~complete
    /\ cast \subseteq cast'
    /\ \A v \in cast' \ cast : ~Contradicts(InSlot(cast', v.slot) \ {v}, v)
    /\ UNCHANGED complete

VoterNext == CastVotes \/ LoseKeys \/ CastSome

VoterSpec == VoterInit /\ [][VoterNext]_voterVars
=============================================================================
