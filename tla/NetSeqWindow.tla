---------------------------- MODULE NetSeqWindow ----------------------------
(***************************************************************************)
(* One wrapping counter over an unreliable channel: the sender numbers its *)
(* messages with a post-incremented uint32_t (next_snapshot_sequence,      *)
(* next_player_state_sequence, the input tick), the channel loses and      *)
(* reorders them, and the receiver keeps a message only when its number is *)
(* newer than the last one it kept.                                        *)
(*                                                                         *)
(* sent, inflight and kept count without wrapping: they are what really    *)
(* happened.  last is what the receiver stores, a wrapped value, and its   *)
(* verdict uses nothing else.  SilenceBound is the assumption the wrapped  *)
(* comparison rests on: fewer than HalfWindow numbers are spent between    *)
(* two messages the receiver keeps, and no message outlives that window    *)
(* (2^31 messages: two years of snapshots at 30 Hz).                       *)
(***************************************************************************)
EXTENDS NetSeq

CONSTANT MaxSent        \* bound on the number of messages sent

ASSUME MaxSentAssumption == MaxSent \in Nat

VARIABLES
    sent,       \* messages numbered so far; the next one is number sent + 1
    inflight,   \* true numbers of the messages the channel still carries
    has_last,   \* has_last_snapshot_sequence / has_last_input_tick
    last,       \* last_snapshot_sequence / last_input.tick, wrapped
    kept        \* ghost: true number of the last message kept, 0 for none

window_vars == <<sent, inflight, has_last, last, kept>>

WindowTypeOK ==
    /\ sent \in Nat
    /\ inflight \subseteq 1..sent
    /\ has_last \in BOOLEAN
    /\ last \in Seqs
    /\ kept \in 0..sent

WindowInit ==
    /\ sent = 0
    /\ inflight = {}
    /\ has_last = FALSE
    /\ last = 0
    /\ kept = 0

\* Every message still in flight, and the last one kept, is recent.
SilenceBound(n) ==
    /\ \A x \in inflight : n - x < HalfWindow
    /\ has_last => n - kept < HalfWindow

Send ==
    /\ sent < MaxSent
    /\ SilenceBound(sent + 1)
    /\ sent' = sent + 1
    /\ inflight' = inflight \cup {sent + 1}
    /\ UNCHANGED <<has_last, last, kept>>

Lose(x) ==
    /\ inflight' = inflight \ {x}
    /\ UNCHANGED <<sent, has_last, last, kept>>

\* The verdict on a received number, from the wrapped values alone.
Accepts(x) == ~has_last \/ Newer(Wire(x), last)

Keep(x) ==
    /\ Accepts(x)
    /\ inflight' = inflight \ {x}
    /\ has_last' = TRUE
    /\ last' = Wire(x)
    /\ kept' = x
    /\ UNCHANGED sent

Discard(x) ==
    /\ ~Accepts(x)
    /\ inflight' = inflight \ {x}
    /\ UNCHANGED <<sent, has_last, last, kept>>

WindowNext ==
    \/ Send
    \/ \E x \in inflight : Lose(x) \/ Keep(x) \/ Discard(x)

WindowSpec == WindowInit /\ [][WindowNext]_window_vars

-----------------------------------------------------------------------------
\* The wrapped comparison gives the verdict of the true numbers for every
\* message in flight: nothing stale or repeated is kept and nothing fresh is
\* refused, before, at and after a wrap of the counter.  About net_seq_newer
\* and tick_newer.
VerdictIsTrueOrder ==
    has_last => \A x \in inflight : Newer(Wire(x), last) <=> x > kept

\* What the receiver holds never goes back to an older message, however often
\* the counter wraps and whatever the channel reorders.  About the Snapshot and
\* PlayerState cases of NetClient::pump and about accept_input.
NeverOlder == [][kept' >= kept]_window_vars

\* The inductive invariant behind both: the stored value is the true number
\* wrapped, and everything that can still arrive is within half a window of it.
Window ==
    /\ WindowTypeOK
    /\ has_last => last = Wire(kept) /\ sent - kept < HalfWindow
    /\ ~has_last => kept = 0
    /\ \A x \in inflight : sent - x < HalfWindow
=============================================================================
