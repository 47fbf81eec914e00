------------------------------- MODULE NetSeq -------------------------------
(***************************************************************************)
(* Sequence numbers as the client and the server compare them.  Both sides *)
(* keep a uint32_t counter and decide "newer" on the sign of the 32-bit    *)
(* difference (net_seq_newer in net_client.cpp, tick_newer in              *)
(* server_session.cpp), so that a counter may wrap.                        *)
(*                                                                         *)
(* The width is a parameter: counters live in 0..CounterMod-1 and CounterMod is    *)
(* twice HalfWindow (HalfWindow is 2^31 in the code).                      *)
(***************************************************************************)
EXTENDS Integers

CONSTANT HalfWindow     \* half the number of values a counter can take

ASSUME HalfWindowAssumption == HalfWindow \in Nat \ {0}

CounterMod == 2 * HalfWindow

Seqs == 0..(CounterMod - 1)

\* The value a counter shows on the wire after n increments from zero.
Wire(n) == n % CounterMod

\* mutant: an unsigned comparison
NewerUnsigned(incoming, last_seen) == incoming > last_seen

\* incoming != last_seen && static_cast<int32_t>(incoming - last_seen) > 0
Newer(incoming, last_seen) ==
    /\ incoming # last_seen
    /\ (incoming - last_seen) % CounterMod < HalfWindow
=============================================================================
