----------------------------- MODULE TickPacing -----------------------------
(***************************************************************************)
(* The two clocks of a game with a local server: RuntimeGameSession counts *)
(* the fixed steps of the client, from the durations of its frames, and    *)
(* NetServer::pump the ticks of the server, from a clock it reads itself   *)
(* in whole milliseconds.  Both make up for time in which they were not    *)
(* called, up to a limit, and the limits are not the same.                 *)
(*                                                                         *)
(* Time is in thirds of a millisecond, in which a tick of 1/60 s is 50.    *)
(* What a frame does takes no time here: all of it passes between frames.  *)
(***************************************************************************)
EXTENDS Integers

CONSTANTS
    TickTime,           \* kServerSimTickMs, fixed_dt
    Longest,        \* what either counts of the time between two calls: 250 ms
    MaxCatchup,     \* kMaxCatchupTicksPerPump
    Frames          \* bound: durations of frames

\* 250 ms are a number of whole ticks, and more than the server makes up for.
ASSUME TickPacingAssumption ==
    /\ TickTime \in Nat \ {0}
    /\ Longest \in Nat /\ Longest % TickTime = 0
    /\ MaxCatchup \in Nat /\ MaxCatchup * TickTime + 2 <= Longest
    /\ Frames \subseteq Nat

VARIABLES
    clock,              \* now_ms, its part below a millisecond
    session_time,       \* RuntimeGameSession: fixed.accumulator
    running,            \* local_server_running_
    pumped,             \* last_pump_ms is set
    server_time,        \* NetServer: sim_accumulator_ms
    lead                \* history: steps of the client ahead of the server's ticks, since
                        \* the server started or was last left without time to catch up

pacing_vars == <<clock, session_time, running, pumped, server_time, lead>>

Least(a, b) == IF a < b THEN a ELSE b

\* RuntimeGameSession::advance
StepsIn(frame) == (session_time + Least(frame, Longest)) \div TickTime
TimeLeftAfter(frame) == (session_time + Least(frame, Longest)) % TickTime

\* now_ms - last_pump_ms, and what pump makes of it
Elapsed(frame) == IF pumped THEN 3 * ((clock + frame) \div 3) ELSE 0
Due(frame) == server_time + Least(Elapsed(frame), Longest)

\* The catch-up loop, and how many rounds of it
TicksIn(due) == Least(due \div TickTime, MaxCatchup)

\* mutant: what the limit keeps from being made up for waits for the next pump
KeepsTheRest(due) == due - TicksIn(due) * TickTime

\* What the loop leaves, of which whole ticks are dropped
RestOf(due) ==
    LET rest == due - TicksIn(due) * TickTime
    IN  IF TicksIn(due) = MaxCatchup /\ rest >= TickTime THEN rest % TickTime ELSE rest
-----------------------------------------------------------------------------
PacingInit ==
    /\ clock = 0
    /\ session_time = 0
    /\ running = FALSE /\ pumped = FALSE
    /\ server_time = 0
    /\ lead = 0

\* NetServer::init
StartServer ==
    /\ ~running
    /\ running' = TRUE /\ pumped' = FALSE
    /\ server_time' = 0
    /\ lead' = 0
    /\ UNCHANGED <<clock, session_time>>

StopServer ==
    /\ running
    /\ running' = FALSE /\ pumped' = FALSE
    /\ server_time' = 0
    /\ lead' = 0
    /\ UNCHANGED <<clock, session_time>>

\* More than the server makes up for in one pump, by its own count
Stall(frame) == Elapsed(frame) > MaxCatchup * TickTime

\* Engine::tick: one pump, then a fixed step and another pump as often as time allows.
\* No time passes between those pumps, so that the first has done all there is to do.
PacingFrame(frame) ==
    /\ clock' = (clock + frame) % 3
    /\ session_time' = TimeLeftAfter(frame)
    /\ pumped' = running
    /\ server_time' = IF running THEN RestOf(Due(frame)) ELSE server_time
    /\ lead' = IF ~running \/ ~pumped \/ Stall(frame) THEN 0
               ELSE lead + StepsIn(frame) - TicksIn(Due(frame))
    /\ UNCHANGED running

PacingNext ==
    \/ StartServer
    \/ StopServer
    \/ \E frame \in Frames : PacingFrame(frame)

PacingSpec == PacingInit /\ [][PacingNext]_pacing_vars
-----------------------------------------------------------------------------
\* However frames and ticks fall, client and server of one game stay together as long as
\* no frame takes longer than the server can make up for: they differ by the tick that
\* one has begun and the other has not, and by one more where a millisecond is not over.
\* Neither carries a whole tick into the next frame, which would let it fall behind for
\* good.  About the two limits on catching up, and what is dropped at them.
ClocksAreClose ==
    /\ lead \in -2..2
    /\ session_time \in 0..TickTime - 1
    /\ server_time \in 0..TickTime - 1

\* No frame asks for more steps than a quarter of a second has.
NoSpiral == \A frame \in Frames : StepsIn(frame) * TickTime <= Longest

\* The two together: the clocks of client and server stay together, and no frame asks
\* for more than a quarter of a second.
ClocksStayTogether == ClocksAreClose /\ NoSpiral
=============================================================================
