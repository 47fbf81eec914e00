----------------------------- MODULE PartsProofs -----------------------------
(***************************************************************************)
(* Proofs about the parts of the client that MCParts checks side by side   *)
(* and that share no state: sequence numbers, save files, the voyage, the  *)
(* controls of the desktop, the Android app, the two clocks, the player    *)
(* on foot, the formats of messages and saved games, and the minigames.    *)
(***************************************************************************)
EXTENDS NetSeqWindow, SaveFile, Voyage, DesktopControls, AndroidApp, TickPacing, PlayerMotion,
        NetCodec, SaveFormat, Minigames, SequenceTheorems, FiniteSetTheorems, WellFoundedInduction, TLAPS

-----------------------------------------------------------------------------
(* Wrapping sequence numbers: the comparison of NetSeq agrees with the true *)
(* order inside half a window, for every counter width, and NetSeqWindow    *)
(* therefore never keeps an older message.                                  *)

\* A remainder lies below its modulus.
LEMMA ModRange ==
    ASSUME NEW m \in Nat \ {0}, NEW a \in Int
    PROVE  a % m \in 0..(m - 1)
  BY SMT

\* Division with remainder.
LEMMA ModDivision ==
    ASSUME NEW m \in Nat \ {0}, NEW a \in Int
    PROVE  a = m * (a \div m) + (a % m)
  BY SMT

\* The remainder is the only number below the modulus that divides out.
LEMMA ModUnique ==
    ASSUME NEW m \in Nat \ {0}, NEW a \in Int, NEW q \in Int,
           NEW r \in 0..(m - 1), a = m * q + r
    PROVE  a % m = r
  BY SMTT(30)

\* Wrapping both operands of a difference does not change the wrapped difference.
LEMMA WireDifference ==
    ASSUME NEW m \in Nat \ {0}, NEW x \in Int, NEW y \in Int
    PROVE  ((x % m) - (y % m)) % m = (x - y) % m
  <1> DEFINE qx == x \div m
             qy == y \div m
             rx == x % m
             ry == y % m
             p == (rx - ry) \div m
             s == (rx - ry) % m
  <1>1. qx \in Int /\ qy \in Int /\ rx \in Int /\ ry \in Int
    BY ModRange
  <1>2. p \in Int /\ s \in 0..(m - 1)
    BY <1>1, ModRange
  <1>3. x = m * qx + rx /\ y = m * qy + ry
    BY ModDivision
  <1>4. rx - ry = m * p + s
    BY <1>1, ModDivision
  <1> HIDE DEF qx, qy, rx, ry, p, s
  <1>5. x - y = m * ((qx - qy) + p) + s
    BY <1>1, <1>2, <1>3, <1>4
  <1>6. (qx - qy) + p \in Int /\ x - y \in Int
    BY <1>1, <1>2
  <1>7. (x - y) % m = s
    BY <1>2, <1>5, <1>6, ModUnique
  <1> QED
    BY <1>7 DEF s, rx, ry

\* Newer agrees with the order of the true numbers whenever they are less than
\* half a window apart: what the signed 32-bit difference of net_seq_newer and
\* tick_newer relies on.
THEOREM NewerIsTrueOrder ==
    ASSUME NEW x \in Nat, NEW y \in Nat,
           x - y < HalfWindow, y - x < HalfWindow
    PROVE  Newer(Wire(x), Wire(y)) <=> x > y
  <1>1. HalfWindow \in Nat /\ CounterMod \in Nat \ {0} /\ CounterMod = 2 * HalfWindow
    BY HalfWindowAssumption DEF CounterMod
  <1>2. (Wire(x) - Wire(y)) % CounterMod = (x - y) % CounterMod
    <2>1. x \in Int /\ y \in Int
      OBVIOUS
    <2>2. ((x % CounterMod) - (y % CounterMod)) % CounterMod = (x - y) % CounterMod
      BY ONLY <1>1, <2>1, WireDifference
    <2> QED
      BY <2>2 DEF Wire
  <1>3. CASE x > y
    <2>1. x - y \in 0..(CounterMod - 1) /\ x - y = CounterMod * 0 + (x - y)
      BY <1>1, <1>3
    <2>2. (x - y) % CounterMod = x - y
      BY <1>1, <2>1, ModUnique
    <2>3. 0 \in 0..(CounterMod - 1) /\ 0 = CounterMod * 0 + 0
      BY <1>1
    <2>4. 0 % CounterMod = 0
      BY <1>1, <2>3, ModUnique
    <2>5. Wire(x) \in Int /\ Wire(y) \in Int
      BY <1>1, ModRange DEF Wire
    <2>6. Wire(x) # Wire(y)
      <3>1. SUFFICES ASSUME Wire(x) = Wire(y) PROVE FALSE
        OBVIOUS
      <3>2. Wire(x) - Wire(y) = 0
        BY <2>5, <3>1
      <3>3. x - y = 0
        BY <1>2, <2>2, <2>4, <3>2
      <3> QED
        BY <1>3, <3>3
    <2> QED
      BY <1>2, <1>3, <2>2, <2>6 DEF Newer
  <1>4. CASE x = y
    BY <1>4 DEF Newer
  <1>5. CASE x < y
    <2>1. CounterMod + (x - y) \in 0..(CounterMod - 1)
          /\ x - y = CounterMod * (-1) + (CounterMod + (x - y))
      BY <1>1, <1>5
    <2>2. (x - y) % CounterMod = CounterMod + (x - y)
      BY <1>1, <2>1, ModUnique
    <2>3. ~((x - y) % CounterMod < HalfWindow)
      BY <1>1, <2>2
    <2> QED
      BY <1>2, <1>5, <2>3 DEF Newer
  <1> QED
    BY <1>3, <1>4, <1>5

-----------------------------------------------------------------------------
\* In a state of the invariant the receiver's verdict is the true order.
LEMMA WindowVerdict ==
    ASSUME Window PROVE VerdictIsTrueOrder
  <1> SUFFICES ASSUME has_last, NEW x \in inflight
               PROVE  Newer(Wire(x), last) <=> x > kept
    BY DEF VerdictIsTrueOrder
  <1>1. x \in Nat /\ kept \in Nat /\ sent \in Nat /\ x <= sent /\ kept <= sent
    BY DEF Window, WindowTypeOK
  <1>2. x - kept < HalfWindow /\ kept - x < HalfWindow
    BY <1>1, HalfWindowAssumption DEF Window
  <1>3. last = Wire(kept)
    BY DEF Window
  <1> QED
    BY <1>1, <1>2, <1>3, NewerIsTrueOrder

\* Nothing was sent yet.
LEMMA InitSeqWindow == WindowInit => Window
  <1> SUFFICES ASSUME WindowInit PROVE Window
    OBVIOUS
  <1>1. last \in Seqs
    BY HalfWindowAssumption DEF WindowInit, Seqs, CounterMod
  <1>2. has_last \in BOOLEAN
    BY DEF WindowInit
  <1>3. sent \in Nat /\ inflight \subseteq 1..sent /\ kept \in 0..sent
    BY DEF WindowInit
  <1>4. WindowTypeOK
    BY <1>1, <1>2, <1>3 DEF WindowTypeOK
  <1> QED
    BY <1>4 DEF WindowInit, Window

\* Wrapped counters are sequence numbers.
LEMMA WireInSeqs ==
    ASSUME NEW x \in Nat PROVE Wire(x) \in Seqs
  BY HalfWindowAssumption, ModRange DEF Wire, Seqs, CounterMod

\* A kept message is newer than the one it replaces.
LEMMA KeepAdvances ==
    ASSUME Window, NEW x \in inflight, Keep(x) PROVE x > kept
  <1>1. CASE has_last
    BY <1>1, WindowVerdict DEF Keep, Accepts, VerdictIsTrueOrder
  <1>2. CASE ~has_last
    BY <1>2 DEF Window, WindowTypeOK
  <1> QED
    BY <1>1, <1>2

\* Sending, losing, keeping and dropping keep the window.
LEMMA StepWindow == Window /\ [WindowNext]_window_vars => Window'
  <1> SUFFICES ASSUME Window, [WindowNext]_window_vars PROVE Window'
    OBVIOUS
  <1> USE HalfWindowAssumption
  <1>1. CASE Send
    BY <1>1 DEF Send, SilenceBound, Window, WindowTypeOK
  <1>2. ASSUME NEW x \in inflight, Lose(x) PROVE Window'
    BY <1>2 DEF Lose, Window, WindowTypeOK
  <1>3. ASSUME NEW x \in inflight, Keep(x) PROVE Window'
    <2>1. x \in Nat /\ x \in 1..sent /\ sent - x < HalfWindow
      BY DEF Window, WindowTypeOK
    <2>2. Wire(x) \in Seqs
      BY <2>1, WireInSeqs
    <2> QED
      BY <1>3, <2>1, <2>2 DEF Keep, Window, WindowTypeOK
  <1>4. ASSUME NEW x \in inflight, Discard(x) PROVE Window'
    BY <1>4 DEF Discard, Window, WindowTypeOK
  <1>5. CASE UNCHANGED window_vars
    BY <1>5 DEF window_vars, Window, WindowTypeOK
  <1> QED
    BY <1>1, <1>2, <1>3, <1>4, <1>5 DEF WindowNext

\* The window invariant holds for every counter width.
THEOREM WindowInvariant == WindowSpec => []Window
  BY InitSeqWindow, StepWindow, PTL DEF WindowSpec

\* Every message in flight is judged by its true age, for every counter width.
THEOREM VerdictInvariant == WindowSpec => []VerdictIsTrueOrder
  BY WindowInvariant, WindowVerdict, PTL

\* The receiver never goes back to an older message, for every counter width.
THEOREM NeverOlderHolds == WindowSpec => NeverOlder
  <1>1. ASSUME Window, [WindowNext]_window_vars PROVE [kept' >= kept]_window_vars
    <2>1. kept \in Nat
      BY <1>1 DEF Window, WindowTypeOK
    <2>2. ASSUME NEW x \in inflight, Keep(x) PROVE kept' >= kept
      BY <1>1, <2>1, <2>2, KeepAdvances DEF Keep, Window, WindowTypeOK
    <2> QED
      BY <1>1, <2>1, <2>2 DEF WindowNext, Send, Lose, Discard, window_vars
  <1> QED
    BY <1>1, WindowInvariant, PTL DEF WindowSpec, NeverOlder

-----------------------------------------------------------------------------
(* SaveFile implements SaveCell, whatever the games are.  FilesInv is       *)
(* inductive as it stands; the refinement follows action by action.         *)

LEMMA InitFiles == SaveInit => FilesInv
  BY SaveFileAssumption DEF SaveInit, FilesInv, SaveTypeOK, FilesInOrder, Calls, Contents,
     Replaced

\* No call of the file system breaks FilesInv.
LEMMA StepFiles == FilesInv /\ [SaveNext]_save_vars => FilesInv'
  <1> SUFFICES ASSUME FilesInv, [SaveNext]_save_vars PROVE FilesInv'
    OBVIOUS
  <1> USE SaveFileAssumption DEF FilesInv, SaveTypeOK, FilesInOrder, Calls, Contents,
          Replaced, Calling, Then
  <1>1. CASE \E g \in Games : BeginSave(g)
    BY <1>1 DEF BeginSave
  <1>2. CASE OpenTemp
    BY <1>2 DEF OpenTemp
  <1>3. CASE WriteTemp
    BY <1>3 DEF WriteTemp
  <1>4. CASE Replace
    BY <1>4 DEF Replace
  <1>5. CASE TestExists
    BY <1>5 DEF TestExists
  <1>6. CASE RemoveBackup
    BY <1>6 DEF RemoveBackup
  <1>7. CASE BackUp
    BY <1>7 DEF BackUp
  <1>8. CASE MoveIn
    BY <1>8 DEF MoveIn
  <1>9. CASE Restore
    BY <1>9 DEF Restore
  <1>10. CASE RemoveTemp
    BY <1>10 DEF RemoveTemp
  <1>11. CASE DropBackup
    BY <1>11 DEF DropBackup
  <1>12. CASE Return \/ Crash
    BY <1>12 DEF Return, Crash
  <1>13. CASE UNCHANGED save_vars
    BY <1>13 DEF save_vars
  <1> QED
    BY <1>1, <1>2, <1>3, <1>4, <1>5, <1>6, <1>7, <1>8, <1>9, <1>10, <1>11, <1>12,
       <1>13 DEF SaveNext, SaveStep

\* Only the temporary file is ever incomplete, and every call finds the files it
\* counts on, wherever a call failed or the process died before.
THEOREM FilesInvHolds == SaveSpec => []FilesInv
  BY InitFiles, StepFiles, PTL DEF SaveSpec

LEMMA InitCell == SaveInit => Cell!Init
  BY SaveFileAssumption DEF SaveInit, Cell!Init, ReadBinaryFile, Replaced

\* A save is a step of the cell where it renames the file into place, where it
\* begins and where it ends; between these, nothing a start would find changes.
LEMMA StepCell == FilesInv /\ [SaveNext]_save_vars => [Cell!Next]_(Cell!vars)
  <1> SUFFICES ASSUME FilesInv, [SaveNext]_save_vars PROVE [Cell!Next]_(Cell!vars)
    OBVIOUS
  <1> USE SaveFileAssumption DEF FilesInv, SaveTypeOK, FilesInOrder, Calls, Contents,
          Replaced, Calling, Then, ReadBinaryFile, Cell!vars
  <1>1. CASE \E g \in Games : BeginSave(g)
    BY <1>1 DEF BeginSave, Cell!Next, Cell!Begin
  <1>2. CASE OpenTemp
    BY <1>2 DEF OpenTemp
  <1>3. CASE WriteTemp
    BY <1>3 DEF WriteTemp
  <1>4. CASE Replace
    BY <1>4 DEF Replace, Cell!Next, Cell!Commit
  <1>5. CASE TestExists
    BY <1>5 DEF TestExists
  <1>6. CASE RemoveBackup
    BY <1>6 DEF RemoveBackup
  <1>7. CASE BackUp
    BY <1>7 DEF BackUp
  <1>8. CASE MoveIn
    BY <1>8 DEF MoveIn, Cell!Next, Cell!Commit
  <1>9. CASE Restore
    BY <1>9 DEF Restore
  <1>10. CASE RemoveTemp
    BY <1>10 DEF RemoveTemp
  <1>11. CASE DropBackup
    BY <1>11 DEF DropBackup
  <1>12. CASE Return \/ Crash
    BY <1>12 DEF Return, Crash, Cell!Next, Cell!End
  <1>13. CASE UNCHANGED save_vars
    BY <1>13 DEF save_vars
  <1> QED
    BY <1>1, <1>2, <1>3, <1>4, <1>5, <1>6, <1>7, <1>8, <1>9, <1>10, <1>11, <1>12,
       <1>13 DEF SaveNext, SaveStep

\* Wherever a save fails or the process dies, a start finds the previous game or
\* the one being saved, in full: SaveFile implements SaveCell.
THEOREM SavesAreAtomicAlways == SaveSpec => SavesAreAtomic
  <1>1. SaveInit => Cell!Init
    BY InitCell
  <1> QED
    BY <1>1, InitFiles, StepFiles, StepCell, PTL DEF SaveSpec, SavesAreAtomic, Cell!Spec

-----------------------------------------------------------------------------
(* The safety properties of Voyage for any set of bodies.  All of them rest *)
(* on disable_gameplay_actions: a course is only ever locked in sky         *)
(* navigation, and a frame that navigates reaches neither the ship's door   *)
(* nor a block, so that whoever has locked a course stays where the course  *)
(* was valid.                                                               *)

\* What disable_gameplay_actions leaves for the rest of the frame
NavigatorsHandsAreFree ==
    phase \in {"assist", "ship", "step", "transfer", "blocks"} /\ navigating
        => ~input.interact /\ ~input.click

VoyageInv ==
    /\ TypeOK
    /\ NavigatorsHandsAreFree
    /\ PilotIsAboard
    /\ CourseStaysValid
    /\ CourseEndsAtTouchdown
    /\ LockedCourseIsPlotted

LEMMA InitVoyage == Init => VoyageInv
  <1> SUFFICES ASSUME Init PROVE VoyageInv
    OBVIOUS
  <1> USE VoyageAssumption DEF Init
  <1>1. TypeOK
    <2>1. input \in Controls /\ thrust \in Thrusts
      BY DEF Released, Controls, NoThrust, Thrusts
    <2>2. {playing, navigating, locked, aboard, landed, flying} \subseteq BOOLEAN
      OBVIOUS
    <2> QED
      BY <2>1, <2>2 DEF TypeOK, Phases
  <1>2. ~locked /\ ~aboard /\ ~navigating
    OBVIOUS
  <1> QED
    BY <1>1, <1>2
       DEF VoyageInv, NavigatorsHandsAreFree, PilotIsAboard, CourseStaysValid,
           CourseEndsAtTouchdown, LockedCourseIsPlotted
-----------------------------------------------------------------------------
\* The expedition stays among its stages.
LEMMA StagesAreTyped ==
    ASSUME stage \in CollectSample..Complete
    PROVE  /\ {OnBlockRemoved, OnBlockPlaced} \subseteq CollectSample..Complete
           /\ \A b : {OnCourseLocked(b), OnLanded(b), OnShipLanded(b)}
                        \subseteq CollectSample..Complete
  BY DEF OnBlockRemoved, OnBlockPlaced, OnCourseLocked, OnLanded, OnShipLanded, Advance,
         CollectSample, DeployBeacon, PlotCourse, ReachAster, Complete

LEMMA StageAfterLocking ==
    ASSUME stage \in CollectSample..Complete PROVE OnCourseLocked(Aster) # PlotCourse
  BY DEF OnCourseLocked, Advance, CollectSample, PlotCourse, ReachAster, Complete

\* Only a course or a block takes the expedition to the stage that waits for a course.
LEMMA StageAfterLanding ==
    ASSUME stage \in CollectSample..Complete, stage # PlotCourse
    PROVE  \A b : OnLanded(b) # PlotCourse /\ OnShipLanded(b) # PlotCourse
  BY DEF OnLanded, OnShipLanded, Advance, CollectSample, PlotCourse, ReachAster, Complete
-----------------------------------------------------------------------------
LEMMA InputStepKeeps == VoyageInv /\ (ReadInput \/ Toggle \/ Select \/ Disable) => VoyageInv'
  <1> SUFFICES ASSUME VoyageInv, ReadInput \/ Toggle \/ Select \/ Disable PROVE VoyageInv'
    OBVIOUS
  <1> USE DEF VoyageInv, NavigatorsHandsAreFree, PilotIsAboard, CourseStaysValid,
              CourseEndsAtTouchdown, LockedCourseIsPlotted, At, Goto, course, ship
  <1>1. CASE ReadInput
    <2>1. TypeOK'
      BY <1>1 DEF ReadInput, TypeOK, Phases
    <2> QED
      BY <1>1, <2>1 DEF ReadInput, ValidTarget
  <1>2. CASE Toggle
    <2>1. CASE ToggleNavigation
      <3>1. locked' = FALSE /\ navigating' \in BOOLEAN /\ target' = target
        BY <2>1 DEF ToggleNavigation
      <3>2. TypeOK'
        BY <1>2, <3>1 DEF Toggle, TypeOK, Phases
      <3> QED
        BY <1>2, <3>1, <3>2 DEF Toggle
    <2>2. CASE UNCHANGED course
      <3>1. TypeOK'
        BY <1>2, <2>2 DEF Toggle, TypeOK, Phases
      <3> QED
        BY <1>2, <2>2, <3>1 DEF Toggle, ValidTarget
    <2> QED
      BY <1>2, <2>1, <2>2 DEF Toggle
  <1>3. CASE Select
    <2>1. CASE UNCHANGED <<course, stage>>
      <3>1. TypeOK'
        BY <1>3, <2>1 DEF Select, TypeOK, Phases
      <3> QED
        BY <1>3, <2>1, <3>1 DEF Select, ValidTarget
    <2>2. CASE navigating /\ SelectTarget
      <3>1. target' \in Celestial \cup {NoTarget}
        BY <2>2 DEF SelectTarget, Selectable, TypeOK
      <3>2. locked' \in BOOLEAN /\ navigating' /\ navigating' \in BOOLEAN
        BY <2>2 DEF SelectTarget, StillLocked, TypeOK
      <3>3. stage' \in CollectSample..Complete
        BY <2>2, StagesAreTyped DEF SelectTarget, TypeOK
      <3>4. TypeOK'
        BY <1>3, <3>1, <3>2, <3>3 DEF Select, TypeOK, Phases
      <3>5. CASE StillLocked
        <4>1. target' = target /\ (locked' => UNCHANGED stage)
          BY <2>2, <3>5 DEF SelectTarget
        <4>2. locked
          BY <3>5 DEF StillLocked
        <4> QED
          BY <1>3, <3>2, <3>4, <4>1, <4>2 DEF Select, ValidTarget
      <3>6. CASE ~StillLocked
        <4>1. ASSUME locked'
              PROVE  ValidTarget(target', FALSE) /\ stage' = OnCourseLocked(target')
          BY <2>2, <3>6, <4>1 DEF SelectTarget, ValidTarget
        <4>2. locked' => target' # active
          BY <4>1 DEF ValidTarget
        <4>3. locked' /\ target' = Aster => stage' # PlotCourse
          BY <4>1, StageAfterLocking DEF TypeOK
        <4>4. locked' => ValidTarget(target, TRUE)'
          BY <1>3, <4>1 DEF ValidTarget, Select
        <4> QED
          BY <1>3, <3>2, <3>4, <4>2, <4>3, <4>4 DEF Select
      <3> QED
        BY <3>5, <3>6
    <2> QED
      BY <1>3, <2>1, <2>2 DEF Select
  <1>4. CASE Disable
    <2>1. Disabled \in Controls /\ ~Disabled.interact /\ ~Disabled.click
      BY DEF Disabled, Released, Controls, TypeOK
    <2>2. input' \in Controls /\ (navigating => ~input'.interact /\ ~input'.click)
      BY <1>4, <2>1 DEF Disable, TypeOK
    <2>3. TypeOK'
      BY <1>4, <2>2 DEF Disable, TypeOK, Phases
    <2> QED
      BY <1>4, <2>2, <2>3 DEF Disable, ValidTarget
  <1> QED
    BY <1>1, <1>2, <1>3, <1>4
-----------------------------------------------------------------------------
LEMMA PlayerStepKeeps ==
    VoyageInv /\ (Arrive \/ FlyAlong \/ Unassisted \/ Board \/ StayOut \/ Leave \/ Pilot)
        => VoyageInv'
  <1> SUFFICES ASSUME VoyageInv,
                      Arrive \/ FlyAlong \/ Unassisted \/ Board \/ StayOut \/ Leave \/ Pilot
               PROVE  VoyageInv'
    OBVIOUS
  <1> USE DEF VoyageInv, NavigatorsHandsAreFree, PilotIsAboard, CourseStaysValid,
              CourseEndsAtTouchdown, LockedCourseIsPlotted, At, Goto, course, ship
  <1>0. Cooled \in 0..TransferCooldown
    BY VoyageAssumption DEF Cooled, TypeOK
  <1>1. CASE Arrive
    <2>1. ~locked' /\ ~aboard' /\ locked' \in BOOLEAN /\ flying' \in BOOLEAN
      BY <1>1 DEF Arrive, Assisted
    <2>2. stage' \in CollectSample..Complete
      BY <1>1, StagesAreTyped DEF Arrive, TypeOK
    <2>3. TypeOK'
      BY <1>1, <2>1, <2>2 DEF Arrive, TypeOK, Phases
    <2> QED
      BY <1>1, <2>1, <2>3 DEF Arrive
  <1>2. CASE FlyAlong
    <2>1. input' \in Controls
      BY <1>2 DEF FlyAlong, TypeOK, Controls
    <2>2. input'.interact = input.interact /\ input'.click = input.click
      BY <1>2 DEF FlyAlong, TypeOK, Controls
    <2>3. TypeOK'
      BY <1>2, <2>1 DEF FlyAlong, TypeOK, Phases
    <2> QED
      BY <1>2, <2>2, <2>3 DEF FlyAlong, ValidTarget
  <1>3. CASE Unassisted
    <2>1. TypeOK'
      BY <1>3 DEF Unassisted, TypeOK, Phases
    <2> QED
      BY <1>3, <2>1 DEF Unassisted, ValidTarget
  <1>4. ASSUME input' = [input EXCEPT !.interact = FALSE]
        PROVE  input' \in Controls /\ ~input'.interact /\ (input'.click => input.click)
    BY <1>4 DEF TypeOK, Controls
  <1>5. CASE Board
    <2>1. ~navigating /\ ~locked
      BY <1>5 DEF Board
    <2>2. TypeOK'
      BY <1>0, <1>4, <1>5 DEF Board, TypeOK, Phases
    <2> QED
      BY <1>4, <1>5, <2>1, <2>2 DEF Board, MayBoard
  <1>6. CASE StayOut
    <2>1. TypeOK'
      BY <1>0, <1>6 DEF StayOut, TypeOK, Phases
    <2> QED
      BY <1>6, <2>1 DEF StayOut, ValidTarget
  <1>7. CASE Leave
    <2>1. ~navigating /\ ~locked
      BY <1>7 DEF Leave
    <2>2. TypeOK'
      BY <1>0, <1>4, <1>7 DEF Leave, TypeOK, Phases
    <2> QED
      BY <1>4, <1>7, <2>1, <2>2 DEF Leave
  <1>8. CASE Pilot
    <2>1. Disabled \in Controls /\ ~Disabled.interact /\ ~Disabled.click
      BY DEF Disabled, Released, Controls, TypeOK
    <2>2. thrust' \in Thrusts
      <3>1. NoThrust \in Thrusts
        BY DEF NoThrust, Thrusts
      <3>2. AutopilotInput \subseteq Thrusts /\ ManualInput \subseteq Thrusts
        BY <3>1 DEF AutopilotInput, ManualInput
      <3> QED
        BY <1>8, <3>2 DEF Pilot
    <2>3. TypeOK'
      BY <1>0, <1>8, <2>1, <2>2 DEF Pilot, TypeOK, Phases
    <2> QED
      BY <1>8, <2>1, <2>3 DEF Pilot, ValidTarget
  <1> QED
    BY <1>1, <1>2, <1>3, <1>5, <1>6, <1>7, <1>8
-----------------------------------------------------------------------------
LEMMA ShipStepKeeps ==
    VoyageInv /\ (StepShip \/ EndSteps \/ (\E b \in Bodies : TransferShip(b)) \/ StayInFrame)
        => VoyageInv'
  <1> SUFFICES ASSUME VoyageInv,
                      StepShip \/ EndSteps \/ (\E b \in Bodies : TransferShip(b)) \/ StayInFrame
               PROVE  VoyageInv'
    OBVIOUS
  <1> USE DEF VoyageInv, NavigatorsHandsAreFree, PilotIsAboard, CourseStaysValid,
              CourseEndsAtTouchdown, LockedCourseIsPlotted, At, Goto, course, ship
  <1>1. CASE StepShip
    <2>1. landed' \in BOOLEAN
      BY <1>1 DEF StepShip, MayTouchDown, StaysDown, TypeOK, Thrusts
    <2>2. CASE landed' /\ ~landed
      <3>1. locked' = (locked /\ ~(navigating /\ target = active))
        BY <1>1, <2>2 DEF StepShip, Touchdown
      <3>2. stage' = OnShipLanded(active)
        BY <1>1, <2>2 DEF StepShip, Touchdown
      <3>3. locked' \in BOOLEAN /\ (locked' => locked /\ target # active)
        BY <3>1
      <3>4. stage' \in CollectSample..Complete
        BY <3>2, StagesAreTyped DEF TypeOK
      <3>5. stage # PlotCourse => stage' # PlotCourse
        BY <3>2, StageAfterLanding DEF TypeOK
      <3>6. TypeOK'
        BY <1>1, <2>1, <3>3, <3>4 DEF StepShip, TypeOK
      <3> QED
        BY <1>1, <3>3, <3>5, <3>6 DEF StepShip, ValidTarget
    <2>3. CASE ~(landed' /\ ~landed)
      <3>1. UNCHANGED <<locked, stage>>
        BY <1>1, <2>3 DEF StepShip
      <3>2. TypeOK'
        BY <1>1, <2>1, <3>1 DEF StepShip, TypeOK
      <3> QED
        BY <1>1, <2>3, <3>1, <3>2 DEF StepShip, ValidTarget
    <2> QED
      BY <2>2, <2>3
  <1>2. CASE EndSteps
    <2>1. TypeOK'
      BY <1>2 DEF EndSteps, TypeOK, Phases
    <2> QED
      BY <1>2, <2>1 DEF EndSteps, ValidTarget
  <1>3. ASSUME NEW b \in Bodies, TransferShip(b) PROVE VoyageInv'
    <2>1. TypeOK'
      BY <1>3, VoyageAssumption DEF TransferShip, TypeOK, Phases
    <2>2. ~landed' /\ aboard' /\ ship_body' = active'
      BY <1>3 DEF TransferShip, Transferred
    <2>3. ValidTarget(target, TRUE) => ValidTarget(target, TRUE)'
      BY <1>3 DEF TransferShip, Transferred, ValidTarget
    <2> QED
      BY <1>3, <2>1, <2>2, <2>3 DEF TransferShip
  <1>4. CASE StayInFrame
    <2>1. TypeOK'
      BY <1>4 DEF StayInFrame, TypeOK, Phases
    <2> QED
      BY <1>4, <2>1 DEF StayInFrame, ValidTarget
  <1> QED
    BY <1>1, <1>2, <1>3, <1>4

LEMMA UseBlocksKeeps == VoyageInv /\ UseBlocks => VoyageInv'
  <1> SUFFICES ASSUME VoyageInv, UseBlocks PROVE VoyageInv'
    OBVIOUS
  <1> USE DEF VoyageInv, NavigatorsHandsAreFree, PilotIsAboard, CourseStaysValid,
              CourseEndsAtTouchdown, LockedCourseIsPlotted, At, Goto, course, ship
  <1>1. input' \in Controls
    BY DEF UseBlocks, Released, Controls
  <1>2. stage' \in CollectSample..Complete
    BY StagesAreTyped DEF UseBlocks, TypeOK
  <1>3. TypeOK'
    BY <1>1, <1>2 DEF UseBlocks, TypeOK, Phases
  <1>4. locked => UNCHANGED stage
    BY DEF UseBlocks
  <1> QED
    BY <1>3, <1>4 DEF UseBlocks, ValidTarget

LEMMA VoyageStepKeeps == VoyageInv /\ [Next]_vars => VoyageInv'
  <1> SUFFICES ASSUME VoyageInv, [Next]_vars PROVE VoyageInv'
    OBVIOUS
  <1>1. CASE UNCHANGED vars
    <2>1. TypeOK'
      BY <1>1 DEF VoyageInv, TypeOK, vars, course, ship
    <2> QED
      BY <1>1, <2>1
         DEF VoyageInv, NavigatorsHandsAreFree, PilotIsAboard, CourseStaysValid, ValidTarget,
             CourseEndsAtTouchdown, LockedCourseIsPlotted, vars, course, ship
  <1> QED
    BY <1>1, InputStepKeeps, PlayerStepKeeps, ShipStepKeeps, UseBlocksKeeps DEF Next

\* What every reachable state of a voyage satisfies, for any bodies.
THEOREM VoyageInvariant == Spec => []VoyageInv
  BY InitVoyage, VoyageStepKeeps, PTL DEF Spec
-----------------------------------------------------------------------------
\* However the player lands, boards and transfers, the pilot's frame is the ship's.
\* About player_near_ship, apply_sky_navigation_assist and
\* transfer_ship_between_bodies.
THEOREM PilotIsAlwaysAboard == Spec => []PilotIsAboard
  <1>1. VoyageInv => PilotIsAboard
    BY DEF VoyageInv
  <1> QED
    BY <1>1, VoyageInvariant, PTL

\* A locked course never has to be refused by the next frame, a ship on the ground has
\* none to that ground, and the expedition never waits for it.  About valid_target and
\* the ways a course is locked and given up in apply_session_input, step_ship,
\* on_course_locked and disable_gameplay_actions.
THEOREM CourseIsAlwaysSound == Spec => []CourseIsSound
  <1>1. VoyageInv => CourseIsSound
    BY DEF VoyageInv, CourseIsSound
  <1> QED
    BY <1>1, VoyageInvariant, PTL

-----------------------------------------------------------------------------
(* AndroidApp *)

\* What the history remembers of a finger that is followed covers the zone its start is
\* in, as the screen is now.
FingersAreFollowed == \A f \in DOMAIN pointers : ZoneNow(pointers[f]) \in zones[f]

TouchInv == AndroidTypeOK /\ FingersAreFollowed /\ ControlsHaveFingers

LEMMA InitializeKeepsWindow ==
    ASSUME GameHasItsWindow, Initialize, window', has_focus' = has_focus
    PROVE  GameHasItsWindow'
  BY DEF GameHasItsWindow, Initialize, Shutdown, EglObjects

LEMMA ShutdownKeepsWindow ==
    ASSUME Shutdown PROVE GameHasItsWindow'
  BY DEF GameHasItsWindow, Shutdown

LEMMA RestKeepsWindow ==
    ASSUME GameHasItsWindow, UNCHANGED <<window, egl, runtime_ready, has_focus, multicast>>
    PROVE  GameHasItsWindow'
  BY DEF GameHasItsWindow

LEMMA WindowInductive == GameHasItsWindow /\ [AndroidNext]_android_vars => GameHasItsWindow'
  <1> SUFFICES ASSUME GameHasItsWindow, [AndroidNext]_android_vars PROVE GameHasItsWindow'
    OBVIOUS
  <1>1. CASE InitWindow
    <2>1. CASE CanRender
      BY <1>1, <2>1 DEF InitWindow, GameHasItsWindow
    <2>2. CASE ~CanRender
      BY <1>1, <2>2, InitializeKeepsWindow DEF InitWindow
    <2> QED
      BY <2>1, <2>2
  <1>2. CASE TermWindow
    BY <1>2, ShutdownKeepsWindow DEF TermWindow
  <1>3. CASE GainedFocus
    BY <1>3 DEF GainedFocus, GameHasItsWindow
  <1>4. CASE LostFocus
    BY <1>4 DEF LostFocus, GameHasItsWindow
  <1>5. CASE PollEnds
    BY <1>5, RestKeepsWindow DEF PollEnds, app
  <1>6. CASE Destroyed
    BY <1>6, ShutdownKeepsWindow DEF Destroyed
  <1>7. CASE Frame
    <2>1. CASE ~CanRender /\ window
      BY <1>7, <2>1, InitializeKeepsWindow DEF Frame
    <2>2. CASE CanRender \/ ~window
      BY <1>7, <2>2, RestKeepsWindow DEF Frame
    <2> QED
      BY <2>1, <2>2
  <1>8. CASE \/ \E f \in Fingers : FingerUp(f) \/ \E spot \in Spots : FingerDown(f, spot)
             \/ FingersMove \/ TouchCancelled
    <2>1. Touch
      BY <1>8 DEF FingerUp, FingerDown, FingersMove, TouchCancelled
    <2> QED
      BY <2>1, RestKeepsWindow DEF Touch, app
  <1>9. CASE ConfigChanged \/ UNCHANGED android_vars
    BY <1>9, RestKeepsWindow DEF ConfigChanged, android_vars, app
  <1> QED
    BY <1>1, <1>2, <1>3, <1>4, <1>5, <1>6, <1>7, <1>8, <1>9 DEF AndroidNext

LEMMA ZonesAreTyped ==
    ASSUME AndroidTypeOK, NEW spot \in Spots PROVE ZoneNow(spot) \in Zones
  <1>1. Classify(screen, godmode_expanded, spot) \in Zones
    BY DEF Classify, Zones, Buttons
  <1> QED
    BY <1>1 DEF ZoneNow, ZoneOf, AndroidTypeOK

\* Every step of a finger or of the screen notes where the fingers are.
LEMMA ZonesAreNoted ==
    ASSUME NoteZones
    PROVE  /\ FingersAreFollowed'
           /\ \A f \in DOMAIN pointers : f \in DOMAIN pointers' => zones[f] \subseteq zones'[f]
  BY DEF NoteZones, FingersAreFollowed

LEMMA NotedZonesTyped ==
    ASSUME AndroidTypeOK, NoteZones, screen' \in Screens \cup {NoScreen},
           godmode_expanded' \in BOOLEAN, pointers' \in [DOMAIN pointers' -> Spots]
    PROVE  zones' \in [DOMAIN pointers' -> SUBSET Zones]
  <1>1. ASSUME NEW f \in DOMAIN pointers' PROVE ZoneNow(pointers[f])' \in Zones
    <2>1. /\ ZoneNow(pointers[f])' = ZoneOf[screen'][godmode_expanded'][pointers'[f]]
          /\ pointers'[f] \in Spots
      BY <1>1 DEF ZoneNow
    <2>2. Classify(screen', godmode_expanded', pointers'[f]) \in Zones
      BY DEF Classify, Zones, Buttons
    <2> QED
      BY <2>1, <2>2 DEF ZoneOf
  <1> QED
    BY <1>1 DEF NoteZones, AndroidTypeOK

LEMMA StayingTyped ==
    ASSUME AndroidTypeOK, FingersStay, screen' \in Screens \cup {NoScreen},
           {window', runtime_ready', has_focus'} \subseteq BOOLEAN, egl' \subseteq EglObjects,
           multicast' \in {"none", "created", "held"}, loop' \in {"poll", "frame", "over"}
    PROVE  AndroidTypeOK'
  <1>1. UNCHANGED <<fingers, pointers, held_controls, godmode_expanded, stranded>> /\ NoteZones
    BY DEF FingersStay, touch
  <1>2. zones' \in [DOMAIN pointers' -> SUBSET Zones]
    BY <1>1, NotedZonesTyped DEF AndroidTypeOK
  <1> QED
    BY <1>1, <1>2 DEF AndroidTypeOK

LEMMA TouchingTyped ==
    ASSUME AndroidTypeOK, Touch, fingers' \subseteq Fingers, DOMAIN pointers' \subseteq fingers',
           pointers' \in [DOMAIN pointers' -> Spots], godmode_expanded' \in BOOLEAN,
           held_controls' \subseteq Buttons \cup {"Move"},
           stranded' \subseteq Buttons \cup {"Move"}
    PROVE  AndroidTypeOK'
  <1>1. UNCHANGED <<window, egl, runtime_ready, has_focus, multicast, screen>> /\ NoteZones
    BY DEF Touch, app
  <1>2. zones' \in [DOMAIN pointers' -> SUBSET Zones]
    BY <1>1, NotedZonesTyped DEF AndroidTypeOK
  <1>3. loop' \in {"poll", "frame", "over"}
    BY DEF Touch, Polled
  <1> QED
    BY <1>1, <1>2, <1>3 DEF AndroidTypeOK

LEMMA AndroidTypes == AndroidTypeOK /\ [AndroidNext]_android_vars => AndroidTypeOK'
  <1> SUFFICES ASSUME AndroidTypeOK, [AndroidNext]_android_vars PROVE AndroidTypeOK'
    OBVIOUS
  <1>1. /\ screen \in Screens \cup {NoScreen}
        /\ {window, runtime_ready, has_focus, godmode_expanded} \subseteq BOOLEAN
        /\ egl \subseteq EglObjects
        /\ multicast \in {"none", "created", "held"}
        /\ fingers \subseteq Fingers /\ DOMAIN pointers \subseteq fingers
        /\ pointers \in [DOMAIN pointers -> Spots]
        /\ zones \in [DOMAIN pointers -> SUBSET Zones]
        /\ held_controls \subseteq Buttons \cup {"Move"} /\ stranded \subseteq Buttons \cup {"Move"}
    BY DEF AndroidTypeOK
  <1>2. Polled => loop' \in {"poll", "frame", "over"}
    BY DEF Polled
  <1>3. CASE Shutdown /\ FingersStay /\ UNCHANGED has_focus /\ window' \in BOOLEAN
             /\ loop' \in {"poll", "frame", "over"}
    BY <1>1, <1>3, StayingTyped DEF Shutdown
  <1>4. CASE Initialize /\ FingersStay /\ UNCHANGED has_focus /\ window' \in BOOLEAN
             /\ loop' \in {"poll", "frame", "over"}
    BY <1>1, <1>3, <1>4, StayingTyped DEF Initialize, EglObjects
  <1>5. CASE InitWindow
    <2>1. CASE CanRender
      BY <1>1, <1>2, <1>5, <2>1, StayingTyped DEF InitWindow
    <2>2. CASE ~CanRender
      BY <1>2, <1>4, <1>5, <2>2 DEF InitWindow
    <2> QED
      BY <2>1, <2>2
  <1>6. CASE TermWindow
    BY <1>2, <1>3, <1>6 DEF TermWindow
  <1>7. CASE GainedFocus \/ LostFocus \/ PollEnds
    <2>1. /\ UNCHANGED <<window, egl, runtime_ready, screen, touch, zones, stranded>>
          /\ has_focus' \in BOOLEAN /\ multicast' \in {"none", "created", "held"}
          /\ loop' \in {"poll", "frame", "over"}
      BY <1>1, <1>2, <1>7 DEF GainedFocus, LostFocus, PollEnds, app
    <2> QED
      BY <1>1, <2>1 DEF AndroidTypeOK, touch
  <1>8. CASE ConfigChanged
    <2>1. screen' \in Screens \cup {NoScreen} /\ UNCHANGED app /\ FingersStay
      BY <1>1, <1>8 DEF ConfigChanged, UpdateSurface
    <2> QED
      BY <1>1, <1>2, <1>8, <2>1, StayingTyped DEF ConfigChanged, app
  <1>9. CASE Destroyed
    BY <1>1, <1>3, <1>9 DEF Destroyed
  <1>10. CASE Frame
    <2>1. CASE ~CanRender /\ window
      BY <1>1, <1>4, <1>10, <2>1 DEF Frame
    <2>2. CASE CanRender \/ ~window
      <3>1. /\ screen' \in Screens \cup {NoScreen} /\ FingersStay
            /\ UNCHANGED <<window, has_focus, egl, runtime_ready, multicast>>
        BY <1>1, <1>10, <2>2 DEF Frame, UpdateSurface
      <3> QED
        BY <1>1, <1>10, <3>1, StayingTyped DEF Frame
    <2> QED
      BY <2>1, <2>2
  <1>11. ASSUME NEW f \in Fingers, FingerUp(f) PROVE AndroidTypeOK'
    <2>1. /\ fingers' = fingers \ {f} /\ godmode_expanded' = godmode_expanded /\ Touch
          /\ held_controls' \subseteq held_controls
          /\ \/ pointers' = [g \in DOMAIN pointers \ {f} |-> pointers[g]]
             \/ pointers' = pointers /\ f \notin DOMAIN pointers
          /\ stranded' \subseteq held_controls \cup stranded
      BY <1>11 DEF FingerUp, Restrict
    <2>2. /\ DOMAIN pointers' \subseteq fingers'
          /\ pointers' \in [DOMAIN pointers' -> Spots]
      BY <1>1, <2>1
    <2> QED
      BY <1>1, <2>1, <2>2, TouchingTyped
  <1>12. ASSUME NEW f \in Fingers, NEW spot \in Spots, FingerDown(f, spot) PROVE AndroidTypeOK'
    <2>1. /\ fingers' = fingers \cup {f} /\ Touch /\ godmode_expanded' \in BOOLEAN
          /\ held_controls' \subseteq held_controls \cup Buttons
          /\ \/ pointers' = [g \in DOMAIN pointers \cup {f} |-> IF g = f THEN spot ELSE pointers[g]]
             \/ pointers' = pointers
          /\ stranded' = stranded
      BY <1>1, <1>12 DEF FingerDown
    <2>2. /\ DOMAIN pointers' \subseteq fingers'
          /\ pointers' \in [DOMAIN pointers' -> Spots]
      BY <1>1, <2>1
    <2> QED
      BY <1>1, <2>1, <2>2, TouchingTyped
  <1>13. CASE FingersMove
    BY <1>1, <1>13, TouchingTyped DEF FingersMove
  <1>14. CASE TouchCancelled
    <2>1. pointers' \in [DOMAIN pointers' -> Spots] /\ DOMAIN pointers' = {}
      BY <1>14 DEF TouchCancelled, Nobody
    <2> QED
      BY <1>1, <1>14, <2>1, TouchingTyped DEF TouchCancelled
  <1>15. CASE UNCHANGED android_vars
    BY <1>15 DEF AndroidTypeOK, android_vars, app, touch
  <1> QED
    BY <1>5, <1>6, <1>7, <1>8, <1>9, <1>10, <1>11, <1>12, <1>13, <1>14, <1>15 DEF AndroidNext

\* The screen changes under the fingers, or nothing that has to do with touch.
LEMMA StayingKeepsTouch ==
    ASSUME TouchInv, AndroidTypeOK', FingersStay PROVE TouchInv'
  <1>1. UNCHANGED <<fingers, pointers, held_controls, stranded>> /\ NoteZones
    BY DEF FingersStay, touch
  <1> QED
    BY <1>1, ZonesAreNoted DEF TouchInv, ControlsHaveFingers

LEMMA RestKeepsTouch ==
    ASSUME TouchInv, AndroidTypeOK', UNCHANGED <<screen, touch, zones, stranded>>
    PROVE  TouchInv'
  BY DEF TouchInv, FingersAreFollowed, ControlsHaveFingers, ZoneNow, touch

LEMMA FingerDownKeepsTouch ==
    ASSUME TouchInv, AndroidTypeOK', NEW f, NEW spot, FingerDown(f, spot) PROVE TouchInv'
  <1>1. /\ f \notin fingers /\ fingers' = fingers \cup {f} /\ stranded' = stranded
        /\ screen' = screen /\ NoteZones
    BY DEF FingerDown, Touch
  <1>2. f \notin DOMAIN pointers /\ DOMAIN pointers \subseteq fingers
    BY <1>1 DEF TouchInv, AndroidTypeOK
  <1>3. FingersAreFollowed'
    BY <1>1, ZonesAreNoted
  <1>4. ControlsHaveFingers'
    <2> SUFFICES ASSUME NEW control \in held_controls' \ stranded'
                 PROVE  \E g \in fingers' \cap DOMAIN pointers' : control \in zones'[g]
      BY DEF ControlsHaveFingers
    <2>1. CASE control \in held_controls
      <3>1. PICK g \in fingers \cap DOMAIN pointers : control \in zones[g]
        BY <1>1, <2>1 DEF TouchInv, ControlsHaveFingers
      <3>2. g \in DOMAIN pointers'
        BY <3>1 DEF FingerDown
      <3> QED
        BY <1>1, <3>1, <3>2, ZonesAreNoted
    <2>2. CASE control \notin held_controls
      <3>1. /\ Cardinality(DOMAIN pointers) < MaxPointers
            /\ control = ZoneNow(spot) /\ control \in Buttons
        BY <2>2 DEF FingerDown
      <3>2. /\ pointers' = [g \in DOMAIN pointers \cup {f} |-> IF g = f THEN spot ELSE pointers[g]]
            /\ godmode_expanded' = (godmode_expanded # (control = "GodMode"))
        BY <3>1 DEF FingerDown
      <3>3. control # "GodMode" /\ godmode_expanded \in BOOLEAN
        BY <3>1 DEF Buttons, TouchInv, AndroidTypeOK
      <3>4. godmode_expanded' = godmode_expanded
        BY <3>2, <3>3
      <3>5. f \in DOMAIN pointers' /\ ZoneNow(pointers[f])' = control
        BY <1>1, <3>1, <3>2, <3>4 DEF ZoneNow
      <3> QED
        BY <1>1, <1>3, <3>5 DEF FingersAreFollowed
    <2> QED
      BY <2>1, <2>2
  <1> QED
    BY <1>3, <1>4 DEF TouchInv

LEMMA FingerUpKeepsTouch ==
    ASSUME TouchInv, AndroidTypeOK', NEW f, FingerUp(f) PROVE TouchInv'
  <1>1. /\ f \in fingers /\ fingers' = fingers \ {f} /\ NoteZones
    BY DEF FingerUp, Touch
  <1>2. FingersAreFollowed'
    BY <1>1, ZonesAreNoted
  <1>3. ASSUME NEW g \in fingers \cap DOMAIN pointers, g # f
        PROVE  g \in fingers' \cap DOMAIN pointers' /\ zones[g] \subseteq zones'[g]
    BY <1>1, <1>3, ZonesAreNoted DEF FingerUp, Restrict
  <1>4. ASSUME NEW control \in held_controls' \ stranded'
        PROVE  \E g \in fingers' \cap DOMAIN pointers' : control \in zones'[g]
    <2>1. control \in held_controls \ stranded
      BY <1>4 DEF FingerUp
    <2>2. PICK g \in fingers \cap DOMAIN pointers : control \in zones[g]
      BY <2>1 DEF TouchInv, ControlsHaveFingers
    <2>3. control \in Buttons \cup {"Move"}
      BY <2>1 DEF TouchInv, AndroidTypeOK
    <2>4. CASE f \in DOMAIN pointers
      <3>1. /\ held_controls' = held_controls \ ({ZoneToRelease(f)} \cap (Buttons \cup {"Move"}))
            /\ stranded' = held_controls' \cap (stranded \cup (zones[f] \ {ZoneToRelease(f)}))
        BY <2>4 DEF FingerUp, ZoneToRelease
      <3>2. control \notin zones[f]
        BY <1>4, <2>3, <3>1
      <3> QED
        BY <1>3, <2>2, <3>2
    <2>5. CASE f \notin DOMAIN pointers
      BY <1>3, <2>2, <2>5
    <2> QED
      BY <2>4, <2>5
  <1> QED
    BY <1>2, <1>4 DEF TouchInv, ControlsHaveFingers

LEMMA TouchInductive ==
    TouchInv /\ [AndroidNext]_android_vars => TouchInv'
  <1> SUFFICES ASSUME TouchInv, [AndroidNext]_android_vars PROVE TouchInv'
    OBVIOUS
  <1>1. AndroidTypeOK'
    BY AndroidTypes DEF TouchInv
  <1>2. CASE InitWindow \/ TermWindow \/ ConfigChanged \/ Destroyed \/ Frame
    <2>1. FingersStay
      BY <1>2 DEF InitWindow, TermWindow, ConfigChanged, Destroyed, Frame
    <2> QED
      BY <1>1, <2>1, StayingKeepsTouch
  <1>3. CASE GainedFocus \/ LostFocus \/ PollEnds \/ UNCHANGED android_vars
    <2>1. UNCHANGED <<screen, touch, zones, stranded>>
      BY <1>3 DEF GainedFocus, LostFocus, PollEnds, android_vars
    <2> QED
      BY <1>1, <2>1, RestKeepsTouch
  <1>4. ASSUME NEW f \in Fingers, FingerUp(f) PROVE TouchInv'
    BY <1>1, <1>4, FingerUpKeepsTouch
  <1>5. ASSUME NEW f \in Fingers, NEW spot \in Spots, FingerDown(f, spot) PROVE TouchInv'
    BY <1>1, <1>5, FingerDownKeepsTouch
  <1>6. CASE FingersMove
    <2>1. /\ UNCHANGED <<fingers, pointers, godmode_expanded, screen>> /\ NoteZones
          /\ held_controls' \subseteq held_controls \cup {"Move"}
          /\ stranded' = stranded \cap held_controls'
      BY <1>6 DEF FingersMove, Touch
    <2>2. PICK f \in DOMAIN pointers : ZoneNow(pointers[f]) = "Move"
      BY <1>6 DEF FingersMove
    <2>3. FingersAreFollowed'
      BY <2>1, ZonesAreNoted
    <2>4. "Move" \in zones'[f] /\ f \in fingers' \cap DOMAIN pointers'
      BY <2>1, <2>2, <2>3 DEF FingersAreFollowed, ZoneNow, TouchInv, AndroidTypeOK
    <2>5. ControlsHaveFingers'
      BY <2>1, <2>4, ZonesAreNoted DEF TouchInv, ControlsHaveFingers
    <2> QED
      BY <1>1, <2>3, <2>5 DEF TouchInv
  <1>7. CASE TouchCancelled
    <2>1. DOMAIN pointers' = {} /\ held_controls' = {}
      BY <1>7 DEF TouchCancelled, Nobody
    <2> QED
      BY <1>1, <2>1 DEF TouchInv, FingersAreFollowed, ControlsHaveFingers
  <1> QED
    BY <1>2, <1>3, <1>4, <1>5, <1>6, <1>7 DEF AndroidNext

\* Theorem: of AndroidApp, for any fingers, sizes of the screen and points on it and any
\* number of pointers kept, the types, and that what is held has a finger on it, or had
\* one that was lifted from another zone than the one that holds it.
THEOREM TouchInvHolds == AndroidSpec => []TouchInv
  <1>1. AndroidInit => TouchInv
    BY DEF AndroidInit, TouchInv, AndroidTypeOK, FingersAreFollowed, ControlsHaveFingers, Nobody
  <1> QED
    BY <1>1, TouchInductive, PTL DEF AndroidSpec

\* Theorem: the game runs only on a whole screen and holds the multicast lock only in the
\* foreground, and what is held on the screen has a finger on it.
THEOREM AppStaysInTouch == AndroidSpec => []AppIsInTouch
  <1>1. AndroidInit => GameHasItsWindow
    BY DEF AndroidInit, GameHasItsWindow
  <1>2. AndroidSpec => []GameHasItsWindow
    BY <1>1, WindowInductive, PTL DEF AndroidSpec
  <1>3. GameHasItsWindow /\ TouchInv => AppIsInTouch
    BY DEF TouchInv, AppIsInTouch
  <1> QED
    BY <1>2, <1>3, TouchInvHolds, PTL

-----------------------------------------------------------------------------
(* DesktopControls *)

\* What the platform and the engine agree on, unless an odd number of F6 went to menus:
\* the platform is ahead by an F6 that the engine has still to read.
PlatformIsAhead ==
    cursor_ui <=> IF controls_phase \in {"menu", "engine"} /\ "F6" \in pressed
                  THEN ~(overlay # apart) ELSE overlay # apart

\* While the platform shows its cursor the pointer is neither captured nor locked, and
\* clicks are not the game's.
CursorIsFree == cursor_ui => ~capture /\ ~pointer_locked /\ ~clicked

ControlsInv ==
    /\ controls_phase \in {"events", "poll", "menu", "engine"}
    /\ cursor_ui \in BOOLEAN /\ overlay \in BOOLEAN /\ apart \in BOOLEAN
    /\ PlatformIsAhead /\ CursorIsFree

LEMMA ControlsInductive ==
    ASSUME ControlsInv, [ControlsNext]_controls_vars PROVE ControlsInv'
  <1> USE DEF ControlsInv, PlatformIsAhead, CursorIsFree
  <1>1. ASSUME NEW k \in Keys, KeyDown(k) PROVE ControlsInv'
    BY <1>1 DEF KeyDown, backend, sky
  <1>2. ASSUME NEW k \in Keys, KeyUp(k) PROVE ControlsInv'
    BY <1>2 DEF KeyUp, backend, sky
  <1>3. CASE Focus
    BY <1>3 DEF Focus, backend, sky
  <1>4. CASE BeginFrame
    BY <1>4 DEF BeginFrame, backend, sky
  <1>5. CASE Poll
    <2>1. /\ controls_phase = "poll" /\ controls_phase' = "menu"
          /\ pressed' = Edges
          /\ overlay' = overlay /\ apart' = apart
          /\ cursor_ui' = CursorUiAfter
      BY <1>5 DEF Poll, sky
    <2>2. cursor_ui' <=> IF "F6" \in Edges THEN ~cursor_ui ELSE cursor_ui
      BY <2>1 DEF CursorUiAfter
    <2>3. cursor_ui' \in BOOLEAN
      BY <2>1 DEF CursorUiAfter
    <2>4. PlatformIsAhead'
      BY <2>1, <2>2
    <2>5. CursorUiAfter => ~StillCaptured
      BY DEF CursorUiAfter, StillCaptured
    <2>6. CursorIsFree'
      BY <1>5, <2>5 DEF Poll, Captured
    <2> QED
      BY <2>1, <2>3, <2>4, <2>6
  <1>6. CASE HandleInput
    BY <1>6 DEF HandleInput, backend, sky
  <1>7. CASE ApplySessionInput
    <2>1. /\ controls_phase = "engine" /\ controls_phase' = "events"
          /\ UNCHANGED <<cursor_ui, capture, pointer_locked, clicked>>
          /\ overlay' = IF OverlayToggled THEN ~overlay ELSE overlay
          /\ apart' = IF "F6" \in pressed /\ menu.open THEN ~apart ELSE apart
      BY <1>7 DEF ApplySessionInput
    <2>2. overlay' \in BOOLEAN /\ apart' \in BOOLEAN
      BY <2>1
    <2>3. (overlay' # apart') <=> IF "F6" \in pressed THEN ~(overlay # apart)
                                                    ELSE overlay # apart
      BY <2>1 DEF OverlayToggled
    <2> QED
      BY <2>1, <2>2, <2>3
  <1>8. CASE UNCHANGED controls_vars
    BY <1>8 DEF controls_vars, backend, sky
  <1> QED
    BY <1>1, <1>2, <1>3, <1>4, <1>5, <1>6, <1>7, <1>8 DEF ControlsNext

\* Theorem: however many keys are held at once, the cursor policy of the platform is the
\* one the overlay of the engine needs, unless F6 was pressed an odd number of times in
\* open menus; where they agree an open overlay has its cursor and its clicks.
THEOREM CursorPolicyAlwaysFollows == ControlsSpec => []CursorPolicyFollowsOverlay
  <1>1. ControlsInit => ControlsInv
    BY DEF ControlsInit, ControlsInv, PlatformIsAhead, CursorIsFree
  <1>2. ControlsInv /\ [ControlsNext]_controls_vars => ControlsInv'
    BY ControlsInductive
  <1>3. ControlsInv => CursorPolicyFollowsOverlay
    BY DEF ControlsInv, PlatformIsAhead, CursorIsFree, CursorPolicyFollowsOverlay
  <1> QED
    BY <1>1, <1>2, <1>3, PTL DEF ControlsSpec
-----------------------------------------------------------------------------
(* TickPacing *)

LEMMA Division ==
    ASSUME NEW a \in Nat, NEW d \in Nat \ {0}
    PROVE  /\ a \div d \in Nat /\ a % d \in 0..(d - 1)
           /\ a = ((a \div d) * d) + (a % d)
  <1>1. a % d \in 0..(d - 1)
    BY SMT
  <1>2. a \div d \in Int
    BY SMT
  <1>3. a = (d * (a \div d)) + (a % d)
    BY SMT
  <1>4. a \div d >= 0
    BY SMT
  <1>5. d * (a \div d) = (a \div d) * d
    BY <1>2, SMT
  <1> QED
    BY <1>1, <1>2, <1>3, <1>4, <1>5

\* A quotient below a bound
LEMMA DivisionBelow ==
    ASSUME NEW a \in Nat, NEW d \in Nat \ {0}, NEW m \in Nat, a < (m + 1) * d
    PROVE  a \div d <= m
  <1> DEFINE q == a \div d
  <1>1. q \in Nat /\ q * d <= a
    BY Division
  <1> HIDE DEF q
  <1>2. SUFFICES ASSUME q >= m + 1 PROVE FALSE
    BY <1>1 DEF q
  <1>3. q * d >= (m + 1) * d
    BY <1>1, <1>2, SMT
  <1> QED
    BY <1>1, <1>3

\* The time the client counted and the time the server counted, and what it has in hand
Drift == lead * TickTime + session_time - server_time - clock

\* The clock of the last pump is one of the server that runs.
PumpIsSound ==
    /\ running \in BOOLEAN /\ pumped \in BOOLEAN
    /\ ~running => ~pumped

PacingInv ==
    /\ clock \in 0..2
    /\ lead \in Int
    /\ session_time \in 0..(TickTime - 1)
    /\ server_time \in 0..(TickTime - 1)
    /\ PumpIsSound
    /\ Drift \in Int /\ 0 <= Drift + TickTime + 1 /\ Drift < TickTime

LEMMA LeadIsBounded ==
    ASSUME NEW t \in Nat \ {0}, NEW n \in Int, n * t <= 2 * t, -(2 * t) <= n * t
    PROVE  n \in -2..2
  <1>1. n <= 2
    <2>1. SUFFICES ASSUME n >= 3 PROVE FALSE
      OBVIOUS
    <2>2. n * t >= 3 * t
      BY <2>1, SMT
    <2> QED
      BY <2>2
  <1>2. n >= -2
    <2>1. SUFFICES ASSUME n <= -3 PROVE FALSE
      OBVIOUS
    <2>2. n * t <= (-3) * t
      BY <2>1, SMT
    <2> QED
      BY <2>2
  <1> QED
    BY <1>1, <1>2

\* The drift of clocks of which neither is ahead
LEMMA DriftAtRest ==
    ASSUME NEW t \in Nat \ {0}, NEW a \in 0..(t - 1), NEW b \in 0..(t - 1), NEW c \in 0..2
    PROVE  LET drift == 0 + a - b - c
           IN  drift \in Int /\ 0 <= drift + t + 1 /\ drift < t
  <1>1. /\ t \in Int /\ a \in Int /\ b \in Int /\ c \in Int
        /\ 0 <= a /\ a <= t - 1 /\ 0 <= b /\ b <= t - 1 /\ 0 <= c /\ c <= 2
    OBVIOUS
  <1> QED
    BY <1>1

\* Both clocks count the same frame: it leaves the drift as it was.
LEMMA DriftIsKept ==
    ASSUME NEW a \in Int, NEW b \in Int, NEW c \in Int, NEW f \in Int,
           NEW s \in Int, NEW s1 \in Int, NEW v \in Int, NEW v1 \in Int,
           NEW k \in Int, NEW k1 \in Int,
           b = s + f - s1, c = v + k + f - k1 - v1
    PROVE  a + b - c + s1 - v1 - k1 = a + s - v - k
  OBVIOUS

LEMMA PacingInvMeansClose == PacingInv => ClocksAreClose
  <1> SUFFICES ASSUME PacingInv PROVE ClocksAreClose
    OBVIOUS
  <1>1. TickTime \in Nat \ {0}
    BY TickPacingAssumption
  <1> DEFINE product == lead * TickTime
  <1>2. product \in Int /\ lead \in Int
    BY <1>1 DEF PacingInv
  <1>3. /\ 0 <= product + session_time - server_time - clock + TickTime + 1
        /\ product + session_time - server_time - clock < TickTime
    BY DEF PacingInv, Drift
  <1>4. product <= 2 * TickTime /\ -(2 * TickTime) <= product
    <2> HIDE DEF product
    <2> QED
      BY <1>1, <1>2, <1>3 DEF PacingInv
  <1>5. lead \in -2..2
    BY <1>1, <1>2, <1>4, LeadIsBounded
  <1> QED
    BY <1>5 DEF PacingInv, ClocksAreClose
LEMMA Timed ==
    ASSUME PacingInv, NEW frame \in Nat
    PROVE  /\ session_time + Least(frame, Longest) \in Nat
           /\ Elapsed(frame) \in Nat /\ Due(frame) \in Nat
           /\ (clock + frame) % 3 \in 0..2
           /\ pumped => Elapsed(frame) = (clock + frame) - ((clock + frame) % 3)
  <1>1. Longest \in Nat /\ session_time \in Nat /\ server_time \in Nat /\ clock \in Nat
    BY TickPacingAssumption DEF PacingInv
  <1>2. clock + frame \in Nat
    BY <1>1
  <1> DEFINE time == clock + frame
             ms == time \div 3
             left == time % 3
  <1>3. 3 \in Nat \ {0} /\ time \in Nat
    BY <1>2
  <1>4. ms \in Nat /\ left \in 0..(3 - 1) /\ time = (ms * 3) + left
    BY <1>3, Division
  <1>5. Elapsed(frame) = IF pumped THEN 3 * ms ELSE 0
    BY DEF Elapsed
  <1> HIDE DEF time, ms, left
  <1>a. 3 * ms = time - left /\ 3 * ms \in Nat /\ left \in 0..2
    BY <1>3, <1>4
  <1>b. Elapsed(frame) \in Nat
    BY <1>5, <1>a
  <1>6. Due(frame) \in Nat
    BY <1>1, <1>b DEF Due, Least
  <1>7. pumped => Elapsed(frame) = time - left
    BY <1>5, <1>a
  <1>8. session_time + Least(frame, Longest) \in Nat
    BY <1>1 DEF Least
  <1> QED
    <2>1. (clock + frame) % 3 \in 0..2
      BY <1>a, Zenon DEF time, left
    <2>2. pumped => Elapsed(frame) = (clock + frame) - ((clock + frame) % 3)
      <3>1. time - left = (clock + frame) - ((clock + frame) % 3)
        <4>1. time = clock + frame
          BY DEF time
        <4>2. left = time % 3
          BY DEF left
        <4> QED
          BY <4>1, <4>2, Zenon
      <3> QED
        BY <1>7, <3>1, Zenon
    <2> QED
      BY <1>b, <1>6, <1>8, <2>1, <2>2

\* The server is left without a whole tick, after a stall too.
LEMMA RestIsBelowTick ==
    ASSUME NEW due \in Nat
    PROVE  /\ RestOf(due) \in 0..(TickTime - 1)
           /\ due < (MaxCatchup + 1) * TickTime =>
                 TicksIn(due) \in Nat /\ due = (TicksIn(due) * TickTime) + RestOf(due)
  <1>1. TickTime \in Nat \ {0} /\ MaxCatchup \in Nat
    BY TickPacingAssumption
  <1> DEFINE q == due \div TickTime
             r == due % TickTime
             k == TicksIn(due)
  <1>2. q \in Nat /\ r \in 0..(TickTime - 1) /\ due = (q * TickTime) + r
    BY <1>1, Division
  <1>3. due < (MaxCatchup + 1) * TickTime => q <= MaxCatchup
    BY <1>1, DivisionBelow
  <1>4. k = IF q < MaxCatchup THEN q ELSE MaxCatchup
    BY DEF TicksIn, Least
  <1>5. RestOf(due) = IF k = MaxCatchup /\ due - k * TickTime >= TickTime
                      THEN (due - k * TickTime) % TickTime ELSE due - k * TickTime
    BY DEF RestOf
  <1> HIDE DEF q, r, k
  <1>6. CASE q <= MaxCatchup
    <2>1. k = q
      BY <1>1, <1>2, <1>4, <1>6
    <2>2. q * TickTime \in Nat
      BY <1>1, <1>2, SMT
    <2>3. due - k * TickTime = r
      BY <1>2, <2>1, <2>2
    <2>4. RestOf(due) = r
      BY <1>1, <1>2, <1>5, <2>3
    <2> QED
      BY <1>2, <2>1, <2>4 DEF k
  <1>7. CASE ~(q <= MaxCatchup)
    <2>1. k = MaxCatchup /\ q >= MaxCatchup + 1
      BY <1>1, <1>2, <1>4, <1>7
    <2>2. q * TickTime >= (MaxCatchup + 1) * TickTime
      BY <1>1, <1>2, <2>1, SMT
    <2>3. (MaxCatchup + 1) * TickTime = (MaxCatchup * TickTime) + TickTime
      BY <1>1, SMT
    <2>4. q * TickTime \in Nat /\ MaxCatchup * TickTime \in Nat
      BY <1>1, <1>2, SMT
    <2>5. due - k * TickTime >= TickTime /\ due - k * TickTime \in Nat
      BY <1>1, <1>2, <2>1, <2>2, <2>3, <2>4
    <2>6. (due - k * TickTime) % TickTime \in 0..(TickTime - 1)
      BY <1>1, <2>5, Division
    <2>7. RestOf(due) \in 0..(TickTime - 1)
      BY <1>5, <2>1, <2>5, <2>6
    <2> QED
      BY <1>3, <1>7, <2>7
  <1> QED
    BY <1>6, <1>7

\* As long as the server is not left behind, client and server count the same time.
LEMMA BothCountTheFrame ==
    ASSUME PacingInv, NEW frame \in Nat, running, pumped, ~Stall(frame)
    PROVE  /\ StepsIn(frame) \in Nat /\ TicksIn(Due(frame)) \in Nat
           /\ StepsIn(frame) * TickTime = session_time + frame - TimeLeftAfter(frame)
           /\ TicksIn(Due(frame)) * TickTime
                = server_time + Elapsed(frame) - RestOf(Due(frame))
  <1>1. /\ TickTime \in Nat \ {0} /\ MaxCatchup \in Nat /\ Longest \in Nat
        /\ MaxCatchup * TickTime + 2 <= Longest
    BY TickPacingAssumption
  <1> DEFINE limit == MaxCatchup * TickTime
  <1>2. limit \in Nat /\ limit + 2 <= Longest
    BY <1>1, SMT
  <1>3. Elapsed(frame) <= limit
    BY <1>1, <1>2, Timed DEF Stall
  <1>4. (MaxCatchup + 1) * TickTime = limit + TickTime
    BY <1>1, SMT
  <1> HIDE DEF limit
  <1>5. /\ Elapsed(frame) \in Nat /\ clock \in 0..2 /\ (clock + frame) % 3 \in 0..2
        /\ Elapsed(frame) = (clock + frame) - ((clock + frame) % 3)
        /\ session_time \in 0..(TickTime - 1) /\ server_time \in 0..(TickTime - 1)
    BY Timed DEF PacingInv
  <1> DEFINE passed == Elapsed(frame)
             left == (clock + frame) % 3
  <1>a. /\ passed \in Nat /\ clock \in Nat /\ left \in Nat /\ left <= 2
        /\ passed = clock + frame - left /\ passed <= limit
    BY <1>3, <1>5
  <1>6. frame <= Longest /\ passed <= Longest
    <2> HIDE DEF passed, left
    <2> QED
      BY <1>1, <1>2, <1>a
  <1>7. Least(frame, Longest) = frame /\ Least(Elapsed(frame), Longest) = Elapsed(frame)
    BY <1>1, <1>5, <1>6 DEF Least
  <1>8. /\ StepsIn(frame) = (session_time + frame) \div TickTime
        /\ TimeLeftAfter(frame) = (session_time + frame) % TickTime
        /\ Due(frame) = server_time + Elapsed(frame)
    BY <1>7 DEF StepsIn, TimeLeftAfter, Due
  <1>9. session_time + frame \in Nat /\ Due(frame) \in Nat
    BY <1>5, <1>8
  <1>10. Due(frame) < (MaxCatchup + 1) * TickTime
    BY <1>1, <1>2, <1>3, <1>4, <1>5, <1>8
  <1>11. /\ StepsIn(frame) \in Nat /\ TimeLeftAfter(frame) \in 0..(TickTime - 1)
         /\ session_time + frame = (StepsIn(frame) * TickTime) + TimeLeftAfter(frame)
    BY <1>1, <1>8, <1>9, Division
  <1>12. /\ TicksIn(Due(frame)) \in Nat /\ RestOf(Due(frame)) \in 0..(TickTime - 1)
         /\ Due(frame) = (TicksIn(Due(frame)) * TickTime) + RestOf(Due(frame))
    BY <1>9, <1>10, RestIsBelowTick
  <1>13. StepsIn(frame) * TickTime \in Int /\ TicksIn(Due(frame)) * TickTime \in Int
    BY <1>1, <1>11, <1>12, SMT
  <1>14. StepsIn(frame) * TickTime = session_time + frame - TimeLeftAfter(frame)
    BY <1>1, <1>5, <1>11, <1>13
  <1>15. TicksIn(Due(frame)) * TickTime = server_time + Elapsed(frame) - RestOf(Due(frame))
    BY <1>1, <1>5, <1>8, <1>12, <1>13
  <1> QED
    BY <1>11, <1>12, <1>14, <1>15

LEMMA FrameKeepsPace ==
    ASSUME PacingInv, NEW frame \in Frames, PacingFrame(frame) PROVE PacingInv'
  <1>1. TickTime \in Nat \ {0} /\ frame \in Nat
    BY TickPacingAssumption
  <1>2. /\ session_time' = TimeLeftAfter(frame) /\ pumped' = running /\ running' = running
        /\ clock' = (clock + frame) % 3
    BY DEF PacingFrame
  <1>3. session_time' \in 0..(TickTime - 1)
    BY <1>1, <1>2, Timed, Division DEF TimeLeftAfter
  <1>4. server_time' \in 0..(TickTime - 1)
    BY <1>1, Timed, RestIsBelowTick DEF PacingFrame, PacingInv
  <1>5. clock' \in 0..2
    BY <1>1, <1>2, Timed
  <1>6. lead' \in Int /\ Drift' \in Int /\ 0 <= Drift' + TickTime + 1 /\ Drift' < TickTime
    <2>1. CASE ~running \/ ~pumped \/ Stall(frame)
      <3>1. lead' = 0
        BY <2>1 DEF PacingFrame
      <3>2. lead' * TickTime = 0
        BY <1>1, <3>1, SMT
      <3>3. Drift' = 0 + session_time' - server_time' - clock'
        BY <3>2 DEF Drift
      <3> QED
        <4>1. /\ 0 + session_time' - server_time' - clock' \in Int
              /\ 0 <= 0 + session_time' - server_time' - clock' + TickTime + 1
              /\ 0 + session_time' - server_time' - clock' < TickTime
          BY <1>1, <1>3, <1>4, <1>5, DriftAtRest
        <4>2. lead' \in Int
          BY <3>1
        <4> QED
          BY <3>3, <4>1, <4>2, Zenon
    <2>2. CASE running /\ pumped /\ ~Stall(frame)
      <3> DEFINE s == StepsIn(frame)
                 k == TicksIn(Due(frame))
      <3>1. lead' = lead + s - k /\ server_time' = RestOf(Due(frame))
        BY <2>2 DEF PacingFrame
      <3>2. /\ s \in Nat /\ k \in Nat
            /\ s * TickTime = session_time + frame - session_time'
            /\ k * TickTime = server_time + Elapsed(frame) - server_time'
        BY <1>1, <1>2, <2>2, <3>1, BothCountTheFrame
      <3> HIDE DEF s, k
      <3>3. Elapsed(frame) = clock + frame - clock'
        <4>1. clock \in Int /\ clock' \in Int
          BY <1>5 DEF PacingInv
        <4>2. Elapsed(frame) = (clock + frame) - clock'
          BY <1>1, <1>2, <2>2, Timed
        <4> QED
          BY <1>1, <4>1, <4>2
      <3>4. lead \in Int /\ lead' \in Int
        BY <3>1, <3>2 DEF PacingInv
      <3>5. lead' * TickTime = lead * TickTime + s * TickTime - k * TickTime
        BY <1>1, <3>1, <3>2, <3>4, SMT
      <3>6. lead * TickTime \in Int
        BY <1>1, <3>4, SMT
      <3>7. Drift' = Drift
        <4> DEFINE a == lead * TickTime
                   b == s * TickTime
                   c == k * TickTime
        <4>1. /\ TickTime \in Int /\ clock \in Int /\ session_time \in Int
              /\ server_time \in Int /\ frame \in Int
          BY <1>1 DEF PacingInv
        <4>2. clock' \in Int /\ session_time' \in Int /\ server_time' \in Int
          BY <1>1, <1>3, <1>4, <1>5
        <4>3. /\ a \in Int /\ b = session_time + frame - session_time'
              /\ c = server_time + clock + frame - clock' - server_time'
          <5>1. a \in Int
            BY <3>6
          <5>2. b = session_time + frame - session_time'
            BY <3>2, Zenon
          <5>3. c = server_time + Elapsed(frame) - server_time'
            BY <3>2, Zenon
          <5>4. c = server_time + (clock + frame - clock') - server_time'
            BY <3>3, <5>3, Zenon
          <5> HIDE DEF a, b, c
          <5> QED
            BY <4>1, <4>2, <5>1, <5>2, <5>4
        <4>4. Drift' = a + b - c + session_time' - server_time' - clock'
          BY <3>5 DEF Drift
        <4>5. Drift = a + session_time - server_time - clock
          BY DEF Drift
        <4> HIDE DEF a, b, c
        <4> QED
          <5>1. a + b - c + session_time' - server_time' - clock'
                  = a + session_time - server_time - clock
            <6> DEFINE s1 == session_time'
                       v1 == server_time'
                       k1 == clock'
            <6>1. s1 \in Int /\ v1 \in Int /\ k1 \in Int
              BY <4>2
            <6>2. b = session_time + frame - s1 /\ c = server_time + clock + frame - k1 - v1
              BY <4>3
            <6> HIDE DEF s1, v1, k1
            <6>3. a \in Int /\ b \in Int /\ c \in Int
              BY <4>1, <4>3, <6>1, <6>2
            <6>4. a + b - c + s1 - v1 - k1 = a + session_time - server_time - clock
              BY <4>1, <6>1, <6>2, <6>3, DriftIsKept
            <6> QED
              BY <6>4, Zenon DEF s1, v1, k1
          <5> QED
            BY <4>4, <4>5, <5>1, Zenon
      <3> QED
        BY <3>4, <3>7 DEF PacingInv
    <2> QED
      BY <2>1, <2>2
  <1>7. PumpIsSound'
    BY <1>2, Zenon DEF PacingInv, PumpIsSound
  <1> QED
    BY <1>3, <1>4, <1>5, <1>6, <1>7 DEF PacingInv

LEMMA ServerKeepsPace ==
    ASSUME PacingInv, StartServer \/ StopServer PROVE PacingInv'
  <1>1. TickTime \in Nat \ {0}
    BY TickPacingAssumption
  <1>2. /\ lead' = 0 /\ server_time' = 0 /\ clock' = clock /\ session_time' = session_time
        /\ PumpIsSound'
    BY DEF StartServer, StopServer, PumpIsSound
  <1>3. lead' * TickTime = 0
    BY <1>1, <1>2, SMT
  <1>4. Drift' = 0 + session_time - 0 - clock
    BY <1>2, <1>3 DEF Drift
  <1>a. session_time \in 0..(TickTime - 1) /\ 0 \in 0..(TickTime - 1) /\ clock \in 0..2
    BY <1>1 DEF PacingInv
  <1>5. Drift' \in Int /\ 0 <= Drift' + TickTime + 1 /\ Drift' < TickTime
    BY <1>1, <1>4, <1>a, DriftAtRest
  <1>6. server_time' \in 0..(TickTime - 1) /\ lead' \in Int
    BY <1>1, <1>2
  <1>7. clock' \in 0..2 /\ session_time' \in 0..(TickTime - 1)
    BY <1>2 DEF PacingInv
  <1> QED
    BY <1>2, <1>5, <1>6, <1>7 DEF PacingInv

LEMMA NoFrameAsksForMore == PacingInv => NoSpiral
  <1> SUFFICES ASSUME PacingInv, NEW frame \in Frames PROVE StepsIn(frame) * TickTime <= Longest
    BY DEF NoSpiral
  <1>1. /\ TickTime \in Nat \ {0} /\ Longest \in Nat /\ frame \in Nat
        /\ Longest % TickTime = 0
    BY TickPacingAssumption
  <1> DEFINE x == session_time + Least(frame, Longest)
             m == Longest \div TickTime
  <1>a. m \in Nat /\ Longest = (m * TickTime) + (Longest % TickTime)
    BY <1>1, Division
  <1>b. m * TickTime \in Nat
    BY <1>1, <1>a, SMT
  <1>c. Longest = (m * TickTime) + 0
    BY <1>1, <1>a
  <1>2. m \in Nat /\ Longest = (m * TickTime)
    <2> DEFINE product == m * TickTime
    <2>1. product \in Nat /\ Longest = product + 0
      BY <1>b, <1>c
    <2> HIDE DEF product
    <2>2. Longest = product
      BY <2>1
    <2> QED
      BY <1>a, <2>2 DEF product
  <1>3. x \in Nat /\ x <= TickTime - 1 + Longest
    BY <1>1 DEF PacingInv, Least
  <1>4. StepsIn(frame) = x \div TickTime /\ x \div TickTime \in Nat
    BY <1>1, <1>3, Division DEF StepsIn
  <1> HIDE DEF x, m
  <1>5. (m + 1) * TickTime = Longest + TickTime
    BY <1>1, <1>2, SMT
  <1>6. x < (m + 1) * TickTime
    BY <1>1, <1>3, <1>5
  <1>7. StepsIn(frame) <= m
    BY <1>1, <1>2, <1>3, <1>4, <1>6, DivisionBelow
  <1>8. StepsIn(frame) * TickTime <= m * TickTime
    BY <1>1, <1>2, <1>4, <1>7, SMT
  <1> QED
    BY <1>2, <1>8

\* Theorem: for every length of a tick, every limit on catching up and every sequence of
\* frames, client and server stay within two ticks of each other between stalls, and no
\* frame asks for more steps than a quarter of a second has.
THEOREM ClocksAlwaysStayTogether == PacingSpec => []ClocksStayTogether
  <1>1. PacingInit => PacingInv
    <2>1. TickTime \in Nat \ {0}
      BY TickPacingAssumption
    <2>2. PacingInit => lead * TickTime = 0
      BY <2>1, SMT DEF PacingInit
    <2> SUFFICES ASSUME PacingInit PROVE PacingInv
      OBVIOUS
    <2>3. Drift = 0 + 0 - 0 - 0
      BY <2>2 DEF PacingInit, Drift
    <2>4. Drift \in Int /\ 0 <= Drift + TickTime + 1 /\ Drift < TickTime
      BY <2>1, <2>3, DriftAtRest
    <2> QED
      <3>1. PumpIsSound
        BY DEF PacingInit, PumpIsSound
      <3>2. /\ clock \in 0..2 /\ lead \in Int
            /\ session_time \in 0..(TickTime - 1) /\ server_time \in 0..(TickTime - 1)
        BY <2>1 DEF PacingInit
      <3> QED
        BY <2>4, <3>1, <3>2, Zenon DEF PacingInv
  <1>2. PacingInv /\ [PacingNext]_pacing_vars => PacingInv'
    <2>1. PacingInv /\ UNCHANGED pacing_vars => PacingInv'
      BY DEF PacingInv, PumpIsSound, Drift, pacing_vars
    <2> QED
      BY <2>1, FrameKeepsPace, ServerKeepsPace DEF PacingNext
  <1>3. PacingInv => ClocksStayTogether
    BY PacingInvMeansClose, NoFrameAsksForMore DEF ClocksStayTogether
  <1> QED
    BY <1>1, <1>2, <1>3, PTL DEF PacingSpec

-----------------------------------------------------------------------------
(* PlayerMotion *)

\* Who stands, or has just stood, has stood since the last jump.
StandingIsKnown == grounded \/ coyote > 0 => stood

\* A jump that still rises takes as many steps as its velocity has lost, two units at most
\* in each, and the animation has advanced in every one of them.
JumpRises ==
    locomotion = "JumpStart" /\ velocity > 0 =>
        advances = MaxAdvances \/ velocity + 2 * advances >= JumpVelocity + 2

\* The animation of a landing is ahead of its timer, which rests aboard the ship.
LandingIsAhead ==
    locomotion \in {"LandSoft", "LandHard"} => advances = MaxAdvances \/ advances > timer

\* A press is owed a jump only before the first step of its frame, which will answer it.
PressIsFresh ==
    /\ motion_phase = "input" \/ steps = 0 => ~consumed
    /\ motion_phase = "input" => steps = 0
    /\ owed => /\ motion_phase = "steps" /\ steps = 0 /\ jump_pressed
               /\ ~in_ship /\ ~fly_mode /\ locomotion # "Recovery"
               /\ grounded \/ coyote > 1

MotionInv ==
    MotionTypeOK /\ StandingIsKnown /\ JumpRises /\ LandingIsAhead /\ PressIsFresh

LEMMA MotionTypes ==
    ASSUME MotionTypeOK
    PROVE  /\ jump_pressed \in BOOLEAN /\ consumed \in BOOLEAN /\ fly_mode \in BOOLEAN
           /\ in_ship \in BOOLEAN /\ grounded \in BOOLEAN /\ stood \in BOOLEAN
           /\ owed \in BOOLEAN
  BY DEF MotionTypeOK

\* The animation goes on with the timer, or both begin.
LEMMA StateEntered ==
    ASSUME MotionTypeOK, LandingIsAhead, NEW s \in States, EnterState(s, NextTimer)
    PROVE  /\ locomotion' = s /\ locomotion' \in States
           /\ timer' \in 0..MaxTimer /\ advances' \in 1..MaxAdvances
           /\ locomotion' = locomotion => advances' = MaxAdvances \/ advances' = advances + 1
           /\ LandingIsAhead'
  <1>1. timer \in 0..MaxTimer /\ advances \in 0..MaxAdvances
    BY DEF MotionTypeOK
  <1>2. CASE s = locomotion
    <2>1. /\ locomotion' = s
          /\ timer' = IF timer < MaxTimer THEN timer + 1 ELSE MaxTimer
          /\ advances' = IF advances < MaxAdvances THEN advances + 1 ELSE MaxAdvances
      BY <1>2 DEF EnterState, NextTimer, More
    <2> QED
      BY <1>1, <1>2, <2>1 DEF LandingIsAhead, MaxTimer, MaxAdvances, RecoverySteps
  <1>3. CASE s # locomotion
    <2>1. locomotion' = s /\ timer' = 0 /\ advances' = 1
      BY <1>3 DEF EnterState
    <2> QED
      BY <1>3, <2>1 DEF LandingIsAhead, MaxTimer, MaxAdvances, RecoverySteps
  <1> QED
    BY <1>2, <1>3

LEMMA BuffersAreTyped ==
    ASSUME MotionTypeOK
    PROVE  NextBuffer \in 0..BufferSteps /\ NextCoyote \in 0..CoyoteSteps
  BY DEF MotionTypeOK, NextBuffer, NextCoyote, Less, BufferSteps, CoyoteSteps

\* The step of a frame answers the press that is owed, and the next is not a first one.
LEMMA StepAges ==
    ASSUME MotionTypeOK, FixedStep
    PROVE  /\ motion_phase' = "steps" /\ steps' \in 0..MaxSteps /\ steps' > 0
           /\ jump_pressed' \in BOOLEAN /\ consumed' \in BOOLEAN
           /\ fly_mode' \in BOOLEAN /\ in_ship' \in BOOLEAN
  BY PlayerMotionAssumption, MotionTypes DEF FixedStep, MotionTypeOK

LEMMA OwedMeansFit ==
    ASSUME MotionInv, owed
    PROVE  ~in_ship /\ ~fly_mode /\ CanJump
  <1>1. /\ jump_pressed /\ ~consumed /\ ~in_ship /\ ~fly_mode /\ locomotion # "Recovery"
        /\ grounded \/ coyote > 1
    BY DEF MotionInv, PressIsFresh
  <1>2. NextBuffer = 8
    BY <1>1 DEF NextBuffer, BufferSteps
  <1>3. grounded \/ NextCoyote > 0
    <2>1. coyote \in Nat
      BY DEF MotionInv, MotionTypeOK, CoyoteSteps
    <2> QED
      BY <1>1, <2>1 DEF NextCoyote, Less
  <1> QED
    BY <1>1, <1>2, <1>3 DEF CanJump

LEMMA ShipMotionKeeps == ASSUME MotionInv, ShipStep PROVE MotionInv'
  <1>1. /\ in_ship /\ FixedStep /\ grounded' \in BOOLEAN /\ stood' = (stood \/ grounded')
        /\ advances' = IF advances < MaxAdvances THEN advances + 1 ELSE MaxAdvances
        /\ UNCHANGED <<velocity, locomotion, timer, buffer, coyote, owed>>
    BY DEF ShipStep, More
  <1>2. advances \in 0..MaxAdvances /\ timer \in 0..MaxTimer /\ velocity \in -1..JumpVelocity
    BY DEF MotionInv, MotionTypeOK
  <1>3. ~owed
    BY <1>1, OwedMeansFit
  <1>4. MotionTypeOK'
    <2>1. stood' \in BOOLEAN /\ owed' \in BOOLEAN
      BY <1>1, MotionTypes DEF MotionInv
    <2>2. advances' \in 0..MaxAdvances
      BY <1>1, <1>2 DEF MaxAdvances
    <2> QED
      BY <1>1, <2>1, <2>2, StepAges DEF MotionInv, MotionTypeOK
  <1>5. StandingIsKnown'
    BY <1>1 DEF MotionInv, StandingIsKnown
  <1>6. JumpRises'
    BY <1>1, <1>2 DEF MotionInv, JumpRises, MaxAdvances, JumpVelocity
  <1>7. LandingIsAhead'
    BY <1>1, <1>2 DEF MotionInv, LandingIsAhead, MaxAdvances, MaxTimer, RecoverySteps
  <1>8. PressIsFresh'
    BY <1>1, <1>3, StepAges DEF MotionInv, PressIsFresh
  <1> QED
    BY <1>4, <1>5, <1>6, <1>7, <1>8 DEF MotionInv

LEMMA FlyStepKeeps == ASSUME MotionInv, FlyStep PROVE MotionInv'
  <1>1. /\ fly_mode /\ FixedStep /\ grounded' \in BOOLEAN /\ stood' = (stood \/ grounded')
        /\ buffer' = NextBuffer /\ coyote' = NextCoyote
        /\ velocity' = velocity /\ owed' = owed
        /\ EnterState(IF grounded' THEN "OnFeet" ELSE "AirborneFall", NextTimer)
    BY DEF FlyStep
  <1>2. ~owed
    BY <1>1, OwedMeansFit
  <1> DEFINE s == IF grounded' THEN "OnFeet" ELSE "AirborneFall"
  <1>3. s \in States /\ s # "JumpStart"
    BY DEF States, Airborne
  <1> HIDE DEF s
  <1>4. /\ locomotion' = s /\ LandingIsAhead' /\ locomotion' \in States
        /\ timer' \in 0..MaxTimer /\ advances' \in 1..MaxAdvances
    BY <1>1, <1>3, StateEntered DEF MotionInv, s
  <1>5. MotionTypeOK'
    <2>1. stood' \in BOOLEAN /\ owed' \in BOOLEAN
      BY <1>1, MotionTypes DEF MotionInv
    <2>2. buffer' \in 0..BufferSteps /\ coyote' \in 0..CoyoteSteps
      BY <1>1, BuffersAreTyped DEF MotionInv
    <2>3. advances' \in 0..MaxAdvances
      BY <1>4 DEF MaxAdvances
    <2> QED
      BY <1>1, <1>4, <2>1, <2>2, <2>3, StepAges DEF MotionInv, MotionTypeOK
  <1>6. StandingIsKnown'
    <2>1. coyote \in Nat
      BY DEF MotionInv, MotionTypeOK, CoyoteSteps
    <2>2. NextCoyote > 0 => grounded \/ coyote > 0
      BY <2>1 DEF NextCoyote, Less
    <2> QED
      BY <1>1, <2>2 DEF MotionInv, StandingIsKnown
  <1>7. JumpRises'
    BY <1>3, <1>4 DEF JumpRises
  <1>8. PressIsFresh'
    BY <1>1, <1>2, StepAges DEF MotionInv, PressIsFresh
  <1> QED
    BY <1>4, <1>5, <1>6, <1>7, <1>8 DEF MotionInv

\* What a step on foot finds: whether there is a jump, and what the player does then.
LEMMA FootStepIs ==
    ASSUME MotionInv, FootStep
    PROVE  \E v \in -1..JumpVelocity, contact \in BOOLEAN, rebound \in BOOLEAN, s \in States :
             /\ rebound => contact /\ ~CanJump
             /\ CanJump => v = JumpVelocity /\ ~contact
             /\ ~CanJump => IF velocity > 0 THEN v >= velocity - 2 ELSE v <= 0
             /\ grounded' = (contact /\ ~rebound)
             /\ velocity' = IF rebound THEN JumpVelocity ELSE IF contact THEN 0 ELSE v
             /\ EnterState(s, NextTimer)
             /\ s = "JumpStart" => rebound \/ CanJump \/ contact \/ locomotion = "JumpStart"
             /\ buffer' = IF CanJump \/ rebound THEN 0 ELSE NextBuffer
             /\ coyote' = IF CanJump \/ rebound THEN 0 ELSE NextCoyote
             /\ stood' = (grounded' \/ (stood /\ ~(CanJump \/ rebound)))
             /\ owed' = (owed /\ ~(CanJump \/ rebound))
  <1>1. velocity \in -1..JumpVelocity /\ grounded \in BOOLEAN /\ locomotion \in States
    BY MotionTypes DEF MotionInv, MotionTypeOK
  <1>a. PICK v \in BeforeSolve : \E contact \in Touching(v), hard \in {FALSE, v < 0} :
          LET rebound == contact /\ ~grounded /\ ~CanJump /\ NextBuffer > 0
              jumped == CanJump \/ rebound
          IN  /\ grounded' = (contact /\ ~rebound)
              /\ velocity' = IF rebound THEN JumpVelocity ELSE IF contact THEN 0 ELSE v
              /\ EnterState(IF rebound THEN "JumpStart"
                            ELSE IF contact THEN OnGround(IF hard THEN "LandHard" ELSE "LandSoft")
                            ELSE InAir(v), NextTimer)
              /\ buffer' = IF jumped THEN 0 ELSE NextBuffer
              /\ coyote' = CoyoteAfter(jumped)
              /\ stood' = (grounded' \/ (stood /\ ~jumped))
              /\ owed' = (owed /\ ~jumped)
    BY DEF FootStep
  <1>2. PICK contact \in Touching(v), hard \in {FALSE, v < 0} :
          LET rebound == contact /\ ~grounded /\ ~CanJump /\ NextBuffer > 0
              jumped == CanJump \/ rebound
          IN  /\ grounded' = (contact /\ ~rebound)
              /\ velocity' = IF rebound THEN JumpVelocity ELSE IF contact THEN 0 ELSE v
              /\ EnterState(IF rebound THEN "JumpStart"
                            ELSE IF contact THEN OnGround(IF hard THEN "LandHard" ELSE "LandSoft")
                            ELSE InAir(v), NextTimer)
              /\ buffer' = IF jumped THEN 0 ELSE NextBuffer
              /\ coyote' = CoyoteAfter(jumped)
              /\ stood' = (grounded' \/ (stood /\ ~jumped))
              /\ owed' = (owed /\ ~jumped)
    BY <1>a
  <1> DEFINE rebound == contact /\ ~grounded /\ ~CanJump /\ NextBuffer > 0
             impact == IF hard THEN "LandHard" ELSE "LandSoft"
             s == IF rebound THEN "JumpStart" ELSE IF contact THEN OnGround(impact) ELSE InAir(v)
  <1>3. v \in -1..JumpVelocity
    BY <1>1 DEF BeforeSolve, Fallen, JumpVelocity
  <1>4. contact \in BOOLEAN /\ (CanJump => v = JumpVelocity /\ ~contact)
    <2>1. contact \in BOOLEAN
      BY DEF Touching
    <2>2. CanJump => v = 22 /\ StateBeforeSolve = "JumpStart"
      BY DEF StateBeforeSolve, BeforeSolve, JumpVelocity
    <2>3. CanJump => Touching(v) = {FALSE}
      BY <2>2 DEF Touching
    <2>4. CanJump => ~contact
      BY <2>3, Zenon
    <2> QED
      BY <2>1, <2>2, <2>4 DEF JumpVelocity
  <1>5. ~CanJump => IF velocity > 0 THEN v >= velocity - 2 ELSE v <= 0
    BY <1>1 DEF BeforeSolve, Fallen, JumpVelocity
  <1>6. OnGround(impact) \in States
    BY <1>1 DEF OnGround, SoftLanding, States, Airborne
  <1>7. InAir(v) \in States /\ (InAir(v) = "JumpStart" => CanJump \/ locomotion = "JumpStart")
    BY <1>1 DEF InAir, StateBeforeSolve, States, Airborne
  <1>8. s \in States
    BY <1>6, <1>7 DEF States, Airborne
  <1>9. s = "JumpStart" => rebound \/ CanJump \/ contact \/ locomotion = "JumpStart"
    BY <1>7
  <1>10. rebound \in BOOLEAN /\ (rebound => contact /\ ~CanJump)
    OBVIOUS
  <1>11. /\ grounded' = (contact /\ ~rebound)
         /\ velocity' = IF rebound THEN JumpVelocity ELSE IF contact THEN 0 ELSE v
         /\ EnterState(s, NextTimer)
         /\ buffer' = IF CanJump \/ rebound THEN 0 ELSE NextBuffer
         /\ coyote' = IF CanJump \/ rebound THEN 0 ELSE NextCoyote
         /\ stood' = (grounded' \/ (stood /\ ~(CanJump \/ rebound)))
         /\ owed' = (owed /\ ~(CanJump \/ rebound))
    BY <1>2, Zenon DEF CoyoteAfter
  <1> HIDE DEF rebound, impact, s
  <1> QED
    BY <1>3, <1>4, <1>5, <1>8, <1>9, <1>10, <1>11, Zenon

LEMMA FreshJump == \A n \in 1..7 : 22 + 2 * n >= 24
  OBVIOUS

LEMMA FootStepKeeps == ASSUME MotionInv, FootStep PROVE MotionInv'
  <1>1. PICK v \in -1..JumpVelocity, contact \in BOOLEAN, rebound \in BOOLEAN, s \in States :
          /\ rebound => contact /\ ~CanJump
          /\ CanJump => v = JumpVelocity /\ ~contact
          /\ ~CanJump => IF velocity > 0 THEN v >= velocity - 2 ELSE v <= 0
          /\ grounded' = (contact /\ ~rebound)
          /\ velocity' = IF rebound THEN JumpVelocity ELSE IF contact THEN 0 ELSE v
          /\ EnterState(s, NextTimer)
          /\ s = "JumpStart" => rebound \/ CanJump \/ contact \/ locomotion = "JumpStart"
          /\ buffer' = IF CanJump \/ rebound THEN 0 ELSE NextBuffer
          /\ coyote' = IF CanJump \/ rebound THEN 0 ELSE NextCoyote
          /\ stood' = (grounded' \/ (stood /\ ~(CanJump \/ rebound)))
          /\ owed' = (owed /\ ~(CanJump \/ rebound))
    BY FootStepIs, Zenon
  <1>2. /\ velocity \in -1..JumpVelocity /\ advances \in 0..MaxAdvances /\ coyote \in Nat
        /\ NextBuffer \in 0..BufferSteps /\ NextCoyote \in 0..CoyoteSteps
    BY BuffersAreTyped DEF MotionInv, MotionTypeOK, CoyoteSteps
  <1>3. /\ locomotion' = s /\ LandingIsAhead' /\ locomotion' \in States
        /\ timer' \in 0..MaxTimer /\ advances' \in 1..MaxAdvances
        /\ locomotion' = locomotion => advances' = MaxAdvances \/ advances' = advances + 1
    BY <1>1, StateEntered DEF MotionInv
  <1>4. FixedStep
    BY DEF FootStep
  <1>5. ~owed'
    BY <1>1, OwedMeansFit
  <1>6. MotionTypeOK'
    <2>1. grounded' \in BOOLEAN /\ stood' \in BOOLEAN /\ owed' \in BOOLEAN
      BY <1>1
    <2>2. buffer' \in 0..BufferSteps /\ coyote' \in 0..CoyoteSteps
      BY <1>1, <1>2 DEF BufferSteps, CoyoteSteps
    <2>3. velocity' \in -1..JumpVelocity
      BY <1>1 DEF JumpVelocity
    <2>4. advances' \in 0..MaxAdvances
      BY <1>3 DEF MaxAdvances
    <2> QED
      BY <1>3, <1>4, <2>1, <2>2, <2>3, <2>4, StepAges DEF MotionInv, MotionTypeOK
  <1>7. StandingIsKnown'
    <2>1. NextCoyote > 0 => grounded \/ coyote > 0
      BY <1>2 DEF NextCoyote, Less
    <2>2. coyote' > 0 => ~(CanJump \/ rebound) /\ NextCoyote > 0
      BY <1>1
    <2> QED
      BY <1>1, <2>1, <2>2 DEF MotionInv, StandingIsKnown
  <1>8. JumpRises'
    <2>1. SUFFICES ASSUME locomotion' = "JumpStart", velocity' > 0
                   PROVE  advances' = MaxAdvances \/ velocity' + 2 * advances' >= JumpVelocity + 2
      BY DEF JumpRises
    <2>2. CASE CanJump \/ rebound
      <3>1. velocity' = JumpVelocity
        BY <1>1, <2>2
      <3>2. velocity' = 22 /\ advances' \in 1..7
        BY <1>3, <3>1 DEF JumpVelocity, MaxAdvances
      <3>3. velocity' + 2 * advances' >= 24
        BY <3>2, FreshJump, Zenon
      <3> QED
        BY <3>3 DEF JumpVelocity
    <2>3. CASE ~(CanJump \/ rebound)
      <3>1. ~contact /\ velocity' = v
        BY <1>1, <2>1, <2>3
      <3>2. locomotion = "JumpStart"
        BY <1>1, <1>3, <2>1, <2>3, <3>1
      <3>3. v >= velocity - 2 /\ velocity > 0
        BY <1>1, <1>2, <2>1, <2>3, <3>1
      <3>4. advances = MaxAdvances \/ velocity + 2 * advances >= JumpVelocity + 2
        BY <3>2, <3>3 DEF MotionInv, JumpRises
      <3>5. locomotion' = locomotion
        BY <2>1, <3>2
      <3>6. CASE advances' = MaxAdvances
        BY <3>6
      <3>7. CASE advances' # MaxAdvances
        <4>1. advances' = advances + 1 /\ advances' < 7 /\ advances \in Int
          BY <1>2, <1>3, <3>5, <3>7 DEF MaxAdvances
        <4>2. velocity + 2 * advances >= 24 /\ velocity \in Int
          BY <1>2, <3>4, <4>1 DEF JumpVelocity, MaxAdvances
        <4>3. v \in Int /\ v >= velocity - 2
          BY <3>3
        <4>4. v + 2 * (advances + 1) >= 24
          BY <4>1, <4>2, <4>3
        <4>5. velocity' + 2 * advances' >= 24
          BY <3>1, <4>1, <4>4
        <4> QED
          BY <4>5 DEF JumpVelocity
      <3> QED
        BY <3>6, <3>7
    <2> QED
      BY <2>2, <2>3
  <1>9. PressIsFresh'
    <2>1. motion_phase' = "steps" /\ steps' > 0 /\ steps' \in Nat
      BY <1>4, StepAges, PlayerMotionAssumption DEF MotionInv
    <2>2. motion_phase' # "input" /\ steps' # 0
      BY <2>1
    <2> QED
      BY <1>5, <2>2, Zenon DEF PressIsFresh
  <1> QED
    BY <1>3, <1>6, <1>7, <1>8, <1>9 DEF MotionInv

LEMMA FrameBeginsKeeps == ASSUME MotionInv, BeginMotionFrame PROVE MotionInv'
  <1>1. /\ motion_phase = "input" /\ motion_phase' = "steps" /\ jump_pressed' \in BOOLEAN
        /\ stood' = (stood \/ grounded')
        /\ UNCHANGED <<steps, consumed, locomotion, timer, buffer, coyote, advances>>
    BY DEF BeginMotionFrame
  <1>2. /\ fly_mode' \in BOOLEAN /\ in_ship' \in BOOLEAN /\ grounded' \in BOOLEAN
        /\ velocity' = velocity \/ velocity' = 0
    BY MotionTypes DEF MotionInv, BeginMotionFrame, StayAsIs, ToggleFly, Assist, StepAboard, StepOff
  <1>3. grounded' \in BOOLEAN /\ (grounded' => stood') /\ (stood => stood')
    BY <1>1, <1>2
  <1>4. /\ owed' \in BOOLEAN
        /\ owed' => /\ jump_pressed' /\ ~in_ship' /\ ~fly_mode'
                    /\ grounded' \/ coyote > 1
                    /\ locomotion # "Recovery"
    BY Zenon DEF BeginMotionFrame
  <1>5. steps = 0 /\ ~consumed
    BY <1>1 DEF MotionInv, PressIsFresh
  <1>6. MotionTypeOK'
    <2>1. stood' \in BOOLEAN
      BY <1>1
    <2>2. velocity' \in -1..JumpVelocity
      BY <1>2 DEF MotionInv, MotionTypeOK, JumpVelocity
    <2> QED
      BY <1>1, <1>2, <1>4, <2>1, <2>2, MotionTypes DEF MotionInv, MotionTypeOK
  <1>7. StandingIsKnown'
    BY <1>1, <1>3 DEF MotionInv, StandingIsKnown
  <1>8. JumpRises'
    BY <1>1, <1>2 DEF MotionInv, JumpRises
  <1>9. LandingIsAhead'
    BY <1>1 DEF MotionInv, LandingIsAhead
  <1>10. PressIsFresh'
    BY <1>1, <1>4, <1>5 DEF PressIsFresh
  <1> QED
    BY <1>6, <1>7, <1>8, <1>9, <1>10 DEF MotionInv

LEMMA FrameEndsKeeps ==
    ASSUME MotionInv, EndMotionFrame, MinSteps > 0 PROVE MotionInv'
  <1>1. /\ motion_phase = "steps" /\ steps >= MinSteps
        /\ motion_phase' = "input" /\ steps' = 0 /\ jump_pressed' = FALSE /\ consumed' = FALSE
        /\ UNCHANGED <<fly_mode, in_ship, grounded, velocity, locomotion, timer, buffer, coyote,
                       advances, stood, owed>>
    BY DEF EndMotionFrame
  <1>2. steps # 0
    BY <1>1, PlayerMotionAssumption DEF MotionInv, MotionTypeOK
  <1>3. ~owed
    BY <1>2 DEF MotionInv, PressIsFresh
  <1>4. MotionTypeOK'
    <2>1. steps' \in 0..MaxSteps
      BY <1>1, PlayerMotionAssumption
    <2>2. {jump_pressed, consumed, fly_mode, in_ship, grounded, stood, owed}' \subseteq BOOLEAN
      BY <1>1, MotionTypes DEF MotionInv
    <2> QED
      BY <1>1, <2>1, <2>2 DEF MotionInv, MotionTypeOK
  <1>5. StandingIsKnown' /\ JumpRises' /\ LandingIsAhead'
    BY <1>1 DEF MotionInv, StandingIsKnown, JumpRises, LandingIsAhead
  <1>6. PressIsFresh'
    BY <1>1, <1>3 DEF PressIsFresh
  <1> QED
    BY <1>4, <1>5, <1>6 DEF MotionInv

LEMMA MotionInductive ==
    ASSUME MotionInv, [MotionNext]_motion_vars, MinSteps > 0 PROVE MotionInv'
  <1>1. CASE UNCHANGED motion_vars
    BY <1>1 DEF motion_vars, motion_frame, MotionInv, MotionTypeOK, StandingIsKnown, JumpRises,
                LandingIsAhead, PressIsFresh
  <1> QED
    BY <1>1, FrameBeginsKeeps, FrameEndsKeeps, ShipMotionKeeps, FlyStepKeeps, FootStepKeeps
       DEF MotionNext

\* A state is left only by a step on foot or in flight, when its animation has come to the
\* event that reports it.
Heard ==
    /\ ~fly_mode /\ ~in_ship /\ locomotion = "JumpStart" /\ velocity > 0
            /\ locomotion' # locomotion => advances >= EventAt["JumpStart"]
    /\ ~fly_mode /\ locomotion = "LandSoft" /\ locomotion' = "OnFeet" =>
            advances >= EventAt["LandSoft"]
    /\ locomotion = "LandHard" /\ locomotion' = "Recovery" => advances >= EventAt["LandHard"]

LEMMA FootStepIsHeard == ASSUME MotionInv, FootStep PROVE Heard
  <1> DEFINE Rebound(contact) == contact /\ ~grounded /\ ~CanJump /\ NextBuffer > 0
             Impact(hard) == IF hard THEN "LandHard" ELSE "LandSoft"
  <1>1. PICK v \in BeforeSolve : \E contact \in Touching(v), hard \in {FALSE, v < 0} :
          locomotion' = IF Rebound(contact) THEN "JumpStart"
                        ELSE IF contact THEN OnGround(Impact(hard)) ELSE InAir(v)
    BY DEF FootStep, EnterState
  <1>2. PICK contact \in Touching(v), hard \in {FALSE, v < 0} :
          locomotion' = IF Rebound(contact) THEN "JumpStart"
                        ELSE IF contact THEN OnGround(Impact(hard)) ELSE InAir(v)
    BY <1>1
  <1>3. /\ velocity \in -1..22 /\ advances \in 0..7 /\ timer \in 0..17
        /\ grounded \in BOOLEAN
    BY MotionTypes DEF MotionInv, MotionTypeOK, JumpVelocity, MaxAdvances, MaxTimer, RecoverySteps
  <1>4. /\ EventAt["JumpStart"] = 6 /\ EventAt["LandSoft"] = 6 /\ EventAt["LandHard"] = 7
    BY DEF EventAt
  <1>5. NextTimer \in 0..17 /\ NextTimer <= timer + 1
    BY <1>3 DEF NextTimer, More, MaxTimer, RecoverySteps
  <1>6. ASSUME locomotion = "JumpStart", velocity > 0, locomotion' # locomotion
        PROVE  advances >= 6
    <2>1. StateBeforeSolve = "JumpStart"
      BY <1>6 DEF StateBeforeSolve
    <2>2. v <= 0
      <3>1. SUFFICES ASSUME v > 0 PROVE FALSE
        BY <1>3 DEF BeforeSolve, Fallen, JumpVelocity
      <3>2. Touching(v) = {FALSE}
        BY <2>1, <3>1 DEF Touching
      <3>3. ~contact
        BY <3>2, Zenon
      <3>4. InAir(v) = "JumpStart"
        BY <2>1, <3>1, <1>3 DEF InAir, BeforeSolve, Fallen, JumpVelocity
      <3> QED
        BY <1>2, <1>6, <3>3, <3>4
    <2>3. velocity <= 2
      BY <1>3, <1>6, <2>2 DEF BeforeSolve, Fallen, JumpVelocity
    <2>4. advances = 7 \/ velocity + 2 * advances >= 24
      BY <1>6 DEF MotionInv, JumpRises, MaxAdvances, JumpVelocity
    <2> QED
      BY <1>3, <2>3, <2>4
  <1>7. ASSUME locomotion = "LandSoft", locomotion' = "OnFeet" PROVE advances >= 6
    <2>1. ~CanJump /\ StateBeforeSolve = "LandSoft" /\ ~Rebound(contact) /\ contact
      <3>1. InAir(v) # "OnFeet"
        BY <1>7 DEF InAir, StateBeforeSolve
      <3>2. ~Rebound(contact) /\ contact
        BY <1>2, <1>7, <3>1
      <3>3. CanJump => ~contact
        <4>1. CanJump => v = 22 /\ StateBeforeSolve = "JumpStart"
          BY DEF StateBeforeSolve, BeforeSolve, JumpVelocity
        <4>2. CanJump => Touching(v) = {FALSE}
          BY <4>1 DEF Touching
        <4> QED
          BY <4>2, Zenon
      <3> QED
        BY <1>7, <3>2, <3>3 DEF StateBeforeSolve
    <2>2. OnGround(Impact(hard)) = "OnFeet"
      BY <1>2, <1>7, <2>1
    <2>3. NextTimer >= 6
      BY <2>1, <2>2 DEF OnGround, SoftLanding, SoftSteps, Airborne
    <2>4. advances = 7 \/ advances > timer
      BY <1>7 DEF MotionInv, LandingIsAhead, MaxAdvances
    <2> QED
      BY <1>3, <1>5, <2>3, <2>4
  <1>8. ASSUME locomotion = "LandHard", locomotion' = "Recovery" PROVE advances >= 7
    <2>1. InAir(v) # "Recovery"
      BY <1>8 DEF InAir, StateBeforeSolve
    <2>2. OnGround(Impact(hard)) = "Recovery"
      BY <1>2, <1>8, <2>1
    <2>3. StateBeforeSolve \in {"JumpStart", "LandHard"}
      BY <1>8 DEF StateBeforeSolve
    <2>4. NextTimer >= 16
      BY <2>2, <2>3 DEF OnGround, RecoverySteps, Airborne
    <2>5. advances = 7 \/ advances > timer
      BY <1>8 DEF MotionInv, LandingIsAhead, MaxAdvances
    <2> QED
      BY <1>3, <1>5, <2>4, <2>5
  <1> QED
    BY <1>4, <1>6, <1>7, <1>8 DEF Heard

LEMMA OthersAreHeard ==
    ASSUME MotionInv, MotionNext, ~FootStep PROVE Heard
  <1>1. CASE locomotion' = locomotion
    BY <1>1 DEF Heard
  <1>2. CASE FlyStep
    <2>1. fly_mode /\ locomotion' \in {"OnFeet", "AirborneFall"}
      BY <1>2 DEF FlyStep, EnterState
    <2> QED
      BY <2>1 DEF Heard
  <1>3. BeginMotionFrame \/ EndMotionFrame \/ ShipStep => locomotion' = locomotion
    BY DEF BeginMotionFrame, EndMotionFrame, ShipStep
  <1> QED
    BY <1>1, <1>2, <1>3 DEF MotionNext

\* Theorem: where every frame has a fixed step, and however many it has, a press of the jump
\* button that finds the player fit is answered, nobody jumps in the air, and jumps and
\* landings last until their animation has reported them.
THEOREM JumpsAreAlwaysAnswered == MinSteps > 0 => (MotionSpec => JumpsAreAnsweredAndHeard)
  <1> SUFFICES ASSUME MinSteps > 0 PROVE MotionSpec => JumpsAreAnsweredAndHeard
    OBVIOUS
  <1>1. MotionInit => MotionInv
    <2> SUFFICES ASSUME MotionInit PROVE MotionInv
      OBVIOUS
    <2>1. steps \in 0..MaxSteps
      BY PlayerMotionAssumption DEF MotionInit
    <2>2. {jump_pressed, consumed, fly_mode, in_ship, grounded, stood, owed} \subseteq BOOLEAN
      BY DEF MotionInit
    <2>3. /\ velocity \in -1..JumpVelocity /\ locomotion \in States /\ timer \in 0..MaxTimer
          /\ buffer \in 0..BufferSteps /\ coyote \in 0..CoyoteSteps
          /\ advances \in 0..MaxAdvances /\ motion_phase \in {"input", "steps"}
      BY DEF MotionInit, States, Airborne, MaxTimer, RecoverySteps, BufferSteps, CoyoteSteps,
             MaxAdvances, JumpVelocity
    <2>4. MotionTypeOK
      BY <2>1, <2>2, <2>3 DEF MotionTypeOK
    <2>5. StandingIsKnown /\ JumpRises /\ LandingIsAhead /\ PressIsFresh
      BY DEF MotionInit, StandingIsKnown, JumpRises, LandingIsAhead, PressIsFresh
    <2> QED
      BY <2>4, <2>5 DEF MotionInv
  <1>2. MotionInv /\ [MotionNext]_motion_vars => MotionInv'
    BY MotionInductive
  <1>3. MotionInv => EveryPressJumps /\ NoJumpInTheAir
    BY DEF MotionInv, PressIsFresh, StandingIsKnown, EveryPressJumps, NoJumpInTheAir
  <1>4. MotionInv /\ MotionNext => Heard
    BY FootStepIsHeard, OthersAreHeard
  <1>5. MotionSpec => []MotionInv
    BY <1>1, <1>2, PTL DEF MotionSpec
  <1>6. MotionSpec => [][Heard]_motion_vars
    BY <1>4, <1>5, PTL DEF MotionSpec
  <1>7. MotionSpec => MotionIsHeard
    BY <1>6 DEF Heard, MotionIsHeard
  <1> QED
    BY <1>3, <1>5, <1>7, PTL DEF JumpsAreAnsweredAndHeard
-----------------------------------------------------------------------------
(* Induction and recursion over numbers.  The library's induction takes an  *)
(* operator, which the provers cannot be given; here it takes the set of    *)
(* the numbers of which something holds, and what a step does as a function. *)

LEMMA LeastNatural ==
    ASSUME NEW T, T \subseteq Nat, T # {}
    PROVE  \E x \in T : \A y \in T : x <= y
  <1> DEFINE R == OpToRel(<, Nat)
  <1>1. IsWellFoundedOn(R, Nat)
    BY NatLessThanWellFounded
  <1>2. \A x, y \in Nat : y < x => <<y, x>> \in R
    BY DEF OpToRel
  <1> HIDE DEF R
  <1>3. \E x \in T : \A y \in T : ~(<<y, x>> \in R)
    BY <1>1, WFMin
  <1>4. \A x, y \in Nat : ~(<<y, x>> \in R) => x <= y
    BY <1>2
  <1>5. PICK x \in T : \A y \in T : ~(<<y, x>> \in R)
    BY <1>3
  <1>6. \A y \in T : x <= y
    BY <1>4, <1>5
  <1> QED
    BY <1>6

\* What holds of 0, and of every number after one it holds of, holds up to the final one.
LEMMA UpTo ==
    ASSUME NEW n \in Nat, NEW T, 0 \in T, \A i \in 1..n : i - 1 \in T => i \in T
    PROVE  0..n \subseteq T
  <1> DEFINE Out == (0..n) \ T
  <1> SUFFICES ASSUME Out # {} PROVE FALSE
    OBVIOUS
  <1>1. Out \subseteq Nat
    OBVIOUS
  <1>2. PICK k \in Out : \A m \in Out : k <= m
    BY <1>1, LeastNatural
  <1>3. k \in 1..n /\ k - 1 \in 0..n /\ ~(k <= k - 1)
    BY <1>2
  <1>4. k - 1 \in T
    BY <1>2, <1>3
  <1> QED
    BY <1>2, <1>3, <1>4

\* A step that never leaves S, and the functions that begin with base and go on by step
StaysIn(n, S, step) == \A s \in S, i \in 1..n : step[<<s, i>>] \in S

Goings(n, S, base, step) ==
    {f \in [0..n -> S] : f[0] = base /\ \A i \in 1..n : f[i] = step[<<f[i - 1], i>>]}

\* There is one.
LEMMA Recursion ==
    ASSUME NEW n \in Nat, NEW S, NEW base \in S, NEW step, StaysIn(n, S, step)
    PROVE  Goings(n, S, base, step) # {}
  <1> DEFINE Good(f, k) == f[0] = base /\ \A i \in 1..k : f[i] = step[<<f[i - 1], i>>]
             T == {k \in 0..n : \E f \in [0..k -> S] : Good(f, k)}
  <1>1. 0 \in T
    <2> DEFINE f == [i \in 0..0 |-> base]
    <2>1. f \in [0..0 -> S] /\ Good(f, 0)
      OBVIOUS
    <2> HIDE DEF f
    <2> QED
      BY <2>1
  <1>2. ASSUME NEW k \in 1..n, k - 1 \in T PROVE k \in T
    <2>1. PICK f \in [0..k - 1 -> S] : Good(f, k - 1)
      BY <1>2
    <2> DEFINE g == [i \in 0..k |-> IF i = k THEN step[<<f[k - 1], k>>] ELSE f[i]]
    <2>2. f[k - 1] \in S /\ step[<<f[k - 1], k>>] \in S
      BY <2>1 DEF StaysIn
    <2>3. g \in [0..k -> S]
      BY <2>1, <2>2
    <2>4. g[0] = base
      BY <2>1
    <2>5. ASSUME NEW i \in 1..k PROVE g[i] = step[<<g[i - 1], i>>]
      <3>1. CASE i = k
        BY <3>1
      <3>2. CASE i # k
        <4>1. i \in 1..k - 1 /\ i \in 0..k /\ i - 1 \in 0..k /\ i - 1 # k
          BY <3>2
        <4>2. g[i] = f[i] /\ g[i - 1] = f[i - 1]
          BY <4>1, <3>2
        <4> QED
          BY <4>1, <4>2, <2>1
      <3> QED
        BY <3>1, <3>2
    <2>6. Good(g, k)
      BY <2>4, <2>5
    <2> HIDE DEF g
    <2> QED
      BY <2>3, <2>6
  <1>3. 0..n \subseteq T
    <2> HIDE DEF T
    <2> QED
      BY <1>1, <1>2, UpTo
  <1> QED
    BY <1>3 DEF Goings

-----------------------------------------------------------------------------
(* ByteFields: fields are read as they were written, for any list of fields *)
(* and whatever else is in the packet or file.                              *)

\* The names of the fields of messages and saved games
FieldNames ==
    {"system_id", "body_id", "frame", "reserved", "face", "shell", "x", "y", "z", "vx", "vy",
     "vz", "player_id", "tick", "sequence", "move_x", "move_y", "camera_yaw_deg",
     "action_flags", "center_x", "center_y", "center_z", "radius", "version", "world_seed",
     "content_type", "protocol_version", "feature_flags", "server_tick_hz", "server_name",
     "current_players", "max_players", "flags", "anim_state", "anim_phase", "anim_blend",
     "character", "stage", "active_body", "position", "count", "body_index", "sector",
     "solid", "material", "chunk", "block"}

FieldLists == Seq(FieldNames \X (Nat \ {0}))

LEMMA FieldsTyped ==
    ASSUME NEW fields \in FieldLists
    PROVE  /\ Len(fields) \in Nat
           /\ \A i \in 1..Len(fields) : fields[i][1] \in FieldNames /\ fields[i][2] \in Nat \ {0}
  BY DEF FieldLists

LEMMA OffsetsAddUp ==
    ASSUME NEW fields \in FieldLists
    PROVE  /\ Offsets(fields) \in [0..Len(fields) -> Nat]
           /\ Offsets(fields)[0] = 0
           /\ \A i \in 1..Len(fields) :
                 Offsets(fields)[i] = Offsets(fields)[i - 1] + fields[i][2]
  <1> DEFINE n == Len(fields)
             step == [p \in Nat \X (1..n) |-> p[1] + fields[p[2]][2]]
             O == Offsets(fields)
  <1>1. n \in Nat /\ \A i \in 1..n : fields[i][2] \in Nat \ {0}
    BY FieldsTyped
  <1>2. \A s \in Nat, i \in 1..n : step[<<s, i>>] = s + fields[i][2]
    OBVIOUS
  <1> HIDE DEF step, n, O
  <1>3. \A s \in Nat, i \in 1..n : step[<<s, i>>] \in Nat
    <2> TAKE s \in Nat, i \in 1..n
    <2>1. step[<<s, i>>] = s + fields[i][2]
      BY <1>2
    <2>2. fields[i][2] \in Nat
      BY <1>1
    <2> QED
      BY <2>1, <2>2
  <1>4. PICK g \in [0..n -> Nat] : g[0] = 0 /\ \A i \in 1..n : g[i] = step[<<g[i - 1], i>>]
    <2>1. StaysIn(n, Nat, step)
      BY <1>3 DEF StaysIn
    <2>2. Goings(n, Nat, 0, step) # {}
      BY <1>1, <2>1, Recursion
    <2> QED
      BY <2>2 DEF Goings
  <1>5. \A i \in 1..n : g[i] = g[i - 1] + fields[i][2]
    <2> TAKE i \in 1..n
    <2>1. i - 1 \in 0..n
      BY <1>1
    <2> QED
      BY <1>2, <1>4, <2>1
  <1>6. g = [i \in 0..n |-> IF i = 0 THEN 0 ELSE g[i - 1] + fields[i][2]]
    BY <1>1, <1>4, <1>5
  <1>7. O = [i \in 0..n |-> IF i = 0 THEN 0 ELSE O[i - 1] + fields[i][2]]
    BY <1>6 DEF Offsets, n, O
  <1>8. O[0] = 0 /\ \A i \in 1..n : O[i] = O[i - 1] + fields[i][2]
    BY <1>1, <1>7
  <1>9. 0..n \subseteq {i \in 0..n : O[i] \in Nat}
    <2> DEFINE T == {i \in 0..n : O[i] \in Nat}
    <2>1. 0 \in T
      BY <1>1, <1>8
    <2>2. ASSUME NEW i \in 1..n, i - 1 \in T PROVE i \in T
      <3>1. O[i - 1] \in Nat /\ fields[i][2] \in Nat /\ i \in 0..n
        BY <1>1, <2>2
      <3>2. O[i] = O[i - 1] + fields[i][2]
        BY <1>8
      <3> QED
        BY <3>1, <3>2
    <2> HIDE DEF T
    <2>3. 0..n \subseteq T
      BY <1>1, <2>1, <2>2, UpTo
    <2> QED
      BY <2>3 DEF T
  <1>10. O \in [0..n -> Nat]
    BY <1>7, <1>9
  <1> QED
    BY <1>8, <1>10 DEF O, n

\* The bytes of the values of a list of fields
FieldBytes(fields, values) ==
    {<<values[fields[i][1]], k>> : i \in 1..Len(fields), k \in Nat}

LEMMA BytesTyped ==
    ASSUME NEW fields \in FieldLists, NEW values, NEW i \in 1..Len(fields)
    PROVE  LET b == Bytes(values[fields[i][1]], fields[i][2])
           IN  /\ b \in Seq(FieldBytes(fields, values))
               /\ Len(b) = fields[i][2]
               /\ \A k \in 1..fields[i][2] : b[k] = <<values[fields[i][1]], k>>
  <1> DEFINE v == values[fields[i][1]]
             w == fields[i][2]
  <1>1. w \in Nat
    BY FieldsTyped
  <1>2. \A k \in 1..w : <<v, k>> \in FieldBytes(fields, values)
    BY DEF FieldBytes
  <1> HIDE DEF v, w
  <1>3. Bytes(v, w) \in [1..w -> FieldBytes(fields, values)]
    BY <1>2 DEF Bytes
  <1>4. Bytes(v, w) \in Seq(FieldBytes(fields, values)) /\ Len(Bytes(v, w)) = w
    BY <1>1, <1>3, IsASeq, LenProperties
  <1>5. \A k \in 1..w : Bytes(v, w)[k] = <<v, k>>
    BY DEF Bytes
  <1> QED
    BY <1>4, <1>5 DEF v, w

LEMMA WritingGoesOn ==
    ASSUME NEW fields \in FieldLists, NEW values
    PROVE  /\ WrittenBytes(fields, values) \in
                 [0..Len(fields) -> Seq(FieldBytes(fields, values))]
           /\ WrittenBytes(fields, values)[0] = <<>>
           /\ \A i \in 1..Len(fields) :
                 WrittenBytes(fields, values)[i] =
                    WrittenBytes(fields, values)[i - 1]
                      \o Bytes(values[fields[i][1]], fields[i][2])
  <1> DEFINE n == Len(fields)
             B == FieldBytes(fields, values)
             Field(i) == Bytes(values[fields[i][1]], fields[i][2])
             step == [p \in Seq(B) \X (1..n) |-> p[1] \o Field(p[2])]
             W == WrittenBytes(fields, values)
  <1>1. n \in Nat
    BY FieldsTyped
  <1>2. \A i \in 1..n : Field(i) \in Seq(B)
    BY BytesTyped
  <1> HIDE DEF Field
  <1>3. \A s \in Seq(B), i \in 1..n : step[<<s, i>>] = s \o Field(i)
    OBVIOUS
  <1> HIDE DEF step, n, B, W
  <1>4. StaysIn(n, Seq(B), step)
    <2> SUFFICES ASSUME NEW s \in Seq(B), NEW i \in 1..n PROVE step[<<s, i>>] \in Seq(B)
      BY DEF StaysIn
    <2> QED
      BY <1>2, <1>3, ConcatProperties
  <1>5. PICK g \in [0..n -> Seq(B)] :
           g[0] = <<>> /\ \A i \in 1..n : g[i] = step[<<g[i - 1], i>>]
    <2>1. Goings(n, Seq(B), <<>>, step) # {}
      BY <1>1, <1>4, EmptySeq, Recursion
    <2> QED
      BY <2>1 DEF Goings
  <1>6. \A i \in 1..n : g[i] = g[i - 1] \o Field(i)
    <2> TAKE i \in 1..n
    <2>1. i - 1 \in 0..n
      BY <1>1
    <2> QED
      BY <1>3, <1>5, <2>1
  <1>7. g = [i \in 0..n |-> IF i = 0 THEN <<>> ELSE g[i - 1] \o Field(i)]
    <2>1. \A i \in 0..n : g[i] = IF i = 0 THEN <<>> ELSE g[i - 1] \o Field(i)
      <3> TAKE i \in 0..n
      <3>1. i = 0 \/ i \in 1..n
        BY <1>1
      <3> QED
        BY <3>1, <1>5, <1>6
    <2> QED
      BY <2>1, <1>5
  <1>8. W = [i \in 0..n |-> IF i = 0 THEN <<>> ELSE W[i - 1] \o Field(i)]
    BY <1>7 DEF WrittenBytes, n, W, Field
  <1>9. W[0] = <<>> /\ \A i \in 1..n : W[i] = W[i - 1] \o Field(i)
    <2>1. 0 \in 0..n /\ \A i \in 1..n : i \in 0..n /\ i # 0
      BY <1>1
    <2> QED
      BY <2>1, <1>8
  <1>10. W \in [0..n -> Seq(B)]
    <2> DEFINE T == {i \in 0..n : W[i] \in Seq(B)}
    <2>1. 0 \in T
      <3>1. 0 \in 0..n
        BY <1>1
      <3>2. <<>> \in Seq(B) /\ W[0] = <<>>
        BY <1>9, EmptySeq
      <3> QED
        BY <3>1, <3>2
    <2>2. ASSUME NEW i \in 1..n, i - 1 \in T PROVE i \in T
      <3>1. W[i - 1] \in Seq(B) /\ i \in 0..n
        BY <1>1, <2>2
      <3>2. W[i - 1] \o Field(i) \in Seq(B)
        BY <3>1, <1>2, ConcatProperties
      <3> QED
        BY <3>1, <3>2, <1>9
    <2> HIDE DEF T
    <2>3. 0..n \subseteq T
      BY <1>1, <2>1, <2>2, UpTo
    <2> QED
      BY <2>3, <1>8 DEF T
  <1> QED
    BY <1>9, <1>10 DEF n, B, W, Field

\* Fields lie one after the other, and nothing is written between them.
LEMMA FieldsLieInOrder ==
    ASSUME NEW fields \in FieldLists, NEW values
    PROVE  LET W == WrittenBytes(fields, values)
               O == Offsets(fields)
           IN  \A i \in 0..Len(fields) :
                  /\ Len(W[i]) = O[i]
                  /\ \A j \in 1..i : O[j] <= O[i]
                  /\ \A j \in 1..i : \A k \in 1..fields[j][2] :
                        W[i][O[j - 1] + k] = <<values[fields[j][1]], k>>
  <1> DEFINE n == Len(fields)
             B == FieldBytes(fields, values)
             W == WrittenBytes(fields, values)
             O == Offsets(fields)
             Field(i) == Bytes(values[fields[i][1]], fields[i][2])
             Laid(i) == /\ Len(W[i]) = O[i]
                        /\ \A j \in 1..i : O[j] <= O[i]
                        /\ \A j \in 1..i : \A k \in 1..fields[j][2] :
                              W[i][O[j - 1] + k] = <<values[fields[j][1]], k>>
             T == {i \in 0..n : Laid(i)}
  <1>1. n \in Nat /\ \A i \in 1..n : fields[i][2] \in Nat \ {0}
    BY FieldsTyped
  <1>2. O \in [0..n -> Nat] /\ O[0] = 0 /\ \A i \in 1..n : O[i] = O[i - 1] + fields[i][2]
    BY OffsetsAddUp
  <1>3. W \in [0..n -> Seq(B)] /\ W[0] = <<>> /\ \A i \in 1..n : W[i] = W[i - 1] \o Field(i)
    BY WritingGoesOn
  <1>4. \A i \in 1..n : /\ Field(i) \in Seq(B) /\ Len(Field(i)) = fields[i][2]
                        /\ \A k \in 1..fields[i][2] : Field(i)[k] = <<values[fields[i][1]], k>>
    BY BytesTyped
  <1> HIDE DEF n, B, W, O, Field
  <1>5. 0 \in T
    <2>1. Len(W[0]) = O[0]
      BY <1>2, <1>3
    <2> QED
      BY <1>1, <2>1
  <1>6. ASSUME NEW i \in 1..n, i - 1 \in T PROVE i \in T
    <2>1. i - 1 \in 0..n /\ i \in 0..n /\ Laid(i - 1)
      <3>1. i - 1 \in 0..n /\ i \in 0..n
        BY <1>1
      <3> HIDE DEF Laid
      <3> QED
        BY <3>1, <1>6
    <2>2. W[i - 1] \in Seq(B) /\ O[i - 1] \in Nat /\ O[i] \in Nat
      BY <2>1, <1>2, <1>3
    <2>3. fields[i][2] \in Nat /\ O[i] = O[i - 1] + fields[i][2] /\ W[i] = W[i - 1] \o Field(i)
      BY <1>1, <1>2, <1>3
    <2>4. /\ Len(W[i]) = Len(W[i - 1]) + Len(Field(i))
          /\ \A m \in 1..Len(W[i - 1]) + Len(Field(i)) :
                W[i][m] = IF m <= Len(W[i - 1]) THEN W[i - 1][m]
                          ELSE Field(i)[m - Len(W[i - 1])]
      BY <2>2, <2>3, <1>4, ConcatProperties
    <2>5. Len(W[i - 1]) = O[i - 1] /\ Len(Field(i)) = fields[i][2]
      BY <2>1, <1>4
    <2>6. Len(W[i]) = O[i]
      BY <2>3, <2>4, <2>5
    <2>7. \A j \in 1..i : O[j] <= O[i]
      <3> TAKE j \in 1..i
      <3>1. CASE j = i
        BY <3>1, <2>2
      <3>2. CASE j # i
        <4>1. j \in 1..i - 1 /\ j \in 0..n
          BY <3>2, <1>1
        <4>2. O[j] <= O[i - 1] /\ O[j] \in Nat
          BY <4>1, <2>1, <1>2
        <4> QED
          BY <4>2, <2>2, <2>3
      <3> QED
        BY <3>1, <3>2
    <2>8. ASSUME NEW j \in 1..i, NEW k \in 1..fields[j][2]
          PROVE  W[i][O[j - 1] + k] = <<values[fields[j][1]], k>>
      <3>0. j \in 1..n /\ j \in 0..n /\ j - 1 \in 0..n
        BY <1>1
      <3>1. fields[j][2] \in Nat /\ O[j - 1] \in Nat /\ O[j] \in Nat /\ O[j] = O[j - 1] + fields[j][2]
        BY <3>0, <1>1, <1>2
      <3>2. CASE j = i
        <4>1. O[i - 1] + k \in 1..Len(W[i - 1]) + Len(Field(i)) /\ ~(O[i - 1] + k <= Len(W[i - 1]))
          BY <3>2, <2>2, <2>3, <2>5
        <4>2. W[i][O[i - 1] + k] = Field(i)[(O[i - 1] + k) - Len(W[i - 1])]
          BY <4>1, <2>4
        <4>3. (O[i - 1] + k) - Len(W[i - 1]) = k
          BY <2>2, <2>5
        <4> QED
          BY <3>2, <4>2, <4>3, <1>4
      <3>3. CASE j # i
        <4>1. j \in 1..i - 1
          BY <3>3
        <4>2. O[j] <= O[i - 1]
          BY <4>1, <2>1
        <4>3. O[j - 1] + k \in 1..Len(W[i - 1]) + Len(Field(i)) /\ O[j - 1] + k <= Len(W[i - 1])
          <5>1. k \in Nat /\ 1 <= k /\ k <= fields[j][2]
            BY <3>1
          <5>2. Len(W[i - 1]) = O[i - 1] /\ Len(Field(i)) \in Nat
            BY <2>3, <2>5
          <5> QED
            BY <5>1, <5>2, <4>2, <3>1, <2>2
        <4>4. W[i][O[j - 1] + k] = W[i - 1][O[j - 1] + k]
          BY <4>3, <2>4
        <4> QED
          BY <4>1, <4>4, <2>1
      <3> QED
        BY <3>2, <3>3
    <2> QED
      BY <2>1, <2>6, <2>7, <2>8
  <1>7. 0..n \subseteq T
    <2> HIDE DEF T
    <2> QED
      BY <1>1, <1>5, <1>6, UpTo
  <1> QED
    BY <1>7 DEF n, W, O

\* What a reader of these fields may be
FieldsRead(fields, bytes) ==
    {<<fields[i][1], Value(SubSeq(bytes, a, b))>> : i \in 1..Len(fields), a \in Nat, b \in Nat}

Readers(fields, bytes) ==
    [offset : Nat, ok : BOOLEAN, out : Seq(FieldsRead(fields, bytes))]

LEMMA ReadFieldTyped ==
    ASSUME NEW fields \in FieldLists, NEW bytes, NEW r \in Readers(fields, bytes),
           NEW i \in 1..Len(fields)
    PROVE  ReadField(r, bytes, fields[i]) \in Readers(fields, bytes)
  <1> DEFINE end == r.offset + fields[i][2]
             pair == <<fields[i][1], Value(SubSeq(bytes, r.offset + 1, end))>>
  <1>1. r.offset \in Nat /\ r.offset + 1 \in Nat /\ end \in Nat
    BY FieldsTyped DEF Readers
  <1>2. pair \in FieldsRead(fields, bytes)
    BY <1>1 DEF FieldsRead
  <1> HIDE DEF pair
  <1>3. Append(r.out, pair) \in Seq(FieldsRead(fields, bytes))
    BY <1>2, AppendProperties DEF Readers
  <1> HIDE DEF end
  <1>4. CASE ~r.ok \/ end > Len(bytes)
    <2>1. ReadField(r, bytes, fields[i]) = [r EXCEPT !.ok = FALSE]
      BY <1>4 DEF ReadField, end
    <2> QED
      BY <2>1 DEF Readers
  <1>5. CASE ~(~r.ok \/ end > Len(bytes))
    <2>1. ReadField(r, bytes, fields[i]) = [offset |-> end, ok |-> TRUE, out |-> Append(r.out, pair)]
      BY <1>5 DEF ReadField, end, pair
    <2> QED
      BY <1>1, <1>3, <2>1 DEF Readers
  <1> QED
    BY <1>4, <1>5

LEMMA ReadingGoesOn ==
    ASSUME NEW fields \in FieldLists, NEW bytes, NEW reader \in Readers(fields, bytes)
    PROVE  /\ Reads(reader, bytes, fields) \in [0..Len(fields) -> Readers(fields, bytes)]
           /\ Reads(reader, bytes, fields)[0] = reader
           /\ \A i \in 1..Len(fields) :
                 Reads(reader, bytes, fields)[i] =
                    ReadField(Reads(reader, bytes, fields)[i - 1], bytes, fields[i])
  <1> DEFINE n == Len(fields)
             S == Readers(fields, bytes)
             Next1(r, i) == ReadField(r, bytes, fields[i])
             step == [p \in S \X (1..n) |-> Next1(p[1], p[2])]
             R == Reads(reader, bytes, fields)
  <1>1. n \in Nat
    BY FieldsTyped
  <1>2. \A r \in S, i \in 1..n : Next1(r, i) \in S
    BY ReadFieldTyped
  <1> HIDE DEF Next1
  <1>3. \A s \in S, i \in 1..n : step[<<s, i>>] = Next1(s, i)
    OBVIOUS
  <1> HIDE DEF step, n, R
  <1>4. StaysIn(n, S, step)
    BY <1>2, <1>3 DEF StaysIn
  <1>5. PICK g \in [0..n -> S] :
           g[0] = reader /\ \A i \in 1..n : g[i] = step[<<g[i - 1], i>>]
    <2>1. Goings(n, S, reader, step) # {}
      BY <1>1, <1>4, Recursion
    <2> QED
      BY <2>1 DEF Goings
  <1> HIDE DEF S
  <1>6. \A i \in 1..n : g[i] = Next1(g[i - 1], i)
    <2> TAKE i \in 1..n
    <2>1. i - 1 \in 0..n
      BY <1>1
    <2> QED
      BY <1>3, <1>5, <2>1
  <1>7. g = [i \in 0..n |-> IF i = 0 THEN reader ELSE Next1(g[i - 1], i)]
    <2>1. \A i \in 0..n : g[i] = IF i = 0 THEN reader ELSE Next1(g[i - 1], i)
      <3> TAKE i \in 0..n
      <3>1. i = 0 \/ i \in 1..n
        BY <1>1
      <3> QED
        BY <3>1, <1>5, <1>6
    <2> QED
      BY <2>1, <1>5
  <1>8. R = [i \in 0..n |-> IF i = 0 THEN reader ELSE Next1(R[i - 1], i)]
    BY <1>7 DEF Reads, n, R, Next1
  <1>9. R[0] = reader /\ \A i \in 1..n : R[i] = Next1(R[i - 1], i)
    <2>1. 0 \in 0..n /\ \A i \in 1..n : i \in 0..n /\ i # 0
      BY <1>1
    <2> QED
      BY <2>1, <1>8
  <1>10. R \in [0..n -> S]
    <2> DEFINE T == {i \in 0..n : R[i] \in S}
    <2>1. 0 \in T
      BY <1>1, <1>9 DEF S
    <2>2. ASSUME NEW i \in 1..n, i - 1 \in T PROVE i \in T
      <3>1. R[i - 1] \in S /\ i \in 0..n
        BY <1>1, <2>2
      <3>2. Next1(R[i - 1], i) \in S
        BY <3>1, <1>2
      <3> QED
        BY <3>1, <3>2, <1>9
    <2> HIDE DEF T
    <2>3. 0..n \subseteq T
      BY <1>1, <2>1, <2>2, UpTo
    <2> QED
      BY <2>3, <1>8 DEF T
  <1> QED
    BY <1>9, <1>10 DEF n, S, R, Next1

\* Whatever was read, no more and no less than the width of the fields was.
LEMMA ReadToTheEnd ==
    ASSUME NEW fields \in FieldLists, NEW bytes, NEW reader \in Readers(fields, bytes)
    PROVE  LET final == ReadFields(reader, bytes, fields)
           IN  /\ final \in Readers(fields, bytes)
               /\ final.ok => final.offset = reader.offset + Size(fields)
  <1> DEFINE n == Len(fields)
             S == Readers(fields, bytes)
             R == Reads(reader, bytes, fields)
             O == Offsets(fields)
             T == {i \in 0..n : R[i].ok => R[i].offset = reader.offset + O[i]}
  <1>1. n \in Nat /\ \A i \in 1..n : fields[i][2] \in Nat \ {0}
    BY FieldsTyped
  <1>2. R \in [0..n -> S] /\ R[0] = reader
          /\ \A i \in 1..n : R[i] = ReadField(R[i - 1], bytes, fields[i])
    BY ReadingGoesOn
  <1>3. O \in [0..n -> Nat] /\ O[0] = 0 /\ \A i \in 1..n : O[i] = O[i - 1] + fields[i][2]
    BY OffsetsAddUp
  <1>4. reader.offset \in Nat
    BY DEF Readers
  <1> HIDE DEF n, R, O
  <1>5. 0 \in T
    BY <1>1, <1>2, <1>3, <1>4
  <1>6. ASSUME NEW i \in 1..n, i - 1 \in T PROVE i \in T
    <2>1. i - 1 \in 0..n /\ i \in 0..n
      BY <1>1
    <2>2. R[i - 1] \in S
      BY <2>1, <1>2
    <2>3. CASE ~R[i - 1].ok
      <3>1. R[i] = [R[i - 1] EXCEPT !.ok = FALSE]
        BY <2>3, <1>2 DEF ReadField
      <3> QED
        BY <2>1, <2>2, <3>1 DEF Readers
    <2>4. CASE R[i - 1].ok /\ R[i - 1].offset + fields[i][2] > Len(bytes)
      <3>1. R[i] = [R[i - 1] EXCEPT !.ok = FALSE]
        BY <2>4, <1>2 DEF ReadField
      <3> QED
        BY <2>1, <2>2, <3>1 DEF Readers
    <2>5. CASE R[i - 1].ok /\ ~(R[i - 1].offset + fields[i][2] > Len(bytes))
      <3>1. R[i].offset = R[i - 1].offset + fields[i][2]
        <4> DEFINE pair == <<fields[i][1], Value(SubSeq(bytes, R[i - 1].offset + 1,
                                                        R[i - 1].offset + fields[i][2]))>>
        <4>1. R[i] = [offset |-> R[i - 1].offset + fields[i][2], ok |-> TRUE,
                      out |-> Append(R[i - 1].out, pair)]
          BY <2>5, <1>2 DEF ReadField
        <4> HIDE DEF pair
        <4> QED
          BY <4>1
      <3>2. R[i - 1].offset = reader.offset + O[i - 1]
        BY <2>5, <1>6
      <3>3. O[i] = O[i - 1] + fields[i][2] /\ O[i - 1] \in Nat /\ fields[i][2] \in Nat
        BY <2>1, <1>1, <1>3
      <3>4. (reader.offset + O[i - 1]) + fields[i][2] = reader.offset + (O[i - 1] + fields[i][2])
        BY <3>3, <1>4
      <3> QED
        BY <2>1, <3>1, <3>2, <3>3, <3>4
    <2> QED
      BY <2>2, <2>3, <2>4, <2>5 DEF Readers
  <1>7. 0..n \subseteq T
    <2> HIDE DEF T
    <2> QED
      BY <1>1, <1>5, <1>6, UpTo
  <1> QED
    BY <1>1, <1>2, <1>7 DEF ReadFields, Size, n, R, O

\* The bytes of a value tell it.
LEMMA BytesTell ==
    ASSUME NEW v, NEW w \in Nat \ {0} PROVE Value([k \in 1..w |-> <<v, k>>]) = v
  BY DEF Value

\* From this place on, what was written as a list of fields
Lies(fields, values, bytes, at) ==
    /\ at + Size(fields) <= Len(bytes)
    /\ \A k \in 1..Size(fields) : bytes[at + k] = WriteFields(fields, values)[k]

Pairs(fields, values) == [i \in 1..Len(fields) |-> <<fields[i][1], values[fields[i][1]]>>]

\* Theorem: what was written as a list of fields is read with the same list as it was, wherever
\* in a file or packet it is, for any list of fields.
THEOREM FieldsAreReadAsWritten ==
    ASSUME NEW fields \in FieldLists, NEW values, NEW B, NEW bytes \in Seq(B), NEW at \in Nat,
           Lies(fields, values, bytes, at)
    PROVE  ReadFields([offset |-> at, ok |-> TRUE, out |-> <<>>], bytes, fields) =
              [offset |-> at + Size(fields), ok |-> TRUE, out |-> Pairs(fields, values)]
  <1> DEFINE n == Len(fields)
             reader == [offset |-> at, ok |-> TRUE, out |-> <<>>]
             Pair(i) == <<fields[i][1], values[fields[i][1]]>>
             R == Reads(reader, bytes, fields)
             O == Offsets(fields)
             W == WrittenBytes(fields, values)
             T == {i \in 0..n : R[i] = [offset |-> at + O[i], ok |-> TRUE,
                                        out |-> [j \in 1..i |-> Pair(j)]]}
  <1>1. n \in Nat /\ \A i \in 1..n : fields[i][2] \in Nat \ {0}
    BY FieldsTyped
  <1>2. reader \in Readers(fields, bytes)
    BY EmptySeq DEF Readers
  <1>3. R[0] = reader /\ \A i \in 1..n : R[i] = ReadField(R[i - 1], bytes, fields[i])
    <2> HIDE DEF reader
    <2> QED
      BY <1>2, ReadingGoesOn
  <1>4. O \in [0..n -> Nat] /\ O[0] = 0 /\ \A i \in 1..n : O[i] = O[i - 1] + fields[i][2]
    BY OffsetsAddUp
  <1>5. /\ \A j \in 1..n : O[j] <= O[n]
        /\ \A j \in 1..n : \A k \in 1..fields[j][2] :
              W[n][O[j - 1] + k] = <<values[fields[j][1]], k>>
    <2>1. \A i \in 0..n :
             /\ \A j \in 1..i : O[j] <= O[i]
             /\ \A j \in 1..i : \A k \in 1..fields[j][2] :
                   W[i][O[j - 1] + k] = <<values[fields[j][1]], k>>
      BY FieldsLieInOrder
    <2>2. n \in 0..n
      BY <1>1
    <2> HIDE DEF n, O, W
    <2> QED
      BY <2>1, <2>2
  <1>6. Size(fields) = O[n] /\ WriteFields(fields, values) = W[n] /\ O[n] \in Nat
    BY <1>1, <1>4 DEF Size, WriteFields
  <1>7. /\ Len(bytes) \in Nat
        /\ at + Size(fields) <= Len(bytes)
        /\ \A k \in 1..Size(fields) : bytes[at + k] = WriteFields(fields, values)[k]
    BY DEF Lies
  <1>8. 0 \in T
    <2>1. [j \in 1..0 |-> Pair(j)] = <<>>
      OBVIOUS
    <2> HIDE DEF R, O, Pair
    <2>2. R[0] = [offset |-> at + O[0], ok |-> TRUE, out |-> [j \in 1..0 |-> Pair(j)]]
      BY <1>3, <1>4, <2>1
    <2> QED
      BY <1>1, <2>2
  <1>9. ASSUME NEW i \in 1..n, i - 1 \in T PROVE i \in T
    <2> DEFINE w == fields[i][2]
               v == values[fields[i][1]]
               from == at + O[i - 1]
    <2>1. i - 1 \in 0..n /\ i \in 0..n /\ w \in Nat \ {0} /\ O[i - 1] \in Nat /\ O[i] = O[i - 1] + w
      BY <1>1, <1>4
    <2>2. R[i - 1] = [offset |-> from, ok |-> TRUE, out |-> [j \in 1..(i - 1) |-> Pair(j)]]
      BY <1>9
    <2>3. from \in Nat /\ from + w = at + O[i] /\ from + w <= Len(bytes)
      BY <2>1, <1>4, <1>5, <1>6, <1>7
    <2>4. SubSeq(bytes, from + 1, from + w) = [k \in 1..w |-> <<v, k>>]
      <3> HIDE DEF W, from, w
      <3>1. \A k \in 1..w : bytes[from + k] = <<v, k>>
        <4> TAKE k \in 1..w
        <4>1. O[i - 1] + k \in 1..O[n] /\ at + (O[i - 1] + k) = from + k
          BY <2>1, <1>1, <1>4, <1>5, <1>6 DEF from
        <4>2. bytes[at + (O[i - 1] + k)] = W[n][O[i - 1] + k]
          BY <4>1, <1>6, <1>7
        <4> QED
          BY <4>1, <4>2, <1>5 DEF w
      <3>2. SubSeq(bytes, from + 1, from + w) = [k \in 1..w |-> bytes[from + k]]
        <4>1. \A k \in 1..w : (from + 1) + k - 1 = from + k
          BY <2>1, <2>3
        <4> QED
          BY <2>1, <2>3, <1>7, <4>1
      <3> QED
        BY <3>1, <3>2
    <2>5. Value(SubSeq(bytes, from + 1, from + w)) = v
      BY <2>1, <2>4, BytesTell
    <2>6. ReadField(R[i - 1], bytes, fields[i]) =
             [offset |-> from + w, ok |-> TRUE,
              out |-> Append([j \in 1..(i - 1) |-> Pair(j)], Pair(i))]
      <3> DEFINE r == R[i - 1]
                 before == [j \in 1..(i - 1) |-> Pair(j)]
      <3> HIDE DEF from, w, v, R, O, Pair, before
      <3>1. ~(from + w > Len(bytes))
        BY <2>3, <2>1, <1>7
      <3>2. r.offset = from /\ r.ok /\ r.out = before
        BY <2>2 DEF before
      <3> HIDE DEF r
      <3>3. ReadField(r, bytes, fields[i]) =
               [offset |-> r.offset + fields[i][2], ok |-> TRUE,
                out |-> Append(r.out, <<fields[i][1], Value(SubSeq(bytes, r.offset + 1,
                                                              r.offset + fields[i][2]))>>)]
        BY <3>1, <3>2 DEF ReadField, w
      <3>4. <<fields[i][1], Value(SubSeq(bytes, r.offset + 1, r.offset + fields[i][2]))>> = Pair(i)
        BY <3>2, <2>5 DEF w, v, Pair
      <3> QED
        BY <3>2, <3>3, <3>4 DEF r, w, before
    <2>7. Append([j \in 1..(i - 1) |-> Pair(j)], Pair(i)) = [j \in 1..i |-> Pair(j)]
      <3> HIDE DEF Pair
      <3>1. i \in Nat \ {0} /\ i - 1 \in Nat /\ (i - 1) + 1 = i
        BY <1>1
      <3> QED
        BY <3>1
    <2> HIDE DEF R, O, w, from, Pair
    <2>8. R[i] = [offset |-> at + O[i], ok |-> TRUE, out |-> [j \in 1..i |-> Pair(j)]]
      BY <1>3, <2>3, <2>6, <2>7
    <2> QED
      BY <2>1, <2>8
  <1>10. 0..n \subseteq T
    <2> HIDE DEF T
    <2> QED
      BY <1>1, <1>8, <1>9, UpTo
  <1>11. R[n] = [offset |-> at + O[n], ok |-> TRUE, out |-> [j \in 1..n |-> Pair(j)]]
    <2> HIDE DEF T
    <2>1. n \in T
      BY <1>1, <1>10
    <2> USE DEF T
    <2> HIDE DEF R, O, Pair
    <2> QED
      BY <2>1
  <1>12. Pairs(fields, values) = [j \in 1..n |-> Pair(j)]
    BY DEF Pairs
  <1> HIDE DEF R, O, W
  <1> QED
    BY <1>6, <1>11, <1>12 DEF ReadFields, R, n

-----------------------------------------------------------------------------
Named(fields, values) == [name \in {fields[i][1] : i \in 1..Len(fields)} |-> values[name]]

\* The fields of a list as a record: each name with the value that was written for it.
LEMMA FieldsOfPairs ==
    ASSUME NEW fields, NEW values
    PROVE  Fields(Pairs(fields, values)) = Named(fields, values)
  <1> DEFINE I == 1..Len(fields)
             pairs == Pairs(fields, values)
             Place(name) == CHOOSE i \in I : pairs[i][1] = name
  <1>1. DOMAIN pairs = I /\ \A i \in I : pairs[i][1] = fields[i][1] /\ pairs[i][2] = values[fields[i][1]]
    BY DEF Pairs
  <1> HIDE DEF pairs
  <1>2. {pairs[i][1] : i \in DOMAIN pairs} = {fields[i][1] : i \in I}
    BY <1>1
  <1>3. \A name \in {fields[i][1] : i \in I} : pairs[Place(name)][2] = values[name]
    <2> TAKE name \in {fields[i][1] : i \in I}
    <2>1. \E i \in I : pairs[i][1] = name
      BY <1>1
    <2>2. Place(name) \in I /\ pairs[Place(name)][1] = name
      BY <2>1
    <2> HIDE DEF Place
    <2> QED
      BY <2>2, <1>1
  <1>4. Fields(pairs) = [name \in {fields[i][1] : i \in I} |-> pairs[Place(name)][2]]
    BY <1>1, <1>2 DEF Fields
  <1> HIDE DEF Place, I
  <1>5. Fields(pairs) = [name \in {fields[i][1] : i \in I} |-> values[name]]
    BY <1>3, <1>4
  <1> QED
    BY <1>5 DEF pairs, I, Named

\* A list of fields is written into as many bytes as it is long.
LEMMA WrittenInFull ==
    ASSUME NEW fields \in FieldLists, NEW values
    PROVE  /\ WriteFields(fields, values) \in Seq(FieldBytes(fields, values))
           /\ Len(WriteFields(fields, values)) = Size(fields)
           /\ Size(fields) \in Nat
  <1>1. Len(fields) \in 0..Len(fields)
    BY FieldsTyped
  <1>2. WriteFields(fields, values) \in Seq(FieldBytes(fields, values))
    BY <1>1, WritingGoesOn DEF WriteFields
  <1>3. \A i \in 0..Len(fields) : Len(WrittenBytes(fields, values)[i]) = Offsets(fields)[i]
    BY FieldsLieInOrder
  <1>4. Offsets(fields) \in [0..Len(fields) -> Nat]
    BY OffsetsAddUp
  <1> QED
    BY <1>1, <1>2, <1>3, <1>4 DEF WriteFields, Size

-----------------------------------------------------------------------------
(* NetCodec: the lists of write_payload and read_payload, and a packet on   *)
(* its way.                                                                 *)

LEMMA PiecesTyped == World \in FieldLists /\ Coord \in FieldLists /\ Moving \in FieldLists
                       /\ Numbered \in FieldLists
  <1>1. World \in FieldLists
    BY DEF World, FieldLists, FieldNames
  <1>2. Coord \in FieldLists
    BY DEF Coord, FieldLists, FieldNames
  <1>3. Moving \in FieldLists
    BY DEF Moving, FieldLists, FieldNames
  <1>4. Numbered \in FieldLists
    BY DEF Numbered, FieldLists, FieldNames
  <1> QED
    BY <1>1, <1>2, <1>3, <1>4

LEMMA ListsJoin ==
    ASSUME NEW s \in FieldLists, NEW t \in FieldLists PROVE s \o t \in FieldLists
  BY ConcatProperties DEF FieldLists

LEMMA WrittenTyped == ASSUME NEW type \in Types PROVE Written(type) \in FieldLists
  <1>1. CASE type = "Input"
    BY <1>1 DEF Written, FieldLists, FieldNames
  <1>2. CASE type = "Snapshot"
    <2>1. Written(type) = Numbered \o World \o Moving
      BY <1>2 DEF Written
    <2> QED
      BY <2>1, PiecesTyped, ListsJoin
  <1>3. CASE type = "ChunkInterest"
    BY <1>3 DEF Written, FieldLists, FieldNames
  <1>4. CASE type = "ChunkState"
    <2> DEFINE rest == <<<<"version", 4>>, <<"world_seed", 8>>, <<"content_type", 1>>,
                        <<"reserved", 7>>>>
    <2>1. Written(type) = Coord \o rest
      BY <1>4 DEF Written
    <2>2. rest \in FieldLists
      BY DEF FieldLists, FieldNames
    <2> HIDE DEF rest
    <2> QED
      BY <2>1, <2>2, PiecesTyped, ListsJoin
  <1>5. CASE type \in {"AssignPlayer", "PlayerRemove"}
    BY <1>5 DEF Written, FieldLists, FieldNames
  <1>6. CASE type = "ProtocolInfo"
    BY <1>6 DEF Written, FieldLists, FieldNames
  <1>7. CASE type = "SessionInfo"
    BY <1>7 DEF Written, FieldLists, FieldNames
  <1>8. CASE type = "PlayerState"
    <2> DEFINE rest == <<<<"anim_state", 1>>, <<"anim_phase", 4>>, <<"anim_blend", 4>>,
                        <<"character", 1>>>>
    <2>1. Written(type) = Numbered \o World \o Moving \o rest
      BY <1>8 DEF Written
    <2>2. rest \in FieldLists
      BY DEF FieldLists, FieldNames
    <2> HIDE DEF rest
    <2> QED
      BY <2>1, <2>2, PiecesTyped, ListsJoin
  <1> QED
    BY <1>1, <1>2, <1>3, <1>4, <1>5, <1>6, <1>7, <1>8 DEF Types

\* The two lists of each message agree.
LEMMA ReadAsWritten == ASSUME NEW type \in Types PROVE ReadBack(type) = Written(type)
  <1>1. CASE type = "Input"
    BY <1>1 DEF Written, ReadBack
  <1>2. CASE type = "Snapshot"
    BY <1>2 DEF Written, ReadBack
  <1>3. CASE type = "ChunkInterest"
    BY <1>3 DEF Written, ReadBack
  <1>4. CASE type = "ChunkState"
    BY <1>4 DEF Written, ReadBack
  <1>5. CASE type \in {"AssignPlayer", "PlayerRemove"}
    BY <1>5 DEF Written, ReadBack
  <1>6. CASE type = "ProtocolInfo"
    BY <1>6 DEF Written, ReadBack
  <1>7. CASE type = "SessionInfo"
    BY <1>7 DEF Written, ReadBack
  <1>8. CASE type = "PlayerState"
    BY <1>8 DEF Written, ReadBack
  <1> QED
    BY <1>1, <1>2, <1>3, <1>4, <1>5, <1>6, <1>7, <1>8 DEF Types

\* A message that is written whole is read back as it was.
LEMMA MessageComesBack ==
    ASSUME NEW type \in Types, EncodeMessage(type, type).ok
    PROVE  DecodeMessage(EncodeMessage(type, type), type) = [ok |-> TRUE, out |-> Message(type)]
  <1> DEFINE fields == Written(type)
             values == Message(type)
             payload == WriteFields(fields, values)
             B == FieldBytes(fields, values)
             p == EncodeMessage(type, type)
             names == {fields[i][1] : i \in 1..Len(fields)}
             pairs == Pairs(fields, values)
  <1>1. fields \in FieldLists
    BY WrittenTyped
  <1>2. payload \in Seq(B) /\ Len(payload) = Size(fields) /\ Size(fields) \in Nat
    BY <1>1, WrittenInFull
  <1>3. ~(Len(payload) > MaxPayload) /\ p = [ok |-> TRUE, short |-> FALSE, ours |-> TRUE,
           version |-> TRUE, type |-> type, size |-> Len(payload), payload |-> payload]
    BY DEF EncodeMessage, Refused
  <1>4. ReadFields([offset |-> 0, ok |-> TRUE, out |-> <<>>], payload, fields) =
           [offset |-> 0 + Size(fields), ok |-> TRUE, out |-> pairs]
    <2> HIDE DEF fields, values, B
    <2>1. Lies(fields, values, payload, 0)
      BY <1>2 DEF Lies
    <2> HIDE DEF payload
    <2> QED
      BY <1>1, <1>2, <2>1, FieldsAreReadAsWritten
  <1>5. ReadFields(Reader, payload, ReadBack(type)) =
           [offset |-> Size(fields), ok |-> TRUE, out |-> pairs]
    <2>1. ReadBack(type) = fields /\ 0 + Size(fields) = Size(fields)
      BY <1>2, ReadAsWritten
    <2> HIDE DEF payload, pairs, fields
    <2> QED
      BY <1>4, <2>1 DEF Reader
  <1>6. Fields(pairs) = [name \in names |-> values[name]]
    <2>1. Fields(pairs) = Named(fields, values)
      BY FieldsOfPairs
    <2> HIDE DEF fields, values
    <2> QED
      BY <2>1 DEF Named
  <1>7. values = [name \in names |-> name]
    <2>1. DOMAIN fields = 1..Len(fields)
      BY <1>1, LenProperties DEF FieldLists
    <2>2. {field[1] : field \in Range(fields)} = names
      <3> HIDE DEF fields
      <3> QED
        BY <2>1 DEF Range
    <2> QED
      BY <2>2 DEF Message
  <1>8. Fields(pairs) = values
    <2> HIDE DEF names, pairs, values
    <2> QED
      BY <1>6, <1>7
  <1> HIDE DEF pairs, payload, values
  <1>9. HeaderIsValid(p) /\ p.type = type /\ p.size = Size(fields) /\ p.payload = payload
    <2>1. type # "None"
      BY DEF Types
    <2> HIDE DEF p
    <2>2. p.size <= MaxPayload <=> ~(p.size > MaxPayload)
      BY <1>2, <1>3, NetCodecAssumption
    <2> QED
      BY <1>2, <1>3, <2>1, <2>2 DEF HeaderIsValid
  <1> HIDE DEF p, fields
  <1>10. DecodeMessage(p, type) = [ok |-> TRUE, out |-> Fields(pairs)]
    <2> DEFINE r == ReadFields(Reader, p.payload, ReadBack(type))
    <2>1. r.ok /\ r.offset = p.size /\ r.out = pairs
      BY <1>5, <1>9
    <2> HIDE DEF r
    <2> QED
      BY <1>9, <2>1 DEF DecodeMessage, r
  <1> QED
    BY <1>8, <1>10 DEF p, values

\* A packet that is taken for a message is one from end to end.
LEMMA AcceptedToTheEnd ==
    ASSUME NEW p, NEW type \in Types, DecodeMessage(p, type).ok
    PROVE  HeaderIsValid(p) /\ p.type = type /\ p.size = Size(Written(type))
  <1> DEFINE read == ReadFields(Reader, p.payload, ReadBack(type))
  <1>1. HeaderIsValid(p) /\ p.type = type /\ read.ok /\ read.offset = p.size
    BY DEF DecodeMessage, Refused
  <1>2. Written(type) \in FieldLists /\ ReadBack(type) = Written(type)
    BY WrittenTyped, ReadAsWritten
  <1>3. Reader \in Readers(Written(type), p.payload) /\ Reader.offset = 0
    BY EmptySeq DEF Readers, Reader
  <1>4. read.offset = Reader.offset + Size(Written(type))
    BY <1>1, <1>2, <1>3, ReadToTheEnd
  <1>5. Size(Written(type)) \in Nat
    BY <1>2, WrittenInFull
  <1> QED
    BY <1>1, <1>3, <1>4, <1>5

\* What is sent could be sent, and what is still as it was sent is that.
PacketIsSent ==
    /\ sent_type \in Types
    /\ EncodeMessage(sent_type, sent_type).ok
    /\ ~touched => packet = EncodeMessage(sent_type, sent_type)

LEMMA SentBegins == CodecInit => PacketIsSent
  BY DEF CodecInit, PacketIsSent

LEMMA SentStays == PacketIsSent /\ [CodecNext]_codec_vars => PacketIsSent'
  <1> SUFFICES ASSUME PacketIsSent, [CodecNext]_codec_vars PROVE PacketIsSent'
    OBVIOUS
  <1>1. CASE CodecNext
    <2>1. sent_type' = sent_type /\ touched' = TRUE
      <3>1. ASSUME NEW q, Alter(q) PROVE sent_type' = sent_type /\ touched' = TRUE
        BY <3>1 DEF Alter
      <3> QED
        BY <1>1, <3>1 DEF CodecNext, Cut, OfAnotherSize, Retyped, NotOurs
    <2> QED
      BY <2>1 DEF PacketIsSent
  <1>2. CASE UNCHANGED codec_vars
    BY <1>2 DEF codec_vars, PacketIsSent
  <1> QED
    BY <1>1, <1>2

LEMMA SentSurvives == PacketIsSent => MessagesSurvive
  <1> SUFFICES ASSUME PacketIsSent PROVE MessagesSurvive
    OBVIOUS
  <1>1. ASSUME NEW type \in Types PROVE EncodeMessage(type, sent_type).ok <=> type = sent_type
    <2>1. CASE type = sent_type
      BY <2>1 DEF PacketIsSent
    <2>2. CASE type # sent_type
      BY <2>2 DEF EncodeMessage, Refused
    <2> QED
      BY <2>1, <2>2
  <1>2. ~touched => DecodeMessage(packet, sent_type) = [ok |-> TRUE, out |-> Message(sent_type)]
    BY MessageComesBack DEF PacketIsSent
  <1>3. ASSUME NEW type \in Types, DecodeMessage(packet, type).ok, ~touched PROVE type = sent_type
    <2>1. packet.type = type
      BY <1>3, AcceptedToTheEnd
    <2>2. packet.type = sent_type
      <3>1. packet = EncodeMessage(sent_type, sent_type) /\ packet.ok
        BY <1>3 DEF PacketIsSent
      <3> QED
        BY <3>1 DEF EncodeMessage, Refused
    <2> QED
      BY <2>1, <2>2
  <1>4. ASSUME NEW type \in Types, DecodeMessage(packet, type).ok
        PROVE  HeaderIsValid(packet) /\ packet.type = type /\ packet.size = Size(Written(type))
    BY <1>4, AcceptedToTheEnd
  <1> QED
    BY <1>1, <1>2, <1>3, <1>4 DEF MessagesSurvive

\* Theorem: a message of any type that arrives as it was sent is the message that was sent,
\* and no other, and a packet is taken for a message only when it is one from end to end, for
\* any limit on a payload.  About write_payload and read_payload, field by field.
THEOREM MessagesAlwaysSurvive == CodecSpec => []MessagesSurvive
  BY SentBegins, SentStays, SentSurvives, PTL DEF CodecSpec

-----------------------------------------------------------------------------
(* SaveFormat: a saved game is the fields of its head and of every edit, one *)
(* after the other, and the loop that reads them stops where it should.      *)

Byte == Int \X Nat

LEMMA FieldsOfGames == GameFields \in FieldLists /\ EditFields \in FieldLists
  <1>1. GameFields \in FieldLists
    BY DEF GameFields, FieldLists, FieldNames
  <1>2. EditFields \in FieldLists
    BY DEF EditFields, FieldLists, FieldNames
  <1> QED
    BY <1>1, <1>2

LEMMA SizesOfGames ==
    /\ Size(GameFields) = 36 /\ Len(GameFields) = 6
    /\ Size(EditFields) = 36 /\ Len(EditFields) = 8
  <1>1. /\ Len(GameFields) = 6
        /\ GameFields[1][2] = 1 /\ GameFields[2][2] = 1 /\ GameFields[3][2] = 2
        /\ GameFields[4][2] = 4 /\ GameFields[5][2] = 24 /\ GameFields[6][2] = 4
    BY DEF GameFields
  <1>2. /\ Len(EditFields) = 8
        /\ EditFields[1][2] = 4 /\ EditFields[2][2] = 1 /\ EditFields[3][2] = 1
        /\ EditFields[4][2] = 1 /\ EditFields[5][2] = 1 /\ EditFields[6][2] = 4
        /\ EditFields[7][2] = 12 /\ EditFields[8][2] = 12
    BY DEF EditFields
  <1>3. Size(GameFields) = 36
    <2> DEFINE O == Offsets(GameFields)
    <2>1. O[0] = 0 /\ \A i \in 1..6 : O[i] = O[i - 1] + GameFields[i][2]
      BY <1>1, FieldsOfGames, OffsetsAddUp
    <2> HIDE DEF O
    <2>2. O[1] = 1 /\ O[2] = O[1] + 1 /\ O[3] = O[2] + 2 /\ O[4] = O[3] + 4
             /\ O[5] = O[4] + 24 /\ O[6] = O[5] + 4
      BY <1>1, <2>1
    <2> QED
      BY <1>1, <2>2 DEF Size, O
  <1>4. Size(EditFields) = 36
    <2> DEFINE O == Offsets(EditFields)
    <2>1. O[0] = 0 /\ \A i \in 1..8 : O[i] = O[i - 1] + EditFields[i][2]
      BY <1>2, FieldsOfGames, OffsetsAddUp
    <2> HIDE DEF O
    <2>2. O[1] = 4 /\ O[2] = O[1] + 1 /\ O[3] = O[2] + 1 /\ O[4] = O[3] + 1
             /\ O[5] = O[4] + 1 /\ O[6] = O[5] + 4 /\ O[7] = O[6] + 12 /\ O[8] = O[7] + 12
      BY <1>2, <2>1
    <2> QED
      BY <1>2, <2>2 DEF Size, O
  <1> QED
    BY <1>1, <1>2, <1>3, <1>4

\* The values of the fields of an edit, and of what is before the edits
EditValues(edit) ==
    [body_index |-> edit.body_index, sector |-> edit.sector, material |-> edit.material,
     solid |-> IF edit.solid THEN 1 ELSE 0, reserved |-> 0, shell |-> edit.shell,
     chunk |-> edit.chunk, block |-> edit.block]

GameValues(state) ==
    [stage |-> state.stage, character |-> state.character, reserved |-> 0,
     active_body |-> state.active_body, position |-> state.position,
     count |-> Len(state.edits)]

\* An edit is written field by field, as it is read.
LEMMA EditIsFields ==
    ASSUME NEW edit PROVE WriteEdit(edit) = WriteFields(EditFields, EditValues(edit))
  <1> DEFINE values == EditValues(edit)
             W == WrittenBytes(EditFields, values)
             B == FieldBytes(EditFields, values)
  <1>1. /\ W[0] = <<>>
        /\ \A i \in 1..8 : W[i] = W[i - 1] \o Bytes(values[EditFields[i][1]], EditFields[i][2])
    <2> HIDE DEF values
    <2>1. /\ W[0] = <<>>
          /\ \A i \in 1..Len(EditFields) :
                W[i] = W[i - 1] \o Bytes(values[EditFields[i][1]], EditFields[i][2])
      BY FieldsOfGames, WritingGoesOn
    <2> HIDE DEF W
    <2> QED
      BY <2>1, SizesOfGames
  <1>2. Bytes(edit.body_index, 4) \in Seq(B)
    <2>1. 1 \in 1..Len(EditFields)
      BY SizesOfGames
    <2>2. Bytes(values[EditFields[1][1]], EditFields[1][2]) \in Seq(B)
      BY <2>1, FieldsOfGames, BytesTyped
    <2>3. values[EditFields[1][1]] = edit.body_index /\ EditFields[1][2] = 4
      BY DEF EditFields, EditValues
    <2> QED
      BY <2>2, <2>3
  <1>3. <<>> \o Bytes(edit.body_index, 4) = Bytes(edit.body_index, 4)
    BY <1>2, ConcatEmptySeq
  <1>4. /\ values[EditFields[1][1]] = edit.body_index /\ EditFields[1][2] = 4
        /\ values[EditFields[2][1]] = edit.sector /\ EditFields[2][2] = 1
        /\ values[EditFields[3][1]] = edit.material /\ EditFields[3][2] = 1
        /\ values[EditFields[4][1]] = (IF edit.solid THEN 1 ELSE 0) /\ EditFields[4][2] = 1
        /\ values[EditFields[5][1]] = 0 /\ EditFields[5][2] = 1
        /\ values[EditFields[6][1]] = edit.shell /\ EditFields[6][2] = 4
        /\ values[EditFields[7][1]] = edit.chunk /\ EditFields[7][2] = 12
        /\ values[EditFields[8][1]] = edit.block /\ EditFields[8][2] = 12
    BY DEF EditFields, EditValues
  <1> HIDE DEF W, values, B
  <1>5. /\ W[1] = Bytes(edit.body_index, 4)
        /\ W[2] = W[1] \o Bytes(edit.sector, 1)
        /\ W[3] = W[2] \o Bytes(edit.material, 1)
        /\ W[4] = W[3] \o Bytes(IF edit.solid THEN 1 ELSE 0, 1)
        /\ W[5] = W[4] \o Bytes(0, 1)
        /\ W[6] = W[5] \o Bytes(edit.shell, 4)
        /\ W[7] = W[6] \o Bytes(edit.chunk, 12)
        /\ W[8] = W[7] \o Bytes(edit.block, 12)
    <2> DEFINE Piece(i) == Bytes(values[EditFields[i][1]], EditFields[i][2])
    <2>1. \A i \in 1..8 : W[i] = W[i - 1] \o Piece(i)
      BY <1>1
    <2>2. /\ Piece(1) = Bytes(edit.body_index, 4) /\ Piece(2) = Bytes(edit.sector, 1)
          /\ Piece(3) = Bytes(edit.material, 1) /\ Piece(4) = Bytes(IF edit.solid THEN 1 ELSE 0, 1)
          /\ Piece(5) = Bytes(0, 1) /\ Piece(6) = Bytes(edit.shell, 4)
          /\ Piece(7) = Bytes(edit.chunk, 12) /\ Piece(8) = Bytes(edit.block, 12)
      BY <1>4
    <2> HIDE DEF Piece
    <2>11. W[1] = W[0] \o Piece(1)
      BY <2>1
    <2>12. W[2] = W[1] \o Piece(2)
      BY <2>1
    <2>13. W[3] = W[2] \o Piece(3)
      BY <2>1
    <2>14. W[4] = W[3] \o Piece(4)
      BY <2>1
    <2>15. W[5] = W[4] \o Piece(5)
      BY <2>1
    <2>16. W[6] = W[5] \o Piece(6)
      BY <2>1
    <2>17. W[7] = W[6] \o Piece(7)
      BY <2>1
    <2>18. W[8] = W[7] \o Piece(8)
      BY <2>1
    <2> QED
      BY <1>1, <1>3, <2>2, <2>11, <2>12, <2>13, <2>14, <2>15, <2>16, <2>17, <2>18
  <1>6. WriteFields(EditFields, EditValues(edit)) = W[8]
    BY SizesOfGames DEF WriteFields, W, values
  <1> QED
    BY <1>5, <1>6 DEF WriteEdit

\* So is what is before the edits.
HeadBytes(state) == WriteFields(GameFields, GameValues(state))
EditBytes(state) == FlattenSeq([i \in DOMAIN state.edits |-> WriteEdit(state.edits[i])])

LEMMA GameIsFields ==
    ASSUME NEW state PROVE Payload(state) = HeadBytes(state) \o EditBytes(state)
  <1> DEFINE values == GameValues(state)
             W == WrittenBytes(GameFields, values)
             B == FieldBytes(GameFields, values)
  <1>1. /\ W[0] = <<>>
        /\ \A i \in 1..6 : W[i] = W[i - 1] \o Bytes(values[GameFields[i][1]], GameFields[i][2])
    <2> HIDE DEF values
    <2>1. /\ W[0] = <<>>
          /\ \A i \in 1..Len(GameFields) :
                W[i] = W[i - 1] \o Bytes(values[GameFields[i][1]], GameFields[i][2])
      BY FieldsOfGames, WritingGoesOn
    <2> HIDE DEF W
    <2> QED
      BY <2>1, SizesOfGames
  <1>2. Bytes(state.stage, 1) \in Seq(B)
    <2>1. 1 \in 1..Len(GameFields)
      BY SizesOfGames
    <2>2. Bytes(values[GameFields[1][1]], GameFields[1][2]) \in Seq(B)
      BY <2>1, FieldsOfGames, BytesTyped
    <2>3. values[GameFields[1][1]] = state.stage /\ GameFields[1][2] = 1
      BY DEF GameFields, GameValues
    <2> QED
      BY <2>2, <2>3
  <1>3. <<>> \o Bytes(state.stage, 1) = Bytes(state.stage, 1)
    BY <1>2, ConcatEmptySeq
  <1>4. /\ values[GameFields[1][1]] = state.stage /\ GameFields[1][2] = 1
        /\ values[GameFields[2][1]] = state.character /\ GameFields[2][2] = 1
        /\ values[GameFields[3][1]] = 0 /\ GameFields[3][2] = 2
        /\ values[GameFields[4][1]] = state.active_body /\ GameFields[4][2] = 4
        /\ values[GameFields[5][1]] = state.position /\ GameFields[5][2] = 24
        /\ values[GameFields[6][1]] = Len(state.edits) /\ GameFields[6][2] = 4
    BY DEF GameFields, GameValues
  <1> HIDE DEF W, values, B
  <1>5. /\ W[1] = Bytes(state.stage, 1)
        /\ W[2] = W[1] \o Bytes(state.character, 1)
        /\ W[3] = W[2] \o Bytes(0, 2)
        /\ W[4] = W[3] \o Bytes(state.active_body, 4)
        /\ W[5] = W[4] \o Bytes(state.position, 24)
        /\ W[6] = W[5] \o Bytes(Len(state.edits), 4)
    <2> DEFINE Piece(i) == Bytes(values[GameFields[i][1]], GameFields[i][2])
    <2>1. \A i \in 1..6 : W[i] = W[i - 1] \o Piece(i)
      BY <1>1
    <2>2. /\ Piece(1) = Bytes(state.stage, 1) /\ Piece(2) = Bytes(state.character, 1)
          /\ Piece(3) = Bytes(0, 2) /\ Piece(4) = Bytes(state.active_body, 4)
          /\ Piece(5) = Bytes(state.position, 24) /\ Piece(6) = Bytes(Len(state.edits), 4)
      BY <1>4
    <2> HIDE DEF Piece
    <2>11. W[1] = W[0] \o Piece(1)
      BY <2>1
    <2>12. W[2] = W[1] \o Piece(2)
      BY <2>1
    <2>13. W[3] = W[2] \o Piece(3)
      BY <2>1
    <2>14. W[4] = W[3] \o Piece(4)
      BY <2>1
    <2>15. W[5] = W[4] \o Piece(5)
      BY <2>1
    <2>16. W[6] = W[5] \o Piece(6)
      BY <2>1
    <2> QED
      BY <1>1, <1>3, <2>2, <2>11, <2>12, <2>13, <2>14, <2>15, <2>16
  <1>6. HeadBytes(state) = W[6]
    BY SizesOfGames DEF HeadBytes, WriteFields, W, values
  <1> QED
    BY <1>5, <1>6 DEF Payload, EditBytes

OfWidth(seqs, n, w) == \A i \in 1..n : Len(seqs[i]) = w

InOrder(flat, seqs, n, B) ==
    /\ flat \in Seq(B)
    /\ Len(flat) = 36 * n
    /\ \A j \in 1..n : \A k \in 1..36 : flat[36 * (j - 1) + k] = seqs[j][k]

\* Pieces of 36 bytes: where each begins and ends
LEMMA InPiece ==
    ASSUME NEW n \in Nat, NEW k \in 1..36
    PROVE  /\ k \in 1..(36 + 36 * n) /\ k <= 36 /\ 0 + k = k
           /\ \A j \in 1..n : /\ 36 * j + k \in 1..(36 + 36 * n)
                              /\ ~(36 * j + k <= 36)
                              /\ (36 * j + k) - 36 = 36 * (j - 1) + k
  OBVIOUS

\* Pieces of one width, flattened, lie one after the other.
LEMMA FlattenedInOrder ==
    ASSUME NEW B, NEW n \in Nat, NEW seqs \in [1..n -> Seq(B)], OfWidth(seqs, n, 36)
    PROVE  InOrder(FlattenSeq(seqs), seqs, n, B)
  <1> DEFINE step == [p \in Seq(B) \X (1..n) |-> p[1] \o seqs[p[2]]]
             f == CHOOSE f : f = [i \in 1..n |-> IF i = 1 THEN seqs[i] ELSE f[i - 1] \o seqs[i]]
             Laid(s, i) == InOrder(s, seqs, i, B)
             T == {i \in 0..n : i # 0 => Laid(f[i], i)}
  <1> USE DEF InOrder
  <1>1. seqs \in Seq(Seq(B)) /\ Len(seqs) = n
    BY IsASeq, LenProperties
  <1>2. \A s \in Seq(B), i \in 1..n : step[<<s, i>>] = s \o seqs[i]
    OBVIOUS
  <1> HIDE DEF step
  <1>3. StaysIn(n, Seq(B), step)
    <2> SUFFICES ASSUME NEW s \in Seq(B), NEW i \in 1..n PROVE step[<<s, i>>] \in Seq(B)
      BY DEF StaysIn
    <2>1. seqs[i] \in Seq(B)
      OBVIOUS
    <2> QED
      BY <1>2, <2>1, ConcatProperties
  <1>4. PICK g \in [0..n -> Seq(B)] :
           g[0] = <<>> /\ \A i \in 1..n : g[i] = step[<<g[i - 1], i>>]
    <2>1. Goings(n, Seq(B), <<>>, step) # {}
      BY <1>3, EmptySeq, Recursion
    <2> QED
      BY <2>1 DEF Goings
  <1>5. \A i \in 1..n : g[i] = g[i - 1] \o seqs[i]
    <2> TAKE i \in 1..n
    <2>1. i - 1 \in 0..n
      OBVIOUS
    <2> QED
      BY <1>2, <1>4, <2>1
  <1> DEFINE h == [i \in 1..n |-> g[i]]
  <1>6. h = [i \in 1..n |-> IF i = 1 THEN seqs[i] ELSE h[i - 1] \o seqs[i]]
    <2>1. ASSUME NEW i \in 1..n PROVE h[i] = IF i = 1 THEN seqs[i] ELSE h[i - 1] \o seqs[i]
      <3>1. CASE i = 1
        <4>1. g[1] = <<>> \o seqs[1] /\ seqs[1] \in Seq(B)
          <5>1. g[1] = g[1 - 1] \o seqs[1] /\ seqs[1] \in Seq(B)
            BY <3>1, <1>5
          <5>2. 1 - 1 = 0
            OBVIOUS
          <5>3. g[0] = <<>>
            BY <1>4
          <5> QED
            BY <5>1, <5>2, <5>3
        <4> QED
          BY <3>1, <4>1, ConcatEmptySeq
      <3>2. CASE i # 1
        <4>1. i - 1 \in 1..n
          BY <3>2
        <4> QED
          BY <3>2, <4>1, <1>5
      <3> QED
        BY <3>1, <3>2
    <2> QED
      BY <2>1
  <1> HIDE DEF h
  <1>7. f = [i \in 1..n |-> IF i = 1 THEN seqs[i] ELSE f[i - 1] \o seqs[i]]
    BY <1>6
  <1> HIDE DEF f
  <1>8. 0..n \subseteq T
    <2>1. 0 \in T
      OBVIOUS
    <2>2. ASSUME NEW i \in 1..n, i - 1 \in T PROVE i \in T
      <3>0. i \in 0..n /\ seqs[i] \in Seq(B) /\ Len(seqs[i]) = 36
        BY DEF OfWidth
      <3>1. CASE i = 1
        <4>1. f[1] = seqs[1]
          BY <3>1, <1>7
        <4>2. \A j \in 1..1 : \A k \in 1..36 : f[1][36 * (j - 1) + k] = seqs[j][k]
          <5> TAKE j \in 1..1, k \in 1..36
          <5>1. j = 1 /\ 36 * (j - 1) + k = k
            OBVIOUS
          <5> QED
            BY <4>1, <5>1
        <4>3. f[1] \in Seq(B) /\ Len(f[1]) = 36 * 1
          BY <3>0, <3>1, <4>1
        <4>4. Laid(f[1], 1)
          BY <4>2, <4>3
        <4> HIDE DEF Laid
        <4> QED
          BY <3>0, <3>1, <4>4
      <3>2. CASE i # 1
        <4>1. i - 1 \in 1..n /\ Laid(f[i - 1], i - 1)
          BY <3>2, <2>2
        <4>2. f[i] = f[i - 1] \o seqs[i]
          BY <3>2, <1>7
        <4> DEFINE s == f[i - 1]
                   t == seqs[i]
        <4>3. s \in Seq(B) /\ Len(s) = 36 * (i - 1) /\ t \in Seq(B) /\ Len(t) = 36
          BY <4>1, <3>0
        <4>4. \A j \in 1..i - 1 : \A k \in 1..36 : s[36 * (j - 1) + k] = seqs[j][k]
          BY <4>1
        <4>5. f[i] = s \o t
          BY <4>2
        <4> HIDE DEF s, t
        <4>6. /\ s \o t \in Seq(B) /\ Len(s \o t) = Len(s) + Len(t)
              /\ \A m \in 1..Len(s) + Len(t) :
                    (s \o t)[m] = IF m <= Len(s) THEN s[m] ELSE t[m - Len(s)]
          BY <4>3, ConcatProperties
        <4>7. Len(f[i]) = 36 * i
          BY <4>3, <4>5, <4>6
        <4>8. ASSUME NEW j \in 1..i, NEW k \in 1..36 PROVE f[i][36 * (j - 1) + k] = seqs[j][k]
          <5>1. CASE j = i
            <6>1. 36 * (j - 1) + k \in 1..Len(s) + Len(t) /\ ~(36 * (j - 1) + k <= Len(s))
              BY <4>3, <5>1
            <6>2. (36 * (j - 1) + k) - Len(s) = k
              BY <4>3, <5>1
            <6> QED
              BY <4>5, <4>6, <6>1, <6>2, <5>1 DEF t
          <5>2. CASE j # i
            <6>1. j \in 1..i - 1
              BY <5>2
            <6>2. 36 * (j - 1) + k \in 1..Len(s) + Len(t) /\ 36 * (j - 1) + k <= Len(s)
              BY <4>3, <6>1
            <6> QED
              BY <4>4, <4>5, <4>6, <6>1, <6>2
          <5> QED
            BY <5>1, <5>2
        <4> QED
          BY <3>0, <4>5, <4>6, <4>7, <4>8
      <3> QED
        BY <3>1, <3>2
    <2> HIDE DEF T
    <2> QED
      BY <2>1, <2>2, UpTo
  <1>9. CASE n = 0
    <2>1. FlattenSeq(seqs) = seqs
      BY <1>1, <1>9 DEF FlattenSeq
    <2>2. seqs \in Seq(B)
      BY <1>9, EmptySeq
    <2> QED
      BY <1>1, <1>9, <2>1, <2>2
  <1>10. CASE n # 0
    <2>1. FlattenSeq(seqs) = f[n]
      BY <1>1, <1>10 DEF FlattenSeq, f
    <2>2. n \in T
      <3> HIDE DEF T
      <3> QED
        BY <1>8
    <2>3. Laid(f[n], n)
      BY <2>2, <1>10
    <2> QED
      BY <2>1, <2>3
  <1> QED
    BY <1>9, <1>10

\* The games of this build and of others: their fields are what such fields can say.
WrittenGames ==
    [stage : Nat, character : Nat, active_body : Nat, position : {Near, Far, NotFinite},
     edits : Seq(BlockEdits)]

LEMMA EditWritten ==
    ASSUME NEW V, 0 \in V, 1 \in V, NEW edit,
           edit.body_index \in V, edit.sector \in V, edit.material \in V, edit.shell \in V,
           edit.chunk \in V, edit.block \in V
    PROVE  WriteEdit(edit) \in Seq(V \X Nat) /\ Len(WriteEdit(edit)) = 36
  <1> DEFINE values == EditValues(edit)
  <1>1. \A i \in 1..8 : values[EditFields[i][1]] \in V
    BY DEF EditFields, EditValues
  <1>2. WriteEdit(edit) = WriteFields(EditFields, values)
    BY EditIsFields
  <1> HIDE DEF values
  <1>3. FieldBytes(EditFields, values) \subseteq V \X Nat
    BY <1>1, SizesOfGames DEF FieldBytes
  <1>4. /\ WriteFields(EditFields, values) \in Seq(FieldBytes(EditFields, values))
        /\ Len(WriteFields(EditFields, values)) = Size(EditFields)
    BY FieldsOfGames, WrittenInFull
  <1>5. WriteFields(EditFields, values) \in Seq(V \X Nat)
    BY <1>3, <1>4, SeqMonotonic
  <1> QED
    BY <1>2, <1>4, <1>5, SizesOfGames

LEMMA HeadWritten ==
    ASSUME NEW V, 0 \in V, NEW state,
           state.stage \in V, state.character \in V, state.active_body \in V,
           state.position \in V, Len(state.edits) \in V
    PROVE  HeadBytes(state) \in Seq(V \X Nat) /\ Len(HeadBytes(state)) = 36
  <1> DEFINE values == GameValues(state)
  <1>1. \A i \in 1..6 : values[GameFields[i][1]] \in V
    BY DEF GameFields, GameValues
  <1>2. HeadBytes(state) = WriteFields(GameFields, values)
    BY DEF HeadBytes
  <1> HIDE DEF values
  <1>3. FieldBytes(GameFields, values) \subseteq V \X Nat
    BY <1>1, SizesOfGames DEF FieldBytes
  <1>4. /\ WriteFields(GameFields, values) \in Seq(FieldBytes(GameFields, values))
        /\ Len(WriteFields(GameFields, values)) = Size(GameFields)
    BY FieldsOfGames, WrittenInFull
  <1>5. WriteFields(GameFields, values) \in Seq(V \X Nat)
    BY <1>3, <1>4, SeqMonotonic
  <1> QED
    BY <1>2, <1>4, <1>5, SizesOfGames

EditsIn(edits, n, V) ==
    \A j \in 1..n : \A v \in {edits[j].body_index, edits[j].sector, edits[j].material,
                             edits[j].shell, edits[j].chunk, edits[j].block} : v \in V

\* Where a game's bytes are
LaidOut(g, n, B) ==
    /\ Payload(g) \in Seq(B)
    /\ Len(Payload(g)) = 36 + 36 * n
    /\ \A k \in 1..36 : Payload(g)[k] = WriteFields(GameFields, GameValues(g))[k]
    /\ \A j \in 1..n : \A k \in 1..36 :
          Payload(g)[36 * j + k] = WriteFields(EditFields, EditValues(g.edits[j]))[k]

LEMMA PayloadInOrder ==
    ASSUME NEW V, 0 \in V, 1 \in V, NEW g, NEW n \in Nat,
           g.edits \in [1..n -> BlockEdits],
           g.stage \in V, g.character \in V, g.active_body \in V, g.position \in V, n \in V,
           EditsIn(g.edits, n, V)
    PROVE  LaidOut(g, n, V \X Nat)
  <1> DEFINE B == V \X Nat
             seqs == [i \in 1..n |-> WriteEdit(g.edits[i])]
             H == HeadBytes(g)
             E == EditBytes(g)
  <1>1. DOMAIN g.edits = 1..n /\ Len(g.edits) = n
    <2>1. g.edits \in Seq(BlockEdits)
      BY IsASeq
    <2> QED
      BY <2>1, LenProperties
  <1>2. H \in Seq(B) /\ Len(H) = 36
    BY <1>1, HeadWritten
  <1>3. \A i \in 1..n : WriteEdit(g.edits[i]) \in Seq(B) /\ Len(WriteEdit(g.edits[i])) = 36
    <2> TAKE i \in 1..n
    <2> DEFINE e == g.edits[i]
    <2>1. /\ e.body_index \in V /\ e.sector \in V /\ e.material \in V /\ e.shell \in V
          /\ e.chunk \in V /\ e.block \in V
      BY DEF EditsIn
    <2> HIDE DEF e
    <2>2. WriteEdit(e) \in Seq(V \X Nat) /\ Len(WriteEdit(e)) = 36
      BY <2>1, EditWritten
    <2> QED
      BY <2>2 DEF e
  <1>4. E = FlattenSeq(seqs)
    BY <1>1 DEF EditBytes
  <1>5. seqs \in [1..n -> Seq(B)] /\ \A i \in 1..n : seqs[i] = WriteEdit(g.edits[i])
    BY <1>3
  <1> HIDE DEF seqs, B, H, E
  <1>6. /\ E \in Seq(B) /\ Len(E) = 36 * n
        /\ \A j \in 1..n : \A k \in 1..36 : E[36 * (j - 1) + k] = seqs[j][k]
    <2>1. OfWidth(seqs, n, 36)
      BY <1>3, <1>5 DEF OfWidth
    <2>2. InOrder(E, seqs, n, B)
      BY <1>4, <1>5, <2>1, FlattenedInOrder
    <2> QED
      BY <2>2 DEF InOrder
  <1>7. Payload(g) = H \o E
    BY GameIsFields DEF H, E
  <1>8. /\ H \o E \in Seq(B) /\ Len(H \o E) = Len(H) + Len(E)
        /\ \A m \in 1..Len(H) + Len(E) :
              (H \o E)[m] = IF m <= Len(H) THEN H[m] ELSE E[m - Len(H)]
    BY <1>2, <1>6, ConcatProperties
  <1> DEFINE P == Payload(g)
  <1>9. P \in Seq(B) /\ Len(P) = 36 + 36 * n
    BY <1>2, <1>6, <1>7, <1>8
  <1>10. ASSUME NEW k \in 1..36 PROVE P[k] = WriteFields(GameFields, GameValues(g))[k]
    <2>1. k \in 1..Len(H) + Len(E) /\ k <= Len(H)
      <3>1. k \in 1..(36 + 36 * n) /\ k <= 36
        BY InPiece
      <3>2. Len(H) = 36 /\ Len(E) = 36 * n
        BY <1>2, <1>6
      <3> QED
        BY <3>1, <3>2
    <2>2. (H \o E)[k] = H[k]
      BY <2>1, <1>8
    <2> QED
      BY <2>2, <1>7 DEF H, HeadBytes
  <1>11. ASSUME NEW j \in 1..n, NEW k \in 1..36
         PROVE  P[36 * j + k] = WriteFields(EditFields, EditValues(g.edits[j]))[k]
    <2>1. 36 * j + k \in 1..Len(H) + Len(E) /\ ~(36 * j + k <= Len(H))
             /\ (36 * j + k) - Len(H) = 36 * (j - 1) + k
      <3>1. 36 * j + k \in 1..(36 + 36 * n) /\ ~(36 * j + k <= 36)
               /\ (36 * j + k) - 36 = 36 * (j - 1) + k
        BY InPiece
      <3>2. Len(H) = 36 /\ Len(E) = 36 * n
        BY <1>2, <1>6
      <3> QED
        BY <3>1, <3>2
    <2>2. (H \o E)[36 * j + k] = E[36 * (j - 1) + k]
      BY <2>1, <1>8
    <2>3. E[36 * (j - 1) + k] = WriteEdit(g.edits[j])[k]
      BY <1>5, <1>6
    <2> QED
      BY <2>2, <2>3, <1>7, EditIsFields
  <1> HIDE DEF P
  <1> QED
    BY <1>9, <1>10, <1>11 DEF P, B, LaidOut

\* A reader that goes on with nothing read
LEMMA ReaderEmptied ==
    ASSUME NEW at, NEW ok, NEW out
    PROVE  [[offset |-> at, ok |-> ok, out |-> out] EXCEPT !.out = <<>>] =
              [offset |-> at, ok |-> ok, out |-> <<>>]
  OBVIOUS

\* The reader after an edit
DecodesTo(e, at, before, r) ==
    /\ ValidEdit(e) => r = [offset |-> at + 36, ok |-> TRUE, out |-> Append(before, e)]
    /\ ~ValidEdit(e) => r = [offset |-> at + 36, ok |-> FALSE, out |-> Append(before, e)]

\* An edit is read as it was written, and the loop over them goes on when it is valid.
LEMMA EditComesBack ==
    ASSUME NEW e \in BlockEdits, NEW B, NEW bytes \in Seq(B), NEW at \in Nat, NEW before,
           Lies(EditFields, EditValues(e), bytes, at)
    PROVE  DecodesTo(e, at, before, DecodeEdit([offset |-> at, ok |-> TRUE, out |-> before], bytes))
  <1> DEFINE reader == [offset |-> at, ok |-> TRUE, out |-> before]
             read == ReadFields([reader EXCEPT !.out = <<>>], bytes, EditFields)
             edit == [Fields(read.out) EXCEPT !.solid = @ # 0]
             address == [name \in DOMAIN edit \ {"reserved"} |-> edit[name]]
             values == EditValues(e)
  <1>1. [reader EXCEPT !.out = <<>>] = [offset |-> at, ok |-> TRUE, out |-> <<>>]
    <2> HIDE DEF reader
    <2>1. reader = [offset |-> at, ok |-> TRUE, out |-> before]
      BY DEF reader
    <2>2. [[offset |-> at, ok |-> TRUE, out |-> before] EXCEPT !.out = <<>>] =
             [offset |-> at, ok |-> TRUE, out |-> <<>>]
      BY ReaderEmptied, Zenon
    <2> QED
      BY <2>1, <2>2, Zenon
  <1>2. read = [offset |-> at + 36, ok |-> TRUE, out |-> Pairs(EditFields, values)]
    <2> HIDE DEF values, reader
    <2>1. ReadFields([offset |-> at, ok |-> TRUE, out |-> <<>>], bytes, EditFields) =
             [offset |-> at + Size(EditFields), ok |-> TRUE, out |-> Pairs(EditFields, values)]
      BY FieldsOfGames, FieldsAreReadAsWritten DEF values
    <2> QED
      BY <1>1, <2>1, SizesOfGames
  <1>3. Fields(read.out) = values
    <2>1. Fields(Pairs(EditFields, values)) = Named(EditFields, values)
      BY FieldsOfPairs
    <2>2. {EditFields[i][1] : i \in 1..Len(EditFields)} = DOMAIN values
      <3>1. DOMAIN values = {"body_index", "sector", "material", "solid", "reserved", "shell",
                             "chunk", "block"}
        BY DEF EditValues
      <3>2. {EditFields[i][1] : i \in 1..8} = {"body_index", "sector", "material", "solid",
                                               "reserved", "shell", "chunk", "block"}
        BY DEF EditFields
      <3> QED
        BY <3>1, <3>2, SizesOfGames
    <2>3. values = [name \in DOMAIN values |-> values[name]]
      BY DEF EditValues
    <2> HIDE DEF values, read
    <2>4. Named(EditFields, values) = values
      BY <2>2, <2>3 DEF Named
    <2> QED
      BY <2>1, <2>4, <1>2
  <1>4. address = e
    <2>1. e = [body_index |-> e.body_index, sector |-> e.sector, material |-> e.material,
               solid |-> e.solid, shell |-> e.shell, chunk |-> e.chunk, block |-> e.block]
      BY DEF BlockEdits
    <2> DEFINE back == [values EXCEPT !.solid = @ # 0]
    <2>2. edit = back
      <3> HIDE DEF values, read
      <3> QED
        BY <1>3
    <2>3. /\ DOMAIN back = {"body_index", "sector", "material", "solid", "reserved", "shell",
                            "chunk", "block"}
          /\ \A name \in {"body_index", "sector", "material", "shell", "chunk", "block"} :
                back[name] = e[name]
      BY DEF EditValues
    <2>4. back["solid"] = e.solid
      <3>1. e.solid \in BOOLEAN
        BY DEF BlockEdits
      <3>2. CASE e.solid = TRUE
        <4>1. values.solid = 1
          BY <3>2 DEF EditValues
        <4>2. back["solid"] = (values.solid # 0)
          BY DEF EditValues
        <4>3. (1 # 0) = TRUE
          OBVIOUS
        <4> HIDE DEF back, values
        <4> QED
          BY <3>2, <4>1, <4>2, <4>3
      <3>3. CASE e.solid = FALSE
        BY <3>3 DEF EditValues
      <3> QED
        BY <3>1, <3>2, <3>3
    <2> HIDE DEF back, edit, values
    <2> QED
      BY <2>1, <2>2, <2>3, <2>4
  <1>5. values.solid \in {0, 1}
    BY DEF EditValues
  <1> HIDE DEF reader, read, edit, address, values
  <1>6. DecodeEdit(reader, bytes) =
           [offset |-> read.offset, out |-> Append(reader.out, address),
            ok |-> Fields(read.out).solid \in {0, 1} /\ ValidEdit(address)]
    <2>1. read.ok
      BY <1>2
    <2> QED
      BY <2>1 DEF DecodeEdit, read, edit, address
  <1>7. reader.out = before /\ read.offset = at + 36
    BY <1>2 DEF reader
  <1>8. CASE ValidEdit(e)
    <2>1. (Fields(read.out).solid \in {0, 1} /\ ValidEdit(address)) = TRUE
      BY <1>3, <1>4, <1>5, <1>8
    <2> QED
      BY <1>6, <1>7, <1>4, <1>8, <2>1 DEF reader, DecodesTo
  <1>9. CASE ~ValidEdit(e)
    <2>1. (Fields(read.out).solid \in {0, 1} /\ ValidEdit(address)) = FALSE
      BY <1>4, <1>9
    <2> QED
      BY <1>6, <1>7, <1>4, <1>9, <2>1 DEF reader, DecodesTo
  <1> QED
    BY <1>8, <1>9

\* The loop over the edits of a file ends with all of them, or at the first that is not valid.
EditsLie(edits, n, bytes) == \A j \in 1..n : Lies(EditFields, EditValues(edits[j]), bytes, 36 * j)

ValidBefore(edits, n, k) ==
    /\ \A j \in 1..n : j < k => ValidEdit(edits[j])
    /\ k <= n => ~ValidEdit(edits[k])

First(edits, i) == [j \in 1..i |-> edits[j]]

LEMMA EditsComeBack ==
    ASSUME NEW n \in Nat, NEW edits \in [1..n -> BlockEdits], NEW B, NEW bytes \in Seq(B),
           NEW k \in 1..(n + 1), EditsLie(edits, n, bytes), ValidBefore(edits, n, k)
    PROVE  LET final == DecodedEdits([offset |-> 36, ok |-> TRUE, out |-> <<>>], bytes, n)[n]
           IN  /\ k = n + 1 => final = [offset |-> 36 + 36 * n, ok |-> TRUE, out |-> First(edits, n)]
               /\ k <= n => ~final.ok
  <1> DEFINE reader == [offset |-> 36, ok |-> TRUE, out |-> <<>>]
             Good(i) == [offset |-> 36 + 36 * i, ok |-> TRUE, out |-> First(edits, i)]
             Bad == [offset |-> 36 + 36 * k, ok |-> FALSE, out |-> First(edits, k)]
             G(i) == IF i < k THEN Good(i) ELSE Bad
             Round(r) == IF r.ok THEN DecodeEdit(r, bytes) ELSE r
             D == DecodedEdits(reader, bytes, n)
             T == {i \in 0..n : D[i] = G(i)}
  <1>1. Good(0) = reader
    <2>1. First(edits, 0) = <<>>
      BY DEF First
    <2>2. 36 + 36 * 0 = 36
      OBVIOUS
    <2> QED
      BY <2>1, <2>2
  <1>2. ASSUME NEW i \in 1..n, i < k PROVE Round(Good(i - 1)) = Good(i)
    <2>0. 36 + 36 * (i - 1) = 36 * i
      OBVIOUS
    <2>1. Good(i - 1) = [offset |-> 36 * i, ok |-> TRUE, out |-> First(edits, i - 1)]
      BY <2>0
    <2>2. Lies(EditFields, EditValues(edits[i]), bytes, 36 * i) /\ ValidEdit(edits[i])
            /\ edits[i] \in BlockEdits /\ 36 * i \in Nat
      BY <1>2 DEF EditsLie, ValidBefore
    <2>3. DecodeEdit([offset |-> 36 * i, ok |-> TRUE, out |-> First(edits, i - 1)], bytes) =
             [offset |-> 36 * i + 36, ok |-> TRUE, out |-> Append(First(edits, i - 1), edits[i])]
      <3> DEFINE e == edits[i]
                 at == 36 * i
                 before == First(edits, i - 1)
      <3>1. Lies(EditFields, EditValues(e), bytes, at) /\ ValidEdit(e) /\ e \in BlockEdits
              /\ at \in Nat
        BY <2>2
      <3> HIDE DEF e, at, before
      <3>2. DecodeEdit([offset |-> at, ok |-> TRUE, out |-> before], bytes) =
               [offset |-> at + 36, ok |-> TRUE, out |-> Append(before, e)]
        <4>1. DecodesTo(e, at, before, DecodeEdit([offset |-> at, ok |-> TRUE, out |-> before], bytes))
          BY <3>1, EditComesBack
        <4> QED
          BY <3>1, <4>1 DEF DecodesTo
      <3> QED
        BY <3>2 DEF e, at, before
    <2>4. Append(First(edits, i - 1), edits[i]) = First(edits, i)
      <3>1. i \in Nat \ {0} /\ i - 1 \in Nat /\ (i - 1) + 1 = i
        OBVIOUS
      <3> QED
        BY <3>1 DEF First
    <2>5. 36 * i + 36 = 36 + 36 * i
      OBVIOUS
    <2> QED
      BY <2>1, <2>3, <2>4, <2>5
  <1>3. ASSUME k <= n PROVE Round(Good(k - 1)) = Bad
    <2>0. 36 + 36 * (k - 1) = 36 * k
      OBVIOUS
    <2>1. Good(k - 1) = [offset |-> 36 * k, ok |-> TRUE, out |-> First(edits, k - 1)]
      BY <2>0
    <2>2. Lies(EditFields, EditValues(edits[k]), bytes, 36 * k) /\ ~ValidEdit(edits[k])
            /\ edits[k] \in BlockEdits /\ 36 * k \in Nat
      BY <1>3 DEF EditsLie, ValidBefore
    <2>3. DecodeEdit([offset |-> 36 * k, ok |-> TRUE, out |-> First(edits, k - 1)], bytes) =
             [offset |-> 36 * k + 36, ok |-> FALSE, out |-> Append(First(edits, k - 1), edits[k])]
      <3>1. DecodesTo(edits[k], 36 * k, First(edits, k - 1),
                      DecodeEdit([offset |-> 36 * k, ok |-> TRUE, out |-> First(edits, k - 1)], bytes))
        BY <2>2, EditComesBack
      <3> QED
        BY <2>2, <3>1 DEF DecodesTo
    <2>4. Append(First(edits, k - 1), edits[k]) = First(edits, k)
      <3>1. k \in Nat \ {0} /\ k - 1 \in Nat /\ (k - 1) + 1 = k
        OBVIOUS
      <3> QED
        BY <3>1 DEF First
    <2>5. 36 * k + 36 = 36 + 36 * k
      OBVIOUS
    <2> QED
      BY <2>1, <2>3, <2>4, <2>5
  <1>4. Round(Bad) = Bad
    OBVIOUS
  <1> HIDE DEF Good, Bad, Round, reader
  <1>5. \A i \in 1..n : G(i) = Round(G(i - 1))
    <2> TAKE i \in 1..n
    <2>1. CASE i < k
      BY <2>1, <1>2
    <2>2. CASE i = k
      BY <2>2, <1>3
    <2>3. CASE i > k
      BY <2>3, <1>4
    <2> QED
      BY <2>1, <2>2, <2>3
  <1>6. G(0) = reader
    BY <1>1
  <1> HIDE DEF G
  <1> DEFINE f == [i \in 0..n |-> G(i)]
  <1>7. f = [i \in 0..n |-> IF i = 0 THEN reader ELSE Round(f[i - 1])]
    <2>1. ASSUME NEW i \in 0..n PROVE f[i] = IF i = 0 THEN reader ELSE Round(f[i - 1])
      <3>1. CASE i = 0
        BY <3>1, <1>6
      <3>2. CASE i # 0
        <4>1. i \in 1..n /\ i - 1 \in 0..n
          BY <3>2
        <4> QED
          BY <3>2, <4>1, <1>5
      <3> QED
        BY <3>1, <3>2
    <2> QED
      BY <2>1
  <1> HIDE DEF f
  <1>8. D = [i \in 0..n |-> IF i = 0 THEN reader ELSE Round(D[i - 1])]
    BY <1>7 DEF DecodedEdits, Round
  <1> HIDE DEF D
  <1>9. 0..n \subseteq T
    <2>1. 0 \in T
      BY <1>6, <1>8
    <2>2. ASSUME NEW i \in 1..n, i - 1 \in T PROVE i \in T
      <3>1. i \in 0..n /\ i # 0 /\ D[i - 1] = G(i - 1)
        BY <2>2
      <3> QED
        BY <3>1, <1>5, <1>8
    <2> HIDE DEF T
    <2> QED
      BY <2>1, <2>2, UpTo
  <1>10. D[n] = G(n)
    BY <1>9
  <1>11. CASE k = n + 1
    <2>1. D[n] = Good(n) /\ ~(k <= n)
      BY <1>10, <1>11 DEF G
    <2> QED
      BY <1>11, <2>1 DEF D, Good, reader
  <1>12. CASE k <= n
    <2>1. D[n] = Bad /\ k # n + 1
      BY <1>10, <1>12 DEF G
    <2> QED
      BY <1>12, <2>1 DEF D, Bad, reader
  <1> QED
    BY <1>11, <1>12

\* There is a first edit that is not valid, or they all are.
LEMMA FirstNotValid ==
    ASSUME NEW n \in Nat, NEW edits
    PROVE  \E k \in 1..(n + 1) : ValidBefore(edits, n, k)
  <1> DEFINE U == {j \in 1..n : ~ValidEdit(edits[j])}
  <1>1. CASE U = {}
    <2>1. n + 1 \in 1..(n + 1) /\ ValidBefore(edits, n, n + 1)
      BY <1>1 DEF ValidBefore
    <2> QED
      BY <2>1
  <1>2. CASE U # {}
    <2>1. PICK k \in U : \A j \in U : k <= j
      <3>1. U \subseteq Nat
        OBVIOUS
      <3> HIDE DEF U
      <3> QED
        BY <3>1, <1>2, LeastNatural
    <2>2. k \in 1..(n + 1) /\ ValidBefore(edits, n, k)
      BY <2>1 DEF ValidBefore
    <2> QED
      BY <2>2
  <1> QED
    BY <1>1, <1>2

\* What a game's bytes, and what may follow them, are taken for
LEMMA GameComesBack ==
    ASSUME NEW g \in WrittenGames, NEW more \in Seq(Byte), NEW f, SoundHeader(f), f # NoFile,
           f.payload = Payload(g) \o more
    PROVE  /\ more = <<>> /\ Encodable(g) => DecodeGame(f) = [ok |-> TRUE, out |-> g]
           /\ ~(more = <<>> /\ Encodable(g)) => ~DecodeGame(f).ok
  <1> DEFINE n     == Len(g.edits)
             bytes == f.payload
             P     == Payload(g)
             head  == ReadFields(Reader, f.payload, GameFields)
             read  == Fields(head.out)
             edits == DecodedEdits([head EXCEPT !.out = <<>>], f.payload, read.count)[read.count]
             state == [stage |-> read.stage, character |-> read.character,
                       active_body |-> read.active_body, position |-> read.position,
                       edits |-> edits.out]
             values == GameValues(g)
  <1>1. /\ n \in Nat /\ g.edits \in [1..n -> BlockEdits]
        /\ g.stage \in Int /\ g.character \in Int /\ g.active_body \in Int /\ g.position \in Int
    <2>1. g.edits \in Seq(BlockEdits)
      BY DEF WrittenGames
    <2>2. n \in Nat /\ g.edits \in [1..n -> BlockEdits]
      BY <2>1, LenProperties
    <2> QED
      BY <2>2 DEF WrittenGames, Near, Far, NotFinite
  <1>2. /\ P \in Seq(Byte) /\ Len(P) = 36 + 36 * n
        /\ \A k \in 1..36 : P[k] = WriteFields(GameFields, values)[k]
        /\ \A j \in 1..n : \A k \in 1..36 :
              P[36 * j + k] = WriteFields(EditFields, EditValues(g.edits[j]))[k]
    <2>1. EditsIn(g.edits, n, Int)
      <3> SUFFICES ASSUME NEW j \in 1..n
                   PROVE  \A v \in {g.edits[j].body_index, g.edits[j].sector, g.edits[j].material,
                                    g.edits[j].shell, g.edits[j].chunk, g.edits[j].block} : v \in Int
        BY DEF EditsIn
      <3>1. g.edits[j] \in BlockEdits
        BY <1>1
      <3> QED
        BY <3>1 DEF BlockEdits
    <2> HIDE DEF n
    <2> DEFINE V == Int
    <2>2. /\ 0 \in V /\ 1 \in V /\ n \in V
          /\ g.stage \in V /\ g.character \in V /\ g.active_body \in V /\ g.position \in V
      BY <1>1
    <2>3. EditsIn(g.edits, n, V)
      BY <2>1
    <2> HIDE DEF V
    <2>4. LaidOut(g, n, V \X Nat)
      BY <1>1, <2>2, <2>3, PayloadInOrder
    <2>5. V \X Nat = Byte
      BY DEF V, Byte
    <2> QED
      BY <2>4, <2>5 DEF LaidOut
  <1>3. /\ bytes \in Seq(Byte) /\ Len(bytes) = (36 + 36 * n) + Len(more) /\ Len(more) \in Nat
        /\ \A m \in 1..(36 + 36 * n) : bytes[m] = P[m]
    <2> HIDE DEF P, n, bytes
    <2>1. bytes = P \o more
      BY DEF bytes, P
    <2>2. /\ P \o more \in Seq(Byte) /\ Len(P \o more) = Len(P) + Len(more)
          /\ \A m \in 1..Len(P) + Len(more) :
                (P \o more)[m] = IF m <= Len(P) THEN P[m] ELSE more[m - Len(P)]
      BY <1>2, ConcatProperties
    <2>3. Len(more) \in Nat
      OBVIOUS
    <2>4. Len(P) = 36 + 36 * n /\ Len(P) \in Nat
      BY <1>1, <1>2
    <2>5. \A m \in 1..(36 + 36 * n) : bytes[m] = P[m]
      <3> TAKE m \in 1..(36 + 36 * n)
      <3>1. m \in 1..Len(P) + Len(more) /\ m <= Len(P)
        BY <1>1, <2>3, <2>4
      <3> QED
        BY <3>1, <2>1, <2>2
    <2>6. bytes \in Seq(Byte) /\ Len(bytes) = (36 + 36 * n) + Len(more)
      BY <2>1, <2>2, <2>4
    <2> QED
      BY <2>3, <2>5, <2>6
  <1>4. Lies(GameFields, values, bytes, 0)
    <2> HIDE DEF P, n, bytes, values
    <2>1. ASSUME NEW k \in 1..36 PROVE bytes[0 + k] = WriteFields(GameFields, values)[k]
      <3>1. k \in 1..(36 + 36 * n) /\ 0 + k = k
        BY <1>1, InPiece
      <3> QED
        BY <3>1, <1>2, <1>3
    <2> QED
      BY <1>1, <1>3, <2>1, SizesOfGames DEF Lies
  <1>5. EditsLie(g.edits, n, bytes)
    <2> HIDE DEF P, n, bytes
    <2> SUFFICES ASSUME NEW j \in 1..n
                 PROVE  Lies(EditFields, EditValues(g.edits[j]), bytes, 36 * j)
      BY DEF EditsLie
    <2>1. 36 * j + 36 <= 36 + 36 * n
      BY <1>1
    <2>2. ASSUME NEW k \in 1..36
          PROVE  bytes[36 * j + k] = WriteFields(EditFields, EditValues(g.edits[j]))[k]
      <3>1. 36 * j + k \in 1..(36 + 36 * n)
        BY <1>1, InPiece
      <3> QED
        BY <3>1, <1>2, <1>3
    <2> QED
      BY <1>1, <1>3, <2>1, <2>2, SizesOfGames DEF Lies
  <1>6. head = [offset |-> 36, ok |-> TRUE, out |-> Pairs(GameFields, values)]
    <2> HIDE DEF values
    <2>1. ReadFields([offset |-> 0, ok |-> TRUE, out |-> <<>>], bytes, GameFields) =
             [offset |-> 0 + Size(GameFields), ok |-> TRUE, out |-> Pairs(GameFields, values)]
      <3> HIDE DEF bytes
      <3> QED
        BY <1>3, <1>4, FieldsOfGames, FieldsAreReadAsWritten
    <2>2. 0 + Size(GameFields) = 36
      BY SizesOfGames
    <2> QED
      BY <2>1, <2>2 DEF Reader
  <1>7. read = values
    <2>1. Fields(Pairs(GameFields, values)) = Named(GameFields, values)
      BY FieldsOfPairs
    <2>2. {GameFields[i][1] : i \in 1..Len(GameFields)} = DOMAIN values
      <3>1. DOMAIN values = {"stage", "character", "reserved", "active_body", "position", "count"}
        BY DEF GameValues
      <3>2. {GameFields[i][1] : i \in 1..6} =
               {"stage", "character", "reserved", "active_body", "position", "count"}
        BY DEF GameFields
      <3> QED
        BY <3>1, <3>2, SizesOfGames
    <2>3. values = [name \in DOMAIN values |-> values[name]]
      BY DEF GameValues
    <2> HIDE DEF values, head
    <2>4. Named(GameFields, values) = values
      BY <2>2, <2>3 DEF Named
    <2> QED
      BY <2>1, <2>4, <1>6
  <1>8. /\ read.stage = g.stage /\ read.character = g.character /\ read.active_body = g.active_body
        /\ read.position = g.position /\ read.count = n
    <2> HIDE DEF read
    <2> QED
      BY <1>7 DEF GameValues
  <1>9. [head EXCEPT !.out = <<>>] = [offset |-> 36, ok |-> TRUE, out |-> <<>>]
    <2> HIDE DEF head, values
    <2>1. [[offset |-> 36, ok |-> TRUE, out |-> Pairs(GameFields, values)] EXCEPT !.out = <<>>] =
             [offset |-> 36, ok |-> TRUE, out |-> <<>>]
      BY ReaderEmptied, Zenon
    <2> QED
      BY <1>6, <2>1, Zenon
  <1>10. edits = DecodedEdits([offset |-> 36, ok |-> TRUE, out |-> <<>>], bytes, n)[n]
    <2> HIDE DEF head, read, n
    <2> QED
      BY <1>8, <1>9
  <1>11. DecodeGame(f) =
            IF f = NoFile THEN Refused
            ELSE IF ~SoundHeader(f) \/ ~head.ok THEN Refused
            ELSE IF read.count > MaxBlockEdits THEN Refused
            ELSE IF ~edits.ok \/ edits.offset # Len(f.payload) \/ ~Encodable(state) THEN Refused
            ELSE [ok |-> TRUE, out |-> state]
    BY DEF DecodeGame
  <1> HIDE DEF n, bytes, P, head, read, edits, state, values
  <1>12. PICK k \in 1..(n + 1) : ValidBefore(g.edits, n, k)
    BY <1>1, FirstNotValid
  <1>13. DOMAIN g.edits = 1..n
    BY <1>1
  <1>14. CASE k <= n
    <2>1. ~edits.ok
      BY <1>1, <1>3, <1>5, <1>10, <1>12, <1>14, EditsComeBack
    <2>2. ~Encodable(g)
      BY <1>12, <1>13, <1>14 DEF Encodable, ValidBefore
    <2>3. ~DecodeGame(f).ok
      BY <1>11, <2>1 DEF Refused
    <2> QED
      BY <2>2, <2>3
  <1>15. CASE k = n + 1
    <2>1. edits = [offset |-> 36 + 36 * n, ok |-> TRUE, out |-> First(g.edits, n)]
      BY <1>1, <1>3, <1>5, <1>10, <1>12, <1>15, EditsComeBack
    <2>2. First(g.edits, n) = g.edits
      BY <1>1 DEF First
    <2>3. edits.ok /\ edits.offset = 36 + 36 * n /\ edits.out = g.edits
      BY <2>1, <2>2
    <2>4. state = g
      <3>1. g = [stage |-> g.stage, character |-> g.character, active_body |-> g.active_body,
                 position |-> g.position, edits |-> g.edits]
        BY DEF WrittenGames
      <3> QED
        BY <3>1, <1>8, <2>3 DEF state
    <2>5. edits.offset = Len(f.payload) <=> more = <<>>
      <3>1. Len(more) = 0 <=> more = <<>>
        BY EmptySeq
      <3> QED
        <4> DEFINE size == 36 + 36 * n
        <4>1. size \in Nat /\ edits.offset = size
          BY <1>1, <2>3
        <4>2. Len(f.payload) = size + Len(more) /\ Len(more) \in Nat
          BY <1>3 DEF bytes
        <4> HIDE DEF size
        <4>3. size = size + Len(more) <=> Len(more) = 0
          BY <4>1, <4>2
        <4> QED
          BY <3>1, <4>1, <4>2, <4>3
    <2>6. CASE more = <<>> /\ Encodable(g)
      <3>1. ~(read.count > MaxBlockEdits)
        <4>1. Len(g.edits) <= MaxBlockEdits
          BY <2>6 DEF Encodable
        <4>2. n <= MaxBlockEdits /\ MaxBlockEdits \in Nat
          BY <4>1, SaveFormatAssumption DEF n
        <4> QED
          BY <1>1, <1>8, <4>2
      <3>2. head.ok
        BY <1>6
      <3>3. DecodeGame(f) = [ok |-> TRUE, out |-> state]
        BY <1>11, <2>3, <2>4, <2>5, <2>6, <3>1, <3>2
      <3> QED
        BY <2>4, <2>6, <3>3
    <2>7. CASE ~(more = <<>> /\ Encodable(g))
      <3>1. ~edits.ok \/ edits.offset # Len(f.payload) \/ ~Encodable(state)
        BY <2>4, <2>5, <2>7
      <3>2. DecodeGame(f) = Refused
        BY <1>11, <3>1
      <3> QED
        BY <2>7, <3>2 DEF Refused
    <2> QED
      BY <2>6, <2>7
  <1> QED
    BY <1>1, <1>14, <1>15

\* What this build does not know
LEMMA BeyondIsUnknown ==
    ASSUME NEW S \in {Stages, SupportedBodies, Characters, Sectors, Materials}
    PROVE  S \subseteq Nat /\ Beyond(S) \in Nat /\ Beyond(S) \notin S
  <1>1. PICK first \in S, final \in S : S = first..final
    BY SaveFormatAssumption
  <1>2. S \subseteq Nat
    BY SaveFormatAssumption
  <1>3. \E x \in S : \A y \in S : x >= y
    <2>1. \A y \in S : final >= y
      BY <1>1, <1>2
    <2> QED
      BY <2>1
  <1>4. Max(S) \in S /\ \A y \in S : Max(S) >= y
    BY <1>3 DEF Max
  <1>5. Max(S) \in Nat
    BY <1>2, <1>4
  <1>6. Max(S) + 1 \notin S
    BY <1>4, <1>5
  <1> QED
    BY <1>2, <1>5, <1>6 DEF Beyond

LEMMA SealedIsSound ==
    ASSUME NEW payload
    PROVE  /\ SoundHeader(Sealed(payload)) /\ Sealed(payload) # NoFile
           /\ Sealed(payload).payload = payload
  <1>1. SoundHeader(Sealed(payload)) /\ Sealed(payload).payload = payload
    BY DEF SoundHeader, Sealed, Checksum
  <1>2. "header" \in DOMAIN Sealed(payload) /\ "header" \notin DOMAIN NoFile
    BY DEF Sealed, NoFile
  <1> QED
    BY <1>1, <1>2

LEMMA NoSoundHeader == ASSUME NEW f, ~SoundHeader(f) PROVE ~DecodeGame(f).ok
  BY DEF DecodeGame, Refused

LEMMA NoGameInNoFile == ~DecodeGame(NoFile).ok
  BY DEF DecodeGame, Refused

\* The bytes of a game this build saves are none of them noise.
LEMMA SavableTyped == ASSUME NEW g \in SavableGames PROVE g \in WrittenGames
  <1>1. g.edits \in Seq(BlockEdits)
    BY SaveFormatAssumption DEF SavableGames
  <1>2. Stages \subseteq Nat /\ Characters \subseteq Nat /\ SupportedBodies \subseteq Nat
    BY BeyondIsUnknown
  <1> QED
    BY <1>1, <1>2 DEF SavableGames, WrittenGames

LEMMA PayloadTyped ==
    ASSUME NEW g \in WrittenGames
    PROVE  /\ Payload(g) \in Seq(Byte) /\ Len(Payload(g)) \in Nat /\ Len(Payload(g)) >= 36
           /\ Encodable(g) => Payload(g) \in Seq(Nat \X Nat)
  <1> DEFINE n == Len(g.edits)
  <1>1. n \in Nat /\ g.edits \in [1..n -> BlockEdits]
    BY LenProperties DEF WrittenGames
  <1>2. g.stage \in Nat /\ g.character \in Nat /\ g.active_body \in Nat /\ g.position \in Nat
    BY DEF WrittenGames, Near, Far, NotFinite
  <1>3. \A j \in 1..n : g.edits[j] \in BlockEdits
    BY <1>1
  <1>4. DOMAIN g.edits = 1..n
    BY <1>1
  <1> HIDE DEF n
  <1>5. LaidOut(g, n, Byte)
    <2> DEFINE V == Int
    <2>1. EditsIn(g.edits, n, V)
      <3> SUFFICES ASSUME NEW j \in 1..n
                   PROVE  \A v \in {g.edits[j].body_index, g.edits[j].sector, g.edits[j].material,
                                    g.edits[j].shell, g.edits[j].chunk, g.edits[j].block} : v \in V
        BY DEF EditsIn
      <3> QED
        BY <1>3 DEF BlockEdits
    <2>2. /\ 0 \in V /\ 1 \in V /\ n \in V
          /\ g.stage \in V /\ g.character \in V /\ g.active_body \in V /\ g.position \in V
      BY <1>1, <1>2
    <2> HIDE DEF V
    <2>3. LaidOut(g, n, V \X Nat)
      BY <1>1, <2>1, <2>2, PayloadInOrder
    <2> QED
      BY <2>3 DEF V, Byte
  <1>6. ASSUME Encodable(g) PROVE LaidOut(g, n, Nat \X Nat)
    <2> DEFINE V == Nat
    <2>1. EditsIn(g.edits, n, V)
      <3> SUFFICES ASSUME NEW j \in 1..n
                   PROVE  \A v \in {g.edits[j].body_index, g.edits[j].sector, g.edits[j].material,
                                    g.edits[j].shell, g.edits[j].chunk, g.edits[j].block} : v \in V
        BY DEF EditsIn
      <3>1. g.edits[j].shell >= 0
        BY <1>4, <1>6 DEF Encodable, ValidEdit
      <3> QED
        BY <1>3, <3>1 DEF BlockEdits
    <2>2. /\ 0 \in V /\ 1 \in V /\ n \in V
          /\ g.stage \in V /\ g.character \in V /\ g.active_body \in V /\ g.position \in V
      BY <1>1, <1>2
    <2> HIDE DEF V
    <2>3. LaidOut(g, n, V \X Nat)
      BY <1>1, <2>1, <2>2, PayloadInOrder
    <2> QED
      BY <2>3 DEF V
  <1> QED
    BY <1>1, <1>5, <1>6 DEF LaidOut

\* A file that is not as its header says is none.
LEMMA DamagedIsRefused ==
    ASSUME NEW g \in WrittenGames, Encodable(g), NEW f, f = Sealed(Payload(g))
    PROVE  /\ \A n \in {0, Size(GameFields) - 1, Size(GameFields), Len(f.payload) - 1} \ {f.size} :
                 ~DecodeGame([f EXCEPT !.payload = SubSeq(@, 1, n)]).ok
           /\ ~DecodeGame([f EXCEPT !.payload = Append(@, <<0, 1>>)]).ok
           /\ \A i \in DOMAIN f.payload : ~DecodeGame([f EXCEPT !.payload[i] = <<Noise, 1>>]).ok
           /\ ~DecodeGame([f EXCEPT !.header = FALSE]).ok
           /\ ~DecodeGame([f EXCEPT !.format = FALSE]).ok
           /\ ~DecodeGame([f EXCEPT !.generator = FALSE]).ok
  <1> DEFINE P == Payload(g)
  <1>1. P \in Seq(Byte) /\ Len(P) \in Nat /\ Len(P) >= 36 /\ P \in Seq(Nat \X Nat)
    BY PayloadTyped
  <1> HIDE DEF P
  <1>2. f = [header |-> TRUE, format |-> TRUE, generator |-> TRUE, size |-> Len(P),
             checksum |-> P, payload |-> P]
    BY DEF P, Sealed, Checksum
  <1>3. ASSUME NEW q, Len(q) # Len(P) PROVE ~DecodeGame([f EXCEPT !.payload = q]).ok
    <2> DEFINE h == [f EXCEPT !.payload = q]
    <2>1. h.size = Len(P) /\ h.payload = q
      BY <1>2
    <2> HIDE DEF h
    <2>2. ~SoundHeader(h)
      BY <1>3, <2>1 DEF SoundHeader
    <2> QED
      BY <2>2, NoSoundHeader DEF h
  <1>4. ASSUME NEW n \in {0, Size(GameFields) - 1, Size(GameFields), Len(f.payload) - 1} \ {f.size}
        PROVE  ~DecodeGame([f EXCEPT !.payload = SubSeq(@, 1, n)]).ok
    <2>1. n \in Nat /\ n # Len(P) /\ f.payload = P
      BY <1>1, <1>2, SizesOfGames
    <2>2. Len(SubSeq(P, 1, n)) = n
      BY <2>1
    <2>3. [f EXCEPT !.payload = SubSeq(@, 1, n)] = [f EXCEPT !.payload = SubSeq(P, 1, n)]
      BY <2>1
    <2> QED
      BY <1>3, <2>1, <2>2, <2>3
  <1>5. ~DecodeGame([f EXCEPT !.payload = Append(@, <<0, 1>>)]).ok
    <2>1. f.payload = P
      BY <1>2
    <2>2. Len(Append(P, <<0, 1>>)) # Len(P)
      <3>1. <<0, 1>> \in Byte
        BY DEF Byte
      <3>2. Len(Append(P, <<0, 1>>)) = Len(P) + 1
        BY <1>1, <3>1, AppendProperties
      <3> QED
        BY <1>1, <3>2
    <2>3. [f EXCEPT !.payload = Append(@, <<0, 1>>)] = [f EXCEPT !.payload = Append(P, <<0, 1>>)]
      BY <2>1
    <2> QED
      BY <1>3, <2>2, <2>3
  <1>6. ASSUME NEW i \in DOMAIN f.payload
        PROVE  ~DecodeGame([f EXCEPT !.payload[i] = <<Noise, 1>>]).ok
    <2> DEFINE q == [P EXCEPT ![i] = <<Noise, 1>>]
               h == [f EXCEPT !.payload[i] = <<Noise, 1>>]
    <2>1. f.payload = P /\ i \in 1..Len(P)
      BY <1>1, <1>2
    <2>2. P[i] \in Nat \X Nat
      BY <1>1, <2>1, ElementOfSeq
    <2>3. q # P
      <3>1. q[i] = <<Noise, 1>>
        BY <1>1, <2>1
      <3>2. <<Noise, 1>> \notin Nat \X Nat
        BY DEF Noise
      <3> QED
        BY <2>2, <3>1, <3>2
    <2>4. h.checksum = P /\ h.payload = q
      BY <1>2, <2>1
    <2> HIDE DEF h, q
    <2>5. ~SoundHeader(h)
      BY <2>3, <2>4 DEF SoundHeader, Checksum
    <2> QED
      BY <2>5, NoSoundHeader DEF h
  <1>7. ~DecodeGame([f EXCEPT !.header = FALSE]).ok
    <2>1. ~SoundHeader([f EXCEPT !.header = FALSE])
      BY <1>2 DEF SoundHeader
    <2> QED
      BY <2>1, NoSoundHeader
  <1>8. ~DecodeGame([f EXCEPT !.format = FALSE]).ok
    <2>1. ~SoundHeader([f EXCEPT !.format = FALSE])
      BY <1>2 DEF SoundHeader
    <2> QED
      BY <2>1, NoSoundHeader
  <1>9. ~DecodeGame([f EXCEPT !.generator = FALSE]).ok
    <2>1. ~SoundHeader([f EXCEPT !.generator = FALSE])
      BY <1>2 DEF SoundHeader
    <2> QED
      BY <2>1, NoSoundHeader
  <1> QED
    BY <1>4, <1>5, <1>6, <1>7, <1>8, <1>9

\* A game that says what this build does not know is refused, and so is one with more after it.
LEMMA OthersAreRefused ==
    ASSUME NEW g \in SavableGames, NEW other \in OtherGames(g)
    PROVE  other \in WrittenGames /\ ~Encodable(other)
  <1>1. g \in WrittenGames
    BY SavableTyped
  <1> DEFINE U == {Stages, SupportedBodies, Characters, Sectors, Materials}
  <1>2. \A S \in U : Beyond(S) \in Nat /\ Beyond(S) \notin S
    BY BeyondIsUnknown
  <1>3. g = [stage |-> g.stage, character |-> g.character, active_body |-> g.active_body,
             position |-> g.position, edits |-> g.edits]
    BY <1>1 DEF WrittenGames
  <1>4. /\ g.stage \in Nat /\ g.character \in Nat /\ g.active_body \in Nat
        /\ g.position \in {Near, Far, NotFinite} /\ g.edits \in Seq(BlockEdits)
    BY <1>1 DEF WrittenGames
  <1>5. ASSUME NEW e \in BlockEdits, ~ValidEdit(e), other = [g EXCEPT !.edits = Append(@, e)]
        PROVE  other \in WrittenGames /\ ~Encodable(other)
    <2> DEFINE s == Append(g.edits, e)
    <2>1. /\ s \in Seq(BlockEdits) /\ s[Len(g.edits) + 1] = e /\ Len(s) = Len(g.edits) + 1
          /\ Len(g.edits) \in Nat
      BY <1>4, AppendProperties, LenProperties
    <2>2. other = [g EXCEPT !.edits = s]
      BY <1>5
    <2> HIDE DEF s
    <2>3. Len(g.edits) + 1 \in DOMAIN s
      BY <2>1, LenProperties
    <2>4. other \in WrittenGames /\ other.edits = s
      BY <1>1, <2>1, <2>2 DEF WrittenGames
    <2> QED
      BY <1>5, <2>1, <2>3, <2>4 DEF Encodable
  <1>6. CASE other = [g EXCEPT !.stage = Beyond(Stages)]
    BY <1>1, <1>2, <1>6 DEF WrittenGames, Encodable
  <1>7. CASE other = [g EXCEPT !.character = Beyond(Characters)]
    BY <1>1, <1>2, <1>7 DEF WrittenGames, Encodable
  <1>8. CASE other = [g EXCEPT !.active_body = Beyond(SupportedBodies)]
    BY <1>1, <1>2, <1>8 DEF WrittenGames, Encodable
  <1>9. CASE other = [g EXCEPT !.position = Far]
    BY <1>1, <1>9 DEF WrittenGames, Encodable, Near, Far
  <1>10. CASE other = [g EXCEPT !.edits = Append(@, Edit(Beyond(SupportedBodies), 0, TRUE))]
    <2>1. Edit(Beyond(SupportedBodies), 0, TRUE) \in BlockEdits
      BY <1>2 DEF Edit, BlockEdits
    <2>2. ~ValidEdit(Edit(Beyond(SupportedBodies), 0, TRUE))
      BY <1>2 DEF Edit, ValidEdit
    <2> QED
      BY <1>5, <1>10, <2>1, <2>2
  <1>11. CASE other = [g EXCEPT !.edits = Append(@, Edit(1, Beyond(Materials), TRUE))]
    <2>1. Edit(1, Beyond(Materials), TRUE) \in BlockEdits
      BY <1>2 DEF Edit, BlockEdits
    <2>2. ~ValidEdit(Edit(1, Beyond(Materials), TRUE))
      BY <1>2 DEF Edit, ValidEdit
    <2> QED
      BY <1>5, <1>11, <2>1, <2>2
  <1>12. CASE other = [g EXCEPT !.edits =
                         Append(@, [Edit(1, 0, TRUE) EXCEPT !.sector = Beyond(Sectors)])]
    <2>1. [Edit(1, 0, TRUE) EXCEPT !.sector = Beyond(Sectors)] \in BlockEdits
      <3>1. Edit(1, 0, TRUE) \in BlockEdits
        BY DEF Edit, BlockEdits
      <3> QED
        BY <3>1, <1>2 DEF BlockEdits
    <2>2. ~ValidEdit([Edit(1, 0, TRUE) EXCEPT !.sector = Beyond(Sectors)])
      BY <1>2 DEF Edit, ValidEdit
    <2> QED
      BY <1>5, <1>12, <2>1, <2>2
  <1>13. CASE other = [g EXCEPT !.edits = Append(@, [Edit(1, 0, TRUE) EXCEPT !.shell = -1])]
    <2>1. [Edit(1, 0, TRUE) EXCEPT !.shell = -1] \in BlockEdits
      <3>1. Edit(1, 0, TRUE) \in BlockEdits
        BY DEF Edit, BlockEdits
      <3> QED
        <4> DEFINE shell == -1
        <4>1. shell \in Int
          OBVIOUS
        <4> HIDE DEF shell
        <4>2. [Edit(1, 0, TRUE) EXCEPT !.shell = shell] \in BlockEdits
          BY <3>1, <4>1 DEF BlockEdits
        <4> QED
          BY <4>2 DEF shell
    <2>2. ~ValidEdit([Edit(1, 0, TRUE) EXCEPT !.shell = -1])
      BY DEF Edit, ValidEdit
    <2> QED
      BY <1>5, <1>13, <2>1, <2>2
  <1> QED
    BY <1>6, <1>7, <1>8, <1>9, <1>10, <1>11, <1>12, <1>13 DEF OtherGames

\* The file is the game that is saved in it, or one that is refused.
FileIsSaved ==
    /\ saved # NoFile => saved \in SavableGames /\ Encodable(saved) /\ file = Sealed(Payload(saved))
    /\ saved = NoFile => ~DecodeGame(file).ok

LEMMA SavingBegins == FormatInit => FileIsSaved
  BY NoGameInNoFile DEF FormatInit, FileIsSaved

LEMMA SavingStays == FileIsSaved /\ [FormatNext]_format_vars => FileIsSaved'
  <1> SUFFICES ASSUME FileIsSaved, [FormatNext]_format_vars PROVE FileIsSaved'
    OBVIOUS
  <1>1. ASSUME NEW state \in SavableGames, SaveGame(state) PROVE FileIsSaved'
    <2>1. Encodable(state) /\ file' = Sealed(Payload(state)) /\ saved' = state
      BY <1>1 DEF SaveGame, EncodeGame, Refused
    <2>2. state # NoFile
      <3>1. "stage" \in DOMAIN state
        BY DEF SavableGames
      <3>2. "stage" \notin DOMAIN NoFile
        BY DEF NoFile
      <3> QED
        BY <3>1, <3>2
    <2> QED
      BY <2>1, <2>2 DEF FileIsSaved
  <1>2. ASSUME NEW f, WrittenByAnother(f), ~DecodeGame(f).ok PROVE FileIsSaved'
    BY <1>2 DEF WrittenByAnother, FileIsSaved
  <1>3. ASSUME saved # NoFile
        PROVE  saved \in SavableGames /\ saved \in WrittenGames /\ Encodable(saved)
                 /\ file = Sealed(Payload(saved))
    BY <1>3, SavableTyped DEF FileIsSaved
  <1>4. CASE saved # NoFile /\ Damage
    <2>1. \E f : WrittenByAnother(f) /\ ~DecodeGame(f).ok
      BY <1>3, <1>4, DamagedIsRefused DEF Damage
    <2> QED
      BY <1>2, <2>1
  <1>5. CASE saved # NoFile /\ OtherBuild
    <2>1. CASE WrittenByAnother([file EXCEPT !.format = FALSE])
      BY <1>2, <1>3, <1>5, <2>1, DamagedIsRefused
    <2>2. CASE WrittenByAnother([file EXCEPT !.generator = FALSE])
      BY <1>2, <1>3, <1>5, <2>2, DamagedIsRefused
    <2>3. ASSUME NEW state \in OtherGames(saved), WrittenByAnother(Sealed(Payload(state)))
          PROVE  FileIsSaved'
      <3>1. state \in WrittenGames /\ ~Encodable(state)
        BY <1>3, <1>5, OthersAreRefused
      <3>2. <<>> \in Seq(Byte) /\ Payload(state) \o <<>> = Payload(state)
        BY <3>1, PayloadTyped, EmptySeq, ConcatEmptySeq
      <3>3. ~DecodeGame(Sealed(Payload(state))).ok
        BY <3>1, <3>2, SealedIsSound, GameComesBack
      <3> QED
        BY <1>2, <2>3, <3>3
    <2>4. ASSUME NEW more \in {<<<<0, 1>>>>, WriteEdit(Edit(1, 0, TRUE))},
                 WrittenByAnother(Sealed(Payload(saved) \o more))
          PROVE  FileIsSaved'
      <3>1. more \in Seq(Byte) /\ more # <<>>
        <4>1. CASE more = <<<<0, 1>>>>
          BY <4>1 DEF Byte
        <4>2. CASE more = WriteEdit(Edit(1, 0, TRUE))
          <5> DEFINE V == Int
                     e == Edit(1, 0, TRUE)
          <5>1. /\ 0 \in V /\ 1 \in V /\ e.body_index \in V /\ e.sector \in V /\ e.material \in V
                /\ e.shell \in V /\ e.chunk \in V /\ e.block \in V
            BY DEF Edit
          <5> HIDE DEF V, e
          <5>2. WriteEdit(e) \in Seq(V \X Nat) /\ Len(WriteEdit(e)) = 36
            BY <5>1, EditWritten
          <5>3. more \in Seq(Byte) /\ Len(more) = 36
            BY <4>2, <5>2 DEF V, e, Byte
          <5> QED
            BY <5>3, EmptySeq
        <4> QED
          BY <4>1, <4>2
      <3>2. ~DecodeGame(Sealed(Payload(saved) \o more)).ok
        BY <1>3, <1>5, <3>1, SealedIsSound, GameComesBack
      <3> QED
        BY <1>2, <2>4, <3>2
    <2> QED
      BY <1>5, <2>1, <2>2, <2>3, <2>4 DEF OtherBuild
  <1>6. CASE UNCHANGED format_vars
    BY <1>6 DEF format_vars, FileIsSaved
  <1> QED
    BY <1>1, <1>4, <1>5, <1>6 DEF FormatNext

LEMMA SavedIsReadable == FileIsSaved => SavesAreReadable
  <1> SUFFICES ASSUME FileIsSaved PROVE SavesAreReadable
    OBVIOUS
  <1>1. CASE saved # NoFile
    <2>1. saved \in WrittenGames /\ Encodable(saved) /\ file = Sealed(Payload(saved))
      BY <1>1, SavableTyped DEF FileIsSaved
    <2>2. <<>> \in Seq(Byte) /\ Payload(saved) \o <<>> = Payload(saved)
      BY <2>1, PayloadTyped, EmptySeq, ConcatEmptySeq
    <2>3. DecodeGame(file) = [ok |-> TRUE, out |-> saved]
      BY <2>1, <2>2, SealedIsSound, GameComesBack
    <2>4. EncodeGame(saved) = [ok |-> TRUE, out |-> file]
      BY <2>1 DEF EncodeGame
    <2> QED
      BY <1>1, <2>3, <2>4 DEF SavesAreReadable
  <1>2. CASE saved = NoFile
    BY <1>2 DEF FileIsSaved, SavesAreReadable
  <1> QED
    BY <1>1, <1>2

\* Theorem: a game that was saved is found again as it was, with any number of block edits,
\* and a file that was damaged, or says what this build does not know, is refused.  About
\* encode_persistent_game_state and decode_persistent_game_state.
THEOREM SavesStayReadable == FormatSpec => []SavesAreReadable
  BY SavingBegins, SavingStays, SavedIsReadable, PTL DEF FormatSpec

-----------------------------------------------------------------------------
(* Minigames: the snake                                                     *)

\* One line of different cells of the grid, with a head
IsLine(body) ==
    /\ body \in Seq(Grid) /\ Len(body) > 0
    /\ \A i, j \in DOMAIN body : i # j => body[i] # body[j]
    /\ \A i \in 1..Len(body) - 1 : Plus(body[i], [k \in 1..2 |-> -body[i + 1][k]]) \in Moves

LEMMA GridIsOfPairs ==
    \A c \in Grid : c \in Int \X Int /\ c = <<c[1], c[2]>>
  BY MinigamesAssumption DEF Grid

LEMMA MovesArePairs ==
    \A d \in Moves : d \in Int \X Int
  BY DEF Moves, Left, Right, Up, Down

\* What was added is what takes one back.
LEMMA PlusBack ==
    ASSUME NEW c \in Int \X Int, NEW d \in Int \X Int
    PROVE  Plus(Plus(c, d), [k \in 1..2 |-> -c[k]]) = d
  <1> DEFINE m == [k \in 1..2 |-> -c[k]]
  <1>1. m[1] = -c[1] /\ m[2] = -c[2]
    OBVIOUS
  <1> HIDE DEF m
  <1>2. Plus(c, d) = <<c[1] + d[1], c[2] + d[2]>>
    BY DEF Plus
  <1>3. Plus(Plus(c, d), m) = <<(c[1] + d[1]) + m[1], (c[2] + d[2]) + m[2]>>
    BY <1>2 DEF Plus
  <1>4. (c[1] + d[1]) + m[1] = d[1] /\ (c[2] + d[2]) + m[2] = d[2]
    BY <1>1
  <1>5. d = <<d[1], d[2]>>
    OBVIOUS
  <1> QED
    BY <1>3, <1>4, <1>5 DEF m

\* A new head before the body, or before what is left of it at the front
LEMMA PushedLine ==
    ASSUME NEW body, IsLine(body), NEW d \in Moves,
           Plus(body[1], d) \in Grid, Plus(body[1], d) \notin Range(body),
           NEW rest \in Seq(Grid), Len(rest) <= Len(body),
           \A i \in 1..Len(rest) : rest[i] = body[i]
    PROVE  /\ IsLine(<<Plus(body[1], d)>> \o rest)
           /\ Range(<<Plus(body[1], d)>> \o rest) \subseteq Range(body) \cup {Plus(body[1], d)}
  <1> DEFINE next == Plus(body[1], d)
             new == <<next>> \o rest
             n == Len(rest)
  <1>1. body \in Seq(Grid) /\ Len(body) \in Nat \ {0} /\ DOMAIN body = 1..Len(body)
    BY LenProperties DEF IsLine
  <1>2. body[1] \in Int \X Int /\ d \in Int \X Int /\ body[1] \in Grid
    BY <1>1, GridIsOfPairs, MovesArePairs
  <1>3. n \in Nat /\ n <= Len(body)
    BY LenProperties
  <1>4. <<next>> \in Seq(Grid) /\ Len(<<next>>) = 1 /\ <<next>>[1] = next
    OBVIOUS
  <1> HIDE DEF next
  <1>5. new \in Seq(Grid) /\ Len(new) = n + 1
    BY <1>3, <1>4, ConcatProperties
  <1>6. new[1] = next
    BY <1>3, <1>4, ConcatProperties
  <1>7. \A i \in 2..n + 1 : new[i] = body[i - 1] /\ i - 1 \in 1..Len(body)
    <2> TAKE i \in 2..n + 1
    <2>1. i \in 1..1 + n /\ i - 1 \in 1..n /\ ~(i <= 1) /\ i - 1 \in 1..Len(body)
      BY <1>1, <1>3
    <2>2. new[i] = rest[i - 1]
      BY <1>4, <2>1, ConcatProperties
    <2> QED
      BY <2>1, <2>2
  <1>8. DOMAIN new = 1..n + 1
    BY <1>5, LenProperties
  <1> HIDE DEF new, n
  <1>9. \A i \in 1..n + 1 : i = 1 \/ i \in 2..n + 1
    BY <1>3
  <1>10. \A i \in 2..n + 1 : new[i] \in Range(body)
    BY <1>1, <1>7 DEF Range
  <1>11. \A i, j \in DOMAIN new : i # j => new[i] # new[j]
    <2> SUFFICES ASSUME NEW i \in 1..n + 1, NEW j \in 1..n + 1, i # j PROVE new[i] # new[j]
      BY <1>8
    <2>1. CASE i = 1 \/ j = 1
      BY <1>6, <1>9, <1>10, <2>1 DEF next
    <2>2. CASE i # 1 /\ j # 1
      <3>1. i \in 2..n + 1 /\ j \in 2..n + 1 /\ i - 1 # j - 1
        BY <1>3, <2>2
      <3>2. body[i - 1] # body[j - 1]
        BY <1>1, <1>7, <3>1 DEF IsLine
      <3> QED
        BY <1>7, <3>1, <3>2
    <2> QED
      BY <2>1, <2>2
  <1>12. ASSUME NEW i \in 1..Len(new) - 1
         PROVE  Plus(new[i], [k \in 1..2 |-> -new[i + 1][k]]) \in Moves
    <2>1. i \in 1..n + 1 /\ i + 1 \in 2..n + 1 /\ (i + 1) - 1 = i
      BY <1>3, <1>5
    <2>2. new[i + 1] = body[i]
      BY <1>7, <2>1
    <2>3. CASE i = 1
      BY <1>2, <1>6, <2>2, <2>3, PlusBack DEF next
    <2>4. CASE i # 1
      <3>1. i \in 2..n + 1 /\ i - 1 \in 1..Len(body) - 1 /\ (i - 1) + 1 = i
        BY <1>3, <2>1, <2>4
      <3>2. new[i] = body[i - 1]
        BY <1>7, <3>1
      <3>3. Plus(body[i - 1], [k \in 1..2 |-> -body[i][k]]) \in Moves
        BY <3>1 DEF IsLine
      <3> QED
        BY <2>2, <3>2, <3>3
    <2> QED
      BY <2>3, <2>4
  <1>13. IsLine(new)
    BY <1>3, <1>5, <1>11, <1>12 DEF IsLine
  <1>14. Range(new) \subseteq Range(body) \cup {next}
    BY <1>6, <1>8, <1>9, <1>10 DEF Range
  <1> QED
    BY <1>13, <1>14 DEF new, next

LEMMA FrontOfLine ==
    ASSUME NEW body, IsLine(body)
    PROVE  /\ Front(body) \in Seq(Grid) /\ Len(Front(body)) <= Len(body)
           /\ \A i \in 1..Len(Front(body)) : Front(body)[i] = body[i]
  <1> DEFINE n == Len(body)
  <1>1. body \in Seq(Grid) /\ n \in Nat \ {0} /\ \A i \in 1..n : body[i] \in Grid
    BY LenProperties, ElementOfSeq DEF IsLine
  <1>2. n - 1 \in Int /\ 1 \in Int /\ \A i \in 1..n - 1 : body[i] \in Grid
    BY <1>1
  <1> HIDE DEF n
  <1>3. /\ SubSeq(body, 1, n - 1) \in Seq(Grid)
        /\ Len(SubSeq(body, 1, n - 1)) = IF 1 <= n - 1 THEN (n - 1) - 1 + 1 ELSE 0
        /\ \A i \in 1..(n - 1) - 1 + 1 : SubSeq(body, 1, n - 1)[i] = body[1 + i - 1]
    BY <1>2, SubSeqProperties
  <1>4. Len(SubSeq(body, 1, n - 1)) = n - 1
    BY <1>1, <1>3
  <1>5. \A i \in 1..n - 1 : SubSeq(body, 1, n - 1)[i] = body[i]
    BY <1>1, <1>3
  <1> QED
    BY <1>1, <1>3, <1>4, <1>5 DEF Front, n

SnakeRecords == [body : Seq(Grid), direction : Moves, pending : Moves, food : Int \X Int]

\* What holds of the snake in every game
SnakeIsLine == snake \in SnakeRecords /\ IsLine(snake.body)

LEMMA NewSnakeIsLine ==
    ASSUME NEW food \in Int \X Int
    PROVE  /\ NewSnake(food) \in SnakeRecords /\ NewSnake(food).food = food
           /\ NewSnake(food).body = NewSnake(Still).body
           /\ IsLine(NewSnake(food).body)
  <1> DEFINE a == SnakeStart[1]
             b == SnakeStart[2]
             body == NewSnake(Still).body
  <1>1. a \in 2..GridW - 1 /\ b \in 0..GridH - 1 /\ GridW \in Nat /\ GridH \in Nat
    BY MinigamesAssumption
  <1>2. body = [i \in 1..3 |-> <<a + (1 - i), b + 0>>]
    BY DEF NewSnake, Plus
  <1>3. NewSnake(food) = [body |-> body, direction |-> Right, pending |-> Right, food |-> food]
    BY DEF NewSnake
  <1> HIDE DEF a, b, body
  <1>4. DOMAIN body = 1..3 /\ \A i \in 1..3 : body[i] = <<a + (1 - i), b>>
    BY <1>1, <1>2
  <1>5. \A i \in 1..3 : a + (1 - i) \in 0..GridW - 1
    BY <1>1
  <1>6. \A i \in 1..3 : body[i] \in Grid
    BY <1>1, <1>4, <1>5 DEF Grid
  <1>7. body \in Seq(Grid) /\ Len(body) = 3
    <2>1. body = [i \in 1..3 |-> body[i]]
      BY <1>2, <1>4
    <2>2. body \in [1..3 -> Grid]
      BY <1>6, <2>1
    <2>3. [1..3 -> Grid] \in {[1..n -> Grid] : n \in Nat}
      BY 3 \in Nat
    <2>4. body \in UNION {[1..n -> Grid] : n \in Nat}
      BY <2>2, <2>3, Zenon
    <2>5. body \in Seq(Grid)
      BY <2>4, SeqDef, Zenon
    <2>6. Len(body) \in Nat /\ \A i \in Int : i \in 1..Len(body) <=> i \in 1..3
      BY <1>4, <2>5, LenProperties
    <2>7. 3 \in 1..Len(body) /\ 4 \notin 1..Len(body)
      BY <2>6
    <2>8. \A n \in Nat : 3 \in 1..n /\ 4 \notin 1..n => n = 3
      OBVIOUS
    <2>9. Len(body) = 3
      BY <2>6, <2>7, <2>8, Zenon
    <2> QED
      BY <2>5, <2>9
  <1>8. \A i, j \in 1..3 : i # j => body[i] # body[j]
    <2> TAKE i, j \in 1..3
    <2>1. i # j => a + (1 - i) # a + (1 - j)
      BY <1>1
    <2> QED
      BY <1>4, <2>1
  <1>9. \A i \in 1..2 : Plus(body[i], [k \in 1..2 |-> -body[i + 1][k]]) \in Moves
    <2> TAKE i \in 1..2
    <2>1. i \in 1..3 /\ i + 1 \in 1..3
      OBVIOUS
    <2>2. body[i] = Plus(body[i + 1], Right)
      <3>1. a + (1 - (i + 1)) + 1 = a + (1 - i) /\ b + 0 = b
        BY <1>1
      <3> QED
        BY <1>4, <2>1, <3>1 DEF Plus, Right
    <2>3. body[i + 1] \in Int \X Int /\ Right \in Moves /\ Right \in Int \X Int
      BY <1>6, <2>1, GridIsOfPairs, MovesArePairs DEF Moves
    <2> QED
      BY <2>2, <2>3, PlusBack
  <1>10. IsLine(body)
    BY <1>4, <1>7, <1>8, <1>9 DEF IsLine
  <1>11. NewSnake(food) \in SnakeRecords
    BY <1>3, <1>7 DEF SnakeRecords, Moves
  <1> QED
    BY <1>3, <1>10, <1>11 DEF body

LEMMA TurnedIs ==
    ASSUME NEW sn \in SnakeRecords, NEW move \in Moves \cup {Still}
    PROVE  /\ Turned(sn, move) \in SnakeRecords
           /\ Turned(sn, move).body = sn.body /\ Turned(sn, move).food = sn.food
  <1> DEFINE pending == IF move = Still THEN sn.pending ELSE move
             direction == IF Plus(pending, sn.direction) = Still THEN sn.direction ELSE pending
             asked == [body |-> sn.body, direction |-> sn.direction, pending |-> pending,
                       food |-> sn.food]
             turned == [body |-> sn.body, direction |-> direction, pending |-> pending,
                        food |-> sn.food]
  <1>1. pending \in Moves /\ direction \in Moves
    BY DEF SnakeRecords
  <1> HIDE DEF pending
  <1>2. [sn EXCEPT !.pending = pending] = asked
    BY DEF SnakeRecords
  <1>3. [asked EXCEPT !.direction = IF Plus(pending, @) = Still THEN @ ELSE pending] = turned
    OBVIOUS
  <1>4. Turned(sn, move) = [sn EXCEPT !.pending = pending,
                                      !.direction = IF Plus(pending, @) = Still THEN @ ELSE pending]
    BY DEF Turned, pending
  <1>5. Turned(sn, move) = turned
    BY <1>2, <1>3, <1>4
  <1>6. turned \in SnakeRecords
    BY <1>1 DEF SnakeRecords
  <1> QED
    BY <1>5, <1>6

\* and of what it is after
FoodIsFree == minigame_type = "Snake" => snake.food \in Grid \ Range(snake.body)

\* The number of a draw, and one or more of them
LEMMA SeedStays ==
    ASSUME NEW s \in 0..3
    PROVE  LcgNext(s) \in 0..3 /\ AfterAttempts(s) \subseteq 0..3
  <1>1. \A t \in Int : LcgNext(t) \in 0..3
    BY DEF LcgNext
  <1> QED
    BY <1>1 DEF AfterAttempts

LEMMA SnakeTicks ==
    ASSUME SnakeIsLine, FoodIsFree, minigame_seed \in 0..3,
           NEW move \in Moves \cup {Still}, NEW due \in BOOLEAN, TickSnake(move, due)
    PROVE  /\ SnakeIsLine' /\ FoodIsFree' /\ minigame_seed' \in 0..3
           /\ (completed \in BOOLEAN /\ victory \in BOOLEAN)
                 => (completed' \in BOOLEAN /\ victory' \in BOOLEAN)
           /\ minigame_type = "Snake" /\ UNCHANGED <<minigame_type, tetris, tictactoe>>
  <1> DEFINE sn == Turned(snake, move)
             next == Plus(sn.body[1], sn.direction)
             grown == <<next>> \o sn.body
             shifted == <<next>> \o Front(sn.body)
             won == Len(grown) >= SnakeWins
  <1>1. sn \in SnakeRecords /\ sn.body = snake.body /\ sn.food = snake.food
    BY TurnedIs DEF SnakeIsLine
  <1>2. minigame_type = "Snake" /\ UNCHANGED <<minigame_type, tetris, tictactoe>>
    BY DEF TickSnake
  <1>3. IsLine(sn.body) /\ sn.direction \in Moves /\ sn.food \in Grid \ Range(sn.body)
    BY <1>1, <1>2 DEF SnakeIsLine, FoodIsFree, SnakeRecords
  <1>4. \/ /\ snake' = sn
           /\ UNCHANGED minigame_seed
           /\ \/ UNCHANGED <<completed, victory>>
              \/ completed' = TRUE /\ victory' = FALSE
        \/ /\ next \in Grid /\ next \notin Range(sn.body) /\ next # sn.food
           /\ snake' = [sn EXCEPT !.body = shifted]
           /\ UNCHANGED <<completed, victory, minigame_seed>>
        \/ /\ next \in Grid /\ next \notin Range(sn.body) /\ next = sn.food
           /\ \E food \in FoodCells(grown, minigame_seed) :
                 snake' = [sn EXCEPT !.body = grown, !.food = food]
           /\ minigame_seed' \in AfterAttempts(minigame_seed)
           /\ completed' = won /\ victory' = won
    BY Zenon DEF TickSnake
  <1> HIDE DEF sn, grown, shifted
  <1>8. won \in BOOLEAN
    OBVIOUS
  <1> HIDE DEF won
  <1>5. CASE /\ snake' = sn
             /\ UNCHANGED minigame_seed
             /\ \/ UNCHANGED <<completed, victory>>
                \/ completed' = TRUE /\ victory' = FALSE
    BY <1>1, <1>2, <1>3, <1>5 DEF SnakeIsLine, FoodIsFree
  <1>6. CASE /\ next \in Grid /\ next \notin Range(sn.body) /\ next # sn.food
             /\ snake' = [sn EXCEPT !.body = shifted]
             /\ UNCHANGED <<completed, victory, minigame_seed>>
    <2>1. IsLine(shifted) /\ Range(shifted) \subseteq Range(sn.body) \cup {next}
      BY <1>3, <1>6, FrontOfLine, PushedLine DEF shifted
    <2>2. snake'.body = shifted /\ snake'.food = sn.food
      BY <1>1, <1>6 DEF SnakeRecords
    <2>3. shifted \in Seq(Grid)
      BY <2>1 DEF IsLine
    <2>4. snake' \in SnakeRecords
      BY <1>1, <1>6, <2>3 DEF SnakeRecords
    <2>5. sn.food \in Grid \ Range(shifted)
      BY <1>3, <1>6, <2>1
    <2> QED
      BY <1>2, <1>6, <2>1, <2>2, <2>4, <2>5 DEF SnakeIsLine, FoodIsFree
  <1>7. CASE /\ next \in Grid /\ next \notin Range(sn.body) /\ next = sn.food
             /\ \E food \in FoodCells(grown, minigame_seed) :
                   snake' = [sn EXCEPT !.body = grown, !.food = food]
             /\ minigame_seed' \in AfterAttempts(minigame_seed)
             /\ completed' = won /\ victory' = won
    <2>1. IsLine(grown)
      <3>1. sn.body \in Seq(Grid) /\ Len(sn.body) \in Nat
        BY <1>3, LenProperties DEF IsLine
      <3>2. Len(sn.body) <= Len(sn.body) /\ \A i \in 1..Len(sn.body) : sn.body[i] = sn.body[i]
        BY <3>1
      <3> QED
        BY <1>3, <1>7, <3>1, <3>2, PushedLine DEF grown
    <2>2. PICK food \in FoodCells(grown, minigame_seed) :
                 snake' = [sn EXCEPT !.body = grown, !.food = food]
      BY <1>7
    <2>3. food \in Grid \ Range(grown) /\ food \in Int \X Int
      BY GridIsOfPairs DEF FoodCells
    <2>4. snake' = [body |-> grown, direction |-> sn.direction, pending |-> sn.pending, food |-> food]
      <3> DEFINE fed == [body |-> grown, direction |-> sn.direction, pending |-> sn.pending,
                         food |-> sn.food]
      <3>1. [sn EXCEPT !.body = grown] = fed
        BY <1>1 DEF SnakeRecords
      <3>2. [fed EXCEPT !.food = food]
              = [body |-> grown, direction |-> sn.direction, pending |-> sn.pending, food |-> food]
        OBVIOUS
      <3> HIDE DEF fed
      <3>3. [sn EXCEPT !.body = grown, !.food = food] = [fed EXCEPT !.food = food]
        BY <3>1
      <3> QED
        BY <2>2, <3>2, <3>3
    <2>5. grown \in Seq(Grid)
      BY <2>1 DEF IsLine
    <2>6. snake' \in SnakeRecords
      BY <1>1, <2>3, <2>4, <2>5 DEF SnakeRecords
    <2>7. minigame_seed' \in 0..3
      BY <1>7, SeedStays
    <2> QED
      BY <1>2, <1>7, <1>8, <2>1, <2>3, <2>4, <2>6, <2>7 DEF SnakeIsLine, FoodIsFree
  <1> QED
    BY <1>4, <1>5, <1>6, <1>7

-----------------------------------------------------------------------------
(* Minigames: tic-tac-toe                                                   *)

SquareBoards == [Squares -> 0..2]
SquareRecords == [board : SquareBoards, cursor : Squares, winner : 0..2, turns : Nat]
Marked(board, player) == {square \in Squares : board[square] = player}

LEMMA SquaresAreNine ==
    /\ IsFiniteSet(Squares) /\ Cardinality(Squares) = 9
    /\ \A S \in SUBSET Squares : IsFiniteSet(S) /\ Cardinality(S) \in Nat
  <1>1. 0 \in Int /\ 8 \in Int /\ ~(0 > 8) /\ 8 - 0 + 1 = 9
    OBVIOUS
  <1>2. IsFiniteSet(0..8) /\ Cardinality(0..8) = IF 0 > 8 THEN 0 ELSE 8 - 0 + 1
    BY <1>1, FS_Interval
  <1>3. IsFiniteSet(Squares) /\ Cardinality(Squares) = 9
    BY <1>1, <1>2 DEF Squares
  <1> QED
    BY <1>3, FS_Subset, FS_CardinalityType

\* Every square is of one of the players or free.
LEMMA MarksAddUp ==
    ASSUME NEW board \in SquareBoards
    PROVE  /\ Cardinality(Marked(board, 1)) \in Nat /\ Cardinality(Marked(board, 2)) \in Nat
           /\ Free(board) = {} =>
                 Cardinality(Marked(board, 1)) + Cardinality(Marked(board, 2)) = 9
  <1> DEFINE A == Marked(board, 1)
             B == Marked(board, 2)
  <1>1. A \in SUBSET Squares /\ B \in SUBSET Squares /\ A \cap B = {}
    BY DEF Marked
  <1>2. Free(board) = {} => A \cup B = Squares
    BY DEF Marked, Free, SquareBoards
  <1> HIDE DEF A, B
  <1>3. IsFiniteSet(A) /\ IsFiniteSet(B) /\ Cardinality(A) \in Nat /\ Cardinality(B) \in Nat
    BY <1>1, SquaresAreNine
  <1>4. Cardinality(A \cup B) = Cardinality(A) + Cardinality(B) - Cardinality(A \cap B)
    BY <1>3, FS_Union
  <1>5. Cardinality(A \cap B) = 0
    BY <1>1, FS_EmptySet
  <1>6. Cardinality(A \cup B) = Cardinality(A) + Cardinality(B)
    BY <1>3, <1>4, <1>5
  <1> QED
    BY <1>2, <1>3, <1>6, SquaresAreNine DEF A, B

\* One more mark of a player, where there was none: the other one gets nothing from it.
LEMMA OneMarkMore ==
    ASSUME NEW board \in SquareBoards, NEW square \in Free(board), NEW player \in {1, 2},
           NEW other \in {1, 2} \ {player}
    PROVE  /\ [board EXCEPT ![square] = player] \in SquareBoards
           /\ Cardinality(Marked([board EXCEPT ![square] = player], player))
                = Cardinality(Marked(board, player)) + 1
           /\ Marked([board EXCEPT ![square] = player], other) = Marked(board, other)
           /\ HasLine([board EXCEPT ![square] = player], other) => HasLine(board, other)
  <1> DEFINE new == [board EXCEPT ![square] = player]
  <1>1. square \in Squares /\ board[square] = 0
    BY DEF Free
  <1>2. new \in SquareBoards
    BY <1>1 DEF SquareBoards
  <1>3. \A s \in Squares : new[s] = IF s = square THEN player ELSE board[s]
    BY <1>1 DEF SquareBoards
  <1> HIDE DEF new
  <1>4. Marked(new, player) = Marked(board, player) \cup {square} /\ square \notin Marked(board, player)
    BY <1>1, <1>3 DEF Marked
  <1>5. Marked(board, player) \in SUBSET Squares
    BY DEF Marked
  <1>6. Cardinality(Marked(new, player)) = Cardinality(Marked(board, player)) + 1
    BY <1>4, <1>5, SquaresAreNine, FS_AddElement
  <1>7. Marked(new, other) = Marked(board, other)
    BY <1>1, <1>3 DEF Marked
  <1>8. \A line \in Lines : line \subseteq Squares
    BY DEF Lines, Squares
  <1>9. HasLine(new, other) => HasLine(board, other)
    <2> SUFFICES ASSUME HasLine(new, other) PROVE HasLine(board, other)
      OBVIOUS
    <2>1. PICK line \in Lines : \A s \in line : new[s] = other
      BY DEF HasLine
    <2>2. \A s \in line : s \in Squares /\ board[s] = other
      BY <1>3, <1>8, <2>1
    <2> QED
      BY <2>2 DEF HasLine
  <1> QED
    BY <1>2, <1>6, <1>7, <1>9 DEF new

\* The same for each of the two
LEMMA OneCrossMore ==
    ASSUME NEW board \in SquareBoards, NEW square \in Free(board)
    PROVE  /\ [board EXCEPT ![square] = 1] \in SquareBoards
           /\ Cardinality(Marked([board EXCEPT ![square] = 1], 1)) = Cardinality(Marked(board, 1)) + 1
           /\ Marked([board EXCEPT ![square] = 1], 2) = Marked(board, 2)
           /\ HasLine([board EXCEPT ![square] = 1], 2) => HasLine(board, 2)
  <1>1. 1 \in {1, 2} /\ 2 \in {1, 2} \ {1}
    OBVIOUS
  <1> QED
    BY <1>1, OneMarkMore, board \in SquareBoards, square \in Free(board), Zenon

LEMMA OneNoughtMore ==
    ASSUME NEW board \in SquareBoards, NEW square \in Free(board)
    PROVE  /\ [board EXCEPT ![square] = 2] \in SquareBoards
           /\ Cardinality(Marked([board EXCEPT ![square] = 2], 2)) = Cardinality(Marked(board, 2)) + 1
           /\ Marked([board EXCEPT ![square] = 2], 1) = Marked(board, 1)
           /\ HasLine([board EXCEPT ![square] = 2], 1) => HasLine(board, 1)
  <1>1. 2 \in {1, 2} /\ 1 \in {1, 2} \ {2}
    OBVIOUS
  <1> QED
    BY <1>1, OneMarkMore, board \in SquareBoards, square \in Free(board), Zenon

LEMMA WinnerHasLine ==
    ASSUME NEW board
    PROVE  /\ Winner(board) \in 0..2
           /\ Winner(board) = 0 <=> ~HasLine(board, 1) /\ ~HasLine(board, 2)
           /\ HasLine(board, 1) /\ ~HasLine(board, 2) => Winner(board) = 1
           /\ HasLine(board, 2) /\ ~HasLine(board, 1) => Winner(board) = 2
  <1>1. CASE \E p \in {1, 2} : HasLine(board, p)
    <2> DEFINE w == CHOOSE p \in {1, 2} : HasLine(board, p)
    <2>1. w \in {1, 2} /\ HasLine(board, w)
      BY <1>1
    <2>2. Winner(board) = w
      BY <1>1 DEF Winner
    <2> HIDE DEF w
    <2> QED
      BY <1>1, <2>1, <2>2
  <1>2. CASE ~\E p \in {1, 2} : HasLine(board, p)
    BY <1>2 DEF Winner
  <1> QED
    BY <1>1, <1>2

LEMMA CursorStays ==
    ASSUME NEW cursor \in Squares, NEW move \in Moves \cup {Still}
    PROVE  CursorAfter(cursor, move) \in Squares
  <1>1. cursor \in Int /\ move[1] \in Int /\ move[2] \in Int
    BY DEF Squares, Moves, Left, Right, Up, Down, Still
  <1>2. (cursor % 3) + move[1] \in Int /\ (cursor \div 3) - move[2] \in Int
    BY <1>1
  <1>3. \A n \in Int : Clamp(n) \in 0..2
    BY DEF Clamp
  <1>4. \A a, b \in 0..2 : a + 3 * b \in 0..8
    OBVIOUS
  <1> QED
    BY <1>2, <1>3, <1>4 DEF CursorAfter, Squares

LEMMA EmptyBoard ==
    LET board == [square \in Squares |-> 0]
    IN  /\ board \in SquareBoards
        /\ ~HasLine(board, 1) /\ ~HasLine(board, 2) /\ Winner(board) = 0 /\ ~Over(board)
        /\ Cardinality(Marked(board, 1)) = 0 /\ Cardinality(Marked(board, 2)) = 0
  <1> DEFINE board == [square \in Squares |-> 0]
  <1>1. board \in SquareBoards /\ \A s \in Squares : board[s] = 0
    BY DEF SquareBoards
  <1> HIDE DEF board
  <1>2. \A line \in Lines : \E s \in line : s \in Squares
    <2>1. \A line \in Lines : line # {} /\ line \subseteq Squares
      BY DEF Lines, Squares
    <2> QED
      BY <2>1
  <1>3. ~HasLine(board, 1) /\ ~HasLine(board, 2)
    BY <1>1, <1>2 DEF HasLine
  <1>4. Free(board) # {}
    <2>1. 0 \in Squares
      BY DEF Squares
    <2> QED
      BY <1>1, <2>1 DEF Free
  <1>5. Winner(board) = 0
    BY <1>3, WinnerHasLine
  <1>6. Marked(board, 1) = {} /\ Marked(board, 2) = {}
    BY <1>1 DEF Marked
  <1> QED
    BY <1>1, <1>3, <1>4, <1>5, <1>6, FS_EmptySet DEF Over, board

\* What holds of the squares in every game
SquaresAreFair ==
    /\ tictactoe \in SquareRecords
    /\ completed \in BOOLEAN /\ victory \in BOOLEAN
    /\ GameIsFair

LEMMA FairInWords ==
    GameIsFair <=>
        (minigame_type = "TicTacToe" =>
            /\ Cardinality(Marked(tictactoe.board, 1)) - Cardinality(Marked(tictactoe.board, 2))
                 = (IF completed /\ tictactoe.winner # 2 THEN 1 ELSE 0)
            /\ Cardinality(Marked(tictactoe.board, 1)) + Cardinality(Marked(tictactoe.board, 2))
                 = tictactoe.turns
            /\ ~(HasLine(tictactoe.board, 1) /\ HasLine(tictactoe.board, 2))
            /\ completed <=> Over(tictactoe.board)
            /\ victory <=> HasLine(tictactoe.board, 1)
            /\ tictactoe.winner = Winner(tictactoe.board))
  BY Zenon DEF GameIsFair, Marked

\* A board that was played on, with the marks of both counted
LEMMA FairAfter ==
    ASSUME NEW board \in SquareBoards, NEW cursor \in Squares, NEW turns \in Nat,
           tictactoe' = [board |-> board, cursor |-> cursor, winner |-> Winner(board), turns |-> turns],
           Ends(board), minigame_type' = minigame_type,
           ~(HasLine(board, 1) /\ HasLine(board, 2)),
           Cardinality(Marked(board, 1)) - Cardinality(Marked(board, 2))
             = (IF Over(board) /\ Winner(board) # 2 THEN 1 ELSE 0),
           Cardinality(Marked(board, 1)) + Cardinality(Marked(board, 2)) = turns
    PROVE  SquaresAreFair'
  <1>1. /\ tictactoe'.board = board /\ tictactoe'.winner = Winner(board)
        /\ tictactoe'.turns = turns
    OBVIOUS
  <1>2. Winner(board) \in 0..2
    BY WinnerHasLine
  <1>3. tictactoe' \in SquareRecords
    BY <1>2 DEF SquareRecords
  <1>4. completed' = Over(board) /\ victory' = (Winner(board) = 1)
    BY DEF Ends
  <1>5. completed' \in BOOLEAN /\ victory' \in BOOLEAN
    BY <1>4 DEF Over
  <1>6. victory' <=> HasLine(board, 1)
    <2>1. HasLine(board, 1) \in BOOLEAN /\ HasLine(board, 2) \in BOOLEAN
      BY DEF HasLine
    <2>2. Winner(board) = 1 <=> HasLine(board, 1)
      BY <2>1, WinnerHasLine
    <2> QED
      BY <1>4, <2>2, Zenon
  <1> QED
    BY <1>1, <1>3, <1>4, <1>5, <1>6 DEF SquaresAreFair, GameIsFair, Marked

LEMMA TicTacToeTicks ==
    ASSUME SquaresAreFair, minigame_seed \in 0..3, ~completed,
           NEW move \in Moves \cup {Still}, NEW interact \in BOOLEAN, TickTicTacToe(move, interact)
    PROVE  /\ SquaresAreFair' /\ minigame_seed' \in 0..3
           /\ minigame_type = "TicTacToe" /\ UNCHANGED <<minigame_type, snake, tetris>>
  <1> DEFINE board == tictactoe.board
             cursor == CursorAfter(tictactoe.cursor, move)
             crossed == [board EXCEPT ![cursor] = 1]
             Count(b, p) == Cardinality(Marked(b, p))
             Now(b, turns) == [board |-> b, cursor |-> cursor, winner |-> Winner(b),
                               turns |-> tictactoe.turns + turns]
  <1>1. minigame_type = "TicTacToe" /\ UNCHANGED <<minigame_type, snake, tetris>>
    BY DEF TickTicTacToe
  <1>2. board \in SquareBoards /\ tictactoe.turns \in Nat /\ tictactoe.cursor \in Squares
    BY DEF SquaresAreFair, SquareRecords
  <1>3. cursor \in Squares
    BY <1>2, CursorStays
  <1>4. /\ Count(board, 1) - Count(board, 2) = 0
        /\ Count(board, 1) + Count(board, 2) = tictactoe.turns
        /\ ~Over(board) /\ ~HasLine(board, 1) /\ ~HasLine(board, 2)
    <2>1. /\ Count(board, 1) - Count(board, 2)
               = (IF completed /\ tictactoe.winner # 2 THEN 1 ELSE 0)
          /\ Count(board, 1) + Count(board, 2) = tictactoe.turns
          /\ ~Over(board)
      BY <1>1, FairInWords DEF SquaresAreFair
    <2>2. ~HasLine(board, 1) /\ ~HasLine(board, 2)
      BY <2>1, WinnerHasLine DEF Over
    <2> QED
      BY <2>1, <2>2
  <1>5. \/ /\ tictactoe' = [tictactoe EXCEPT !.cursor = cursor]
           /\ UNCHANGED <<completed, victory, minigame_seed>>
        \/ /\ board[cursor] = 0 /\ Over(crossed)
           /\ tictactoe' = Now(crossed, 1) /\ Ends(crossed)
           /\ UNCHANGED minigame_seed
        \/ /\ board[cursor] = 0 /\ ~Over(crossed)
           /\ \E square \in AiChoices(crossed, minigame_seed) :
                 /\ tictactoe' = Now([crossed EXCEPT ![square] = 2], 2)
                 /\ Ends([crossed EXCEPT ![square] = 2])
           /\ minigame_seed' = LcgNext(minigame_seed)
    BY Zenon DEF TickTicTacToe
  <1> HIDE DEF board, cursor, crossed
  <1>6. ASSUME board[cursor] = 0
        PROVE  /\ crossed \in SquareBoards /\ ~HasLine(crossed, 2)
               /\ Count(crossed, 1) - Count(crossed, 2) = 1
               /\ Count(crossed, 1) + Count(crossed, 2) = tictactoe.turns + 1
               /\ Count(crossed, 1) \in Nat /\ Count(crossed, 2) \in Nat
    <2>1. cursor \in Free(board)
      BY <1>3, <1>6 DEF Free
    <2>2. /\ crossed \in SquareBoards /\ Count(crossed, 1) = Count(board, 1) + 1
          /\ Marked(crossed, 2) = Marked(board, 2)
          /\ HasLine(crossed, 2) => HasLine(board, 2)
      BY <1>2, <2>1, OneCrossMore DEF crossed
    <2>3. Count(board, 1) \in Nat /\ Count(board, 2) \in Nat
      BY <1>2, MarksAddUp
    <2> QED
      BY <1>2, <1>4, <2>2, <2>3
  <1>7. CASE /\ tictactoe' = [tictactoe EXCEPT !.cursor = cursor]
             /\ UNCHANGED <<completed, victory, minigame_seed>>
    <2>1. /\ tictactoe'.board = tictactoe.board /\ tictactoe'.winner = tictactoe.winner
          /\ tictactoe'.turns = tictactoe.turns
      BY <1>7 DEF SquaresAreFair, SquareRecords
    <2>2. tictactoe' \in SquareRecords
      BY <1>3, <1>7 DEF SquaresAreFair, SquareRecords
    <2>3. GameIsFair'
      BY <1>1, <1>7, <2>1, Zenon DEF SquaresAreFair, GameIsFair
    <2> QED
      BY <1>1, <1>7, <2>2, <2>3 DEF SquaresAreFair
  <1>8. CASE /\ board[cursor] = 0 /\ Over(crossed)
             /\ tictactoe' = Now(crossed, 1) /\ Ends(crossed)
             /\ UNCHANGED minigame_seed
    <2>1. Winner(crossed) # 2
      <3>1. HasLine(crossed, 1) \in BOOLEAN
        BY DEF HasLine
      <3> QED
        BY <1>6, <1>8, <3>1, WinnerHasLine
    <2>2. tictactoe.turns + 1 \in Nat
      BY <1>2
    <2>3. Count(crossed, 1) - Count(crossed, 2)
            = (IF Over(crossed) /\ Winner(crossed) # 2 THEN 1 ELSE 0)
      BY <1>6, <1>8, <2>1
    <2>4. SquaresAreFair'
      BY <1>1, <1>3, <1>6, <1>8, <2>2, <2>3, FairAfter
    <2> QED
      BY <1>1, <1>8, <2>4
  <1>9. CASE /\ board[cursor] = 0 /\ ~Over(crossed)
             /\ \E square \in AiChoices(crossed, minigame_seed) :
                   /\ tictactoe' = Now([crossed EXCEPT ![square] = 2], 2)
                   /\ Ends([crossed EXCEPT ![square] = 2])
             /\ minigame_seed' = LcgNext(minigame_seed)
    <2>1. PICK square \in AiChoices(crossed, minigame_seed) :
                   /\ tictactoe' = Now([crossed EXCEPT ![square] = 2], 2)
                   /\ Ends([crossed EXCEPT ![square] = 2])
      BY <1>9
    <2> DEFINE answered == [crossed EXCEPT ![square] = 2]
    <2>2. square \in Free(crossed)
      BY DEF AiChoices
    <2>3. ~HasLine(crossed, 1)
      BY <1>9, WinnerHasLine DEF Over
    <2>4. /\ answered \in SquareBoards /\ Count(answered, 2) = Count(crossed, 2) + 1
          /\ Marked(answered, 1) = Marked(crossed, 1)
          /\ ~HasLine(answered, 1)
      BY <1>6, <1>9, <2>2, <2>3, OneNoughtMore
    <2>5. tictactoe' = Now(answered, 2) /\ Ends(answered)
      BY <2>1
    <2> HIDE DEF answered
    <2>6. /\ Count(answered, 1) - Count(answered, 2) = 0
          /\ Count(answered, 1) + Count(answered, 2) = tictactoe.turns + 2
      BY <1>2, <1>6, <1>9, <2>4
    <2>7. Free(answered) # {}
      <3>1. Count(answered, 1) \in Nat /\ Count(answered, 2) \in Nat
        BY <2>4, MarksAddUp
      <3>2. Count(answered, 1) + Count(answered, 2) # 9
        BY <2>6, <3>1
      <3> QED
        BY <2>4, <3>2, MarksAddUp
    <2>8. ~(Over(answered) /\ Winner(answered) # 2)
      <3>1. HasLine(answered, 2) \in BOOLEAN
        BY DEF HasLine
      <3>2. Winner(answered) \in {0, 2}
        BY <2>4, <3>1, WinnerHasLine
      <3> QED
        BY <2>7, <3>2 DEF Over
    <2>9. tictactoe.turns + 2 \in Nat
      BY <1>2
    <2>10. Count(answered, 1) - Count(answered, 2)
             = (IF Over(answered) /\ Winner(answered) # 2 THEN 1 ELSE 0)
      BY <2>6, <2>8
    <2>11. SquaresAreFair'
      BY <1>1, <1>3, <2>4, <2>5, <2>6, <2>9, <2>10, FairAfter
    <2> QED
      BY <1>1, <1>9, <2>11, SeedStays
  <1> QED
    BY <1>5, <1>7, <1>8, <1>9

-----------------------------------------------------------------------------
(* Minigames: tetris                                                        *)

Pieces == [board : SUBSET TetrisBoard, shape : 0..3, rotation : 0..3, at : Int \X Int]

\* Four different pairs
Apart(a, b, c, d) ==
    /\ {a, b, c, d} \subseteq Int \X Int
    /\ a # b /\ a # c /\ a # d /\ b # c /\ b # d /\ c # d

LEMMA FourDistinct ==
    ASSUME NEW a, NEW b, NEW c, NEW d, Apart(a, b, c, d)
    PROVE  IsFiniteSet({a, b, c, d}) /\ Cardinality({a, b, c, d}) = 4
  <1>0. a # b /\ a # c /\ a # d /\ b # c /\ b # d /\ c # d
    BY DEF Apart
  <1>1. IsFiniteSet({a}) /\ Cardinality({a}) = 1
    BY FS_Singleton
  <1>2. IsFiniteSet({a} \cup {b}) /\ Cardinality({a} \cup {b}) = 2
    BY <1>0, <1>1, FS_AddElement
  <1>3. IsFiniteSet(({a} \cup {b}) \cup {c}) /\ Cardinality(({a} \cup {b}) \cup {c}) = 3
    BY <1>0, <1>2, FS_AddElement
  <1>4. /\ IsFiniteSet((({a} \cup {b}) \cup {c}) \cup {d})
        /\ Cardinality((({a} \cup {b}) \cup {c}) \cup {d}) = 4
    BY <1>0, <1>3, FS_AddElement
  <1>5. (({a} \cup {b}) \cup {c}) \cup {d} = {a, b, c, d}
    OBVIOUS
  <1> QED
    BY <1>4, <1>5

FourCells(S) == \E a, b, c, d \in Int \X Int : S = {a, b, c, d} /\ Apart(a, b, c, d)

LEMMA ApartAreFour ==
    ASSUME NEW a, NEW b, NEW c, NEW d, Apart(a, b, c, d)
    PROVE  FourCells({a, b, c, d})
  BY DEF FourCells, Apart

LEMMA ShapesHaveFour ==
    ASSUME NEW shape \in 0..3, NEW rotation \in 0..3
    PROVE  FourCells(Shape(shape, rotation))
  <1>1. CASE shape = 0
    <2>1. CASE rotation = 0
      <3>1. Apart(<<-1, 0>>, <<0, 0>>, <<1, 0>>, <<2, 0>>)
        BY DEF Apart
      <3> QED
        BY <1>1, <2>1, <3>1, ApartAreFour DEF Shape
    <2>2. CASE rotation = 1
      <3>1. Apart(<<0, -1>>, <<0, 0>>, <<0, 1>>, <<0, 2>>)
        BY DEF Apart
      <3> QED
        BY <1>1, <2>2, <3>1, ApartAreFour DEF Shape
    <2>3. CASE rotation = 2
      <3>1. Apart(<<-1, 1>>, <<0, 1>>, <<1, 1>>, <<2, 1>>)
        BY DEF Apart
      <3> QED
        BY <1>1, <2>3, <3>1, ApartAreFour DEF Shape
    <2>4. CASE rotation = 3
      <3>1. Apart(<<1, -1>>, <<1, 0>>, <<1, 1>>, <<1, 2>>)
        BY DEF Apart
      <3> QED
        BY <1>1, <2>4, <3>1, ApartAreFour DEF Shape
    <2> QED
      BY <2>1, <2>2, <2>3, <2>4
  <1>2. CASE shape = 2
    <2>1. CASE rotation = 0
      <3>1. Apart(<<-1, 0>>, <<0, 0>>, <<1, 0>>, <<0, 1>>)
        BY DEF Apart
      <3> QED
        BY <1>2, <2>1, <3>1, ApartAreFour DEF Shape
    <2>2. CASE rotation = 1
      <3>1. Apart(<<0, -1>>, <<0, 0>>, <<0, 1>>, <<1, 0>>)
        BY DEF Apart
      <3> QED
        BY <1>2, <2>2, <3>1, ApartAreFour DEF Shape
    <2>3. CASE rotation = 2
      <3>1. Apart(<<-1, 0>>, <<0, 0>>, <<1, 0>>, <<0, -1>>)
        BY DEF Apart
      <3> QED
        BY <1>2, <2>3, <3>1, ApartAreFour DEF Shape
    <2>4. CASE rotation = 3
      <3>1. Apart(<<0, -1>>, <<0, 0>>, <<0, 1>>, <<-1, 0>>)
        BY DEF Apart
      <3> QED
        BY <1>2, <2>4, <3>1, ApartAreFour DEF Shape
    <2> QED
      BY <2>1, <2>2, <2>3, <2>4
  <1>3. CASE shape = 3
    <2>1. CASE rotation = 0
      <3>1. Apart(<<-1, 0>>, <<0, 0>>, <<1, 0>>, <<1, 1>>)
        BY DEF Apart
      <3> QED
        BY <1>3, <2>1, <3>1, ApartAreFour DEF Shape
    <2>2. CASE rotation = 1
      <3>1. Apart(<<0, -1>>, <<0, 0>>, <<0, 1>>, <<1, -1>>)
        BY DEF Apart
      <3> QED
        BY <1>3, <2>2, <3>1, ApartAreFour DEF Shape
    <2>3. CASE rotation = 2
      <3>1. Apart(<<-1, -1>>, <<-1, 0>>, <<0, 0>>, <<1, 0>>)
        BY DEF Apart
      <3> QED
        BY <1>3, <2>3, <3>1, ApartAreFour DEF Shape
    <2>4. CASE rotation = 3
      <3>1. Apart(<<-1, 1>>, <<0, -1>>, <<0, 0>>, <<0, 1>>)
        BY DEF Apart
      <3> QED
        BY <1>3, <2>4, <3>1, ApartAreFour DEF Shape
    <2> QED
      BY <2>1, <2>2, <2>3, <2>4
  <1>4. CASE shape = 1
    <2>1. Apart(<<0, 0>>, <<1, 0>>, <<0, 1>>, <<1, 1>>)
      BY DEF Apart
    <2> QED
      BY <1>4, <2>1, ApartAreFour DEF Shape
  <1> QED
    BY <1>1, <1>2, <1>3, <1>4

LEMMA CellsAreFour ==
    ASSUME NEW t \in Pieces
    PROVE  IsFiniteSet(Cells(t)) /\ Cardinality(Cells(t)) = 4
  <1>1. t.at \in Int \X Int /\ FourCells(Shape(t.shape, t.rotation))
    BY ShapesHaveFour DEF Pieces
  <1>2. PICK a, b, c, d \in Int \X Int :
            Shape(t.shape, t.rotation) = {a, b, c, d} /\ Apart(a, b, c, d)
    BY <1>1 DEF FourCells
  <1>3. Cells(t) = {Plus(t.at, a), Plus(t.at, b), Plus(t.at, c), Plus(t.at, d)}
    BY <1>2 DEF Cells
  <1>4. \A p, q \in Int \X Int : p # q => Plus(t.at, p) # Plus(t.at, q)
    <2> TAKE p, q \in Int \X Int
    <2>1. p = <<p[1], p[2]>> /\ q = <<q[1], q[2]>>
      OBVIOUS
    <2>2. /\ t.at[1] \in Int /\ t.at[2] \in Int /\ p[1] \in Int /\ p[2] \in Int
          /\ q[1] \in Int /\ q[2] \in Int
      BY <1>1
    <2>3. Plus(t.at, p) = Plus(t.at, q)
            => t.at[1] + p[1] = t.at[1] + q[1] /\ t.at[2] + p[2] = t.at[2] + q[2]
      BY DEF Plus
    <2> \A x, m, n \in Int : x + m = x + n => m = n
      OBVIOUS
    <2>4. Plus(t.at, p) = Plus(t.at, q) => p[1] = q[1] /\ p[2] = q[2]
      BY <2>2, <2>3, Zenon
    <2> QED
      BY <2>1, <2>4
  <1> DEFINE A == Plus(t.at, a)
             B == Plus(t.at, b)
             C == Plus(t.at, c)
             D == Plus(t.at, d)
  <1>5. Apart(A, B, C, D)
    <2>1. A # B /\ A # C /\ A # D /\ B # C /\ B # D /\ C # D
      BY <1>2, <1>4 DEF Apart
    <2>2. {A, B, C, D} \subseteq Int \X Int
      BY <1>1 DEF Plus
    <2> QED
      BY <2>1, <2>2 DEF Apart
  <1>6. Cells(t) = {A, B, C, D}
    BY <1>3
  <1> HIDE DEF A, B, C, D
  <1>7. IsFiniteSet({A, B, C, D}) /\ Cardinality({A, B, C, D}) = 4
    BY <1>5, FourDistinct
  <1> QED
    BY <1>6, <1>7

\* A new piece has room on an empty board.
LEMMA NewPieceFits ==
    ASSUME NEW s \in Int
    PROVE  NewPiece({}, s) \in Pieces /\ Valid(NewPiece({}, s)) /\ NewPiece({}, s).board = {}
  <1> DEFINE t == NewPiece({}, s)
  <1>1. t = [board |-> {}, shape |-> s % 4, rotation |-> 0, at |-> <<StartX, 1>>]
    BY DEF NewPiece
  <1>2. /\ StartX \in Int /\ 1 <= StartX /\ StartX + 2 <= BoardW - 1
        /\ 2 <= BoardH - 1 /\ BoardW \in Nat /\ BoardH \in Nat
    BY MinigamesAssumption
  <1>3. s % 4 \in 0..3
    OBVIOUS
  <1>4. t \in Pieces
    BY <1>1, <1>2, <1>3 DEF Pieces
  <1>5. \A c \in Shape(t.shape, t.rotation) : c \in (-1..2) \X (0..1)
    <2>1. t.rotation = 0 /\ t.shape \in 0..3
      BY <1>1, <1>3
    <2>2. \A k \in 0..3 : \A c \in Shape(k, 0) : c \in (-1..2) \X (0..1)
      <3> TAKE k \in 0..3
      <3>1. CASE k = 0
        BY <3>1 DEF Shape
      <3>2. CASE k = 1
        BY <3>2 DEF Shape
      <3>3. CASE k = 2
        BY <3>3 DEF Shape
      <3>4. CASE k = 3
        BY <3>4 DEF Shape
      <3> QED
        BY <3>1, <3>2, <3>3, <3>4
    <2> QED
      BY <2>1, <2>2
  <1>6. \A c \in (-1..2) \X (0..1) : Plus(t.at, c) \in TetrisBoard
    <2> TAKE c \in (-1..2) \X (0..1)
    <2>1. c[1] \in -1..2 /\ c[2] \in 0..1 /\ t.at[1] = StartX /\ t.at[2] = 1
      BY <1>1
    <2> QED
      BY <1>2, <2>1 DEF Plus, TetrisBoard
  <1>7. Valid(t)
    BY <1>1, <1>5, <1>6 DEF Valid, Cells
  <1> QED
    BY <1>1, <1>4, <1>7

LEMMA BoardsAreFinite ==
    \A S \in SUBSET TetrisBoard : IsFiniteSet(S) /\ Cardinality(S) \in Nat
  <1>1. BoardW - 1 \in Int /\ BoardH - 1 \in Int /\ 0 \in Int
    BY MinigamesAssumption
  <1>2. IsFiniteSet(0..BoardW - 1) /\ IsFiniteSet(0..BoardH - 1)
    BY <1>1, FS_Interval
  <1>3. IsFiniteSet(TetrisBoard)
    BY <1>2, FS_Product DEF TetrisBoard
  <1> QED
    BY <1>3, FS_Subset, FS_CardinalityType

LEMMA DisjointUnion ==
    ASSUME NEW S \in SUBSET TetrisBoard, NEW T \in SUBSET TetrisBoard, S \cap T = {}
    PROVE  Cardinality(S \cup T) = Cardinality(S) + Cardinality(T)
  <1>1. IsFiniteSet(S) /\ IsFiniteSet(T) /\ Cardinality(S) \in Nat /\ Cardinality(T) \in Nat
    BY BoardsAreFinite
  <1>2. Cardinality(S \cup T) = Cardinality(S) + Cardinality(T) - Cardinality(S \cap T)
    BY <1>1, FS_Union
  <1>3. Cardinality(S \cap T) = 0
    BY FS_EmptySet
  <1> QED
    BY <1>1, <1>2, <1>3

LEMMA PlaceOnBoard ==
    \A c \in TetrisBoard :
        c[1] \in 0..BoardW - 1 /\ c[2] \in 0..BoardH - 1 /\ c = <<c[1], c[2]>>
  BY DEF TetrisBoard

\* Lowered down by one, cells keep their number.
LEMMA MovedDown ==
    ASSUME NEW S \in SUBSET TetrisBoard, \A c \in S : c[2] < BoardH - 1
    PROVE  /\ {Plus(c, <<0, 1>>) : c \in S} \in SUBSET TetrisBoard
           /\ Cardinality({Plus(c, <<0, 1>>) : c \in S}) = Cardinality(S)
  <1> DEFINE T == {Plus(c, <<0, 1>>) : c \in S}
             f == [c \in S |-> Plus(c, <<0, 1>>)]
  <1>1. \A c \in S : Plus(c, <<0, 1>>) = <<c[1], c[2] + 1>>
    <2> TAKE c \in S
    <2>1. c[1] \in Int /\ c[2] \in Int
      BY PlaceOnBoard, MinigamesAssumption
    <2>2. c[1] + 0 = c[1]
      BY <2>1
    <2> QED
      BY <2>2 DEF Plus
  <1>2. \A c \in S : Plus(c, <<0, 1>>) \in TetrisBoard
    <2> TAKE c \in S
    <2>1. c[1] \in 0..BoardW - 1 /\ c[2] + 1 \in 0..BoardH - 1
      BY PlaceOnBoard, MinigamesAssumption
    <2> QED
      BY <1>1, <2>1 DEF TetrisBoard
  <1>3. \A c, d \in S : Plus(c, <<0, 1>>) = Plus(d, <<0, 1>>) => c = d
    <2> TAKE c, d \in S
    <2>1. c[2] \in Int /\ d[2] \in Int /\ c = <<c[1], c[2]>> /\ d = <<d[1], d[2]>>
      BY PlaceOnBoard, MinigamesAssumption
    <2>2. \A m, n \in Int : m + 1 = n + 1 => m = n
      OBVIOUS
    <2>3. Plus(c, <<0, 1>>) = Plus(d, <<0, 1>>) => c[1] = d[1] /\ c[2] + 1 = d[2] + 1
      BY <1>1
    <2>4. Plus(c, <<0, 1>>) = Plus(d, <<0, 1>>) => c[1] = d[1] /\ c[2] = d[2]
      BY <2>1, <2>2, <2>3, Zenon
    <2> QED
      BY <2>1, <2>4
  <1>4. f \in Surjection(S, T) /\ f \in Injection(S, T)
    BY <1>3 DEF Surjection, Injection, IsInjective
  <1>5. IsFiniteSet(S)
    BY BoardsAreFinite
  <1> HIDE DEF f
  <1>6. Cardinality(T) = Cardinality(S)
    BY <1>4, <1>5, FS_Surjection
  <1> QED
    BY <1>2, <1>6

\* A full row that is taken out: what is below stays, what is above moves down.
LEMMA RowTakenOut ==
    ASSUME NEW board \in SUBSET TetrisBoard, NEW y \in 0..BoardH - 1, FullRow(board, y)
    PROVE  /\ WithoutRow(board, y) \in SUBSET TetrisBoard
           /\ Cardinality(WithoutRow(board, y)) + BoardW = Cardinality(board)
           /\ \A r \in y + 1..BoardH - 1 : Row(WithoutRow(board, y), r) = Row(board, r)
           /\ \A n \in 0..BoardH : (\A c \in board : c[2] >= n)
                 => n <= y /\ \A c \in WithoutRow(board, y) : c[2] >= n + 1
  <1> DEFINE R == Row(board, y)
             Above == {c \in board : c[2] < y}
             Below == {c \in board : c[2] > y}
             Lowered == {Plus(c, <<0, 1>>) : c \in Above}
             new == WithoutRow(board, y)
  <1>1. BoardW \in Nat \ {0} /\ BoardH \in Nat /\ y \in Int
    BY MinigamesAssumption
  <1>2. \A c \in board : /\ c[1] \in Int /\ c[2] \in Int /\ c[2] \in 0..BoardH - 1
                         /\ c = <<c[1], c[2]>>
    BY <1>1, PlaceOnBoard
  <1>3. new = Below \cup Lowered
    BY DEF WithoutRow
  <1>4. /\ R \in SUBSET TetrisBoard /\ Above \in SUBSET TetrisBoard
        /\ Below \in SUBSET TetrisBoard /\ Above \cup R \in SUBSET TetrisBoard
    BY DEF Row
  <1>5. \A c \in Above : c[2] < BoardH - 1
    BY <1>1, <1>2
  <1>6. Lowered \in SUBSET TetrisBoard /\ Cardinality(Lowered) = Cardinality(Above)
    BY <1>4, <1>5, MovedDown
  <1>7. \A c \in Above : /\ Plus(c, <<0, 1>>)[2] = c[2] + 1 /\ c[2] \in Int /\ c[2] + 1 <= y
    BY <1>1, <1>2 DEF Plus
  <1>8. board = (Above \cup R) \cup Below /\ Above \cap R = {} /\ (Above \cup R) \cap Below = {}
    BY <1>1, <1>2 DEF Row
  <1>9. Below \cap Lowered = {}
    BY <1>1, <1>2, <1>7
  <1>10. Cardinality(R) = BoardW
    BY DEF FullRow
  <1>11. R # {}
    BY <1>1, <1>10, FS_EmptySet
  <1>13. \A r \in y + 1..BoardH - 1 : Row(new, r) = Row(board, r)
    <2> TAKE r \in y + 1..BoardH - 1
    <2>1. r \in Int /\ r > y
      BY <1>1
    <2>2. \A c \in Lowered : c[2] # r
      BY <1>1, <1>7, <2>1
    <2>3. \A c \in board : c[2] = r => c \in Below
      BY <1>2, <2>1
    <2> QED
      BY <1>3, <2>2, <2>3 DEF Row
  <1>14. ASSUME NEW n \in 0..BoardH, \A c \in board : c[2] >= n
         PROVE  n <= y /\ \A c \in new : c[2] >= n + 1
    <2>1. n <= y
      BY <1>1, <1>11, <1>14 DEF Row
    <2>2. \A c \in Below : c[2] >= n + 1
      BY <1>1, <1>2, <2>1
    <2>3. \A c \in Lowered : c[2] >= n + 1
      BY <1>1, <1>7, <1>14
    <2> QED
      BY <1>3, <2>1, <2>2, <2>3
  <1> HIDE DEF R, Above, Below, Lowered, new
  <1>15. /\ Cardinality(Above) \in Nat /\ Cardinality(Below) \in Nat /\ Cardinality(R) \in Nat
    BY <1>4, BoardsAreFinite
  <1>16. Cardinality(new) = Cardinality(Below) + Cardinality(Above)
    BY <1>3, <1>4, <1>6, <1>9, DisjointUnion
  <1>17. Cardinality(board) = (Cardinality(Above) + Cardinality(R)) + Cardinality(Below)
    BY <1>4, <1>8, DisjointUnion
  <1>18. Cardinality(new) + BoardW = Cardinality(board)
    BY <1>1, <1>10, <1>15, <1>16, <1>17
  <1>19. new \in SUBSET TetrisBoard
    BY <1>3, <1>4, <1>6
  <1> QED
    BY <1>13, <1>14, <1>18, <1>19 DEF new

\* What the loop of tetris_clear_lines keeps: the rows below y are not full, as many at
\* the top are empty as were taken out, and the cells that are gone were in them.
Looped(first, s, i) ==
    /\ s.board \in SUBSET TetrisBoard /\ s.y \in -1..BoardH - 1 /\ s.cleared \in 0..BoardH
    /\ s.y >= 0 => (BoardH - 1 - s.y) + s.cleared = i
    /\ \A r \in s.y + 1..BoardH - 1 : ~FullRow(s.board, r)
    /\ \A c \in s.board : c[2] >= s.cleared
    /\ Cardinality(s.board) + BoardW * s.cleared = Cardinality(first)

Loops == [board : SUBSET TetrisBoard, y : -1..BoardH - 1, cleared : Int]

LEMMA RoundIs ==
    ASSUME NEW s \in Loops
    PROVE  NextRound(s) =
             IF s.y < 0 THEN s
             ELSE IF FullRow(s.board, s.y)
                  THEN [board |-> WithoutRow(s.board, s.y), y |-> s.y, cleared |-> s.cleared + 1]
                  ELSE [board |-> s.board, y |-> s.y - 1, cleared |-> s.cleared]
  <1>1. [s EXCEPT !.y = @ - 1] = [board |-> s.board, y |-> s.y - 1, cleared |-> s.cleared]
    BY DEF Loops
  <1> QED
    BY <1>1, Zenon DEF NextRound, ClearRound

LEMMA RoundStays ==
    ASSUME NEW s \in Loops
    PROVE  NextRound(s) \in Loops
  <1>1. /\ s.board \in SUBSET TetrisBoard /\ s.y \in -1..BoardH - 1 /\ s.cleared \in Int
        /\ BoardH \in Nat
    BY MinigamesAssumption DEF Loops
  <1>2. CASE s.y < 0
    BY <1>2, RoundIs
  <1>3. CASE ~(s.y < 0) /\ FullRow(s.board, s.y)
    <2>1. s.y \in 0..BoardH - 1
      BY <1>1, <1>3
    <2>2. WithoutRow(s.board, s.y) \in SUBSET TetrisBoard
      BY <1>1, <1>3, <2>1, RowTakenOut
    <2>3. NextRound(s) = [board |-> WithoutRow(s.board, s.y), y |-> s.y, cleared |-> s.cleared + 1]
      BY <1>3, RoundIs
    <2> QED
      BY <1>1, <2>2, <2>3 DEF Loops
  <1>4. CASE ~(s.y < 0) /\ ~FullRow(s.board, s.y)
    <2>1. NextRound(s) = [board |-> s.board, y |-> s.y - 1, cleared |-> s.cleared]
      BY <1>4, RoundIs
    <2>2. s.y - 1 \in -1..BoardH - 1
      BY <1>1, <1>4
    <2> QED
      BY <1>1, <2>1, <2>2 DEF Loops
  <1> QED
    BY <1>2, <1>3, <1>4

LEMMA RoundLoops ==
    ASSUME NEW first \in SUBSET TetrisBoard, NEW s \in Loops, NEW i \in Nat, Looped(first, s, i)
    PROVE  Looped(first, NextRound(s), i + 1)
  <1> DEFINE n == s.cleared
             y == s.y
             board == s.board
  <1>1. /\ board \in SUBSET TetrisBoard /\ y \in -1..BoardH - 1 /\ n \in 0..BoardH
        /\ BoardH \in Nat /\ BoardW \in Nat
    BY MinigamesAssumption DEF Looped
  <1>2. /\ y >= 0 => (BoardH - 1 - y) + n = i
        /\ \A r \in y + 1..BoardH - 1 : ~FullRow(board, r)
        /\ \A c \in board : c[2] >= n
        /\ Cardinality(board) + BoardW * n = Cardinality(first)
    BY DEF Looped
  <1>3. NextRound(s) =
             IF y < 0 THEN s
             ELSE IF FullRow(board, y)
                  THEN [board |-> WithoutRow(board, y), y |-> y, cleared |-> n + 1]
                  ELSE [board |-> board, y |-> y - 1, cleared |-> n]
    BY RoundIs
  <1>4. CASE y < 0
    BY <1>1, <1>3, <1>4 DEF Looped
  <1> HIDE DEF n, y, board
  <1>5. CASE ~(y < 0) /\ FullRow(board, y)
    <2> DEFINE new == WithoutRow(board, y)
               t == [board |-> new, y |-> y, cleared |-> n + 1]
    <2>1. y \in 0..BoardH - 1
      BY <1>1, <1>5
    <2>2. /\ new \in SUBSET TetrisBoard
          /\ Cardinality(new) + BoardW = Cardinality(board)
          /\ \A r \in y + 1..BoardH - 1 : Row(new, r) = Row(board, r)
          /\ n <= y /\ \A c \in new : c[2] >= n + 1
      BY <1>1, <1>2, <1>5, <2>1, RowTakenOut
    <2> HIDE DEF new
    <2>3. \A r \in y + 1..BoardH - 1 : ~FullRow(new, r)
      BY <1>2, <2>2 DEF FullRow
    <2>4. n + 1 \in 0..BoardH /\ (BoardH - 1 - y) + (n + 1) = i + 1
      BY <1>1, <1>2, <2>1, <2>2
    <2>5. Cardinality(new) + BoardW * (n + 1) = Cardinality(first)
      <3>1. Cardinality(new) \in Nat
        BY <2>2, BoardsAreFinite
      <3>2. BoardW * (n + 1) = BoardW * n + BoardW /\ BoardW * n \in Int
        BY <1>1
      <3> QED
        BY <1>1, <1>2, <2>2, <3>1, <3>2
    <2>6. t.board = new /\ t.y = y /\ t.cleared = n + 1
      OBVIOUS
    <2>7. NextRound(s) = t
      BY <1>3, <1>5 DEF new
    <2> HIDE DEF t
    <2>8. Looped(first, t, i + 1)
      BY <1>1, <2>2, <2>3, <2>4, <2>5, <2>6 DEF Looped
    <2> QED
      BY <2>7, <2>8
  <1>6. CASE ~(y < 0) /\ ~FullRow(board, y)
    <2> DEFINE t == [board |-> board, y |-> y - 1, cleared |-> n]
    <2>1. t.board = board /\ t.y = y - 1 /\ t.cleared = n
      OBVIOUS
    <2>2. NextRound(s) = t
      BY <1>3, <1>6
    <2> HIDE DEF t
    <2>3. y - 1 \in -1..BoardH - 1 /\ (BoardH - 1 - (y - 1)) + n = i + 1
      BY <1>1, <1>2, <1>6
    <2>4. \A r \in (y - 1) + 1..BoardH - 1 : r = y \/ r \in y + 1..BoardH - 1
      BY <1>1
    <2>5. Looped(first, t, i + 1)
      BY <1>1, <1>2, <1>6, <2>1, <2>3, <2>4 DEF Looped
    <2> QED
      BY <2>2, <2>5
  <1> QED
    BY <1>4, <1>5, <1>6

\* The rounds of the loop, one after the other
Rounds(board) ==
    CHOOSE f : f = [i \in 0..2 * BoardH |->
                       IF i = 0 THEN [board |-> board, y |-> BoardH - 1, cleared |-> 0]
                       ELSE NextRound(f[i - 1])]

LEMMA RoundsFollow ==
    ASSUME NEW board \in SUBSET TetrisBoard
    PROVE  /\ ClearLines(board) = Rounds(board)[2 * BoardH]
           /\ Rounds(board)[0] = [board |-> board, y |-> BoardH - 1, cleared |-> 0]
           /\ \A i \in 1..2 * BoardH : Rounds(board)[i] = NextRound(Rounds(board)[i - 1])
  <1> DEFINE n == 2 * BoardH
             base == [board |-> board, y |-> BoardH - 1, cleared |-> 0]
             step == [p \in Loops \X (1..n) |-> NextRound(p[1])]
             R == Rounds(board)
  <1>1. n \in Nat /\ BoardH \in Nat
    BY MinigamesAssumption
  <1>2. base \in Loops
    <2>1. BoardH - 1 \in -1..BoardH - 1
      BY <1>1
    <2> QED
      BY <2>1 DEF Loops
  <1>3. \A s \in Loops, i \in 1..n : step[<<s, i>>] = NextRound(s)
    OBVIOUS
  <1>4. ClearLines(board) = R[n]
    BY DEF ClearLines, Rounds
  <1> HIDE DEF n, base, step, R
  <1>5. StaysIn(n, Loops, step)
    BY <1>3, RoundStays DEF StaysIn
  <1>6. PICK g \in [0..n -> Loops] : g[0] = base /\ \A i \in 1..n : g[i] = step[<<g[i - 1], i>>]
    <2>1. Goings(n, Loops, base, step) # {}
      BY <1>1, <1>2, <1>5, Recursion
    <2> QED
      BY <2>1 DEF Goings
  <1>7. \A i \in 1..n : g[i] = NextRound(g[i - 1])
    <2> TAKE i \in 1..n
    <2>1. i - 1 \in 0..n
      BY <1>1
    <2> QED
      BY <1>3, <1>6, <2>1
  <1>8. g = [i \in 0..n |-> IF i = 0 THEN base ELSE NextRound(g[i - 1])]
    BY <1>1, <1>6, <1>7
  <1>9. R = [i \in 0..n |-> IF i = 0 THEN base ELSE NextRound(R[i - 1])]
    BY <1>8 DEF Rounds, R, n, base
  <1>10. R[0] = base /\ \A i \in 1..n : R[i] = NextRound(R[i - 1])
    BY <1>1, <1>9
  <1> QED
    BY <1>4, <1>10 DEF R, n, base

\* When the loop ends no full row is left, and nothing but full rows is gone.
LEMMA LinesCleared ==
    ASSUME NEW board \in SUBSET TetrisBoard
    PROVE  /\ ClearLines(board).board \in SUBSET TetrisBoard
           /\ ClearLines(board).cleared \in Nat
           /\ \A r \in 0..BoardH - 1 : ~FullRow(ClearLines(board).board, r)
           /\ Cardinality(ClearLines(board).board) + BoardW * ClearLines(board).cleared
                = Cardinality(board)
  <1> DEFINE n == 2 * BoardH
             R == Rounds(board)
             T == {i \in 0..n : R[i] \in Loops /\ Looped(board, R[i], i)}
  <1>1. n \in Nat /\ BoardH \in Nat /\ BoardW \in Nat /\ n = 2 * BoardH
    BY MinigamesAssumption
  <1>2. /\ ClearLines(board) = R[n]
        /\ R[0] = [board |-> board, y |-> BoardH - 1, cleared |-> 0]
        /\ \A i \in 1..n : R[i] = NextRound(R[i - 1])
    BY RoundsFollow
  <1> HIDE DEF n, R
  <1>3. 0 \in T
    <2> DEFINE s == R[0]
    <2>1. s.board = board /\ s.y = BoardH - 1 /\ s.cleared = 0
      BY <1>2
    <2>2. s \in Loops
      <3>1. BoardH - 1 \in -1..BoardH - 1
        BY <1>1
      <3> QED
        BY <1>2, <3>1 DEF Loops
    <2> HIDE DEF s
    <2>3. Cardinality(board) \in Nat
      BY BoardsAreFinite
    <2>4. \A c \in board : c[2] >= 0
      BY PlaceOnBoard, <1>1
    <2>5. BoardH - 1 \in -1..BoardH - 1 /\ 0 \in 0..BoardH /\ (BoardH - 1 - (BoardH - 1)) + 0 = 0
          /\ BoardW * 0 = 0 /\ (BoardH - 1) + 1..BoardH - 1 = {}
      BY <1>1
    <2>6. Looped(board, s, 0)
      BY <2>1, <2>3, <2>4, <2>5 DEF Looped
    <2> QED
      BY <1>1, <2>2, <2>6 DEF s
  <1>4. ASSUME NEW i \in 1..n, i - 1 \in T PROVE i \in T
    <2>1. R[i - 1] \in Loops /\ Looped(board, R[i - 1], i - 1) /\ i - 1 \in Nat /\ (i - 1) + 1 = i
      BY <1>1, <1>4
    <2>2. R[i] = NextRound(R[i - 1]) /\ i \in 0..n
      BY <1>1, <1>2
    <2>3. R[i] \in Loops
      BY <2>1, <2>2, RoundStays
    <2>4. Looped(board, NextRound(R[i - 1]), (i - 1) + 1)
      BY <2>1, RoundLoops
    <2> QED
      BY <2>1, <2>2, <2>3, <2>4
  <1>5. n \in T
    <2> HIDE DEF T
    <2>1. 0..n \subseteq T
      BY <1>1, <1>3, <1>4, UpTo
    <2> QED
      BY <1>1, <2>1
  <1> DEFINE s == R[n]
  <1>6. Looped(board, s, n)
    BY <1>5
  <1>7. ClearLines(board) = s
    BY <1>2
  <1> HIDE DEF s, T
  <1>8. s.y = -1
    <2>1. s.y \in -1..BoardH - 1 /\ s.cleared \in 0..BoardH
          /\ (s.y >= 0 => (BoardH - 1 - s.y) + s.cleared = n)
      BY <1>6 DEF Looped
    <2> QED
      BY <1>1, <2>1
  <1>9. \A r \in 0..BoardH - 1 : r \in s.y + 1..BoardH - 1
    BY <1>1, <1>8
  <1> QED
    BY <1>1, <1>6, <1>7, <1>9 DEF Looped

\* What holds of the piece and the board in every game
PieceIsSound ==
    /\ tetris \in Pieces
    /\ RowsAreCleared
    /\ minigame_type = "Tetris" => \E n \in Nat : score = 100 * n

LEMMA MovedPiece ==
    ASSUME NEW t \in Pieces, NEW d \in Int \X Int
    PROVE  /\ [t EXCEPT !.at = Plus(@, d)] \in Pieces
           /\ [t EXCEPT !.at = Plus(@, d)].board = t.board
  <1>1. t.at \in Int \X Int /\ Plus(t.at, d) \in Int \X Int
    BY DEF Pieces, Plus
  <1> QED
    BY <1>1 DEF Pieces

LEMMA SteeredHasRoom ==
    ASSUME NEW t \in Pieces, Valid(t), NEW dx \in Int, NEW rotate \in BOOLEAN
    PROVE  /\ Steered(t, dx, rotate) \in Pieces /\ Valid(Steered(t, dx, rotate))
           /\ Steered(t, dx, rotate).board = t.board
  <1> DEFINE moved == [t EXCEPT !.at = Plus(@, <<dx, 0>>)]
             rotated == [t EXCEPT !.rotation = (@ + 1) % 4]
  <1>1. moved \in Pieces /\ moved.board = t.board
    BY MovedPiece
  <1>2. rotated \in Pieces /\ rotated.board = t.board
    <2>1. (t.rotation + 1) % 4 \in 0..3
      BY DEF Pieces
    <2> QED
      BY <2>1 DEF Pieces
  <1>3. \/ Steered(t, dx, rotate) = moved /\ Valid(moved)
        \/ Steered(t, dx, rotate) = rotated /\ Valid(rotated)
        \/ Steered(t, dx, rotate) = t
    BY DEF Steered
  <1> HIDE DEF moved, rotated
  <1> QED
    BY <1>1, <1>2, <1>3

LEMMA NewPieceTyped ==
    ASSUME NEW board \in SUBSET TetrisBoard, NEW s \in Int
    PROVE  NewPiece(board, s) \in Pieces /\ NewPiece(board, s).board = board
  <1>1. s % 4 \in 0..3 /\ StartX \in Int
    BY MinigamesAssumption
  <1> QED
    BY <1>1 DEF NewPiece, Pieces

\* The number of cells left and of those in the rows scored is of whole pieces.
LEMMA ScoreAddsUp ==
    ASSUME NEW m \in Nat, NEW k \in Nat, NEW n \in Nat, NEW c \in Nat,
           (m + BoardW * ((100 * n) \div 100)) % 4 = 0, k + BoardW * c = m + 4
    PROVE  /\ 100 * n + 100 * c = 100 * (n + c) /\ n + c \in Nat
           /\ (k + BoardW * ((100 * n + 100 * c) \div 100)) % 4 = 0
  <1>1. \A a \in Nat : (100 * a) \div 100 = a
    OBVIOUS
  <1>2. 100 * n + 100 * c = 100 * (n + c) /\ n + c \in Nat
    OBVIOUS
  <1>3. (100 * n + 100 * c) \div 100 = n + c /\ (100 * n) \div 100 = n
    BY <1>1, <1>2
  <1>4. BoardW \in Nat
    BY MinigamesAssumption
  <1>5. BoardW * (n + c) = BoardW * n + BoardW * c /\ BoardW * n \in Nat /\ BoardW * c \in Nat
    BY <1>4
  <1>6. k + BoardW * (n + c) = (m + BoardW * n) + 4
    BY <1>5
  <1>7. \A a \in Nat : a % 4 = 0 => (a + 4) % 4 = 0
    OBVIOUS
  <1>8. m + BoardW * n \in Nat /\ (m + BoardW * n) % 4 = 0
    BY <1>3, <1>5
  <1> QED
    BY <1>2, <1>3, <1>6, <1>7, <1>8

LEMMA TetrisTicks ==
    ASSUME PieceIsSound, minigame_seed \in 0..3, ~completed,
           completed \in BOOLEAN, victory \in BOOLEAN,
           NEW dx \in Int, NEW rotate \in BOOLEAN, NEW due \in BOOLEAN,
           TickTetris(dx, rotate, due)
    PROVE  /\ PieceIsSound' /\ minigame_seed' \in 0..3
           /\ completed' \in BOOLEAN /\ victory' \in BOOLEAN
           /\ minigame_type = "Tetris" /\ UNCHANGED <<minigame_type, snake, tictactoe>>
  <1> DEFINE t == Steered(tetris, dx, rotate)
             lower == [t EXCEPT !.at = Plus(@, <<0, 1>>)]
             withPiece == t.board \cup (Cells(t) \cap TetrisBoard)
             cleared == ClearLines(withPiece)
             piece == NewPiece(cleared.board, LcgNext(minigame_seed))
             full == ~Valid(piece)
             points == score + 100 * cleared.cleared
             top == points >= TopScore
             good == points >= GoodScore
  <1>1. minigame_type = "Tetris" /\ UNCHANGED <<minigame_type, snake, tictactoe>>
    BY DEF TickTetris
  <1>2. /\ tetris \in Pieces /\ Valid(tetris) /\ tetris.board \in SUBSET TetrisBoard
        /\ \A y \in 0..BoardH - 1 : ~FullRow(tetris.board, y)
        /\ (Cardinality(tetris.board) + BoardW * (score \div 100)) % 4 = 0
    BY <1>1 DEF PieceIsSound, RowsAreCleared
  <1>3. PICK n \in Nat : score = 100 * n
    BY <1>1 DEF PieceIsSound
  <1>4. t \in Pieces /\ Valid(t) /\ t.board = tetris.board
    BY <1>2, SteeredHasRoom
  <1>5. \/ /\ tetris' = t
           /\ UNCHANGED <<completed, victory, score, minigame_seed>>
        \/ /\ Valid(lower) /\ tetris' = lower
           /\ UNCHANGED <<completed, victory, score, minigame_seed>>
        \/ /\ tetris' = piece
           /\ minigame_seed' = LcgNext(minigame_seed)
           /\ score' = points
           /\ completed' = (full \/ top)
           /\ victory' = ((full /\ good) \/ top)
    BY Zenon DEF TickTetris
  <1>6. LcgNext(minigame_seed) \in 0..3
    BY SeedStays
  <1> HIDE DEF t
  <1>7. ASSUME NEW u \in Pieces, Valid(u), u.board = tetris.board, tetris' = u,
               UNCHANGED <<completed, victory, score, minigame_seed>>
        PROVE  PieceIsSound' /\ completed' \in BOOLEAN /\ victory' \in BOOLEAN
    <2>1. tetris'.board = tetris.board
      BY <1>7
    <2>2. RowsAreCleared'
      BY <1>2, <1>7, <2>1 DEF RowsAreCleared
    <2> QED
      BY <1>1, <1>3, <1>7, <2>2 DEF PieceIsSound
  <1>8. CASE /\ tetris' = t
             /\ UNCHANGED <<completed, victory, score, minigame_seed>>
    BY <1>1, <1>4, <1>7, <1>8
  <1>9. CASE /\ Valid(lower) /\ tetris' = lower
             /\ UNCHANGED <<completed, victory, score, minigame_seed>>
    <2>1. lower \in Pieces /\ lower.board = tetris.board
      BY <1>4, MovedPiece
    <2> HIDE DEF lower
    <2> QED
      BY <1>1, <1>7, <1>9, <2>1
  <1>10. CASE /\ tetris' = piece
              /\ minigame_seed' = LcgNext(minigame_seed)
              /\ score' = points
              /\ completed' = (full \/ top)
              /\ victory' = ((full /\ good) \/ top)
    <2>1. withPiece \in SUBSET TetrisBoard /\ Cardinality(withPiece) = Cardinality(tetris.board) + 4
      <3>1. Cells(t) \in SUBSET TetrisBoard /\ tetris.board \cap Cells(t) = {}
        BY <1>4 DEF Valid
      <3>2. withPiece = tetris.board \cup Cells(t)
        BY <1>4, <3>1
      <3>3. Cardinality(Cells(t)) = 4
        BY <1>4, CellsAreFour
      <3> QED
        BY <1>2, <3>1, <3>2, <3>3, DisjointUnion
    <2> DEFINE c == cleared.cleared
               left == cleared.board
    <2>2. /\ left \in SUBSET TetrisBoard /\ c \in Nat
          /\ \A r \in 0..BoardH - 1 : ~FullRow(left, r)
          /\ Cardinality(left) + BoardW * c = Cardinality(withPiece)
      BY <2>1, LinesCleared
    <2>3. Cardinality(left) \in Nat /\ Cardinality(tetris.board) \in Nat
      BY <1>2, <2>2, BoardsAreFinite
    <2>4. piece \in Pieces /\ piece.board = left
      <3>1. LcgNext(minigame_seed) \in Int
        BY <1>6
      <3> HIDE DEF cleared
      <3>2. \A b \in SUBSET TetrisBoard, s \in Int :
               NewPiece(b, s) \in Pieces /\ NewPiece(b, s).board = b
        BY NewPieceTyped
      <3> QED
        BY <2>2, <3>1, <3>2, Zenon
    <2>5. points = 100 * n + 100 * c
      BY <1>3
    <2> HIDE DEF withPiece, cleared, left, c, piece, points
    <2>6. /\ points = 100 * (n + c) /\ n + c \in Nat
          /\ (Cardinality(left) + BoardW * (points \div 100)) % 4 = 0
      BY <1>2, <1>3, <2>1, <2>2, <2>3, <2>5, ScoreAddsUp
    <2>7. full \in BOOLEAN /\ top \in BOOLEAN /\ good \in BOOLEAN
      BY DEF Valid
    <2>8. ~completed' => Valid(piece)
      BY <1>10
    <2>9. tetris'.board = left
      BY <1>10, <2>4
    <2>10. RowsAreCleared'
      BY <1>10, <2>2, <2>6, <2>8, <2>9 DEF RowsAreCleared
    <2>11. PieceIsSound'
      BY <1>10, <2>4, <2>6, <2>10 DEF PieceIsSound
    <2>12. completed' \in BOOLEAN /\ victory' \in BOOLEAN
      BY <1>10, <2>7
    <2> QED
      BY <1>1, <1>6, <1>10, <2>11, <2>12
  <1> QED
    BY <1>5, <1>8, <1>9, <1>10

-----------------------------------------------------------------------------
(* Minigames: all of them                                                   *)

MinigamesInv ==
    /\ minigame_type \in GameTypes \cup {"None"} /\ minigame_seed \in 0..3
    /\ SnakeIsLine /\ FoodIsFree
    /\ PieceIsSound
    /\ SquaresAreFair

\* Whichever game is begun, the two others are as new.
LEMMA TetrisIsNew ==
    ASSUME NEW s \in Int, tetris' = NewPiece({}, s), score' = 0
    PROVE  PieceIsSound'
  <1>1. /\ tetris' \in Pieces /\ Valid(tetris') /\ tetris'.board = {}
    BY NewPieceFits
  <1>2. BoardW \in Nat \ {0}
    BY MinigamesAssumption
  <1>3. \A y \in 0..BoardH - 1 : ~FullRow({}, y)
    <2> TAKE y \in 0..BoardH - 1
    <2>1. Row({}, y) = {}
      BY DEF Row
    <2> QED
      BY <1>2, <2>1, FS_EmptySet DEF FullRow
  <1>4. (Cardinality({}) + BoardW * (score' \div 100)) % 4 = 0
    <2>1. score' \div 100 = 0 /\ BoardW * 0 = 0 /\ Cardinality({}) = 0
      BY <1>2, FS_EmptySet
    <2> QED
      BY <2>1
  <1>5. RowsAreCleared'
    BY <1>1, <1>3, <1>4 DEF RowsAreCleared
  <1>6. 0 \in Nat /\ score' = 100 * 0
    OBVIOUS
  <1> QED
    BY <1>1, <1>5, <1>6 DEF PieceIsSound

LEMMA SquaresAreNew ==
    ASSUME tictactoe' = [board |-> [square \in Squares |-> 0], cursor |-> 4, winner |-> 0, turns |-> 0],
           completed' = FALSE, victory' = FALSE
    PROVE  SquaresAreFair'
  <1> DEFINE board == [square \in Squares |-> 0]
  <1>1. /\ board \in SquareBoards
        /\ ~HasLine(board, 1) /\ ~HasLine(board, 2) /\ Winner(board) = 0 /\ ~Over(board)
        /\ Cardinality(Marked(board, 1)) = 0 /\ Cardinality(Marked(board, 2)) = 0
    BY EmptyBoard
  <1>2. /\ tictactoe'.board = board /\ tictactoe'.winner = 0 /\ tictactoe'.turns = 0
    OBVIOUS
  <1>3. tictactoe' \in SquareRecords
    BY <1>1 DEF SquareRecords, Squares
  <1> HIDE DEF board
  <1>4. GameIsFair'
    BY <1>1, <1>2 DEF GameIsFair, Marked
  <1> QED
    BY <1>3, <1>4 DEF SquaresAreFair

LEMMA StillIsPair == Still \in Int \X Int
  BY DEF Still

LEMMA MinigamesStart == MinigamesInit => MinigamesInv
  <1> SUFFICES ASSUME MinigamesInit PROVE MinigamesInv
    OBVIOUS
  <1>1. SnakeIsLine /\ FoodIsFree
    BY StillIsPair, NewSnakeIsLine DEF MinigamesInit, SnakeIsLine, FoodIsFree
  <1>2. PieceIsSound
    BY NewPieceFits DEF MinigamesInit, PieceIsSound, RowsAreCleared
  <1>3. SquaresAreFair
    <2>1. tictactoe.board \in SquareBoards
      BY EmptyBoard DEF MinigamesInit
    <2>2. tictactoe \in SquareRecords
      BY <2>1 DEF MinigamesInit, SquareRecords, Squares
    <2> QED
      BY <2>2 DEF MinigamesInit, SquaresAreFair, GameIsFair
  <1> QED
    BY <1>1, <1>2, <1>3 DEF MinigamesInv, MinigamesInit

LEMMA GamesBegin ==
    ASSUME NEW new \in GameTypes, NEW s \in 0..3, BeginGame(new, s)
    PROVE  MinigamesInv'
  <1>1. /\ minigame_type' = new /\ completed' = FALSE /\ victory' = FALSE /\ score' = 0
        /\ tetris' = NewPiece({}, IF new = "Tetris" THEN LcgNext(s) ELSE 0)
        /\ tictactoe' = [board |-> [square \in Squares |-> 0], cursor |-> 4, winner |-> 0, turns |-> 0]
    BY DEF BeginGame
  <1>2. LcgNext(s) \in 0..3 /\ AfterAttempts(s) \subseteq 0..3
    BY SeedStays
  <1>3. PieceIsSound'
    BY <1>1, <1>2, TetrisIsNew
  <1>4. SquaresAreFair'
    BY <1>1, SquaresAreNew
  <1>5. SnakeIsLine' /\ FoodIsFree' /\ minigame_seed' \in 0..3
    <2>1. CASE new = "Snake"
      <3>1. PICK food \in FoodCells(NewSnake(Still).body, s) : snake' = NewSnake(food)
        BY <2>1 DEF BeginGame
      <3>2. minigame_seed' \in AfterAttempts(s)
        BY <2>1 DEF BeginGame
      <3>3. food \in Grid \ Range(NewSnake(Still).body) /\ food \in Int \X Int
        BY GridIsOfPairs DEF FoodCells
      <3>4. /\ snake' \in SnakeRecords /\ IsLine(snake'.body) /\ snake'.food = food
            /\ snake'.body = NewSnake(Still).body
        BY <3>1, <3>3, NewSnakeIsLine
      <3> QED
        BY <1>2, <3>2, <3>3, <3>4 DEF SnakeIsLine, FoodIsFree
    <2>2. CASE new # "Snake"
      <3>1. snake' = NewSnake(Still) /\ minigame_seed' \in {LcgNext(s), s}
        BY <2>2 DEF BeginGame, GameTypes
      <3> QED
        BY <1>1, <1>2, <2>2, <3>1, StillIsPair, NewSnakeIsLine DEF SnakeIsLine, FoodIsFree
    <2> QED
      BY <2>1, <2>2
  <1> QED
    BY <1>1, <1>3, <1>4, <1>5 DEF MinigamesInv

LEMMA GamesTick == MinigamesInv /\ Tick => MinigamesInv'
  <1> SUFFICES ASSUME MinigamesInv, Tick PROVE MinigamesInv'
    OBVIOUS
  <1>1. /\ SnakeIsLine /\ FoodIsFree /\ PieceIsSound /\ SquaresAreFair /\ minigame_seed \in 0..3
        /\ minigame_type \in GameTypes \cup {"None"} /\ ~completed
        /\ completed \in BOOLEAN /\ victory \in BOOLEAN
    BY DEF MinigamesInv, SquaresAreFair, Tick
  <1>2. PICK move \in Moves \cup {Still}, button \in BOOLEAN, due \in BOOLEAN :
            \/ TickSnake(move, due)
            \/ TickTetris(move[1], button, due)
            \/ TickTicTacToe(move, button)
    BY DEF Tick
  <1>3. CASE TickSnake(move, due)
    <2>1. /\ SnakeIsLine' /\ FoodIsFree' /\ minigame_seed' \in 0..3
          /\ completed' \in BOOLEAN /\ victory' \in BOOLEAN
          /\ minigame_type = "Snake" /\ UNCHANGED <<minigame_type, tetris, tictactoe>>
      BY <1>1, <1>3, SnakeTicks
    <2>2. PieceIsSound'
      BY <1>1, <2>1 DEF PieceIsSound, RowsAreCleared
    <2>3. SquaresAreFair'
      BY <1>1, <2>1 DEF SquaresAreFair, GameIsFair
    <2> QED
      BY <1>1, <2>1, <2>2, <2>3 DEF MinigamesInv
  <1>4. CASE TickTetris(move[1], button, due)
    <2>1. move[1] \in Int
      BY DEF Moves, Left, Right, Up, Down, Still
    <2>2. /\ PieceIsSound' /\ minigame_seed' \in 0..3
          /\ completed' \in BOOLEAN /\ victory' \in BOOLEAN
          /\ minigame_type = "Tetris" /\ UNCHANGED <<minigame_type, snake, tictactoe>>
      BY <1>1, <1>4, <2>1, TetrisTicks
    <2>3. SnakeIsLine' /\ FoodIsFree'
      BY <1>1, <2>2 DEF SnakeIsLine, FoodIsFree
    <2>4. SquaresAreFair'
      BY <1>1, <2>2 DEF SquaresAreFair, GameIsFair
    <2> QED
      BY <1>1, <2>2, <2>3, <2>4 DEF MinigamesInv
  <1>5. CASE TickTicTacToe(move, button)
    <2>1. /\ SquaresAreFair' /\ minigame_seed' \in 0..3
          /\ minigame_type = "TicTacToe" /\ UNCHANGED <<minigame_type, snake, tetris>>
      BY <1>1, <1>5, TicTacToeTicks
    <2>2. SnakeIsLine' /\ FoodIsFree'
      BY <1>1, <2>1 DEF SnakeIsLine, FoodIsFree
    <2>3. PieceIsSound'
      BY <1>1, <2>1 DEF PieceIsSound, RowsAreCleared
    <2> QED
      BY <1>1, <2>1, <2>2, <2>3 DEF MinigamesInv
  <1> QED
    BY <1>2, <1>3, <1>4, <1>5

LEMMA GamesRest == MinigamesInv /\ UNCHANGED minigame_vars => MinigamesInv'
  BY DEF MinigamesInv, minigame_vars, SnakeIsLine, FoodIsFree, PieceIsSound, RowsAreCleared,
         SquaresAreFair, GameIsFair

LEMMA InvIsSound == MinigamesInv => MinigamesAreSound
  <1> SUFFICES ASSUME MinigamesInv PROVE MinigamesAreSound
    OBVIOUS
  <1>1. IsLine(snake.body) /\ snake.body \in Seq(Grid)
    BY DEF MinigamesInv, SnakeIsLine, IsLine
  <1>2. \A i \in DOMAIN snake.body : snake.body[i] \in Grid
    BY <1>1, LenProperties, ElementOfSeq
  <1>3. SnakeIsWhole
    BY <1>1, <1>2 DEF SnakeIsWhole, IsLine, MinigamesInv, FoodIsFree
  <1> QED
    BY <1>3 DEF MinigamesAreSound, MinigamesInv, PieceIsSound, SquaresAreFair

\* The minigames keep their rules on boards of any size and with any scores to win: the
\* snake is one line of different cells of the grid and its food can be reached; after
\* tetris_clear_lines no full row is left and cells and scored rows are of whole pieces;
\* and tic-tac-toe is over when one has a line or no square is left, and not before.
THEOREM MinigamesStaySound == MinigamesSpec => []MinigamesAreSound
  <1>1. MinigamesInit => MinigamesInv
    BY MinigamesStart
  <1>2. MinigamesInv /\ [MinigamesNext]_minigame_vars => MinigamesInv'
    <2> SUFFICES ASSUME MinigamesInv, [MinigamesNext]_minigame_vars PROVE MinigamesInv'
      OBVIOUS
    <2>1. CASE \E new \in GameTypes, s \in 0..3 : BeginGame(new, s)
      BY <2>1, GamesBegin
    <2>2. CASE Tick
      BY <2>2, GamesTick
    <2>3. CASE UNCHANGED minigame_vars
      BY <2>3, GamesRest
    <2> QED
      BY <2>1, <2>2, <2>3 DEF MinigamesNext
  <1>3. MinigamesInv => MinigamesAreSound
    BY InvIsSound
  <1> QED
    BY <1>1, <1>2, <1>3, PTL DEF MinigamesSpec
=============================================================================
