-------------------------- MODULE WorldEditsProofs --------------------------
(***************************************************************************)
(* The safety properties of WorldEdits, for any bodies, chunks, materials  *)
(* and debounce.  They are inductive together: a start takes over a stage  *)
(* that was earned because what it loads was, and what the game holds      *)
(* covers the disk because every phase only adds to it.                    *)
(***************************************************************************)
EXTENDS WorldEdits, TLAPS

\* The parts of TypeOK, so that a phase names what it touches
TerrainTyped ==
    /\ active \in Bodies
    /\ world \in Runtime
    /\ DOMAIN parked \subseteq Bodies
    /\ \A b \in DOMAIN parked : parked[b] \in Runtime

JournalTyped ==
    /\ edits \in Edits
    /\ stage \in Stages
    /\ dirty \in BOOLEAN
    /\ since_save \in 0..SaveDebounce

DiskTyped == disk \in SavedGame \cup {NoSave, Damaged}

\* Before a start the engine holds no edit.
OffIsFresh == Phase("off") => edits = NoEdits

WorldInv ==
    /\ TypeOK
    /\ RuntimesAreOfTheirBodies
    /\ ChangedBlocksAreRecorded
    /\ StageIsEarned
    /\ MemoryCoversDisk
    /\ OffIsFresh

LEMMA TypeParts ==
  TypeOK <=> /\ pc \in Phases \cup {"off"}
             /\ TerrainTyped
             /\ JournalTyped
             /\ DiskTyped
  BY DEF TypeOK, TerrainTyped, JournalTyped, DiskTyped

LEMMA NewRuntimeTyped == \A b \in Bodies : NewRuntime(b) \in Runtime
  BY DEF NewRuntime, Runtime

LEMMA NoEditsTyped == NoEdits \in Edits
  BY DEF NoEdits, Edits

LEMMA SnapshotTyped == TypeOK => Snapshot \in SavedGame
  BY DEF TypeOK, Snapshot, SavedGame

\* A game covers itself.
LEMMA CoversItself == \A game \in SavedGame : Covers(game, game)
  BY DEF Covers, SavedGame, Stages, CollectSample, Complete

-----------------------------------------------------------------------------
(* What the operators of the code keep *)

\* Each call of the expedition keeps the stage or moves it on, and only a removed
\* block of Voxov moves it from the first stage.
LEMMA StageMovesOn ==
  ASSUME NEW s \in Stages, NEW b
  PROVE  /\ OnBlockRemoved(s, b) \in Stages /\ OnBlockRemoved(s, b) >= s
         /\ OnBlockPlaced(s, b) \in Stages /\ OnBlockPlaced(s, b) >= s
         /\ OnCourseLocked(s, b) \in Stages /\ OnCourseLocked(s, b) >= s
         /\ OnLanded(s, b) \in Stages /\ OnLanded(s, b) >= s
         /\ s = CollectSample =>
               /\ OnBlockPlaced(s, b) = CollectSample
               /\ OnCourseLocked(s, b) = CollectSample
               /\ OnLanded(s, b) = CollectSample
               /\ b # Voxov => OnBlockRemoved(s, b) = CollectSample
  BY DEF Stages, OnBlockRemoved, OnBlockPlaced, OnCourseLocked, OnLanded, Advance,
     CollectSample, DeployBeacon, PlotCourse, ReachAster, Complete

\* switch_active_planet keeps each runtime with its body and loses none that shows a
\* changed block.
LEMMA SwitchKeepsTerrain ==
  ASSUME TypeOK, RuntimesAreOfTheirBodies, ChangedBlocksAreRecorded, edits' = edits,
         NEW b \in Bodies, SwitchActivePlanet(b)
  PROVE  TerrainTyped' /\ RuntimesAreOfTheirBodies' /\ ChangedBlocksAreRecorded'
  <1>1. CASE b = active
    BY <1>1 DEF SwitchActivePlanet, terrain, TypeOK, TerrainTyped,
       RuntimesAreOfTheirBodies, ChangedBlocksAreRecorded, WorldForBody, ParkedRuntime
  <1>2. CASE b # active
    <2>1. /\ active' = b
          /\ world' = ParkedRuntime(b)
          /\ parked' = ParkedAfterSwitch(b)
      BY <1>2 DEF SwitchActivePlanet
    <2>2. /\ DOMAIN parked' = (DOMAIN parked \ {b}) \cup {active}
          /\ \A c \in DOMAIN parked' :
                parked'[c] = IF c = active THEN world ELSE parked[c]
      BY <2>1 DEF ParkedAfterSwitch
    <2>3. ParkedRuntime(b) \in Runtime /\ ParkedRuntime(b).body = b
      BY NewRuntimeTyped DEF ParkedRuntime, TypeOK, RuntimesAreOfTheirBodies, NewRuntime
    <2>4. TerrainTyped'
      BY <2>1, <2>2, <2>3 DEF TypeOK, TerrainTyped
    <2>5. RuntimesAreOfTheirBodies'
      BY <1>2, <2>1, <2>2, <2>3 DEF RuntimesAreOfTheirBodies
    <2>6. \A c \in Bodies : WorldForBody(c)' = WorldForBody(c)
      <3> TAKE c \in Bodies
      <3>1. CASE c = b
        BY <1>2, <2>1, <3>1 DEF WorldForBody
      <3>2. CASE c = active
        BY <1>2, <2>1, <2>2, <3>2 DEF WorldForBody, ParkedRuntime
      <3>3. CASE c # b /\ c # active
        BY <2>1, <2>2, <3>3 DEF WorldForBody, ParkedRuntime
      <3> QED
        BY <3>1, <3>2, <3>3
    <2>7. ChangedBlocksAreRecorded'
      BY <2>6 DEF ChangedBlocksAreRecorded
    <2> QED
      BY <2>4, <2>5, <2>7
  <1> QED
    BY <1>1, <1>2

\* A saved game, written or not, leaves an earned stage on the disk.
LEMMA SaveKeepsDisk ==
  ASSUME TypeOK, StageIsEarned, NEW game \in SavedGame, Earned(game), NEW ok \in BOOLEAN,
         SavePersistentGame(game, ok)
  PROVE  /\ disk' \in {disk, game}
         /\ DiskTyped'
         /\ disk' \in SavedGame => Earned(disk')
  BY DEF SavePersistentGame, TypeOK, DiskTyped, StageIsEarned

\* A phase that keeps the edits and only moves the stage on, and saves that or
\* nothing, keeps what is said about the disk.
LEMMA StageStep ==
  ASSUME WorldInv, ~Phase("off"), edits' = edits, stage' \in Stages, stage' >= stage,
         stage = CollectSample => stage' = CollectSample,
         disk' = disk \/ disk' = [stage |-> stage', active |-> active', edits |-> edits],
         active' \in Bodies
  PROVE  DiskTyped' /\ StageIsEarned' /\ MemoryCoversDisk'
  <1> DEFINE game == [stage |-> stage', active |-> active', edits |-> edits]
  <1>1. game \in SavedGame /\ Snapshot' = game
    BY DEF WorldInv, TypeOK, SavedGame, Snapshot
  <1>2. Earned(game)
    BY DEF WorldInv, StageIsEarned, Earned, Snapshot
  <1>3. Covers(game, game)
    BY <1>1, CoversItself
  <1>4. disk \in SavedGame => Covers(game, disk)
    BY DEF WorldInv, TypeOK, MemoryCoversDisk, Covers, Snapshot, SavedGame, Stages,
       CollectSample, Complete
  <1> QED
    BY <1>1, <1>2, <1>3, <1>4 DEF WorldInv, TypeOK, DiskTyped, StageIsEarned,
       MemoryCoversDisk
-----------------------------------------------------------------------------
(* Starts and ends of the process *)

LEMMA InitWorld == Init => WorldInv
  <1> SUFFICES ASSUME Init PROVE WorldInv
    OBVIOUS
  <1>1. TypeOK
    <2>1. TerrainTyped
      BY NewRuntimeTyped, WorldEditsAssumption DEF Init, TerrainTyped
    <2>2. dirty \in BOOLEAN
      BY Zenon DEF Init
    <2>3. JournalTyped
      BY <2>2, NoEditsTyped, WorldEditsAssumption
         DEF Init, JournalTyped, Stages, CollectSample, Complete
    <2> QED
      BY <2>1, <2>3, TypeParts DEF Init, DiskTyped
  <1>2. RuntimesAreOfTheirBodies
    BY DEF Init, RuntimesAreOfTheirBodies, NewRuntime
  <1>3. ChangedBlocksAreRecorded
    BY DEF Init, ChangedBlocksAreRecorded, WorldForBody, ParkedRuntime, NewRuntime
  <1>4. StageIsEarned /\ MemoryCoversDisk
    BY SavedGameAssumption DEF Init, StageIsEarned, MemoryCoversDisk, Earned, Snapshot
  <1> QED
    BY <1>1, <1>2, <1>3, <1>4 DEF WorldInv, OffIsFresh, Init

\* What the end of the process leaves
LEMMA DiscardKeeps ==
  ASSUME WorldInv, Discard, DiskTyped', disk' \in SavedGame => Earned(disk')
  PROVE  WorldInv'
  <1>1. TypeOK'
    <2>1. TerrainTyped'
      BY NewRuntimeTyped, WorldEditsAssumption DEF Discard, TerrainTyped
    <2>2. dirty' \in BOOLEAN
      BY Zenon DEF Discard
    <2>3. JournalTyped'
      BY <2>2, NoEditsTyped, WorldEditsAssumption
         DEF Discard, JournalTyped, Stages, CollectSample, Complete
    <2> QED
      BY <2>1, <2>3 DEF Discard, Goto, TypeOK, TerrainTyped, JournalTyped, DiskTyped
  <1>2. RuntimesAreOfTheirBodies'
    BY DEF Discard, RuntimesAreOfTheirBodies, NewRuntime
  <1>3. ChangedBlocksAreRecorded'
    BY DEF Discard, ChangedBlocksAreRecorded, WorldForBody, ParkedRuntime, NewRuntime
  <1>4. StageIsEarned' /\ MemoryCoversDisk' /\ OffIsFresh'
    BY DEF Discard, StageIsEarned, MemoryCoversDisk, OffIsFresh, Earned, Snapshot,
       Goto, Phase
  <1> QED
    BY <1>1, <1>2, <1>3, <1>4 DEF WorldInv

LEMMA ShutdownStep == WorldInv /\ Shutdown => WorldInv'
  <1> SUFFICES ASSUME WorldInv, Shutdown PROVE WorldInv'
    OBVIOUS
  <1>1. PICK ok \in BOOLEAN : SavePersistentGame(Snapshot, ok)
    BY DEF Shutdown, Snapshot
  <1>2. Snapshot \in SavedGame /\ Earned(Snapshot)
    BY SnapshotTyped DEF WorldInv, StageIsEarned
  <1>3. DiskTyped' /\ (disk' \in SavedGame => Earned(disk'))
    BY <1>1, <1>2, SaveKeepsDisk DEF WorldInv
  <1> QED
    BY <1>3, DiscardKeeps DEF Shutdown

LEMMA CrashStep == WorldInv /\ Crash => WorldInv'
  BY DiscardKeeps DEF Crash, WorldInv, TypeOK, DiskTyped, StageIsEarned

LEMMA DamageStep == WorldInv /\ Damage => WorldInv'
  BY SavedGameAssumption DEF Damage, WorldInv, TypeOK, RuntimesAreOfTheirBodies, ChangedBlocksAreRecorded,
     StageIsEarned, MemoryCoversDisk, OffIsFresh, terrain, journal, WorldForBody,
     ParkedRuntime, Earned, Snapshot, Phase

\* What load_persistent_game leaves of a saved game
LEMMA LoadKeeps ==
  ASSUME NEW saved \in SavedGame, Load(saved)
  PROVE  /\ TerrainTyped'
         /\ RuntimesAreOfTheirBodies'
         /\ edits' = saved.edits /\ edits' \in Edits
         /\ stage' = saved.stage /\ stage' \in Stages
         /\ Snapshot' = saved
         /\ \A b \in Bodies, c \in Chunks :
               WorldForBody(b)'.chunks[c] = IF saved.edits[<<b, c>>] = NoEdit
                                            THEN Absent ELSE saved.edits[<<b, c>>]
  <1>1. \A b \in Bodies : /\ Restored(b, saved) \in Runtime
                          /\ Restored(b, saved).body = b
    BY DEF Restored, Runtime, SavedGame, Edits
  <1>2. saved.active \in Bodies /\ saved.edits \in Edits /\ saved.stage \in Stages
    BY DEF SavedGame
  <1>3. DOMAIN parked' \subseteq Bodies
    BY <1>2, WorldEditsAssumption DEF Load, RestoredBodies
  <1>4. TerrainTyped' /\ RuntimesAreOfTheirBodies'
    BY <1>1, <1>2, <1>3 DEF Load, TerrainTyped, RuntimesAreOfTheirBodies
  <1>5. Snapshot' = saved
    BY DEF Load, Snapshot, SavedGame
  <1>6. ASSUME NEW b \in Bodies, NEW c \in Chunks
        PROVE  WorldForBody(b)'.chunks[c] = IF saved.edits[<<b, c>>] = NoEdit
                                            THEN Absent ELSE saved.edits[<<b, c>>]
    <2>1. CASE b \in RestoredBodies(saved)
      <3>1. WorldForBody(b)' = Restored(b, saved)
        BY <2>1 DEF WorldForBody, ParkedRuntime, Load
      <3> QED
        BY <3>1 DEF Restored
    <2>2. CASE b \notin RestoredBodies(saved)
      <3>1. WorldForBody(b)' = NewRuntime(b)
        BY <2>2 DEF WorldForBody, ParkedRuntime, Load, RestoredBodies
      <3>2. saved.edits[<<b, c>>] = NoEdit
        BY <2>2 DEF RestoredBodies
      <3> QED
        BY <3>1, <3>2 DEF NewRuntime
    <2> QED
      BY <2>1, <2>2
  <1> QED
    BY <1>2, <1>4, <1>5, <1>6 DEF Load

LEMMA StartStep == WorldInv /\ Start => WorldInv'
  <1> SUFFICES ASSUME WorldInv, Start PROVE WorldInv'
    OBVIOUS
  <1>1. CASE disk \in {NoSave, Damaged}
    BY <1>1, SavedGameAssumption DEF Start, WorldInv, TypeOK, RuntimesAreOfTheirBodies,
       ChangedBlocksAreRecorded, StageIsEarned, MemoryCoversDisk, OffIsFresh, terrain,
       WorldForBody, ParkedRuntime, Earned, Snapshot, Phase, Phases, Goto
  <1>2. CASE disk \notin {NoSave, Damaged}
    <2>1. disk \in SavedGame /\ Load(disk) /\ Earned(disk)
      BY <1>2 DEF Start, WorldInv, TypeOK, StageIsEarned
    <2>2. TypeOK'
      BY <2>1, LoadKeeps DEF Start, WorldInv, TypeOK, TerrainTyped, Goto, Phases
    <2>3. ChangedBlocksAreRecorded'
      BY <2>1, LoadKeeps DEF ChangedBlocksAreRecorded
    <2>4. StageIsEarned' /\ MemoryCoversDisk' /\ OffIsFresh'
      BY <2>1, LoadKeeps, CoversItself DEF Start, StageIsEarned, MemoryCoversDisk,
         OffIsFresh, Goto, Phase
    <2> QED
      BY <2>1, <2>2, <2>3, <2>4, LoadKeeps DEF WorldInv
  <1> QED
    BY <1>1, <1>2
-----------------------------------------------------------------------------
(* The phases of a frame *)

\* What a phase keeps that leaves the terrain and the edits alone
LEMMA TerrainKept ==
  ASSUME WorldInv, UNCHANGED <<terrain, edits>>
  PROVE  TerrainTyped' /\ RuntimesAreOfTheirBodies' /\ ChangedBlocksAreRecorded'
  BY DEF WorldInv, TypeOK, TerrainTyped, RuntimesAreOfTheirBodies,
     ChangedBlocksAreRecorded, terrain, WorldForBody, ParkedRuntime

LEMMA SkipStep ==
  ASSUME WorldInv, NEW p \in Phases, NEW q \in Phases, Skip(p, q)
  PROVE  WorldInv'
  <1>1. ~Phase("off") /\ pc' \in Phases /\ ~Phase("off")'
    BY DEF Skip, Phase, Phases, Goto
  <1>2. TypeOK'
    BY <1>1 DEF Skip, WorldInv, TypeOK, terrain, journal
  <1>3. StageIsEarned' /\ MemoryCoversDisk' /\ OffIsFresh'
    BY <1>1 DEF Skip, WorldInv, StageIsEarned, MemoryCoversDisk, OffIsFresh, Earned,
       Snapshot, terrain, journal
  <1> QED
    BY <1>2, <1>3, TerrainKept DEF Skip, WorldInv, journal

LEMMA LockCourseStep ==
  ASSUME WorldInv, NEW b \in Bodies \cup {Star}, LockCourse(b)
  PROVE  WorldInv'
  <1>1. ~Phase("off") /\ pc' \in Phases /\ ~Phase("off")'
    BY DEF LockCourse, Phase, Phases, Goto
  <1>2. stage \in Stages /\ stage' = OnCourseLocked(stage, b)
    BY DEF LockCourse, WorldInv, TypeOK
  <1>3. disk' = disk \/ disk' = [stage |-> stage', active |-> active', edits |-> edits]
    BY DEF LockCourse, SavePersistentGame, terrain
  <1>4. DiskTyped' /\ StageIsEarned' /\ MemoryCoversDisk'
    BY <1>1, <1>2, <1>3, StageMovesOn, StageStep
       DEF LockCourse, WorldInv, TypeOK, terrain
  <1>5. JournalTyped'
    BY <1>2, StageMovesOn DEF LockCourse, WorldInv, TypeOK, JournalTyped
  <1> QED
    BY <1>1, <1>4, <1>5, TerrainKept
       DEF LockCourse, WorldInv, TypeOK, TerrainTyped, JournalTyped, DiskTyped, OffIsFresh

LEMMA LandByAssistStep ==
  ASSUME WorldInv, NEW b \in Bodies, LandByAssist(b)
  PROVE  WorldInv'
  <1>1. ~Phase("off") /\ pc' \in Phases /\ ~Phase("off")'
    BY DEF LandByAssist, Phase, Phases, Goto
  <1>2. stage \in Stages /\ stage' = OnLanded(stage, b)
    BY DEF LandByAssist, WorldInv, TypeOK
  <1>3. active' = b
    BY DEF LandByAssist, SwitchActivePlanet
  <1>4. disk' = disk \/ disk' = [stage |-> stage', active |-> active', edits |-> edits]
    BY <1>3 DEF LandByAssist, SavePersistentGame
  <1>5. DiskTyped' /\ StageIsEarned' /\ MemoryCoversDisk'
    BY <1>1, <1>2, <1>3, <1>4, StageMovesOn, StageStep DEF LandByAssist
  <1>6. JournalTyped'
    BY <1>2, StageMovesOn DEF LandByAssist, WorldInv, TypeOK, JournalTyped
  <1>7. TerrainTyped' /\ RuntimesAreOfTheirBodies' /\ ChangedBlocksAreRecorded'
    BY SwitchKeepsTerrain DEF LandByAssist, WorldInv
  <1> QED
    BY <1>1, <1>5, <1>6, <1>7
       DEF WorldInv, TypeOK, TerrainTyped, JournalTyped, DiskTyped, OffIsFresh

LEMMA TouchdownStep == WorldInv /\ Touchdown => WorldInv'
  <1> SUFFICES ASSUME WorldInv, Touchdown PROVE WorldInv'
    OBVIOUS
  <1>1. ~Phase("off") /\ pc' \in Phases /\ ~Phase("off")'
    BY DEF Touchdown, Phase, Phases, Goto
  <1>2. stage \in Stages /\ stage' = OnLanded(OnCourseLocked(stage, active), active)
    BY DEF Touchdown, WorldInv, TypeOK
  <1> DEFINE locked == OnCourseLocked(stage, active)
  <1>3. locked \in Stages /\ locked >= stage
        /\ (stage = CollectSample => locked = CollectSample)
    BY <1>2, StageMovesOn
  <1>4. stage' \in Stages /\ stage' >= locked
        /\ (locked = CollectSample => stage' = CollectSample)
    <2> HIDE DEF locked
    <2>1. stage' = OnLanded(locked, active)
      BY <1>2 DEF locked
    <2> QED
      BY <1>3, <2>1, StageMovesOn
  <1>5. stage' >= stage
    BY <1>2, <1>3, <1>4 DEF Stages, CollectSample, Complete
  <1>6. DiskTyped' /\ StageIsEarned' /\ MemoryCoversDisk'
    BY <1>1, <1>3, <1>4, <1>5, StageStep DEF Touchdown, WorldInv, TypeOK, terrain
  <1>7. dirty' \in BOOLEAN
    BY Zenon DEF Touchdown
  <1>8. JournalTyped'
    BY <1>4, <1>7 DEF Touchdown, WorldInv, TypeOK, JournalTyped
  <1> QED
    BY <1>1, <1>6, <1>8, TerrainKept
       DEF Touchdown, WorldInv, TypeOK, TerrainTyped, JournalTyped, DiskTyped, OffIsFresh

LEMMA TransferShipStep ==
  ASSUME WorldInv, NEW b \in Bodies, TransferShip(b)
  PROVE  WorldInv'
  <1>1. ~Phase("off") /\ pc' \in Phases /\ ~Phase("off")'
    BY DEF TransferShip, Phase, Phases, Goto
  <1>2. TerrainTyped' /\ RuntimesAreOfTheirBodies' /\ ChangedBlocksAreRecorded'
    BY SwitchKeepsTerrain DEF TransferShip, WorldInv, journal
  <1>3. JournalTyped' /\ DiskTyped'
    BY DEF TransferShip, WorldInv, TypeOK, JournalTyped, DiskTyped, journal
  <1>4. StageIsEarned' /\ MemoryCoversDisk'
    BY <1>1 DEF TransferShip, WorldInv, StageIsEarned, MemoryCoversDisk, Earned, Covers,
       Snapshot, journal
  <1> QED
    BY <1>1, <1>2, <1>3, <1>4
       DEF WorldInv, TypeOK, TerrainTyped, JournalTyped, DiskTyped, OffIsFresh

\* An edit of the active body, with a stage that moved on and is earned after it
LEMMA SetBlockStep ==
  ASSUME WorldInv, NEW c \in Chunks, NEW material \in Materials,
         Phase("blocks"), SetBlock(c, material),
         stage' \in Stages, stage' >= stage,
         stage = CollectSample /\ stage' # CollectSample => active = Voxov
  PROVE  WorldInv'
  <1>1. ~Phase("off") /\ pc' \in Phases /\ ~Phase("off")'
    BY DEF SetBlock, Phase, Phases, Goto
  <1>2. material # NoEdit /\ material \in Materials \cup {NoEdit}
    BY WorldEditsAssumption DEF Materials
  <1>3. <<active, c>> \in Bodies \X Chunks /\ edits \in Edits
    BY DEF WorldInv, TypeOK
  <1>4. /\ edits' \in Edits
        /\ edits'[<<active, c>>] = material
        /\ \A block \in Bodies \X Chunks :
              block # <<active, c>> => edits'[block] = edits[block]
    BY <1>2, <1>3 DEF SetBlock, RecordBlockEdit, Edits
  <1>5. world \in Runtime /\ world' = [world EXCEPT !.chunks[c] = material]
    BY DEF SetBlock, WorldInv, TypeOK
  <1>6. /\ world' \in Runtime /\ world'.body = world.body
        /\ world'.chunks[c] = material
        /\ \A d \in Chunks : d # c => world'.chunks[d] = world.chunks[d]
    BY <1>2, <1>5 DEF Runtime, Materials
  <1>7. TerrainTyped' /\ RuntimesAreOfTheirBodies'
    BY <1>6 DEF SetBlock, WorldInv, TypeOK, TerrainTyped, RuntimesAreOfTheirBodies
  <1>8. ASSUME NEW b \in Bodies, NEW d \in Chunks
        PROVE  WorldForBody(b)'.chunks[d] \in {Absent, Ground, edits'[<<b, d>>]}
    <2>1. <<b, d>> \in Bodies \X Chunks
      OBVIOUS
    <2>2. WorldForBody(b).chunks[d] \in {Absent, Ground, edits[<<b, d>>]}
      BY DEF WorldInv, ChangedBlocksAreRecorded
    <2>3. CASE b = active
      BY <1>4, <1>6, <2>1, <2>2, <2>3 DEF SetBlock, WorldForBody
    <2>4. CASE b # active
      <3>1. <<b, d>> # <<active, c>>
        BY <2>4
      <3>2. WorldForBody(b)' = WorldForBody(b)
        BY <2>4 DEF SetBlock, WorldForBody, ParkedRuntime
      <3> QED
        BY <1>4, <2>1, <2>2, <3>1, <3>2
    <2> QED
      BY <2>3, <2>4
  <1>9. ChangedBlocksAreRecorded'
    BY <1>8 DEF ChangedBlocksAreRecorded
  <1>10. \A block \in Bodies \X Chunks : edits[block] # NoEdit => edits'[block] # NoEdit
    BY <1>2, <1>4
  <1>11. Earned(Snapshot')
    <2>1. CASE stage = CollectSample /\ stage' # CollectSample
      BY <1>2, <1>4, <2>1 DEF Earned, Snapshot
    <2>2. CASE stage # CollectSample
      <3>1. PICK d \in Chunks : edits[<<Voxov, d>>] # NoEdit
        BY <2>2 DEF WorldInv, StageIsEarned, Earned, Snapshot
      <3>2. <<Voxov, d>> \in Bodies \X Chunks
        BY WorldEditsAssumption
      <3> QED
        BY <1>10, <3>1, <3>2 DEF Earned, Snapshot
    <2>3. CASE stage' = CollectSample
      BY <2>3 DEF Earned, Snapshot
    <2> QED
      BY <2>1, <2>2, <2>3
  <1>12. StageIsEarned'
    BY <1>11 DEF SetBlock, WorldInv, StageIsEarned
  <1>13. disk \in SavedGame => Covers(Snapshot', disk)
    BY <1>1, <1>10 DEF WorldInv, TypeOK, MemoryCoversDisk, Covers, Snapshot, SavedGame,
       Stages, CollectSample, Complete
  <1>14. MemoryCoversDisk'
    BY <1>13 DEF SetBlock, MemoryCoversDisk
  <1>15. dirty' \in BOOLEAN
    BY Zenon DEF SetBlock
  <1>16. JournalTyped' /\ DiskTyped'
    BY <1>4, <1>15 DEF SetBlock, WorldInv, TypeOK, JournalTyped, DiskTyped
  <1> QED
    BY <1>1, <1>7, <1>9, <1>12, <1>14, <1>16
       DEF WorldInv, TypeOK, TerrainTyped, JournalTyped, DiskTyped, OffIsFresh

LEMMA BreakBlockStep ==
  ASSUME WorldInv, NEW c \in Chunks, BreakBlock(c)
  PROVE  WorldInv'
  <1>1. stage \in Stages /\ stage' = OnBlockRemoved(stage, active)
    BY DEF BreakBlock, WorldInv, TypeOK
  <1>2. Air \in Materials
    BY DEF Materials
  <1> QED
    BY <1>1, <1>2, StageMovesOn, SetBlockStep DEF BreakBlock

LEMMA PlaceBlockStep ==
  ASSUME WorldInv, NEW c \in Chunks, NEW material \in Hotbar, PlaceBlock(c, material)
  PROVE  WorldInv'
  <1>1. stage \in Stages /\ stage' = OnBlockPlaced(stage, active)
    BY DEF PlaceBlock, WorldInv, TypeOK
  <1>2. material \in Materials
    BY DEF Materials
  <1> QED
    BY <1>1, <1>2, StageMovesOn, SetBlockStep DEF PlaceBlock

LEMMA FlushTickTyped == TypeOK => FlushTick \in 0..SaveDebounce
  BY WorldEditsAssumption DEF TypeOK, FlushTick

LEMMA FlushWaitsStep == WorldInv /\ FlushWaits => WorldInv'
  <1> SUFFICES ASSUME WorldInv, FlushWaits PROVE WorldInv'
    OBVIOUS
  <1>1. ~Phase("off") /\ pc' \in Phases /\ ~Phase("off")'
    BY DEF FlushWaits, Phase, Phases, Goto
  <1>2. JournalTyped' /\ DiskTyped'
    BY FlushTickTyped DEF FlushWaits, WorldInv, TypeOK, JournalTyped, DiskTyped
  <1>3. StageIsEarned' /\ MemoryCoversDisk'
    BY <1>1 DEF FlushWaits, WorldInv, StageIsEarned, MemoryCoversDisk, Earned, Covers,
       Snapshot, terrain
  <1> QED
    BY <1>1, <1>2, <1>3, TerrainKept
       DEF FlushWaits, WorldInv, TypeOK, TerrainTyped, JournalTyped, DiskTyped, OffIsFresh

LEMMA FlushSavesStep ==
  ASSUME WorldInv, NEW ok \in BOOLEAN, FlushSaves(ok)
  PROVE  WorldInv'
  <1>1. ~Phase("off") /\ pc' \in Phases /\ ~Phase("off")'
    BY DEF FlushSaves, Phase, Phases, Goto
  <1>2. stage \in Stages /\ stage >= stage /\ active \in Bodies
    BY DEF WorldInv, TypeOK, Stages, CollectSample, Complete
  <1>3. disk' = disk \/ disk' = [stage |-> stage', active |-> active', edits |-> edits]
    BY DEF FlushSaves, SavePersistentGame, Snapshot, terrain
  <1>4. DiskTyped' /\ StageIsEarned' /\ MemoryCoversDisk'
    BY <1>1, <1>2, <1>3, StageStep DEF FlushSaves, terrain
  <1>5. dirty' \in BOOLEAN
    BY Zenon DEF FlushSaves
  <1>6. JournalTyped'
    BY <1>5, WorldEditsAssumption DEF FlushSaves, WorldInv, TypeOK, JournalTyped
  <1> QED
    BY <1>1, <1>4, <1>6, TerrainKept
       DEF FlushSaves, WorldInv, TypeOK, TerrainTyped, JournalTyped, DiskTyped, OffIsFresh

LEMMA StreamTerrainStep ==
  ASSUME WorldInv, NEW keep \in SUBSET Chunks, NEW generate \in SUBSET keep,
         StreamTerrain(keep, generate)
  PROVE  WorldInv'
  <1>1. ~Phase("off") /\ pc' \in Phases /\ ~Phase("off")'
    BY DEF StreamTerrain, Phase, Phases, Goto
  <1> DEFINE chunks == [c \in Chunks |-> IF c \notin keep THEN Absent
                                         ELSE IF c \in generate THEN Ground
                                         ELSE world.chunks[c]]
  <1>2. world \in Runtime /\ world' = [world EXCEPT !.chunks = chunks]
    BY DEF StreamTerrain, WorldInv, TypeOK
  <1>3. chunks \in [Chunks -> Materials \cup {Ground, Absent}]
    BY <1>2 DEF Runtime
  <1>4. \A c \in Chunks : chunks[c] \in {Absent, Ground, world.chunks[c]}
    OBVIOUS
  <1> HIDE DEF chunks
  <1>5. world' \in Runtime /\ world'.body = world.body /\ world'.chunks = chunks
    BY <1>2, <1>3 DEF Runtime
  <1>6. TerrainTyped' /\ RuntimesAreOfTheirBodies'
    BY <1>5 DEF StreamTerrain, WorldInv, TypeOK, TerrainTyped, RuntimesAreOfTheirBodies
  <1>7. ChangedBlocksAreRecorded'
    BY <1>4, <1>5 DEF StreamTerrain, WorldInv, ChangedBlocksAreRecorded, WorldForBody,
       ParkedRuntime, journal
  <1>8. JournalTyped' /\ DiskTyped'
    BY DEF StreamTerrain, WorldInv, TypeOK, JournalTyped, DiskTyped, journal
  <1>9. StageIsEarned' /\ MemoryCoversDisk'
    BY <1>1 DEF StreamTerrain, WorldInv, StageIsEarned, MemoryCoversDisk, Earned, Covers,
       Snapshot, journal
  <1> QED
    BY <1>1, <1>6, <1>7, <1>8, <1>9
       DEF WorldInv, TypeOK, TerrainTyped, JournalTyped, DiskTyped, OffIsFresh

LEMMA StepWorld == WorldInv /\ [Next]_vars => WorldInv'
  <1> SUFFICES ASSUME WorldInv, [Next]_vars PROVE WorldInv'
    OBVIOUS
  <1>1. CASE Start \/ Shutdown \/ Crash \/ Damage
    BY <1>1, StartStep, ShutdownStep, CrashStep, DamageStep
  <1>2. CASE Frame
    <2>1. CASE \E b \in Bodies \cup {Star} : LockCourse(b)
      BY <2>1, LockCourseStep
    <2>2. CASE \E b \in Bodies : LandByAssist(b) \/ TransferShip(b)
      BY <2>2, LandByAssistStep, TransferShipStep
    <2>3. CASE Touchdown \/ FlushWaits \/ \E ok \in BOOLEAN : FlushSaves(ok)
      BY <2>3, TouchdownStep, FlushWaitsStep, FlushSavesStep
    <2>4. CASE \E c \in Chunks : BreakBlock(c)
      BY <2>4, BreakBlockStep
    <2>5. CASE \E c \in Chunks, m \in Hotbar : PlaceBlock(c, m)
      BY <2>5, PlaceBlockStep
    <2>6. CASE \E keep \in SUBSET Chunks : \E generate \in SUBSET keep :
                  StreamTerrain(keep, generate)
      BY <2>6, StreamTerrainStep
    <2>7. CASE \/ Skip("session", "assist") \/ Skip("assist", "simulate")
               \/ Skip("simulate", "transfer") \/ Skip("transfer", "blocks")
               \/ Skip("blocks", "flush")
      <3>1. {"session", "assist", "simulate", "transfer", "blocks", "flush"} \subseteq Phases
        BY DEF Phases
      <3> QED
        BY <2>7, <3>1, SkipStep
    <2> QED
      BY <1>2, <2>1, <2>2, <2>3, <2>4, <2>5, <2>6, <2>7 DEF Frame
  <1>3. CASE UNCHANGED vars
    BY <1>3 DEF vars, terrain, journal, WorldInv, TypeOK, RuntimesAreOfTheirBodies,
       ChangedBlocksAreRecorded, StageIsEarned, MemoryCoversDisk, OffIsFresh,
       WorldForBody, ParkedRuntime, Earned, Snapshot, Phase
  <1> QED
    BY <1>1, <1>2, <1>3 DEF Next
-----------------------------------------------------------------------------
(* The properties *)

LEMMA WorldInvHolds == Spec => []WorldInv
  BY InitWorld, StepWorld, PTL DEF Spec

\* The worlds, the journal and the file keep their types.
THEOREM TypeOKHolds == Spec => []TypeOK
  <1>1. WorldInv => TypeOK
    BY DEF WorldInv
  <1> QED
    BY <1>1, WorldInvHolds, PTL

\* However the player travels between any number of bodies, each runtime stays with
\* the body it was built for.
THEOREM RuntimesStayWithBodies == Spec => []RuntimesAreOfTheirBodies
  <1>1. WorldInv => RuntimesAreOfTheirBodies
    BY DEF WorldInv
  <1> QED
    BY <1>1, WorldInvHolds, PTL

\* No block differs from the generated terrain without being recorded for the save.
THEOREM ChangesAreRecorded == Spec => []ChangedBlocksAreRecorded
  <1>1. WorldInv => ChangedBlocksAreRecorded
    BY DEF WorldInv
  <1> QED
    BY <1>1, WorldInvHolds, PTL

\* The expedition is never ahead of the blocks it needs, in memory and on the disk.
THEOREM StageIsAlwaysEarned == Spec => []StageIsEarned
  <1>1. WorldInv => StageIsEarned
    BY DEF WorldInv
  <1> QED
    BY <1>1, WorldInvHolds, PTL

\* A running game holds whatever a start would find.
THEOREM MemoryAlwaysCoversDisk == Spec => []MemoryCoversDisk
  <1>1. WorldInv => MemoryCoversDisk
    BY DEF WorldInv
  <1> QED
    BY <1>1, WorldInvHolds, PTL

\* Runtimes, journal, expedition and saved game agree, for any number of bodies and
\* chunks, over failed saves, crashes and damaged files.
THEOREM WorldStaysSound == Spec => []WorldIsSound
  <1>1. WorldInv => WorldIsSound
    BY DEF WorldInv, WorldIsSound
  <1> QED
    BY <1>1, WorldInvHolds, PTL

\* A game with the edits of the memory and a stage no earlier covers what is on the
\* disk while the game runs.
LEMMA LaterGameCovers ==
  ASSUME WorldInv, ~Phase("off"), disk \in SavedGame,
         NEW s \in Stages, s >= stage, NEW b
  PROVE  Covers([stage |-> s, active |-> b, edits |-> edits], disk)
  BY DEF WorldInv, TypeOK, MemoryCoversDisk, Covers, Snapshot, SavedGame, Stages,
     CollectSample, Complete

\* Every step that writes a saved game writes such a game.
LEMMA StepKeepsProgress ==
  ASSUME WorldInv, [Next]_vars, disk \in SavedGame, disk' \in SavedGame
  PROVE  Covers(disk', disk)
  <1>0. stage \in Stages /\ stage >= stage
    BY DEF WorldInv, TypeOK, Stages, CollectSample, Complete
  <1>1. CASE disk' = disk
    BY <1>1, CoversItself
  <1>2. CASE Shutdown
    <2>1. disk' = disk \/ disk' = [stage |-> stage, active |-> active, edits |-> edits]
      BY <1>2 DEF Shutdown, SavePersistentGame
    <2> QED
      BY <1>0, <1>1, <1>2, <2>1, LaterGameCovers DEF Shutdown, Phase
  <1>3. ASSUME NEW b \in Bodies \cup {Star}, LockCourse(b)
        PROVE  Covers(disk', disk)
    <2>1. stage' \in Stages /\ stage' >= stage
      BY <1>0, <1>3, StageMovesOn DEF LockCourse
    <2>2. disk' = disk \/ disk' = [stage |-> stage', active |-> active, edits |-> edits]
      BY <1>3 DEF LockCourse, SavePersistentGame
    <2> QED
      BY <1>1, <1>3, <2>1, <2>2, LaterGameCovers DEF LockCourse, Phase
  <1>4. ASSUME NEW b \in Bodies, LandByAssist(b)
        PROVE  Covers(disk', disk)
    <2>1. stage' \in Stages /\ stage' >= stage
      BY <1>0, <1>4, StageMovesOn DEF LandByAssist
    <2>2. disk' = disk \/ disk' = [stage |-> stage', active |-> b, edits |-> edits]
      BY <1>4 DEF LandByAssist, SavePersistentGame
    <2> QED
      BY <1>1, <1>4, <2>1, <2>2, LaterGameCovers DEF LandByAssist, Phase
  <1>5. ASSUME NEW ok \in BOOLEAN, FlushSaves(ok)
        PROVE  Covers(disk', disk)
    <2>1. disk' = disk \/ disk' = [stage |-> stage, active |-> active, edits |-> edits]
      BY <1>5 DEF FlushSaves, SavePersistentGame, Snapshot
    <2> QED
      BY <1>0, <1>1, <1>5, <2>1, LaterGameCovers DEF FlushSaves, Phase
  <1>6. CASE Damage
    BY <1>6, SavedGameAssumption DEF Damage
  <1>7. \/ disk' = disk \/ Shutdown \/ Damage
        \/ \E b \in Bodies \cup {Star} : LockCourse(b)
        \/ \E b \in Bodies : LandByAssist(b)
        \/ \E ok \in BOOLEAN : FlushSaves(ok)
    BY DEF Next, Frame, Start, Crash, Skip, Touchdown, TransferShip, BreakBlock,
       PlaceBlock, SetBlock, FlushWaits, StreamTerrain, vars
  <1> QED
    BY <1>1, <1>2, <1>3, <1>4, <1>5, <1>6, <1>7

\* Over saves that fail, crashes and restarts, no saved game lacks what an earlier one
\* held, as long as the file can be decoded.
THEOREM SavedProgressStays == Spec => SavedProgressIsKept
  <1>1. WorldInv /\ [Next]_vars =>
            [{disk, disk'} \subseteq SavedGame => Covers(disk', disk)]_vars
    BY StepKeepsProgress
  <1> QED
    BY <1>1, WorldInvHolds, PTL DEF Spec, SavedProgressIsKept

\* The only step that starts the game
LEMMA StartsAreStarts ==
  ASSUME [Next]_vars, Phase("off"), Phase("session")'
  PROVE  Start
  BY DEF Next, Frame, LockCourse, LandByAssist, Touchdown, TransferShip, BreakBlock,
     PlaceBlock, FlushWaits, FlushSaves, StreamTerrain, Skip, Shutdown, Crash, Damage,
     Phase, vars

\* A start shows every saved edit on its body, on however many bodies and whichever of
\* them was active.
THEOREM ReloadAlwaysShowsEveryEdit == Spec => ReloadShowsEveryEdit
  <1> DEFINE Shown == \A b \in Bodies, c \in Chunks :
                         edits'[<<b, c>>] # NoEdit =>
                             WorldForBody(b)'.chunks[c] = edits'[<<b, c>>]
  <1>1. ASSUME WorldInv, [Next]_vars, Phase("off"), Phase("session")'
        PROVE  Shown
    <2>1. Start
      BY <1>1, StartsAreStarts
    <2>2. CASE disk \in {NoSave, Damaged}
      BY <1>1, <2>1, <2>2 DEF Start, WorldInv, OffIsFresh, NoEdits
    <2>3. CASE disk \notin {NoSave, Damaged}
      <3>1. disk \in SavedGame /\ Load(disk)
        BY <1>1, <2>1, <2>3 DEF Start, WorldInv, TypeOK
      <3> QED
        BY <3>1, LoadKeeps
    <2> QED
      BY <2>2, <2>3
  <1>2. WorldInv /\ [Next]_vars => [Phase("off") /\ Phase("session")' => Shown]_vars
    BY <1>1
  <1> QED
    BY <1>2, WorldInvHolds, PTL DEF Spec, ReloadShowsEveryEdit
=============================================================================
