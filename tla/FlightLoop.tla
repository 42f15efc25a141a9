----------------------------- MODULE FlightLoop ------------------------------
(***************************************************************************)
(* What flight_loop_callback (plugin.c) computes from a boost frame and    *)
(* its own past: ground contact, the blending between PSX's elevation and  *)
(* X-Plane's terrain, and what it injects or, while suspended, calculates  *)
(* back.  Fractions and their factor are in units of 1/UNIT; the smoothed  *)
(* one is the sum and number of raw fractions it is the average of.  How   *)
(* the speed is found is in FrameHistory, the poses in Mover: here they    *)
(* are chosen.                                                             *)
(***************************************************************************)
EXTENDS Integers, FiniteSetsExt

CONSTANTS
    UNIT,
    INIT_CYCLES_TO_OVERRIDE_PLANE_PATH,
    TERRAIN_ELEVATION_MAX_AGE_CYCLES,
    MAX_GROUND_CONTACT_CYCLES,
    MAX_NUM_RAW_ELEVATION_BLENDING_FRACTIONS,
    MAX_ACCELERATED_GROUND_SPEED,
    firm_ground_speed, lift_ground_speed, low_speed_fraction_factor,
    Speeds,         \* that may result from two frames
    Elevations,     \* of PSX, of terrain and of X-Plane's aircraft, without offset
    Datarefs,       \* the flags that are written in this instance
    Disconnects,    \* whether connections are lost in this instance
    NAN

VARIABLES
    main,                       \* where the flight loop is
    settings,                   \* the writable flags
    cycles_to_override_plane_path, planepath_overridden,
    boost_frame, boost_frame_applied,
    boost_frame_copy, is_new_boost_frame,
    clearing,                   \* the slot reset_psx_data clears next, N: its index
    calculated_ground_speed, low_speed_fraction, ground_contact_cycles,
    raw_elevation_blending_fractions, next_raw_elevation_blending_fractions_index,
    index,                      \* local: as read from the ring's, or where averaging is
    average,                    \* local: sum and number of what was averaged so far
    elevation_blending_fraction,
    terrain_elevation_meters, terrain_elevation_remaining_cycles,
    local_y,                    \* X-Plane's, as elevation
    psx_elevation,              \* dataref as the latest cycle wrote it, NAN if it did not
    pose_elevation,             \* history: elevation of the pose that was just injected
    probed_ago,                 \* history: cycles since the terrain was probed
    contact,                    \* history: cycles with the same ground contact, and
    settled                     \* frames recorded once there were enough of them;
                                \* pure: only such frames since the latest reset

planepathVars == <<cycles_to_override_plane_path, planepath_overridden>>
frameVars == <<boost_frame, boost_frame_applied>>
copyVars == <<boost_frame_copy, is_new_boost_frame>>
speedVars == <<calculated_ground_speed, low_speed_fraction>>
localVars == <<index, average>>
ringVars == <<raw_elevation_blending_fractions, next_raw_elevation_blending_fractions_index>>
terrainVars == <<terrain_elevation_meters, terrain_elevation_remaining_cycles, probed_ago>>
outputVars == <<local_y, psx_elevation, pose_elevation>>
contactVars == <<ground_contact_cycles, contact>>
vars == <<main, settings, planepathVars, frameVars, copyVars, clearing, speedVars,
          contactVars, ringVars, localVars, elevation_blending_fraction, terrainVars,
          outputVars, settled>>

N == MAX_NUM_RAW_ELEVATION_BLENDING_FRACTIONS
Slots == 0 .. N - 1
NotClearing == N + 1
Flags == {"suspend_injection", "suspend_terrain_blending", "always_update_elevation_info",
          "interpolate"}
Frame == [ground_contact : BOOLEAN, elevation : Elevations]
Fraction == 0 .. UNIT
Average == {a \in [sum : Nat, count : 0 .. N] : a.sum <= UNIT * a.count}
NoFrame == [ground_contact |-> FALSE, elevation |-> Min(Elevations)]
None == [sum |-> 0, count |-> 0]
Between(a, b) == Min({a, b}) .. Max({a, b})
Capped(n, max) == Min({n, max})

ASSUME FlightLoopAssumption ==
    /\ UNIT \in Nat \ {0} /\ N \in Nat \ {0} /\ MAX_GROUND_CONTACT_CYCLES \in Nat \ {0}
    /\ INIT_CYCLES_TO_OVERRIDE_PLANE_PATH \in Nat /\ TERRAIN_ELEVATION_MAX_AGE_CYCLES \in Nat
    /\ MAX_ACCELERATED_GROUND_SPEED \in Nat /\ Speeds \subseteq Nat
    /\ firm_ground_speed \in Nat /\ lift_ground_speed \in Nat
    /\ firm_ground_speed < lift_ground_speed
    /\ low_speed_fraction_factor \in Nat
    /\ Elevations \subseteq Int /\ \E least \in Elevations : \A e \in Elevations : least <= e
    /\ Datarefs \subseteq Flags
    /\ NAN \notin Int

TypeOK ==
    /\ main \in {"idle", "evaluate", "record", "count", "advance", "average", "inject"}
    /\ settings \in [Flags -> BOOLEAN]
    /\ cycles_to_override_plane_path \in -1 .. INIT_CYCLES_TO_OVERRIDE_PLANE_PATH
    /\ planepath_overridden \in BOOLEAN
    /\ boost_frame \in Frame /\ boost_frame_applied \in BOOLEAN
    /\ boost_frame_copy \in Frame /\ is_new_boost_frame \in BOOLEAN
    /\ clearing \in 0 .. NotClearing
    /\ calculated_ground_speed \in 0 .. MAX_ACCELERATED_GROUND_SPEED
    /\ low_speed_fraction \in Fraction
    /\ ground_contact_cycles \in 0 .. MAX_GROUND_CONTACT_CYCLES
    /\ raw_elevation_blending_fractions \in [Slots -> Fraction \cup {NAN}]
    /\ next_raw_elevation_blending_fractions_index \in Slots
    /\ index \in Slots
    /\ average \in Average /\ (main = "average" => average.count <= index)
    /\ elevation_blending_fraction \in Average
    /\ terrain_elevation_meters \in Elevations \cup {NAN}
    /\ terrain_elevation_remaining_cycles \in -1 .. TERRAIN_ELEVATION_MAX_AGE_CYCLES
    /\ local_y \in Int /\ psx_elevation \in Int \cup {NAN}
    /\ pose_elevation \in Elevations
    /\ probed_ago \in 0 .. TERRAIN_ELEVATION_MAX_AGE_CYCLES + 1
    /\ contact \in [in : BOOLEAN, cycles : 0 .. MAX_GROUND_CONTACT_CYCLES]
    /\ settled \in [air : 0 .. N, ground : 0 .. N, pure : BOOLEAN]

\* Right after XPluginEnable; elevations do not matter until there is a frame.
Init ==
    /\ main = "idle"
    /\ settings = [flag \in Flags |-> flag = "interpolate"]
    /\ cycles_to_override_plane_path = INIT_CYCLES_TO_OVERRIDE_PLANE_PATH
    /\ planepath_overridden = FALSE
    /\ boost_frame = NoFrame /\ boost_frame_applied = TRUE
    /\ boost_frame_copy = NoFrame
    /\ is_new_boost_frame = FALSE
    /\ clearing = NotClearing
    /\ calculated_ground_speed = 0
    /\ low_speed_fraction = 0
    /\ ground_contact_cycles = 0
    /\ raw_elevation_blending_fractions = [s \in Slots |-> NAN]
    /\ next_raw_elevation_blending_fractions_index = 0
    /\ index = 0 /\ average = None
    /\ elevation_blending_fraction = None
    /\ terrain_elevation_meters = NAN
    /\ terrain_elevation_remaining_cycles = 0
    /\ local_y = Min(Elevations)
    /\ psx_elevation = NAN
    /\ pose_elevation = Min(Elevations)
    /\ probed_ago = 0
    /\ contact = [in |-> FALSE, cycles |-> 0]
    /\ settled = [air |-> 0, ground |-> 0, pure |-> TRUE]
-----------------------------------------------------------------------------
\* The connection thread, under the mutex the flight loop takes for its snapshot only.
Receive ==
    /\ clearing = NotClearing
    /\ boost_frame' \in Frame
    /\ boost_frame_applied' = FALSE
    /\ UNCHANGED <<main, settings, planepathVars, copyVars, clearing, speedVars, contactVars,
                   ringVars, localVars, elevation_blending_fraction, terrainVars, outputVars,
                   settled>>

\* reset_psx_data, when a connection is made or lost.
ResetBegin ==
    /\ Disconnects /\ clearing = NotClearing
    /\ clearing' = 0
    /\ settled' = [settled EXCEPT !.pure = TRUE]
    /\ UNCHANGED <<main, settings, planepathVars, frameVars, copyVars, speedVars, contactVars,
                   ringVars, localVars, elevation_blending_fraction, terrainVars, outputVars>>

\* clear_raw_elevation_blending_fractions: the slots one by one, then the index.
ResetSlot ==
    /\ clearing \in Slots
    /\ raw_elevation_blending_fractions' =
         [raw_elevation_blending_fractions EXCEPT ![clearing] = NAN]
    /\ clearing' = clearing + 1
    /\ settled' = [settled EXCEPT !.ground = 0]
    /\ UNCHANGED <<main, settings, planepathVars, frameVars, copyVars, speedVars, contactVars,
                   next_raw_elevation_blending_fractions_index, localVars,
                   elevation_blending_fraction, terrainVars, outputVars>>

\* What else reset_psx_data resets is in Mover; its unlock ends it.
ResetIndex ==
    /\ clearing = N
    /\ next_raw_elevation_blending_fractions_index' = 0
    /\ clearing' = NotClearing
    /\ UNCHANGED <<main, settings, planepathVars, frameVars, copyVars, speedVars, contactVars,
                   raw_elevation_blending_fractions, localVars, elevation_blending_fraction,
                   terrainVars, outputVars, settled>>

\* X-Plane, between flight loops: another plugin or the user writes a flag, or moves the
\* aircraft while it is not ours.
WriteFlag ==
    /\ main = "idle"
    /\ \E flag \in Datarefs : settings' = [settings EXCEPT ![flag] = ~@]
    /\ UNCHANGED <<main, planepathVars, frameVars, copyVars, clearing, speedVars, contactVars,
                   ringVars, localVars, elevation_blending_fraction, terrainVars, outputVars,
                   settled>>

MoveAircraft ==
    /\ main = "idle" /\ settings["suspend_injection"]
    /\ local_y' \in Elevations
    /\ UNCHANGED <<main, settings, planepathVars, frameVars, copyVars, clearing, speedVars,
                   contactVars, ringVars, localVars, elevation_blending_fraction, terrainVars,
                   psx_elevation, pose_elevation, settled>>
-----------------------------------------------------------------------------
\* Once per plugin initialization, after some cycles.
OverridePlanepath ==
    /\ planepath_overridden' = (planepath_overridden \/ cycles_to_override_plane_path = 0)
    /\ cycles_to_override_plane_path' =
         IF cycles_to_override_plane_path >= 0 THEN cycles_to_override_plane_path - 1
         ELSE cycles_to_override_plane_path

\* Mutant: only counts cycles with a new frame.
ExpireTerrainOnFrames ==
    /\ terrain_elevation_meters' =
         IF terrain_elevation_remaining_cycles = 0 THEN NAN ELSE terrain_elevation_meters
    /\ terrain_elevation_remaining_cycles' =
         IF terrain_elevation_remaining_cycles >= 0 /\ ~boost_frame_applied
         THEN terrain_elevation_remaining_cycles - 1 ELSE terrain_elevation_remaining_cycles
    /\ probed_ago' = Capped(probed_ago + 1, TERRAIN_ELEVATION_MAX_AGE_CYCLES + 1)

ExpireTerrain ==
    /\ terrain_elevation_meters' =
         IF terrain_elevation_remaining_cycles = 0 THEN NAN ELSE terrain_elevation_meters
    /\ terrain_elevation_remaining_cycles' =
         IF terrain_elevation_remaining_cycles >= 0
         THEN terrain_elevation_remaining_cycles - 1 ELSE terrain_elevation_remaining_cycles
    /\ probed_ago' = Capped(probed_ago + 1, TERRAIN_ELEVATION_MAX_AGE_CYCLES + 1)

\* From its start to the end of the locked section; without anything new it returns.
Begin ==
    /\ main = "idle" /\ clearing = NotClearing
    /\ OverridePlanepath
    /\ ExpireTerrain
    /\ boost_frame_applied' = TRUE
    /\ IF ~boost_frame_applied \/ settings["interpolate"]
       THEN /\ boost_frame_copy' = boost_frame
            /\ is_new_boost_frame' = ~boost_frame_applied
            /\ main' = "evaluate"
       ELSE UNCHANGED <<main, copyVars>>
    /\ pose_elevation' = Min(Elevations) /\ psx_elevation' = NAN
    /\ UNCHANGED <<settings, boost_frame, clearing, speedVars, contactVars, ringVars, localVars,
                   elevation_blending_fraction, local_y, settled>>

LowSpeedFraction(speed) ==
    IF speed <= firm_ground_speed THEN UNIT
    ELSE IF speed >= lift_ground_speed THEN 0
    ELSE UNIT - (((speed - firm_ground_speed) * UNIT) \div (lift_ground_speed - firm_ground_speed))

ContactCycles(ground_contact) ==
    IF ground_contact THEN Capped(ground_contact_cycles + 1, MAX_GROUND_CONTACT_CYCLES)
    ELSE Max({ground_contact_cycles - 1, 0})

RawFraction(low_speed, contact_fraction) ==
    CASE \/ low_speed = 0 /\ contact_fraction = 0
         \/ settings["suspend_terrain_blending"] -> 0
      [] OTHER ->
           Max({contact_fraction - (((UNIT - low_speed) * low_speed_fraction_factor) \div UNIT), 0})

raw_elevation_blending_fraction ==
    RawFraction(low_speed_fraction,
                (ground_contact_cycles * UNIT) \div MAX_GROUND_CONTACT_CYCLES)

\* Ground speed and contact, all that the raw blending fraction takes.  It is recorded once
\* per boost frame, where the ring's index says: that is read here.
Evaluate ==
    /\ main = "evaluate"
    /\ \E speed \in Speeds \cup {calculated_ground_speed} :
         calculated_ground_speed' = Capped(speed, MAX_ACCELERATED_GROUND_SPEED)
    /\ low_speed_fraction' = LowSpeedFraction(calculated_ground_speed')
    /\ ground_contact_cycles' = ContactCycles(boost_frame_copy.ground_contact)
    /\ contact' = [in |-> boost_frame_copy.ground_contact,
                   cycles |-> IF contact.in = boost_frame_copy.ground_contact
                              THEN Capped(contact.cycles + 1, MAX_GROUND_CONTACT_CYCLES) ELSE 1]
    /\ IF is_new_boost_frame
       THEN main' = "record" /\ index' = next_raw_elevation_blending_fractions_index
       ELSE main' = "average" /\ UNCHANGED index
    /\ UNCHANGED <<settings, planepathVars, frameVars, copyVars, clearing, ringVars, average,
                   elevation_blending_fraction, terrainVars, outputVars, settled>>

\* record_raw_elevation_blending_fraction: the fraction goes where the index was.
Record ==
    /\ main = "record"
    /\ main' = "count"
    /\ raw_elevation_blending_fractions' =
         [raw_elevation_blending_fractions EXCEPT ![index] = raw_elevation_blending_fraction]
    /\ settled' =
         LET long == contact.cycles = MAX_GROUND_CONTACT_CYCLES
             ground == /\ long /\ contact.in
                       /\ calculated_ground_speed <= firm_ground_speed
                       /\ ~settings["suspend_terrain_blending"]
         IN  [air |-> IF long /\ ~contact.in THEN Capped(settled.air + 1, N) ELSE 0,
              ground |-> IF ground THEN Capped(settled.ground + 1, N) ELSE 0,
              pure |-> settled.pure /\ ground]
    /\ index' = 0
    /\ UNCHANGED <<settings, planepathVars, frameVars, copyVars, clearing, speedVars,
                   contactVars, next_raw_elevation_blending_fractions_index, average,
                   elevation_blending_fraction, terrainVars, outputVars>>

\* The index is read once more; how many were recorded is counted as well, but never read.
Count ==
    /\ main = "count"
    /\ main' = "advance"
    /\ index' = next_raw_elevation_blending_fractions_index
    /\ UNCHANGED <<settings, planepathVars, frameVars, copyVars, clearing, speedVars,
                   contactVars, ringVars, average, elevation_blending_fraction, terrainVars,
                   outputVars, settled>>

\* A reset since then is lost.
Advance ==
    /\ main = "advance"
    /\ main' = "average"
    /\ next_raw_elevation_blending_fractions_index' = (index + 1) % N
    /\ index' = 0
    /\ UNCHANGED <<settings, planepathVars, frameVars, copyVars, clearing, speedVars,
                   contactVars, raw_elevation_blending_fractions, average,
                   elevation_blending_fraction, terrainVars, outputVars, settled>>

\* Mutant: a place without a fraction counts as flight.
AveragedWithAny(fraction) ==
    [sum |-> average.sum + (IF fraction = NAN THEN 0 ELSE fraction),
     count |-> average.count + 1]

AveragedWith(fraction) ==
    IF fraction = NAN THEN average
    ELSE [sum |-> average.sum + fraction, count |-> average.count + 1]

\* get_average_elevation_blending_fraction, slot by slot; flight if there are no fractions.
AverageSlot ==
    /\ main = "average"
    /\ average' = AveragedWith(raw_elevation_blending_fractions[index])
    /\ IF index = N - 1 THEN main' = "inject" /\ index' = 0
       ELSE index' = index + 1 /\ UNCHANGED main
    /\ UNCHANGED <<settings, planepathVars, frameVars, copyVars, clearing, speedVars,
                   contactVars, ringVars, elevation_blending_fraction, terrainVars, outputVars,
                   settled>>

IsFlight(fraction) == fraction.sum = 0
IsGround(fraction) == ~IsFlight(fraction) /\ fraction.sum = UNIT * fraction.count

\* elevation_blending_offset; none where the elevation is replaced by the terrain's.
Offset(fraction, elevation, terrain) ==
    IF IsFlight(fraction) \/ IsGround(fraction) \/ terrain = NAN THEN 0
    ELSE -((fraction.sum * (elevation - terrain)) \div (fraction.count * UNIT))

Adjusted(fraction, elevation, terrain) ==
    IF IsGround(fraction) /\ terrain # NAN THEN terrain
    ELSE elevation + Offset(fraction, elevation, terrain)

\* Mutant: the offset is applied once more.
ReversedForward(y, offset) == y + offset

\* From X-Plane's elevation to PSX's.
Reversed(y, offset) == y - offset

\* The terrain probe, if needed; it may miss, or hit an object.
Probe ==
    /\ IsFlight(elevation_blending_fraction') => settings["always_update_elevation_info"]
    /\ terrain_elevation_meters' \in Elevations
    /\ terrain_elevation_remaining_cycles' = TERRAIN_ELEVATION_MAX_AGE_CYCLES
    /\ probed_ago' = 0

\* From the average to the end, where the locals are gone.
Inject ==
    /\ main = "inject"
    /\ main' = "idle"
    /\ elevation_blending_fraction' = average /\ average' = None
    /\ Probe \/ UNCHANGED terrainVars
    /\ pose_elevation' \in IF settings["interpolate"] THEN Elevations
                           ELSE {boost_frame_copy.elevation}
    /\ IF ~settings["suspend_injection"]
       THEN /\ local_y' = Adjusted(elevation_blending_fraction', pose_elevation',
                                   terrain_elevation_meters')
            /\ psx_elevation' = boost_frame_copy.elevation
       ELSE /\ psx_elevation' =
                 IF is_new_boost_frame
                 THEN Reversed(local_y, Offset(elevation_blending_fraction', pose_elevation',
                                               terrain_elevation_meters'))
                 ELSE psx_elevation
            /\ UNCHANGED local_y
    /\ boost_frame_copy' = NoFrame /\ is_new_boost_frame' = FALSE
    /\ UNCHANGED <<settings, planepathVars, frameVars, clearing, speedVars, contactVars,
                   ringVars, index, settled>>

ConnectionNext == Receive \/ ResetBegin \/ ResetSlot \/ ResetIndex

XPlaneNext == WriteFlag \/ MoveAircraft

FlightLoopNext ==
    Begin \/ Evaluate \/ Record \/ Count \/ Advance \/ AverageSlot \/ Inject

Next == ConnectionNext \/ XPlaneNext \/ FlightLoopNext

Spec == Init /\ [][Next]_vars
-----------------------------------------------------------------------------
\* Without ground contact for long enough, and N frames later, PSX's elevation applies
\* unadjusted, no matter when fractions were cleared.
AirborneUnadjusted == settled.air = N => IsFlight(elevation_blending_fraction)

\* With ground contact for long enough and slow, the aircraft is pinned to the ground N
\* frames later, or by the first frame after a reset has cleared all slots.
GroundPinned ==
    \/ settled.ground = N
    \/ settled.pure /\ settled.ground > 0 /\ clearing \notin Slots
    => IsGround(elevation_blending_fraction)

\* plugin.c, 1342-1366, 989-1033, and 762-768 between any two of their accesses: blending
\* ends on either side in time, and a reset leaves nothing of an earlier connection behind
\* but what the cycle records that is under way.
BlendingSettles == main = "idle" => AirborneUnadjusted /\ GroundPinned

\* plugin.c, 1147-1163: the terrain elevation that adjusts the position was probed
\* recently, even if frames stop coming or the probes miss.
NoStaleTerrain ==
    terrain_elevation_meters # NAN => probed_ago <= TERRAIN_ELEVATION_MAX_AGE_CYCLES

\* What Inject makes of PSX's elevation.
Target ==
    Adjusted(elevation_blending_fraction', pose_elevation', terrain_elevation_meters')

InjectedBetween ==
    ~settings["suspend_injection"] =>
        IF terrain_elevation_meters' = NAN THEN local_y' = pose_elevation'
        ELSE local_y' \in Between(pose_elevation', terrain_elevation_meters')

CalculatedBack ==
    (/\ settings["suspend_injection"] /\ is_new_boost_frame
     /\ local_y = Target /\ ~IsGround(elevation_blending_fraction'))
    => psx_elevation' = pose_elevation'

\* plugin.c, 1407-1427 and 1452-1466: what is injected lies between PSX's elevation and the
\* terrain's; while suspended, an aircraft that is where it would be injected is calculated
\* back to where PSX has it, unless it is pinned to the ground.
ElevationTranslated == [][Inject => InjectedBetween /\ CalculatedBack]_vars
=============================================================================
