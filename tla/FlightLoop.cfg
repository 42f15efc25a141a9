SPECIFICATION Spec
CONSTANTS
    UNIT = 2
    INIT_CYCLES_TO_OVERRIDE_PLANE_PATH = 0
    TERRAIN_ELEVATION_MAX_AGE_CYCLES = 1
    MAX_GROUND_CONTACT_CYCLES = 1
    MAX_NUM_RAW_ELEVATION_BLENDING_FRACTIONS = 2
    MAX_ACCELERATED_GROUND_SPEED = 3
    firm_ground_speed = 1
    lift_ground_speed = 3
    low_speed_fraction_factor = 1
    Speeds <- MCSpeeds
    Elevations <- MCElevations
    Datarefs <- MCDatarefs
    Disconnects = TRUE
    NAN = NAN
INVARIANTS
    BlendingSettles
    NoStaleTerrain
PROPERTY
    ElevationTranslated
