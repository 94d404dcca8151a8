\* Two assets that come, go and change their profile.
SPECIFICATION Spec
CONSTANTS
    Assets = {a1, a2}
    Profiles = {"vm", "docker-container", "docker-host"}
    Choices = {{"sensor", "binary_sensor", "switch"}, {"binary_sensor"}}
    NoData = NoData
SYMMETRY Symmetry
INVARIANTS
    TypeOK
    NoStaleRecords
    MembersHaveEntities
    LiveEntitiesHaveRecords
PROPERTIES
    RemovalsAreJustified
    LegacyRecordsMigrate
