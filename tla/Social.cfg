\* Two accounts, one guild, one zone and one connection of a player.
CONSTANTS
    Accounts = {a, b}
    Guilds = {g}
    Zones = {z}
    Conns = {c}
    MaxChanges = 2
    MaxCrashes = 2
    MaxQueue = 2
SPECIFICATION FairSpec
INVARIANTS ZoneFollows SurvivesRestart NoEavesdropper
PROPERTY BacklogIsServed
CHECK_DEADLOCK FALSE
