SPECIFICATION Spec
CONSTANTS
    CommandLines <- MCCommandLines
    Files <- MCFiles
    Clients <- MCClients
INVARIANTS
    SettingsAsWritten
    DevicesAsListed
    GeneratedFileIsDefault
    PermissionsRespected
    WorkReachable
