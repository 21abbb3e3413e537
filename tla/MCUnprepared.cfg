SPECIFICATION Spec
CONSTANTS
    files = files
    apps = apps
    web = web
    Libraries = {files, web}
    DesktopFiles = {files, apps}
    Broken = {web}
    NameOf <- MCNameOf
    Requested = {files, apps, web}
    Terms = {"a"}
    Rejects <- MCRejects
    LoadAll = FALSE
    EnabledSets <- MCEnabledSets
    WhiteLists <- MCWhiteLists
    None = None
    Places <- MCPlaces
INVARIANT PreparedWhenAsked
