CONSTANTS
    None = None
    Target = Target
    Stage = Stage
    Backup = Backup
    New = New
    Old = Old
    Foreign = Foreign
    Names <- MCNames
    Objects <- MCObjects
    Placements <- MCPlacements
    Workloads <- RenameWorkloads
SPECIFICATION Spec
INVARIANTS
    RenameReplays
