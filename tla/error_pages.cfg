CONSTANTS
    Ast <- TheTree
    Quads <- TheQuads
    Servers <- Site
    Cwd <- TheCwd
    Dirs <- TheDirs
    Requests <- SomeRequests
    Probes <- TheProbes
    UploadNames <- TheUploadNames
    Locked <- TheLocked
    FirstFiles <- TheFirstFiles
SPECIFICATION Spec
INVARIANTS
    PagesAsConfigured
