\* Each service alone: see the bounds in the README.
SPECIFICATION Spec
CONSTANTS
    \* WGSockets
    WG_MAX_SOCKETS = 2
    WG_MAX_IOCP_SOCK = 1
    HostFds = {3, 4, 5}
    Keys = {7}
    Overlappeds = {o1}
    PortCapacity = 1
    MaxInbox = 1
    \* WGAddresses
    HostAddresses = {a1, a2}
    MaxResults = 2
    MaxBuffer = 28
    \* WGHttp
    WG_MAX_HTTP = 3
    Servers = {A}
    MaxBody = 2
    MaxHeaders = 1
    HttpGuest = {}
    \* WGHttpText
    WIDE_MAX = 2
    MaxText = 3
    MaxUrl = 2
    \* WGDecode
    LeadBytes <- McPrefixes
    ModRMs <- McModRMs
    Sibs <- McSibs
    \* WGInterp
    QWORD = 5
    DWORD = 4
    BYTE = 2
    MaxStack = 7
    \* WGSchannel
    WG_MAX_TLS = 2
    MaxHandle = 3
    Flight = 2
    MaxRecords = 2
    HeaderSize = 5
    TrailerSize = 32
    Plains = {2, 10}
    \* WGOpenSSL
    WG_OSSL_MAX = 1
    Objects = {1, 2}
    NoObject = 0
    MaxBytes = 3
    \* WGDesktop
    WG_MAX_WINDOWS = 2
    MAX_DCS = 1
    MAX_BITMAPS = 1
    MaxMade = 2
    MaxDrawings = 2
    MaxPrograms = 2
    \* WGRaster
    W = 3
    H = 2
    Coordinates <- McCoordinates
    Sizes2D <- McSizes
    Scales <- McScales
    \* WGFiles
    WG_MAX_FILE_HANDLES = 1
    MaxOpens = 2
    MaxSize = 1
    FileBytes = {1}
    Spellings <- McSpellings
    Folders <- McFolders
    \* WGDialogs
    MaxControls = 3
    MaxDialogWindows = 3
    MaxControlsMade = 4
    Templates <- McTemplates
    \* WGMapper
    WG_MAPPER_CAPACITY = 680
    Imports <- McImports
    Wanted <- McWanted
    \* WGLoader
    PE_MAX_IMPORTS = 4
    PE_MAX_IMPORT_FUNCS = 2
    ModuleSlots = 2
    PageWords = 2
    DllUnit = 4
    DllBase = 40
    MaxImages = 2
    Scratch <- McScratch
    Programs <- McPrograms
    Dlls <- McDlls
INVARIANTS
    ServicesTypeOK
    DescriptorsOwned
    ToldOnce
    AddressesRight
    
    
    
    
    
    
    WireInOrder
    
    
    
    
    ImagesRight
    
CHECK_DEADLOCK FALSE
