----------------------------- MODULE WGMapper ------------------------------
(***************************************************************************)
(* The table of Win32 stubs (wg_dll_mapper.c) and those who ask it for an  *)
(* address: the import tables of a program and its DLLs, GetProcAddress,   *)
(* WSAIoctl and the COM objects of wg_engine.c.                            *)
(*                                                                         *)
(* A call of a stub pops as many arguments as its entry says, so an entry  *)
(* with a wrong count, or a name that misses its entry and is stubbed with *)
(* none, moves the guest's stack. Entries carry their DLL, their function  *)
(* and that count; what a stub returns is left out. An address is a base *)
(* and a place in the table: loading a program moves the base of all.    *)
(***************************************************************************)
EXTENDS Naturals, Sequences, FiniteSets

CONSTANTS
    WG_MAPPER_CAPACITY,     \* entries of the table, 4096 in the code
    Imports,                \* bound: <<DLL, suffixed, function>> of import tables
    Wanted                  \* bound: names given to GetProcAddress

VARIABLES
    added,      \* entries registered after the defaults
    thunkBase,  \* where the thunks are: "high" (WG_THUNK_BASE) or "low"
    com,        \* s_com_qi .. s_com_a5, or <<>>
    comHere,    \* whether this engine's table has them
    granted     \* an address the running program was given, and what it asked for:
                \* [dll, func, how, thunk], any one of them, or NoGift

mapperVars == <<added, thunkBase, com, comHere, granted>>

-----------------------------------------------------------------------------
(* The entries of wg_dll_mapper_register_defaults, in its sections.        *)

\* Names are compared without their case and mostly without ".dll".
Entry(dll, suffixed, func, args) ==
    [dll |-> dll, suffixed |-> suffixed, func |-> func, args |-> args]
Stubs(dll, args, funcs) == [i \in DOMAIN funcs |-> Entry(dll, TRUE, funcs[i], args)]

Kernel32 ==
    Stubs("KERNEL32", 0, <<"GetTickCount", "GetCommandLineW", "GetVersion", "GetCurrentProcess",
      "GetLastError", "GetCurrentProcessId", "GetCurrentThreadId", "IsDebuggerPresent",
      "GetProcessHeap">>) \o
    Stubs("KERNEL32", 1, <<"SetCurrentDirectoryW", "SetCurrentDirectoryA", "GetFileAttributesW",
      "Sleep", "ExitProcess", "SetErrorMode", "GlobalUnlock", "GlobalLock", "ResumeThread",
      "GetStartupInfoW", "UnmapViewOfFile", "RemoveDirectoryW", "GetModuleHandleA", "GlobalFree",
      "CloseHandle", "lstrlenW", "DeleteFileW", "FindClose", "lstrlenA", "FreeLibrary",
      "GetModuleHandleW", "SetLastError", "OutputDebugStringA", "QueryPerformanceCounter",
      "QueryPerformanceFrequency", "GetSystemInfo", "GetNativeSystemInfo", "GetVersionExA",
      "GetVersionExW">>) \o
    Stubs("KERNEL32", 2, <<"GetFileSize", "MoveFileW", "SetFileAttributesW",
      "SetEnvironmentVariableW", "GetWindowsDirectoryW", "GetTempPathW", "WaitForSingleObject",
      "CompareFileTime", "GetExitCodeThread", "CreateDirectoryW", "IsWow64Process", "lstrcmpiA",
      "lstrcpyA", "lstrcpyW", "lstrcatW", "GetSystemDirectoryW", "GetProcAddress", "GlobalAlloc",
      "lstrcmpiW", "CreateToolhelp32Snapshot", "Process32First", "Process32Next",
      "Process32FirstW", "Process32NextW", "TerminateProcess", "lstrcmpW", "GetExitCodeProcess",
      "FindFirstFileW", "FindNextFileW">>) \o
    Stubs("KERNEL32", 3, <<"GetModuleFileNameW", "CopyFileW", "GlobalReAlloc", "MoveFileExW",
      "GetShortPathNameW", "OpenProcess", "ExpandEnvironmentStringsW", "lstrcpynW", "MulDiv",
      "LoadLibraryExW", "VirtualFree", "HeapCreate", "HeapAlloc", "HeapFree">>) \o
    Stubs("KERNEL32", 4, <<"GetFullPathNameW", "GetFullPathNameA", "CreatePipe",
      "GetTempFileNameW", "SetFileTime", "GetOverlappedResult", "GetDiskFreeSpaceExW",
      "GetDiskFreeSpaceExA", "SetFilePointer", "WritePrivateProfileStringW", "VirtualAlloc">>) \o
    Stubs("KERNEL32", 5, <<"MapViewOfFile", "WriteFile", "GetDiskFreeSpaceW", "ReadFile">>) \o
    Stubs("KERNEL32", 6, <<"CreateThread", "PeekNamedPipe", "CreateFileMappingW", "SearchPathW",
      "MultiByteToWideChar", "GetPrivateProfileStringW">>) \o
    Stubs("KERNEL32", 7, <<"CreateFileW">>) \o
    Stubs("KERNEL32", 8, <<"WideCharToMultiByte">>) \o
    Stubs("KERNEL32", 10, <<"CreateProcessW", "CreateProcessA">>) \o
    Stubs("ADVAPI32", 2, <<"InitializeSecurityDescriptor">>) \o
    Stubs("ADVAPI32", 4, <<"SetSecurityDescriptorDacl">>)

CrtStartup ==
    Stubs("KERNEL32", 0, <<"GetTickCount64", "GetUserDefaultLCID", "GetSystemDefaultLCID",
      "TlsAlloc", "GetConsoleCP", "GetACP", "GetOEMCP", "GetCurrentThread", "SwitchToThread">>) \o
    Stubs("KERNEL32", 1, <<"InitializeCriticalSection", "EnterCriticalSection",
      "LeaveCriticalSection", "DeleteCriticalSection", "TryEnterCriticalSection",
      "InitializeSRWLock", "AcquireSRWLockExclusive", "ReleaseSRWLockExclusive",
      "TryAcquireSRWLockExclusive", "InitializeConditionVariable", "WakeConditionVariable",
      "WakeAllConditionVariable", "AcquireSRWLockShared", "ReleaseSRWLockShared",
      "TryAcquireSRWLockShared", "WakeByAddressSingle", "WakeByAddressAll", "InitializeSListHead",
      "InterlockedPopEntrySList", "InterlockedFlushSList", "TlsGetValue", "TlsFree", "FlsAlloc",
      "FlsGetValue", "FlsFree", "HeapLock", "HeapUnlock", "GetStdHandle", "GetFileType",
      "IsValidCodePage", "UnhandledExceptionFilter", "SetUnhandledExceptionFilter",
      "IsProcessorFeaturePresent", "EncodePointer", "DecodePointer", "SuspendThread", "SetEvent",
      "ResetEvent", "ReleaseMutex">>) \o
    Stubs("KERNEL32", 2, <<"InitializeCriticalSectionAndSpinCount", "GetUserDefaultLocaleName",
      "GetSystemDefaultLocaleName", "IsValidLocale", "EnumSystemLocalesW",
      "InterlockedPushEntrySList", "TlsSetValue", "FlsSetValue", "HeapWalk", "GetProcessHeaps",
      "SetStdHandle", "GetConsoleMode", "SetConsoleMode", "SetConsoleCtrlHandler", "GetCPInfo",
      "SetThreadPriority", "TerminateThread", "SetThreadAffinityMask", "SetProcessAffinityMask">>) \o
    Stubs("KERNEL32", 3, <<"InitializeCriticalSectionEx", "InitOnceComplete",
      "SleepConditionVariableCS", "GetNLSVersionEx", "ResolveLocaleName", "HeapSize",
      "HeapValidate", "OpenThread", "GetProcessAffinityMask", "OpenEventA",
      "WaitForSingleObjectEx", "CreateMutexW", "CreateMutexA", "OpenMutexW", "OpenMutexA">>) \o
    Stubs("KERNEL32", 4, <<"InitOnceBeginInitialize", "SleepConditionVariableSRW",
      "WaitOnAddress", "GetLocaleInfoEx", "GetLocaleInfoW", "EnumSystemLocalesEx", "HeapReAlloc",
      "HeapSetInformation", "GetStringTypeW", "RtlUnwind", "RaiseException", "CreateEventW",
      "CreateEventA", "WaitForMultipleObjects", "CreateSemaphoreW", "CreateSemaphoreA">>) \o
    Stubs("KERNEL32", 5, <<"GetStringTypeExW", "HeapQueryInformation", "WriteConsoleW",
      "ReadConsoleW", "ReadConsoleA", "WaitForMultipleObjectsEx">>) \o
    Stubs("KERNEL32", 6, <<"LCMapStringW", "LCMapStringA", "CompareStringW", "GetDateFormatW",
      "GetTimeFormatW">>) \o
    Stubs("KERNEL32", 7, <<"DuplicateHandle">>) \o
    Stubs("KERNEL32", 9, <<"LCMapStringEx", "CompareStringEx">>)

CrtFiles ==
    Stubs("KERNEL32", 0, <<"ConvertFiberToThread", "GetEnvironmentStringsW", "GetCommandLineA",
      "DebugBreak">>) \o
    Stubs("KERNEL32", 1, <<"Sleep", "ExitThread", "SubmitThreadpoolWork", "CloseThreadpoolWork",
      "CloseThreadpoolTimer", "ConvertThreadToFiber", "DeleteFiber", "SwitchToFiber",
      "LoadLibraryA", "LockResource", "LocalFree", "FreeEnvironmentStringsW", "GetSystemTime",
      "GetLocalTime", "GetSystemTimeAsFileTime", "GetSystemTimePreciseAsFileTime",
      "GetTimeZoneInformation", "GetFileAttributesA", "FlushFileBuffers", "GetDriveTypeW",
      "SetEndOfFile", "GlobalMemoryStatusEx", "RemoveDirectoryA", "OutputDebugStringW">>) \o
    Stubs("KERNEL32", 2, <<"SleepEx", "WaitForThreadpoolWorkCallbacks", "LoadResource",
      "SizeofResource", "LocalAlloc", "SystemTimeToFileTime", "FileTimeToSystemTime",
      "GetCurrentDirectoryA", "GetCurrentDirectoryW", "GetFileInformationByHandle",
      "GetFileSizeEx", "ProcessIdToSessionId", "IsBadWritePtr",
      "AppPolicyGetProcessTerminationMethod", "GetCurrentPackageId">>) \o
    Stubs("KERNEL32", 3, <<"ReleaseSemaphore", "QueueUserWorkItem", "CreateThreadpoolWork",
      "CreateThreadpoolTimer", "CreateFiber", "LoadLibraryExA", "GetModuleHandleExW",
      "GetModuleHandleExA", "GetModuleFileNameA", "FindResourceA", "GetEnvironmentVariableW",
      "SystemTimeToTzSpecificLocalTime", "GetFileAttributesExW", "VirtualQuery",
      "VerifyVersionInfoW", "SetHandleInformation">>) \o
    Stubs("KERNEL32", 4, <<"CreateIoCompletionPort", "PostQueuedCompletionStatus",
      "SetThreadpoolTimer", "VerSetConditionMask", "GetFileTime">>) \o
    Stubs("KERNEL32", 5, <<"GetQueuedCompletionStatus", "SetFilePointerEx">>) \o
    Stubs("KERNEL32", 6, <<"GetQueuedCompletionStatusEx", "FindFirstFileExW">>) \o
    Stubs("KERNEL32", 7, <<"CreateFileA">>) \o
    Stubs("KERNEL32", 8, <<"DeviceIoControl">>)

UserAuto ==
    Stubs("KERNEL32", 1, <<"CorExitProcess", "SetCurrentProcessExplicitAppUserModelID">>) \o
    Stubs("KERNEL32", 2, <<"GetTempPath2W", "SystemFunction036">>) \o
    Stubs("USER32", 0, <<"GetDesktopWindow">>) \o
    Stubs("USER32", 1, <<"RegisterClassExW", "UpdateWindow", "AllowSetForegroundWindow">>) \o
    Stubs("USER32", 2, <<"UnregisterClassW", "MonitorFromWindow", "GetMonitorInfoW",
      "GetWindowThreadProcessId", "EnumWindows", "KillTimer", "LoadIconW">>) \o
    Stubs("USER32", 3, <<"GetClassInfoExW", "MonitorFromPoint", "EnumChildWindows">>) \o
    Stubs("USER32", 4, <<"MessageBoxW", "MessageBoxA", "PostThreadMessageW", "PostThreadMessageA",
      "RedrawWindow">>) \o
    Stubs("USER32", 5, <<"MsgWaitForMultipleObjects">>) \o
    Stubs("USER32", 6, <<"MoveWindow", "MsgWaitForMultipleObjectsEx">>) \o
    Stubs("GDI32", 1, <<"GetStockObject">>) \o
    Stubs("GDI32", 4, <<"GetTextExtentPoint32W", "GetTextExtentPoint32A">>) \o
    Stubs("GDI32", 6, <<"CreateDIBSection">>) \o
    Stubs("GDI32", 14, <<"CreateFontW", "CreateFontA">>) \o
    Stubs("ADVAPI32", 2, <<"SystemFunction036", "RtlGenRandom", "ProcessPrng",
      "CryptReleaseContext">>) \o
    Stubs("ADVAPI32", 3, <<"RegOpenKeyA", "CryptGenRandom">>) \o
    Stubs("ADVAPI32", 5, <<"RegOpenKeyExA", "CryptAcquireContextW", "CryptAcquireContextA">>) \o
    Stubs("ADVAPI32", 6, <<"RegQueryValueExA", "RegSetValueExA">>) \o
    Stubs("ADVAPI32", 9, <<"RegCreateKeyExA">>) \o
    Stubs("BCRYPT", 2, <<"ProcessPrng">>) \o
    Stubs("BCRYPT", 4, <<"BCryptGenRandom">>) \o
    Stubs("BCRYPTPRIMITIVES", 2, <<"ProcessPrng">>) \o
    Stubs("CRYPTBASE", 2, <<"ProcessPrng">>)

Runtime ==
    Stubs("VCRUNTIME140", 0, <<"memset", "memcpy", "memmove", "memcmp">>) \o
    Stubs("UCRTBASE", 0, <<"malloc", "free", "_initterm", "_initterm_e", "exit", "_exit",
      "_beginthreadex", "_beginthread", "_endthreadex">>) \o
    Stubs("MSVCP140", 0, <<"_Xbad_alloc">>)

NetLibraries ==
    Stubs("UCRTBASE", 0, <<"_endthread">>) \o
    Stubs("WS2_32", 4, <<"DisconnectEx">>) \o
    Stubs("WS2_32", 7, <<"ConnectEx", "TransmitFile">>) \o
    Stubs("WS2_32", 8, <<"AcceptEx">>) \o
    Stubs("IPHLPAPI", 2, <<"GetAdaptersInfo", "GetNetworkParams", "GetBestInterface">>) \o
    Stubs("IPHLPAPI", 3, <<"GetBestRoute", "GetIfTable">>) \o
    Stubs("IPHLPAPI", 5, <<"GetAdaptersAddresses">>) \o
    Stubs("WINHTTP", 1, <<"WinHttpCloseHandle", "WinHttpGetDefaultProxyConfiguration",
      "WinHttpGetIEProxyConfigForCurrentUser">>) \o
    Stubs("WINHTTP", 2, <<"WinHttpReceiveResponse", "WinHttpQueryDataAvailable">>) \o
    Stubs("WINHTTP", 4, <<"WinHttpConnect", "WinHttpReadData", "WinHttpWriteData",
      "WinHttpSetOption", "WinHttpAddRequestHeaders", "WinHttpCrackUrl",
      "WinHttpSetStatusCallback", "WinHttpGetProxyForUrl">>) \o
    Stubs("WINHTTP", 5, <<"WinHttpOpen", "WinHttpSetTimeouts">>) \o
    Stubs("WINHTTP", 6, <<"WinHttpQueryHeaders">>) \o
    Stubs("WINHTTP", 7, <<"WinHttpOpenRequest", "WinHttpSendRequest">>) \o
    Stubs("WININET", 1, <<"InternetAttemptConnect", "InternetCloseHandle">>) \o
    Stubs("WININET", 2, <<"InternetGetConnectedState", "InternetSetStatusCallbackA",
      "InternetSetStatusCallbackW">>) \o
    Stubs("WININET", 3, <<"InternetCheckConnectionA", "InternetCheckConnectionW",
      "InternetGetConnectedStateExW">>) \o
    Stubs("WININET", 4, <<"InternetReadFile", "InternetSetOptionA", "InternetSetOptionW",
      "InternetQueryOptionA", "InternetQueryOptionW", "InternetQueryDataAvailable">>) \o
    Stubs("WININET", 5, <<"InternetOpenA", "InternetOpenW", "HttpSendRequestA",
      "HttpSendRequestW", "HttpSendRequestExA", "HttpSendRequestExW", "HttpQueryInfoA",
      "HttpQueryInfoW">>) \o
    Stubs("WININET", 8, <<"InternetConnectA", "InternetConnectW", "HttpOpenRequestA",
      "HttpOpenRequestW">>) \o
    Stubs("CRYPT32", 1, <<"CertFreeCertificateContext", "CertFreeCertificateChain">>) \o
    Stubs("CRYPT32", 2, <<"CertOpenSystemStoreW", "CertOpenSystemStoreA", "CertCloseStore",
      "CertEnumCertificatesInStore">>) \o
    Stubs("CRYPT32", 4, <<"CertVerifyCertificateChainPolicy">>) \o
    Stubs("CRYPT32", 5, <<"CryptBinaryToStringW", "CertGetNameStringW">>) \o
    Stubs("CRYPT32", 6, <<"CertFindCertificateInStore">>) \o
    Stubs("CRYPT32", 7, <<"CryptProtectData", "CryptUnprotectData", "CryptStringToBinaryW">>) \o
    Stubs("CRYPT32", 8, <<"CertGetCertificateChain">>) \o
    Stubs("SECUR32", 0, <<"InitSecurityInterfaceW", "InitSecurityInterfaceA">>) \o
    Stubs("SECUR32", 1, <<"FreeCredentialsHandle", "DeleteSecurityContext", "FreeContextBuffer">>) \o
    Stubs("SECUR32", 2, <<"CompleteAuthToken", "ApplyControlToken">>) \o
    Stubs("SECUR32", 3, <<"QueryContextAttributesW", "QueryContextAttributesA">>) \o
    Stubs("SECUR32", 4, <<"EncryptMessage", "DecryptMessage">>) \o
    Stubs("SECUR32", 9, <<"AcquireCredentialsHandleW", "AcquireCredentialsHandleA">>) \o
    Stubs("SECUR32", 12, <<"InitializeSecurityContextW", "InitializeSecurityContextA">>) \o
    Stubs("SSPICLI", 1, <<"DeleteSecurityContext", "FreeCredentialsHandle", "FreeContextBuffer">>) \o
    Stubs("SSPICLI", 3, <<"QueryContextAttributesW">>) \o
    Stubs("SSPICLI", 4, <<"EncryptMessage", "DecryptMessage">>) \o
    Stubs("SSPICLI", 9, <<"AcquireCredentialsHandleW">>) \o
    Stubs("SSPICLI", 12, <<"InitializeSecurityContextW">>)

User32 ==
    Stubs("USER32", 0, <<"GetMessagePos", "CloseClipboard", "EmptyClipboard", "wsprintfW",
      "wsprintfA", "CreatePopupMenu">>) \o
    Stubs("USER32", 1, <<"IsWindowEnabled", "GetSysColor", "SetCursor", "IsWindowVisible",
      "OpenClipboard", "GetSystemMetrics", "MessageBoxIndirectW", "CharNextA", "DispatchMessageW",
      "GetDC", "RegisterClassW", "CharNextW", "DestroyWindow", "GetWindowTextLengthW",
      "PostQuitMessage", "IsWindow", "SetForegroundWindow", "TranslateMessage",
      "DispatchMessageW", "GetDC">>) \o
    Stubs("USER32", 2, <<"GetSystemMenu", "GetWindowLongW", "LoadCursorW", "LoadBitmapW",
      "SetClipboardData", "ScreenToClient", "GetWindowRect", "CharPrevW", "ReleaseDC",
      "EnableWindow", "BeginPaint", "GetClientRect", "EndDialog", "ExitWindowsEx",
      "SetWindowTextW", "ShowWindow", "GetDlgItem", "EndPaint", "ReleaseDC", "BeginPaint">>) \o
    Stubs("USER32", 3, <<"SetClassLongW", "EnableMenuItem", "CheckDlgButton", "SetDlgItemTextW",
      "InvalidateRect", "FillRect", "GetClassInfoW", "GetWindowTextW", "SetWindowLongW",
      "FillRect">>) \o
    Stubs("USER32", 4, <<"GetDlgItemTextW", "SendMessageW", "DefWindowProcW",
      "SystemParametersInfoW", "SetTimer", "FindWindowExW", "AppendMenuW", "GetMessageA",
      "GetMessageW", "DefWindowProcW">>) \o
    Stubs("USER32", 5, <<"CallWindowProcW", "PeekMessageW", "SendDlgItemMessageW",
      "DialogBoxParamW", "DrawTextW", "CreateDialogParamW">>) \o
    Stubs("USER32", 6, <<"LoadImageW">>) \o
    Stubs("USER32", 7, <<"SetWindowPos", "TrackPopupMenu", "SendMessageTimeoutW">>) \o
    Stubs("USER32", 12, <<"CreateWindowExW">>) \o
    Stubs("GDI32", 1, <<"CreateFontIndirectW", "CreateFontIndirectA">>) \o
    Stubs("GDI32", 2, <<"SelectObject", "SetBkMode">>)

GdiAndPlugin ==
    Stubs("NSDIALOGS", 0, <<"Create", "CreateControl", "CreateItem", "Show", "SetImage",
      "SetIcon", "SetUserData", "GetUserData", "OnClick", "OnChange", "OnNotify", "OnBack",
      "SetRTL", "CreateTimer", "KillTimer", "SelectFileDialog", "SelectFolderDialog",
      "SetButtonLong">>) \o
    Stubs("GDI32", 1, <<"DeleteObject", "CreateBrushIndirect", "CreateSolidBrush",
      "CreateCompatibleDC", "DeleteDC">>) \o
    Stubs("GDI32", 2, <<"SetTextColor", "GetDeviceCaps", "SetBkColor", "SetStretchBltMode">>) \o
    Stubs("GDI32", 3, <<"LineTo", "CreateCompatibleBitmap", "GetObjectW">>) \o
    Stubs("GDI32", 4, <<"MoveToEx">>) \o
    Stubs("GDI32", 5, <<"TextOutW">>) \o
    Stubs("GDI32", 9, <<"BitBlt">>) \o
    Stubs("GDI32", 11, <<"StretchBlt">>) \o
    Stubs("GDI32", 12, <<"SetDIBitsToDevice">>) \o
    Stubs("GDI32", 13, <<"StretchDIBits">>)

ShellAndOle ==
    Stubs("SHELL32", 0, <<"IsUserAnAdmin">>) \o
    Stubs("SHELL32", 1, <<"SHBrowseForFolderW", "SHFileOperationW">>) \o
    Stubs("SHELL32", 2, <<"CommandLineToArgvW", "SHGetPathFromIDListW">>) \o
    Stubs("SHELL32", 3, <<"SHGetSpecialFolderLocation">>) \o
    Stubs("SHELL32", 5, <<"SHGetFolderPathW", "SHGetFileInfoW">>) \o
    Stubs("SHELL32", 6, <<"ShellExecuteW">>) \o
    Stubs("KERNEL32", 5, <<"SHGetFolderPathW">>) \o
    Stubs("ADVAPI32", 1, <<"RegCloseKey">>) \o
    Stubs("ADVAPI32", 2, <<"RegDeleteKeyW", "RegDeleteValueW">>) \o
    Stubs("ADVAPI32", 3, <<"SetFileSecurityW", "OpenProcessToken", "LookupPrivilegeValueW">>) \o
    Stubs("ADVAPI32", 4, <<"RegEnumKeyW">>) \o
    Stubs("ADVAPI32", 5, <<"RegOpenKeyExW">>) \o
    Stubs("ADVAPI32", 6, <<"AdjustTokenPrivileges", "RegSetValueExW", "RegQueryValueExW">>) \o
    Stubs("ADVAPI32", 8, <<"RegEnumValueW">>) \o
    Stubs("ADVAPI32", 9, <<"RegCreateKeyExW">>) \o
    Stubs("COMCTL32", 1, <<"Ordinal_17", "ImageList_Destroy">>) \o
    Stubs("COMCTL32", 3, <<"ImageList_AddMasked">>) \o
    Stubs("COMCTL32", 5, <<"ImageList_Create">>) \o
    Stubs("OLEAUT32", 1, <<"Ordinal_9">>) \o
    Stubs("OLE32", 0, <<"OleUninitialize">>) \o
    Stubs("OLE32", 1, <<"OleInitialize", "CoTaskMemFree">>) \o
    Stubs("OLE32", 5, <<"CoCreateInstance">>) \o
    Stubs("NTDLL", 1, <<"RtlInitializeCriticalSection">>)

\* __WSAFDIsSet, whose second registration, with 4 arguments, was taken out.
FdIsSet == Stubs("WS2_32", 2, <<"Ordinal_151">>)

Winsock ==
    Stubs("WS2_32", 0, <<"Ordinal_111", "Ordinal_113", "Ordinal_116", "WSACleanup",
      "WSAGetLastError", "WSACreateEvent">>) \o
    Stubs("WS2_32", 1, <<"Ordinal_3", "Ordinal_8", "Ordinal_9", "Ordinal_11", "Ordinal_12",
      "Ordinal_14", "Ordinal_15", "Ordinal_112", "WSASetLastError", "WSACloseEvent",
      "WSAResetEvent", "WSASetEvent", "freeaddrinfo", "gethostbyname", "closesocket", "htons",
      "htonl", "ntohs", "ntohl", "inet_addr", "inet_ntoa">>) \o
    Stubs("WS2_32", 2, <<"Ordinal_13", "Ordinal_22", "Ordinal_52", "Ordinal_115", "WSAStartup",
      "gethostname", "Ordinal_57", "listen", "shutdown">>) \o
    Stubs("WS2_32", 3, <<"Ordinal_1", "Ordinal_2", "Ordinal_4", "Ordinal_5", "Ordinal_6",
      "Ordinal_10", "Ordinal_23", "WSAEventSelect", "WSAEnumNetworkEvents", "socket", "connect",
      "bind", "ioctlsocket", "getpeername", "getsockname">>) \o
    Stubs("WS2_32", 4, <<"Ordinal_16", "Ordinal_19", "getaddrinfo", "inet_ntop", "inet_pton",
      "InetNtopA", "InetPtonA", "send", "recv">>) \o
    Stubs("WS2_32", 5, <<"Ordinal_7", "Ordinal_18", "Ordinal_21", "WSAWaitForMultipleEvents",
      "select", "setsockopt", "getsockopt">>) \o
    Stubs("WS2_32", 6, <<"Ordinal_17", "Ordinal_20", "WSASocketW", "WSASocketA">>) \o
    Stubs("WS2_32", 7, <<"WSASend", "WSARecv">>) \o
    Stubs("WS2_32", 9, <<"WSASendTo", "WSARecvFrom", "WSAIoctl">>) \o
    Stubs("WSOCK32", 2, <<"Ordinal_1142">>)

Defaults == Kernel32 \o CrtStartup \o CrtFiles \o UserAuto \o Runtime \o NetLibraries \o
            User32 \o GdiAndPlugin \o ShellAndOle \o Winsock \o FdIsSet

-----------------------------------------------------------------------------
(* The table. *)

Size == Len(Defaults) + Len(added)
At(n) == IF n <= Len(Defaults) THEN Defaults[n] ELSE added[n - Len(Defaults)]

\* Where the defaults have each function.
Places == [func \in {Defaults[n].func : n \in DOMAIN Defaults} |->
            {n \in DOMAIN Defaults : Defaults[n].func = func}]
Anywhere(func) ==
    (IF func \in DOMAIN Places THEN Places[func] ELSE {}) \cup
    {Len(Defaults) + k : k \in {i \in DOMAIN added : added[i].func = func}}

NoThunk == [base |-> "none", at |-> 0]
ThunkAt(n) == [base |-> thunkBase, at |-> n]

\* wg_dll_mapper_register: the entry goes to the end, unless the table is full.
wg_dll_mapper_register(entries) ==
    LET Fits(i) == Size + i <= WG_MAPPER_CAPACITY
    IN  [table  |-> added \o SubSeq(entries, 1, Cardinality({i \in DOMAIN entries : Fits(i)})),
         thunks |-> [i \in DOMAIN entries |-> IF Fits(i) THEN ThunkAt(Size + i) ELSE NoThunk]]

\* The entries that wg_dll_mapper_resolve takes the first of: those of the DLL as it
\* is written, or else those of the DLL without its suffix.
Found(dll, suffixed, func) ==
    LET own   == {n \in Anywhere(func) : At(n).dll = dll}
        exact == {n \in own : At(n).suffixed = suffixed}
    IN  IF exact # {} THEN exact ELSE own
Lowest(ns) == CHOOSE n \in ns : \A k \in ns : n <= k

-----------------------------------------------------------------------------
(* Those who ask. *)

Gift(dll, func, how, thunk) == [dll |-> dll, func |-> func, how |-> how, thunk |-> thunk]
NoGift == Gift("none", "none", "none", NoThunk)
Give(gifts) == granted' \in {granted} \cup {g \in gifts : g.thunk # NoThunk}

\* wg_dll_mapper_resolve: a name that is not there is stubbed with no arguments. No
\* address is given when there is no room for the stub.
wg_dll_mapper_resolve(dll, suffixed, func, asked, how) ==
    \E hits \in {Found(dll, suffixed, func)} :
        IF hits # {}
        THEN UNCHANGED added /\ Give({Gift(asked, func, how, ThunkAt(Lowest(hits)))})
        ELSE \E r \in {wg_dll_mapper_register(<<Entry(dll, suffixed, func, 0)>>)} :
               added' = r.table /\ Give({Gift(asked, func, how, r.thunks[1])})

MapperInit ==
    /\ added = <<>> /\ thunkBase = "high" /\ com = <<>> /\ comHere = FALSE /\ granted = NoGift

\* map_thunks_to_blink, for the VM that a program is loaded into: every entry is
\* given an address again, by its place.
LoadProgram(wide) ==
    /\ thunkBase' = IF wide THEN "high" ELSE "low"
    /\ granted' = NoGift
    /\ UNCHANGED <<added, com, comHere>>

\* An import of the program, or of a DLL it loads. A function is left as the file
\* has it when the table is full.
Import(i) ==
    /\ wg_dll_mapper_resolve(i[1], i[2], i[3], i[1], "import")
    /\ UNCHANGED <<thunkBase, com, comHere>>

PluginExports ==
    {"Create", "CreateControl", "CreateItem", "Show", "SetImage", "SetIcon", "SetUserData",
     "GetUserData", "OnClick", "OnChange", "OnNotify", "OnBack", "SetRTL", "CreateTimer",
     "KillTimer", "SelectFileDialog", "SelectFolderDialog", "SetButtonLong"}

\* Mutant of GetProcAddress: every name is looked for in KERNEL32.
GetProcAddress_kernel(func) ==
    /\ IF func \in PluginExports
       THEN wg_dll_mapper_resolve("NSDIALOGS", TRUE, func, "NSDIALOGS", "name")
       ELSE wg_dll_mapper_resolve("KERNEL32", TRUE, func, "any", "name")
    /\ UNCHANGED <<thunkBase, com, comHere>>

\* GetProcAddress of a name that no mapped module exports.
GetProcAddress(func) ==
    /\ IF func \in PluginExports
       THEN wg_dll_mapper_resolve("NSDIALOGS", TRUE, func, "NSDIALOGS", "name")
       ELSE \E anywhere \in {Anywhere(func)} :
              IF anywhere # {}
              THEN UNCHANGED added /\ Give({Gift("any", func, "name", ThunkAt(Lowest(anywhere)))})
              ELSE wg_dll_mapper_resolve("KERNEL32", TRUE, func, "any", "name")
    /\ UNCHANGED <<thunkBase, com, comHere>>

\* Every ordinal is taken for one of SHELL32, whatever module was asked.
GetProcOrdinal ==
    /\ \E name \in {"IsUserAnAdmin", "Ordinal_17"} :
         wg_dll_mapper_resolve("SHELL32", TRUE, name, "SHELL32", "import")
    /\ UNCHANGED <<thunkBase, com, comHere>>

\* SIO_GET_EXTENSION_FUNCTION_POINTER
WSAIoctlExtension ==
    \E func \in {"ConnectEx", "DisconnectEx", "AcceptEx"} :
        /\ Give({Gift("any", func, "name", ThunkAt(Lowest(Anywhere(func))))})
        /\ UNCHANGED <<added, thunkBase, com, comHere>>

ComNames == <<"__comQI", "__comA1", "__comA2", "__comA3", "__comA4", "__comA5">>
ComArgs  == <<3, 1, 2, 3, 4, 5>>

\* wg_build_fake_com: the methods are registered once, and their addresses kept in
\* statics that outlive the engine and its table.
BuildCom ==
    LET r == wg_dll_mapper_register([i \in 1 .. 6 |-> Entry("COM", FALSE, ComNames[i], ComArgs[i])])
        methods == IF com = <<>> THEN r.thunks ELSE com
    IN  /\ thunkBase = "low"
        /\ com' = methods
        /\ added' = IF com = <<>> THEN r.table ELSE added
        /\ comHere' = (comHere \/ com = <<>>)
        /\ Give({Gift("COM", ComNames[i], "com", methods[i]) : i \in 1 .. 6})
        /\ UNCHANGED thunkBase

\* wg_engine_destroy and wg_engine_create: a scene goes and another comes.
NewEngine ==
    /\ added' = <<>> /\ thunkBase' = "high" /\ granted' = NoGift /\ comHere' = FALSE
    /\ UNCHANGED com

MapperNext ==
    \/ \E wide \in BOOLEAN : LoadProgram(wide)
    \/ \E i \in Imports : Import(i)
    \/ \E func \in Wanted : GetProcAddress(func)
    \/ GetProcOrdinal
    \/ WSAIoctlExtension
    \/ BuildCom
    \/ NewEngine

MapperSpec == MapperInit /\ [][MapperNext]_mapperVars

-----------------------------------------------------------------------------
\* No program imports from a DLL with the name the engine made up for its COM
\* methods, or asks for a function with one of theirs.
ASSUME MapperAssumption ==
    /\ WG_MAPPER_CAPACITY \in Nat
    /\ Imports \subseteq (STRING \ {"COM", "any"}) \X BOOLEAN \X STRING
    /\ Wanted \subseteq STRING \ {ComNames[i] : i \in 1 .. 6}

MapperTypeOK ==
    /\ Size <= WG_MAPPER_CAPACITY
    /\ thunkBase \in {"high", "low"}
    /\ Len(com) \in {0, 6}
    /\ granted.thunk = NoThunk \/ granted.thunk.at \in 1 .. WG_MAPPER_CAPACITY

\* The counts the defaults register for a function, of its DLL or of any.
CountsRight(dll, func) ==
    IF func \notin DOMAIN Places THEN {}
    ELSE {Defaults[n].args : n \in {k \in Places[func] : dll = "any" \/ Defaults[k].dll = dll}}

\* A DLL's function has one count of arguments, whichever entry is found first: in
\* the defaults, and with what was registered later.
SameDefaults ==
    \A func \in DOMAIN Places : \A n, k \in Places[func] :
        Defaults[n].dll = Defaults[k].dll => Defaults[n].args = Defaults[k].args
SameArguments ==
    /\ SameDefaults
    /\ \A i \in DOMAIN added : \A n \in Anywhere(added[i].func) :
         At(n).dll = added[i].dll => At(n).args = added[i].args

\* The defaults are entries, fit into the table, have what WSAIoctl gives out and
\* none of the COM methods, and agree with each other: a table without parameters.
ASSUME DefaultsAssumption ==
    /\ Defaults \in Seq([dll : STRING \ {"COM"}, suffixed : BOOLEAN, func : STRING, args : Nat])
    /\ Len(Defaults) <= WG_MAPPER_CAPACITY
    /\ {"ConnectEx", "DisconnectEx", "AcceptEx"} \subseteq DOMAIN Places
    /\ SameDefaults

\* What the program was given leads to the entry of the function it asked for, and
\* pops what that function takes when the defaults know it. The COM methods of an
\* engine that is gone are the exception.
Leads(g) ==
    LET counts == IF g.how = "com" THEN {ComArgs[i] : i \in {k \in 1 .. 6 : ComNames[k] = g.func}}
                  ELSE CountsRight(g.dll, g.func)
    IN  /\ g.thunk.base = thunkBase /\ g.thunk.at \in 1 .. Size
        /\ At(g.thunk.at).func = g.func
        /\ At(g.thunk.at).args \in (IF counts = {} THEN {0} ELSE counts)

ThunksLead == granted # NoGift /\ (granted.how = "com" => comHere) => Leads(granted)

\* The stack stays where the guest's compiler put it, whoever resolved the function
\* (wg_dll_mapper_resolve, GetProcAddress, wg_build_fake_com): the comment at
\* wg_dll_mapper.c:948 tells of the program that broke when it did not.
StackBalanced == SameArguments /\ ThunksLead
=============================================================================
