------------------------------ MODULE WGFiles ------------------------------
(***************************************************************************)
(* The guest's files (wg_win32_files.c and the file thunks of wg_engine.c):*)
(* spellings of a path, the table of open files, and what stdio keeps of   *)
(* a stream.                                                               *)
(*                                                                         *)
(* The host's disk is compared with the one that Windows would have, which *)
(* the specification keeps beside it: meant, by the path that is meant.    *)
(* odd are the paths for which the code promises no such thing: opened     *)
(* twice at once, with a disposition that stdio has not, or at a full table*)
(* Bytes are numbers, 0 the filling of a hole, and a file is a sequence.   *)
(***************************************************************************)
EXTENDS Integers, Sequences, FiniteSets

CONSTANTS
    WG_MAX_FILE_HANDLES,    \* files open at a time
    FileBytes,              \* bound: bytes written
    Spellings,              \* bound: paths the guest writes
    Folders,                \* bound: arguments of SetCurrentDirectory
    MaxOpens,               \* bound: handles given out
    MaxSize                 \* bound: bytes of a file

\* No name starts with the mark of the prefix: Windows allows it in no name.
ASSUME FilesAssumption ==
    /\ WG_MAX_FILE_HANDLES \in Nat /\ MaxOpens \in Nat /\ MaxSize \in Nat
    /\ Spellings \cup Folders \subseteq
           [long : BOOLEAN, drive : BOOLEAN, root : BOOLEAN, names : Seq(STRING)]
    /\ \A s \in Spellings \cup Folders : s.names # <<>> => s.names[1] # "?"

VARIABLES
    files,          \* s_files: slot -> entry
    nextHandle,     \* s_next_handle, counted from the base
    cwd,            \* s_cwd_win, a spelling, or NoCwd
    disk,           \* host path -> content, for the files there are
    trees,          \* host directories there are
    meant,          \* Windows path -> content
    odd,            \* Windows paths nothing is promised about
    misread         \* whether a ReadFile gave what it should not have

filesVars == <<files, nextHandle, cwd, disk, trees, meant, odd, misread>>

FileSlots == 1 .. WG_MAX_FILE_HANDLES
NoCwd     == [long |-> FALSE, drive |-> FALSE, root |-> FALSE, names |-> <<>>]
Invalid   == 0
NoEntry   == [in_use |-> FALSE]

\* s_exe_path, outside of the bottle: no path of the bottle has one name "exe".
ExePath == <<"exe">>

-----------------------------------------------------------------------------
(* Paths. A spelling says whether it has the prefix \\?\, a drive, a       *)
(* leading separator, and its names.                                       *)

ExeSpelling(s) == s.drive /\ s.root /\ s.names = <<"a.exe">>
Absolute(s) == s.drive \/ s.root

\* The current directory is put before a relative path as it was written: its
\* prefix is not looked at any more and becomes two names.
Joined(s) == (IF cwd.long THEN <<"?", "C:">> ELSE <<>>) \o cwd.names \o s.names

wg_files_map_path(s) ==
    IF ExeSpelling(s) THEN ExePath
    ELSE IF Absolute(s) \/ cwd = NoCwd THEN s.names
    ELSE Joined(s)

\* The path Windows would take it for: the current directory was made absolute
\* when it was set.
MeantPath(s) == IF ExeSpelling(s) THEN ExePath
                ELSE IF Absolute(s) THEN s.names ELSE cwd.names \o s.names

Parent(p) == SubSeq(p, 1, Len(p) - 1)
HasParent(p) == p = ExePath \/ Parent(p) = <<>> \/ Parent(p) \in trees

\* mkdir_p: a directory and those it is in.
MkdirP(p) == trees \cup {SubSeq(p, 1, n) : n \in 1 .. Len(p)}
wg_files_ensure_parents(p) == IF p = ExePath THEN trees ELSE MkdirP(Parent(p))

Exists(p) == p \in DOMAIN disk
Put(d, p, bytes) == [q \in DOMAIN d \cup {p} |-> IF q = p THEN bytes ELSE d[q]]
Without(d, ps) == [q \in DOMAIN d \ ps |-> d[q]]

-----------------------------------------------------------------------------
(* Streams. *)

\* The content after byte b is written at offset at: what is skipped is zero.
Over(bytes, at, b) ==
    [k \in 1 .. (IF at >= Len(bytes) THEN at + 1 ELSE Len(bytes)) |->
        IF k = at + 1 THEN b ELSE IF k <= Len(bytes) THEN bytes[k] ELSE 0]

\* Writes that stdio still keeps reach the file in their order.
Flushed(bytes, writes, append) ==
    LET upTo[n \in 0 .. Len(writes)] ==
            IF n = 0 THEN bytes
            ELSE Over(upTo[n - 1], IF append THEN Len(upTo[n - 1]) ELSE writes[n][1],
                      writes[n][2])
    IN  upTo[Len(writes)]

\* The stream of a file that was deleted while open is one of its own.
OnDisk(f) == IF f.gone THEN f.left ELSE disk[f.path]
Settled(f) == Flushed(OnDisk(f), f.kept, f.append)

\* The disk, and the entry, after fseek or fclose has flushed.
DiskFlushed(f) == IF f.gone THEN disk ELSE Put(disk, f.path, Settled(f))
EntryFlushed(f) == [f EXCEPT !.kept = <<>>, !.left = IF f.gone THEN Settled(f) ELSE f.left]

Opened(f, h) == f.in_use /\ f.handle = h

\* The entry a handle stands for: no handle is given out twice.
find_file(h) == {i \in FileSlots : files[i].in_use /\ files[i].handle = h}

HandlesGiven == 1 .. nextHandle - 1

-----------------------------------------------------------------------------
FilesInit ==
    /\ files = [i \in FileSlots |-> NoEntry]
    /\ nextHandle = 1
    /\ cwd = NoCwd
    /\ disk = [p \in {ExePath} |-> <<2>>]
    /\ trees = {<<"Temp">>}
    /\ meant = [p \in {ExePath} |-> <<2>>]
    /\ odd = {}
    /\ misread = FALSE

\* What fopen does by the creation disposition: whether the file must be there, is
\* emptied, and is written at its end only.
Mode(disposition, writes) ==
    CASE disposition = "CREATE_NEW"        -> IF writes THEN "wb+" ELSE "rb"
      [] disposition = "CREATE_ALWAYS"     -> "wb+"
      [] disposition = "OPEN_EXISTING"     -> IF writes THEN "rb+" ELSE "rb"
      [] disposition = "OPEN_ALWAYS"       -> IF writes THEN "ab+" ELSE "rb"
      [] disposition = "TRUNCATE_EXISTING" -> "wb"

Dispositions == {"CREATE_NEW", "CREATE_ALWAYS", "OPEN_EXISTING", "OPEN_ALWAYS",
                 "TRUNCATE_EXISTING"}

\* Dispositions that stdio's modes do not have.
Faithless(disposition, writes, p) ==
    \/ disposition = "CREATE_NEW" /\ (Exists(p) \/ ~ writes)
    \/ disposition = "OPEN_ALWAYS" /\ (writes \/ ~ Exists(p))
    \/ disposition = "TRUNCATE_EXISTING"

Truncates(mode) == mode \in {"wb+", "wb"}

\* The entry of a file that fopen has opened.
wg_files_create(p, mode, m) ==
    [in_use |-> TRUE, handle |-> nextHandle, path |-> p, pos |-> 0,
     append |-> mode = "ab+", reads |-> mode # "wb", writes |-> mode # "rb",
     kept |-> <<>>, gone |-> FALSE, left |-> <<>>, means |-> m, due |-> 0]

FreeFileSlots == {i \in FileSlots : ~ files[i].in_use}
FirstFree == CHOOSE i \in FreeFileSlots : \A k \in FreeFileSlots : i <= k

\* CreateFileW.  fopen comes before the search for a slot: at a full table the file
\* has been emptied all the same.
CreateFileW(s, disposition, writes) ==
    LET p      == wg_files_map_path(s)
        m      == MeantPath(s)
        mode   == Mode(disposition, writes)
        retry  == disposition \in {"CREATE_ALWAYS", "OPEN_ALWAYS"} /\ mode # "rb"
        opens  == IF mode \in {"rb", "rb+"} THEN Exists(p)
                  ELSE HasParent(p) \/ retry
        after  == IF Truncates(mode) \/ ~ Exists(p) THEN <<>> ELSE disk[p]
    IN  /\ nextHandle <= MaxOpens
        /\ p \notin trees
        /\ trees' = IF ~ HasParent(p) /\ disposition \in {"CREATE_ALWAYS", "OPEN_ALWAYS"}
                    THEN wg_files_ensure_parents(p) ELSE trees
        /\ IF ~ opens THEN UNCHANGED <<files, nextHandle, disk, meant, odd>>
           ELSE /\ disk' = Put(disk, p, after)
                /\ odd' = IF \/ Faithless(disposition, writes, p)
                             \/ FreeFileSlots = {}
                             \/ \E i \in FileSlots : files[i].in_use /\ files[i].path = p
                          THEN odd \cup {m} ELSE odd
                /\ meant' = Without(Put(meant, m, IF Truncates(mode) \/ m \notin DOMAIN meant
                                                  THEN <<>> ELSE meant[m]), odd')
                /\ IF FreeFileSlots = {} THEN UNCHANGED <<files, nextHandle>>
                   ELSE /\ files' = [files EXCEPT ![FirstFree] = wg_files_create(p, mode, m)]
                        /\ nextHandle' = nextHandle + 1
        /\ UNCHANGED <<cwd, misread>>

\* ReadFile of one byte.  The thunk asks for the position first, which flushes.
ReadFile(h) ==
    \E i \in find_file(h) :
        LET f     == files[i]
            bytes == Settled(f)
            reach == f.reads /\ f.pos < Len(bytes)
            due   == IF f.means \notin DOMAIN meant \/ f.due >= Len(meant[f.means])
                     THEN <<>> ELSE <<meant[f.means][f.due + 1]>>
        IN  /\ files' = [files EXCEPT ![i] = [EntryFlushed(f) EXCEPT
                             !.pos = IF reach THEN @ + 1 ELSE @,
                             !.due = IF due = <<>> THEN @ ELSE @ + 1]]
            /\ disk' = DiskFlushed(f)
            /\ misread' = \/ misread
                           \/ /\ f.means \notin odd
                              /\ due # IF reach THEN <<bytes[f.pos + 1]>> ELSE <<>>
            /\ UNCHANGED <<nextHandle, cwd, trees, meant, odd>>

\* WriteFile of one byte.  A handle nobody has takes it and does nothing.
WriteFile(h, b) ==
    \E i \in find_file(h) :
        LET f == files[i]
        IN  /\ f.writes /\ f.pos < MaxSize /\ Len(Settled(f)) < MaxSize + 1
            /\ f.append => Len(Settled(f)) < MaxSize
            /\ files' = [files EXCEPT ![i] = [f EXCEPT
                             !.kept = Append(@, <<f.pos, b>>),
                             !.pos  = IF f.append THEN Len(Settled(f)) + 1 ELSE @ + 1,
                             !.due  = IF f.means \in odd THEN 0 ELSE @ + 1]]
            /\ meant' = IF f.means \in odd THEN meant
                        ELSE Put(meant, f.means, Over(meant[f.means], f.due, b))
            /\ UNCHANGED <<nextHandle, cwd, disk, trees, odd, misread>>

\* Where fseek leads.
Sought(f, distance, method) ==
    CASE method = "SEEK_SET" -> distance
      [] method = "SEEK_CUR" -> f.pos + distance
      [] method = "SEEK_END" -> Len(Settled(f)) + distance

\* SetFilePointer: a place before the start is refused by fseek.
SetFilePointer(h, distance, method) ==
    \E i \in find_file(h) :
        LET f  == files[i]
            to == Sought(f, distance, method)
        IN  /\ to <= MaxSize
            /\ files' = [files EXCEPT ![i] = [EntryFlushed(f) EXCEPT
                             !.pos = IF to < 0 THEN @ ELSE to,
                             !.due = IF to < 0 THEN @ ELSE IF f.means \in odd THEN 0 ELSE to]]
            /\ disk' = DiskFlushed(f)
            /\ UNCHANGED <<nextHandle, cwd, trees, meant, odd, misread>>

\* Mutant of GetFileSize: the stream is left at its end.
GetFileSize_end(h) ==
    \E i \in find_file(h) :
        /\ files' = [files EXCEPT ![i] =
                        [EntryFlushed(files[i]) EXCEPT !.pos = Len(Settled(files[i]))]]
        /\ disk' = DiskFlushed(files[i])
        /\ UNCHANGED <<nextHandle, cwd, trees, meant, odd, misread>>

\* GetFileSize seeks to the end and back.
GetFileSize(h) ==
    \E i \in find_file(h) :
        /\ files' = [files EXCEPT ![i] = EntryFlushed(files[i])]
        /\ disk' = DiskFlushed(files[i])
        /\ UNCHANGED <<nextHandle, cwd, trees, meant, odd, misread>>

\* CloseHandle.
CloseHandle(h) ==
    \E i \in find_file(h) :
        /\ files' = [files EXCEPT ![i] = NoEntry]
        /\ disk' = DiskFlushed(files[i])
        /\ UNCHANGED <<nextHandle, cwd, trees, meant, odd, misread>>

-----------------------------------------------------------------------------
\* The entries of a file that has lost its name.
Unlinked(ps) ==
    [i \in FileSlots |->
        IF files[i].in_use /\ ~ files[i].gone /\ files[i].path \in ps
        THEN [files[i] EXCEPT !.gone = TRUE, !.left = disk[files[i].path]] ELSE files[i]]

\* A file that is open is not deleted on Windows: it is odd from then on.
OddIfOpen(ps) ==
    odd \cup {files[i].means : i \in {k \in FileSlots : files[k].in_use /\ files[k].path \in ps}}

DeleteFileW(s) ==
    LET p == wg_files_map_path(s) IN
    /\ Exists(p) /\ p # ExePath
    /\ disk' = Without(disk, {p})
    /\ files' = Unlinked({p})
    /\ odd' = OddIfOpen({p})
    /\ meant' = Without(meant, odd' \cup {MeantPath(s)})
    /\ UNCHANGED <<nextHandle, cwd, trees, misread>>

\* CreateDirectoryW makes the parents too.
CreateDirectoryW(s) ==
    LET p == wg_files_map_path(s) IN
    /\ ~ Exists(p) /\ p \notin trees
    /\ trees' = MkdirP(p)
    /\ UNCHANGED <<files, nextHandle, cwd, disk, meant, odd, misread>>

\* SetCurrentDirectory: kept as it was written.  A folder that is not absolute, or
\* has the prefix, is not what Windows makes of it.
SetCurrentDirectoryW(folder) ==
    /\ cwd' = folder
    /\ odd' = IF folder.long \/ ~ Absolute(folder)
              THEN odd \cup {folder.names \o s.names : s \in Spellings}
                       \cup {MeantPath(folder) \o s.names : s \in Spellings} ELSE odd
    /\ meant' = Without(meant, odd')
    /\ UNCHANGED <<files, nextHandle, disk, trees, misread>>

\* GetTempFileNameW empties the file it names.
TempPath == <<"Temp", "ns1.tmp">>
GetTempFileNameW ==
    /\ disk' = Put(disk, TempPath, <<>>)
    /\ odd' = OddIfOpen({TempPath})
    /\ meant' = Without(Put(meant, TempPath, <<>>), odd')
    /\ UNCHANGED <<files, nextHandle, cwd, trees, misread>>

\* wg_files_reset_temp, when a program is loaded: the leftovers of NSIS go.  The open
\* files and the current directory of the last program stay.
wg_files_reset_temp ==
    /\ Exists(TempPath)
    /\ disk' = Without(disk, {TempPath})
    /\ files' = Unlinked({TempPath})
    /\ odd' = OddIfOpen({TempPath})
    /\ meant' = Without(meant, odd' \cup {TempPath})
    /\ UNCHANGED <<nextHandle, cwd, trees, misread>>

-----------------------------------------------------------------------------
FilesNext ==
    \/ \E s \in Spellings :
          \/ \E d \in Dispositions, writes \in BOOLEAN : CreateFileW(s, d, writes)
          \/ DeleteFileW(s)
          \/ CreateDirectoryW(s)
    \/ \E h \in HandlesGiven :
          \/ ReadFile(h)
          \/ \E b \in FileBytes : WriteFile(h, b)
          \/ SetFilePointer(h, 0, "SEEK_SET") \/ SetFilePointer(h, -1, "SEEK_CUR")
          \/ SetFilePointer(h, 0, "SEEK_END")
          \/ GetFileSize(h)
          \/ CloseHandle(h)
    \/ \E folder \in Folders : SetCurrentDirectoryW(folder)
    \/ GetTempFileNameW \/ wg_files_reset_temp

FilesSpec == FilesInit /\ [][FilesNext]_filesVars

-----------------------------------------------------------------------------
FilesTypeOK ==
    /\ DOMAIN files = FileSlots
    /\ \A i \in FileSlots : files[i].in_use =>
           /\ files[i].handle \in HandlesGiven /\ files[i].pos \in Nat
           /\ \A k \in FileSlots \ {i} : files[k].in_use => files[k].handle # files[i].handle
           /\ files[i].gone \/ Exists(files[i].path)
    /\ nextHandle \in 1 .. MaxOpens + 1
    /\ \A p \in DOMAIN disk : disk[p] \in Seq(FileBytes \cup {0, 2})

\* What is read from a file is what was last written there under any spelling of its
\* path, through whichever handles, from where the guest believes its pointer to be.
ReadBack == ~ misread

\* A file that is not open holds on the host what the guest has written to it.
Stored ==
    \A m \in DOMAIN meant \ odd :
        (\A i \in FileSlots : files[i].in_use => files[i].means # m) =>
            m \in DOMAIN disk /\ disk[m] = meant[m]

\* Files as ReadFile shows them to the guest, and as WriteFile and CloseHandle leave
\* them on the host.
FilesFaithful == ReadBack /\ Stored

=============================================================================
