------------------------------ MODULE WGDesktop ------------------------------
(***************************************************************************)
(* Windows, device contexts and bitmaps: wg_win32_windows.c,               *)
(* wg_win32_gdi.c and wg_win32_bitmap.c in Sources/Win32, with the calls   *)
(* of Sources/Core/wg_engine.c that use them, and the compositor           *)
(* Sources/Graphics/WGCompositor.m, which shows the windows on the main    *)
(* thread while the engine draws on its own.                               *)
(*                                                                         *)
(* Pixels are a version: every drawing that changes a buffer gives it a    *)
(* new one.  What a drawing does inside a buffer is WGRaster's matter.     *)
(***************************************************************************)
EXTENDS Integers, Sequences, FiniteSets

CONSTANTS
    WG_MAX_WINDOWS, MAX_DCS, MAX_BITMAPS,   \* 64, 32 and 64 in the code
    MaxMade,        \* bound: handles of each kind given out in one program
    MaxDrawings,    \* bound: drawings
    MaxPrograms     \* bound: programs loaded

\* Every entry of the window table has a handle.
ASSUME DeskAssumption ==
    /\ {WG_MAX_WINDOWS, MAX_DCS, MAX_BITMAPS, MaxMade, MaxDrawings, MaxPrograms} \subseteq Nat
    /\ WG_MAX_WINDOWS <= MaxMade

VARIABLES
    windows,        \* the table of the window manager, oldest first
    dcs,            \* s_dcs
    next_dc,        \* s_next_dc: not reset by a load
    bitmaps,        \* s_bmps: a handle, or 0
    next_bitmap,    \* s_next
    drawings,       \* drawings done
    programs,       \* programs loaded
    texture,        \* the compositor's textures: by HWND, the version it shows
    copying,        \* the copy in progress on the main thread: [hwnd, version], or NoCopy
    raced,          \* history: windows drawn while they were copied
    drew            \* the last blit: the DC it was asked of, where it went

windowVars == <<windows, texture, copying, raced>>
gdiVars    == <<dcs, next_dc, bitmaps, next_bitmap>>
deskVars   == <<windowVars, gdiVars, drawings, programs, drew>>

NoCopy   == [hwnd |-> 0, version |-> 0]
Hwnds    == 1 .. MaxMade
DCSlots  == 0 .. MAX_DCS - 1
BmpSlots == 0 .. MAX_BITMAPS - 1
Nowhere  == [kind |-> "nothing", id |-> 0]
NotDrawn == [kind |-> "window", id |-> 0, turned |-> FALSE, to |-> Nowhere]

\* client is the version of the framebuffer, 0 before it is allocated.
Window == [handle : Hwnds, alive : BOOLEAN, visible : BOOLEAN,
           client : 0 .. MaxDrawings + 1, dirty : BOOLEAN]

\* turned: history, that the slot held a memory DC before.
DC == [used : BOOLEAN, handle : Nat, hwnd : 0 .. MaxMade, is_memdc : BOOLEAN,
       sel_bitmap : 0 .. MaxMade, made : {"window", "memory"}, turned : BOOLEAN]
FreshDC == [used |-> FALSE, handle |-> 0, hwnd |-> 0, is_memdc |-> FALSE,
            sel_bitmap |-> 0, made |-> "window", turned |-> FALSE]

-----------------------------------------------------------------------------
(* Windows.                                                                *)

\* wg_wm_find: the live window of a handle.
Live(hwnd) == {i \in DOMAIN windows : windows[i].handle = hwnd /\ windows[i].alive}

\* wg_wm_create_window: entries are never taken back before the next load.
wg_wm_create_window(visible) ==
    /\ Len(windows) < WG_MAX_WINDOWS
    /\ windows' = Append(windows, [handle |-> Len(windows) + 1, alive |-> TRUE,
                                   visible |-> visible, client |-> 0, dirty |-> FALSE])
    /\ UNCHANGED <<texture, copying, raced, gdiVars, drawings, programs, drew>>

wg_wm_show(hwnd, visible) ==
    /\ \E i \in Live(hwnd) : windows' = [windows EXCEPT ![i].visible = visible]
    /\ UNCHANGED <<texture, copying, raced, gdiVars, drawings, programs, drew>>

\* The framebuffer stays until the next load: the compositor may be reading it.
wg_wm_destroy(hwnd) ==
    /\ \E i \in Live(hwnd) : windows' = [windows EXCEPT ![i].alive = FALSE, ![i].visible = FALSE]
    /\ UNCHANGED <<texture, copying, raced, gdiVars, drawings, programs, drew>>

\* wg_wm_reset and wg_bitmap_reset_all, on a load: handles start again; the DCs
\* stay.  The load of a program while a frame is being composed
\* is WGApp's matter.
wg_wm_reset ==
    /\ programs < MaxPrograms
    /\ copying = NoCopy
    /\ programs' = programs + 1
    /\ windows' = <<>>
    /\ bitmaps' = [b \in BmpSlots |-> 0]
    /\ next_bitmap' = 1
    /\ raced' = {}
    /\ drew' = NotDrawn
    /\ UNCHANGED <<texture, copying, dcs, next_dc, drawings>>

\* A drawing on the client area of a live window, which wg_wm_get_client makes
\* first if need be: the pixels change and then client_dirty is set.
Draw(hwnd) ==
    /\ drawings < MaxDrawings
    /\ drawings' = drawings + 1
    /\ \E i \in Live(hwnd) :
         windows' = [windows EXCEPT ![i].client = drawings + 2, ![i].dirty = TRUE]
    /\ raced' = IF copying.hwnd = hwnd THEN raced \cup {hwnd} ELSE raced
    /\ UNCHANGED <<texture, copying>>

-----------------------------------------------------------------------------
(* Device contexts and bitmaps.                                            *)

find_dc(h)     == {d \in DCSlots : dcs[d].used /\ dcs[d].handle = h}
FreeDCs        == {d \in DCSlots : ~ dcs[d].used /\ \A e \in 0 .. d - 1 : dcs[e].used}
BitmapSlots(h) == {b \in BmpSlots : h # 0 /\ bitmaps[b] = h}

TakeDC(taken) ==
    /\ next_dc <= MaxMade
    /\ \E d \in FreeDCs : dcs' = [dcs EXCEPT ![d] = taken[d]]
    /\ next_dc' = next_dc + 1
    /\ UNCHANGED <<windowVars, bitmaps, next_bitmap, drawings, programs, drew>>

\* GetDC and BeginPaint: what a memory DC left in the slot stays there.
wg_gdi_get_dc(hwnd) ==
    TakeDC([d \in DCSlots |-> [dcs[d] EXCEPT !.used = TRUE, !.handle = next_dc,
                                              !.hwnd = hwnd, !.made = "window"]])

\* CreateCompatibleDC: the slot is cleared.
wg_gdi_create_memory_dc ==
    TakeDC([d \in DCSlots |-> [FreshDC EXCEPT !.used = TRUE, !.handle = next_dc, !.is_memdc = TRUE,
                                                !.made = "memory", !.turned = TRUE]])

\* ReleaseDC and DeleteDC.
wg_gdi_release_dc(h) ==
    /\ \E d \in find_dc(h) : dcs' = [dcs EXCEPT ![d].used = FALSE]
    /\ UNCHANGED <<windowVars, next_dc, bitmaps, next_bitmap, drawings, programs, drew>>

\* CreateCompatibleBitmap, LoadImage and the bitmap of a DIB: alloc_slot.
wg_bitmap_create ==
    /\ next_bitmap <= MaxMade
    /\ \E b \in BmpSlots : /\ bitmaps[b] = 0 /\ \A c \in 0 .. b - 1 : bitmaps[c] # 0
                           /\ bitmaps' = [bitmaps EXCEPT ![b] = next_bitmap]
    /\ next_bitmap' = next_bitmap + 1
    /\ UNCHANGED <<windowVars, dcs, next_dc, drawings, programs, drew>>

\* DeleteObject: a DC may still have the bitmap selected.
wg_bitmap_delete(h) ==
    /\ \E b \in BitmapSlots(h) : bitmaps' = [bitmaps EXCEPT ![b] = 0]
    /\ UNCHANGED <<windowVars, dcs, next_dc, next_bitmap, drawings, programs, drew>>

\* SelectObject of a bitmap, into any DC.
wg_gdi_select_bitmap(h, hbitmap) ==
    /\ BitmapSlots(hbitmap) # {}
    /\ \E d \in find_dc(h) : dcs' = [dcs EXCEPT ![d].sel_bitmap = hbitmap]
    /\ UNCHANGED <<windowVars, next_dc, bitmaps, next_bitmap, drawings, programs, drew>>

\* Where a blit into a DC goes.
dc_target(d) ==
    IF dcs[d].is_memdc
    THEN IF BitmapSlots(dcs[d].sel_bitmap) # {}
         THEN [kind |-> "bitmap", id |-> dcs[d].sel_bitmap] ELSE Nowhere
    ELSE IF Live(dcs[d].hwnd) # {} THEN [kind |-> "window", id |-> dcs[d].hwnd] ELSE Nowhere

\* FillRect, TextOut, LineTo and SetWindowText draw on the window of the DC; a
\* memory DC has none, so they draw nothing.
DrawThrough(h) ==
    /\ \E d \in find_dc(h) : Draw(dcs[d].hwnd)
    /\ UNCHANGED <<gdiVars, programs, drew>>

\* BitBlt, StretchBlt and StretchDIBits into h: from the bitmap selected into
\* another DC, or from a DIB.
wg_gdi_blit(h) ==
    /\ \E b \in BmpSlots : bitmaps[b] # 0
    /\ \E d \in find_dc(h) :
         /\ drew' = [kind |-> dcs[d].made, id |-> dcs[d].hwnd, turned |-> dcs[d].turned,
                      to |-> dc_target(d)]
         /\ IF dc_target(d).kind = "window"
            THEN Draw(dc_target(d).id)
            ELSE UNCHANGED <<windowVars, drawings>>
    /\ UNCHANGED <<gdiVars, programs>>

-----------------------------------------------------------------------------
(* The compositor, on the main thread.                                     *)

\* A frame copies the pixels of each visible window that is dirty...
CopyBegins(hwnd) ==
    /\ copying = NoCopy
    /\ \E i \in Live(hwnd) :
         /\ windows[i].visible /\ windows[i].client # 0
         /\ windows[i].dirty \/ texture[hwnd] = 0
         /\ copying' = [hwnd |-> hwnd, version |-> windows[i].client]
    /\ UNCHANGED <<windows, texture, raced, gdiVars, drawings, programs, drew>>

\* Mutant of CopyEnds: every window is taken to be shown.
CopyEnds_all ==
    /\ copying # NoCopy
    /\ texture' = [texture EXCEPT ![copying.hwnd] = copying.version]
    /\ windows' = [i \in DOMAIN windows |-> [windows[i] EXCEPT !.dirty = FALSE]]
    /\ copying' = NoCopy
    /\ UNCHANGED <<raced, gdiVars, drawings, programs, drew>>

\* ...and then clears client_dirty, also when the engine has drawn meanwhile.
CopyEnds ==
    /\ copying # NoCopy
    /\ texture' = [texture EXCEPT ![copying.hwnd] = copying.version]
    /\ windows' = [i \in DOMAIN windows |->
                     IF windows[i].handle = copying.hwnd
                     THEN [windows[i] EXCEPT !.dirty = FALSE] ELSE windows[i]]
    /\ copying' = NoCopy
    /\ UNCHANGED <<raced, gdiVars, drawings, programs, drew>>

-----------------------------------------------------------------------------
DeskInit ==
    /\ windows = <<>>
    /\ dcs = [d \in DCSlots |-> FreshDC]
    /\ next_dc = 1
    /\ bitmaps = [b \in BmpSlots |-> 0]
    /\ next_bitmap = 1
    /\ drawings = 0
    /\ programs = 1
    /\ texture = [h \in Hwnds |-> 0]
    /\ copying = NoCopy
    /\ raced = {}
    /\ drew = NotDrawn

DeskNext ==
    \/ \E v \in BOOLEAN : wg_wm_create_window(v)
    \/ wg_wm_reset
    \/ \E h \in Hwnds : \/ \E v \in BOOLEAN : wg_wm_show(h, v)
                        \/ wg_wm_destroy(h)
                        \/ wg_gdi_get_dc(h)
                        \/ CopyBegins(h)
    \/ CopyEnds
    \/ wg_gdi_create_memory_dc
    \/ wg_bitmap_create
    \/ \E h \in 1 .. MaxMade :
         \/ wg_gdi_release_dc(h)
         \/ wg_bitmap_delete(h)
         \/ \E b \in 1 .. MaxMade : wg_gdi_select_bitmap(h, b)
         \/ DrawThrough(h)
         \/ wg_gdi_blit(h)

DeskSpec == DeskInit /\ [][DeskNext]_deskVars

-----------------------------------------------------------------------------
DeskTypeOK ==
    /\ windows \in Seq(Window) /\ Len(windows) <= WG_MAX_WINDOWS
    /\ dcs \in [DCSlots -> DC]
    /\ bitmaps \in [BmpSlots -> 0 .. MaxMade]
    /\ texture \in [Hwnds -> 0 .. MaxDrawings + 1]
    /\ raced \subseteq Hwnds

\* What is on the screen is what was drawn last: a window whose pixels are newer
\* than its texture is dirty, so that the next frame copies it, or is being copied.
\* The exception is a window that was drawn while a frame copied it, whose
\* client_dirty the compositor then clears.  And what is being copied is still
\* allocated (clientTextureFor, the drawings, wg_wm_destroy, the handles that a
\* load gives out again).
Shown ==
    \A i \in DOMAIN windows :
      LET w == windows[i]
      IN  /\ w.alive /\ w.client # 0 /\ w.handle \notin raced
             => \/ w.dirty
                \/ texture[w.handle] = w.client
                \/ copying = [hwnd |-> w.handle, version |-> w.client]
          /\ copying.hwnd = w.handle => w.client # 0

\* A blit through a DC of a window goes to that window or nowhere, and one through
\* a memory DC to a bitmap or nowhere, whatever was selected, deleted, destroyed or
\* loaded meanwhile; unless the slot of the window's DC was a memory DC's before,
\* which wg_gdi_get_dc does not clear (dc_target, wg_gdi_get_dc,
\* wg_gdi_create_memory_dc).
BlitsWhereAsked ==
    /\ drew.kind = "memory" => drew.to.kind # "window"
    /\ drew.kind = "window" /\ ~ drew.turned
       => drew.to = Nowhere \/ drew.to = [kind |-> "window", id |-> drew.id]

\* Drawings reach the surface their DC was made for (wg_gdi_get_dc, dc_target), and a
\* window's from there the screen (client_dirty, clientTextureFor).
DesktopRight == Shown /\ BlitsWhereAsked

=============================================================================
