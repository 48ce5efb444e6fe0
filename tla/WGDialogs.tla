----------------------------- MODULE WGDialogs -----------------------------
(***************************************************************************)
(* The controls of the installer's dialogs (wg_engine.c): the table that   *)
(* all windows share, the templates it is filled from, the inner page that *)
(* replaces the one before it, and the handles the guest keeps.            *)
(*                                                                         *)
(* A control has no window: its handle is its index in the table.  The     *)
(* specification numbers the controls as they are made, and remembers for  *)
(* which one the guest was given a handle.                                 *)
(***************************************************************************)
EXTENDS Integers, Sequences, FiniteSets

CONSTANTS
    MaxControls,    \* s_ctrls: 160 in the source
    MaxDialogWindows,    \* bound: windows made by a program
    Templates,      \* bound: the dialog templates of a program
    MaxControlsMade \* bound: controls made

VARIABLES
    s_ctrls,        \* the controls: window, id, and number
    ctrlsMade,      \* how many were made
    standing,         \* windows that are not destroyed
    nextHwnd,       \* the next window handle
    frame,          \* s_dlg_hwnd while s_dlg_active, 0 if none
    s_inner_page,   \* the inner page to retire
    heldHandles,    \* what the guest keeps: index, number, and whether it may be stale
    misparsed,       \* a template was taken for something else
    strays          \* what happened that the rest is not promised under

dialogVars == <<s_ctrls, ctrlsMade, standing, nextHwnd, frame, s_inner_page, heldHandles,
                misparsed, strays>>

-----------------------------------------------------------------------------
(* Templates, in 16 bit words.                                             *)

FFFF == 65535
Zeros(n) == [k \in 1 .. n |-> 0]

NameWords(n) == IF n = <<>> THEN <<0>>
                ELSE IF n[1] = FFFF THEN n
                ELSE n \o <<0>>

Padded(ws) == IF Len(ws) % 2 = 0 THEN ws ELSE ws \o <<0>>

ItemWords(i) ==
    Zeros(10) \o <<i.id, 0>> \o NameWords(i.class) \o NameWords(i.title)
    \o <<2 * i.extra>> \o [k \in 1 .. i.extra |-> 7]

FixedWords(t) ==
    <<1, FFFF, 0, 0, 0, 0, IF t.font THEN 64 ELSE 0, 0, Len(t.items), 0, 0, 300, 200>>

FontWords(t) == IF t.font THEN <<8, 0, 0, 65, 0>> ELSE <<>>

HeaderWords(t) ==
    FixedWords(t) \o NameWords(t.menu) \o NameWords(t.class) \o NameWords(t.title)
    \o FontWords(t)

\* A DLGTEMPLATEEX: every item starts at a double word.
Encoded(t) ==
    LET upTo[k \in 0 .. Len(t.items)] ==
            IF k = 0 THEN HeaderWords(t) ELSE Padded(upTo[k - 1]) \o ItemWords(t.items[k])
    IN  upTo[Len(t.items)]

WordAt(t, p) == IF p \in 0 .. Len(t) - 1 THEN t[p + 1] ELSE 0

\* res_skip_sz: behind a name.
res_skip_sz(t, p) ==
    IF WordAt(t, p) = 0 THEN p + 1
    ELSE IF WordAt(t, p) = FFFF THEN p + 2
    ELSE 1 + CHOOSE q \in p .. Len(t) : WordAt(t, q) = 0 /\ \A r \in p .. q - 1 : WordAt(t, r) # 0

Aligned(p) == p + (p % 2)

\* Where an item's title is, by its class; and behind the item.
TitleAt(t, p) == res_skip_sz(t, p + 12)
ItemEnd(t, p) == LET e == res_skip_sz(t, TitleAt(t, p))
                 IN  e + 1 + WordAt(t, e) \div 2

FirstItem(t) ==
    LET p == res_skip_sz(t, res_skip_sz(t, res_skip_sz(t, 13)))
    IN  IF WordAt(t, 6) = 64 THEN res_skip_sz(t, p + 3) ELSE p

\* The walk of wg_parse_dialog, for as many items as the table has room for: p[k] is
\* behind the k-th item.
TemplateIds(t, room) ==
    LET n == IF WordAt(t, 8) < room THEN WordAt(t, 8) ELSE room
        p[k \in 0 .. n] == IF k = 0 THEN FirstItem(t) ELSE ItemEnd(t, Aligned(p[k - 1]))
    IN  IF WordAt(t, 0) # 1 \/ WordAt(t, 1) # FFFF THEN <<>>
        ELSE [k \in 1 .. n |-> WordAt(t, Aligned(p[k - 1]) + 10)]

\* What a resource compiler writes: a name is nothing, an ordinal, or characters.
Name == {n \in Seq(Nat) : \/ n = <<>>
                          \/ Len(n) = 2 /\ n[1] = FFFF
                          \/ n[1] # FFFF /\ \A k \in 1 .. Len(n) : n[k] # 0}

ASSUME DialogsAssumption ==
    /\ MaxControls \in Nat /\ MaxDialogWindows \in Nat /\ MaxControlsMade \in Nat
    /\ \A t \in Templates :
          /\ t.font \in BOOLEAN /\ t.menu \in Name /\ t.class \in Name /\ t.title \in Name
          /\ t.items \in Seq([id : Nat, class : Name, title : Name, extra : Nat])

-----------------------------------------------------------------------------
DialogsInit ==
    /\ s_ctrls = <<>>
    /\ ctrlsMade = 0
    /\ standing = {}
    /\ nextHwnd = 1
    /\ frame = 0
    /\ s_inner_page = 0
    /\ heldHandles = {}
    /\ misparsed = FALSE
    /\ strays = {}

\* Mutant of wg_remove_ctrls: the last control is moved into each hole.
wg_remove_ctrls_swaps(table, hwnd) ==
    LET keep == SelectSeq(table, LAMBDA c : c.hwnd # hwnd)
    IN  IF Len(keep) \in {0, Len(table)} THEN keep
        ELSE <<keep[Len(keep)]>> \o SubSeq(keep, 1, Len(keep) - 1)

\* wg_remove_ctrls: those that stay move up.
wg_remove_ctrls(table, hwnd) ==
    LET kept[i \in 0 .. Len(table)] ==
            IF i = 0 THEN <<>>
            ELSE IF table[i].hwnd = hwnd THEN kept[i - 1]
            ELSE Append(kept[i - 1], table[i])
    IN  kept[Len(table)]

\* Handles from the first control that goes on are not the guest's any more.
Stale(held, table, hwnd) ==
    {[h EXCEPT !.fresh = @ /\ \A k \in 1 .. Len(table) : table[k].hwnd = hwnd => h.index < k] :
        h \in held}

\* wg_find_ctrl: the first control of a window with an id.
wg_find_ctrl(hwnd, id) ==
    {k \in 1 .. Len(s_ctrls) : /\ s_ctrls[k].hwnd = hwnd /\ s_ctrls[k].id = id
                               /\ \A i \in 1 .. k - 1 : s_ctrls[i].hwnd # hwnd \/ s_ctrls[i].id # id}

\* A fresh window's controls by its template.
Parsed(table, hwnd, t) ==
    LET ids == TemplateIds(Encoded(t), MaxControls - Len(table))
    IN  table \o [k \in 1 .. Len(ids) |-> [hwnd |-> hwnd, id |-> ids[k], number |-> ctrlsMade + k]]

AsEncoded(table, t) ==
    LET ids == TemplateIds(Encoded(t), MaxControls - Len(table))
    IN  \A k \in 1 .. Len(ids) : ids[k] = t.items[k].id

\* wg_parse_dialog, on the table as it is by then.
wg_parse_dialog(table, hwnd, t) ==
    /\ s_ctrls' = Parsed(table, hwnd, t)
    /\ ctrlsMade' = ctrlsMade + Len(Parsed(table, hwnd, t)) - Len(table)
    /\ ctrlsMade' <= MaxControlsMade
    /\ misparsed' = (misparsed \/ ~ AsEncoded(table, t))

-----------------------------------------------------------------------------
\* DialogBoxParamW makes the frame.
DialogBoxParamW(t) ==
    /\ frame = 0 /\ nextHwnd <= MaxDialogWindows
    /\ frame' = nextHwnd
    /\ standing' = standing \cup {nextHwnd}
    /\ nextHwnd' = nextHwnd + 1
    /\ wg_parse_dialog(s_ctrls, nextHwnd, t)
    /\ UNCHANGED <<s_inner_page, heldHandles, strays>>

\* wg_retire_inner_page: what is left of the last inner page goes; its number may be
\* one of the program before.
wg_retire_inner_page(keep) ==
    IF s_inner_page \in {0, keep}
    THEN standing' = standing \cup {keep} /\ heldHandles' = heldHandles
    ELSE /\ standing' = (standing \ {s_inner_page}) \cup {keep}
         /\ heldHandles' = Stale(heldHandles, s_ctrls, s_inner_page)

AfterRetire(keep) ==
    IF s_inner_page \in {0, keep} THEN s_ctrls ELSE wg_remove_ctrls(s_ctrls, s_inner_page)

\* CreateDialogParamW makes an inner page from a template.
CreateDialogParamW(t) ==
    /\ frame # 0 /\ nextHwnd <= MaxDialogWindows
    /\ nextHwnd' = nextHwnd + 1
    /\ wg_retire_inner_page(nextHwnd)
    /\ wg_parse_dialog(AfterRetire(nextHwnd), nextHwnd, t)
    /\ s_inner_page' = nextHwnd
    /\ UNCHANGED <<frame, strays>>

\* nsDialogs::Create makes an empty one.
nsDialogsCreate ==
    /\ frame # 0 /\ nextHwnd <= MaxDialogWindows
    /\ nextHwnd' = nextHwnd + 1
    /\ wg_retire_inner_page(nextHwnd)
    /\ s_ctrls' = AfterRetire(nextHwnd)
    /\ s_inner_page' = nextHwnd
    /\ UNCHANGED <<ctrlsMade, frame, misparsed, strays>>

\* nsDialogs::CreateControl puts a control on the page, if the table has room, and
\* gives its handle.
CreateControl ==
    /\ s_inner_page \in standing /\ ctrlsMade < MaxControlsMade
    /\ Len(s_ctrls) < MaxControls
    /\ s_ctrls' = Append(s_ctrls, [hwnd |-> s_inner_page, id |-> 9, number |-> ctrlsMade + 1])
    /\ ctrlsMade' = ctrlsMade + 1
    /\ heldHandles' = heldHandles \cup
           {[index |-> Len(s_ctrls) + 1, number |-> ctrlsMade + 1, fresh |-> TRUE]}
    /\ UNCHANGED <<standing, nextHwnd, frame, s_inner_page, misparsed, strays>>

\* GetDlgItem.
GetDlgItem(hwnd, id) ==
    \E k \in wg_find_ctrl(hwnd, id) :
        /\ heldHandles' = heldHandles \cup
               {[index |-> k, number |-> s_ctrls[k].number, fresh |-> TRUE]}
        /\ UNCHANGED <<s_ctrls, ctrlsMade, standing, nextHwnd, frame, s_inner_page,
                       misparsed, strays>>

\* DestroyWindow.
DestroyWindow(hwnd) ==
    /\ hwnd \in standing
    /\ standing' = standing \ {hwnd}
    /\ heldHandles' = Stale(heldHandles, s_ctrls, hwnd)
    /\ s_ctrls' = wg_remove_ctrls(s_ctrls, hwnd)
    /\ UNCHANGED <<ctrlsMade, nextHwnd, frame, s_inner_page, misparsed, strays>>

\* EndDialog leaves the frame's window and controls where they are.
EndDialog ==
    /\ frame # 0
    /\ frame' = 0
    /\ UNCHANGED <<s_ctrls, ctrlsMade, standing, nextHwnd, s_inner_page, heldHandles,
                   misparsed, strays>>

\* wg_engine_load_pe: everything but the inner page is forgotten, and window handles
\* start again.
LoadForgets ==
    /\ strays' = IF s_inner_page # 0 THEN strays \cup {"inner page of another program"} ELSE strays
    /\ nextHwnd > 1
    /\ s_ctrls' = <<>> /\ ctrlsMade' = 0 /\ standing' = {} /\ nextHwnd' = 1
    /\ frame' = 0 /\ heldHandles' = {}
    /\ UNCHANGED <<s_inner_page, misparsed>>

DialogsNext ==
    \/ \E t \in Templates : DialogBoxParamW(t) \/ CreateDialogParamW(t)
    \/ nsDialogsCreate \/ CreateControl
    \/ \E hwnd \in standing : DestroyWindow(hwnd) \/ \E id \in {1, 2, 9} : GetDlgItem(hwnd, id)
    \/ EndDialog \/ LoadForgets

DialogsSpec == DialogsInit /\ [][DialogsNext]_dialogVars

-----------------------------------------------------------------------------
DialogsTypeOK ==
    /\ Len(s_ctrls) <= MaxControls
    /\ ctrlsMade \in 0 .. MaxControlsMade
    /\ nextHwnd \in 1 .. MaxDialogWindows + 1 /\ standing \subseteq 1 .. nextHwnd - 1
    /\ frame \in 0 .. MaxDialogWindows /\ s_inner_page \in 0 .. MaxDialogWindows

\* A handle of a control means that control as long as none before it was removed: a
\* page that goes does not renumber the frame around it.
HandlesStand ==
    \A h \in heldHandles : h.fresh => h.index <= Len(s_ctrls) /\ s_ctrls[h.index].number = h.number

\* Of a dialog's windows only the frame and the last inner page are left, so an old
\* page does not bleed through; the frame is not retired, and no control belongs to a
\* window that is gone.
PageAlone ==
    strays = {} =>
        /\ \A k \in 1 .. Len(s_ctrls) : s_ctrls[k].hwnd \in standing
        /\ \A w \in standing : s_inner_page # 0 /\ w > frame /\ frame # 0 => w = s_inner_page

\* The walk over a template finds its items.
TemplatesRead == ~ misparsed

\* The handles the guest keeps, the pages it sees and the controls it finds are those
\* it asked for (wg_remove_ctrls, wg_retire_inner_page, wg_parse_dialog).
DialogsRight == HandlesStand /\ PageAlone /\ TemplatesRead

=============================================================================
