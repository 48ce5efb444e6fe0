------------------------------ MODULE WGRaster ------------------------------
(***************************************************************************)
(* Where pixels go: the drawing of wg_win32_gdi.c, the rows of a DIB in    *)
(* wg_win32_bitmap.c, the layout of WGCompositor.m and its inverse, by     *)
(* which a tap finds the button it was aimed at (WGSceneDelegate.m and     *)
(* wg_engine_hit_test).                                                    *)
(*                                                                         *)
(* A job is one call with its arguments, and marks what it did: pixels,    *)
(* each with the source it was drawn from.  A line is drawn pixel by       *)
(* pixel, as Bresenham's loop does.  A framebuffer is W by H.              *)
(***************************************************************************)
EXTENDS Integers, FiniteSets

CONSTANTS
    W, H,           \* bound: size of a framebuffer
    Coordinates,    \* bound: coordinates given to a drawing
    Sizes2D,        \* bound: sizes of a rectangle to blit
    Scales          \* bound: screen pixels for one of the 800 by 600, as <<p, q>>: p/q

\* Sizes and coordinates are C's int; a screen has pixels.
ASSUME RasterAssumption ==
    /\ W \in Nat \ {0} /\ H \in Nat \ {0}
    /\ Coordinates \subseteq Int /\ Sizes2D \subseteq Int
    /\ Scales \subseteq (Nat \ {0}) \X (Nat \ {0})

VARIABLES
    job,            \* the call
    returned,       \* whether it has returned
    marked,         \* what it marked: <<x, y>>, or <<x, y, sx, sy>> for a blit
    pen             \* a line's <<x0, y0, err>>

rasterVars == <<job, returned, marked, pen>>

Pixels == (0 .. W - 1) \X (0 .. H - 1)
Within(x, y) == <<x, y>> \in Pixels
AtLeast(a, b) == IF a > b THEN a ELSE b
AtMost(a, b)  == IF a < b THEN a ELSE b
AbsOf(x) == IF x < 0 THEN - x ELSE x
\* C's division and its conversion to int cut towards zero.
Cut(a, b) == IF a < 0 THEN - ((- a) \div b) ELSE a \div b

-----------------------------------------------------------------------------

\* FillRect: the rectangle is cut to the framebuffer.
wg_gdi_fill_rect(l, t, r, b) ==
    (AtLeast(l, 0) .. AtMost(r, W) - 1) \X (AtLeast(t, 0) .. AtMost(b, H) - 1)

\* A blit of a rectangle of a bw by bh bitmap, nearest neighbour.
blit_pixels(dx, dy, dw, dh, sx, sy, sw, sh, bw, bh) ==
    {<<dx + i, dy + j, sx + Cut(i * sw, dw), sy + Cut(j * sh, dh)>> :
        i \in {k \in 0 .. dw - 1 : /\ dx + k \in 0 .. W - 1
                                   /\ sx + Cut(k * sw, dw) \in 0 .. bw - 1},
        j \in {k \in 0 .. dh - 1 : /\ dy + k \in 0 .. H - 1
                                   /\ sy + Cut(k * sh, dh) \in 0 .. bh - 1}}

\* The row of the data that becomes row y of a bitmap of h rows.
DibRow(y, h, top_down) == IF top_down THEN y ELSE h - 1 - y

\* decode_dib: each row of the data is put in its place.
decode_dib(w, h, top_down) ==
    {<<x, DibRow(r, h, top_down), x, r>> : x \in 0 .. w - 1, r \in 0 .. h - 1}

\* wg_gdi_draw_bitmap: a size that is not positive is the bitmap's, or the source's.
wg_gdi_draw_bitmap(dx, dy, dw, dh, sx, sy, sw, sh, bw, bh) ==
    LET w == IF sw <= 0 THEN bw ELSE sw
        h == IF sh <= 0 THEN bh ELSE sh
    IN  blit_pixels(dx, dy, IF dw <= 0 THEN w ELSE dw, IF dh <= 0 THEN h ELSE dh,
                    sx, sy, w, h, bw, bh)

-----------------------------------------------------------------------------
(* A window and a tap.  The window is at (x, y) in the 800 by 600 space,   *)
(* its client area below the title bar of tb rows.                         *)

\* The compositor: the left or upper edge, in q-ths of a screen pixel, of column
\* or row v, when the space starts at off.
Edge(off, v, scale) == off * scale[2] + v * scale[1]

\* The screen pixels of a button of the dialog, of which the client area shows
\* those from (px, py) on, w by h.
ScreenColumns(off, x, px, w, scale) ==
    {p \in 0 .. 20 : /\ p * scale[2] >= Edge(off, x + px, scale)
                     /\ p * scale[2] < Edge(off, x + px + w, scale)}

\* handleTap: the inverse of the layout, cut to an integer.
Virtual(off, p, scale) == Cut((p - off) * scale[2], scale[1])

\* Mutant of hit_test: the title bar is not taken away.
hit_test_whole(vx, vy, x, y, tb, px, py, w, h) ==
    vx - x >= px /\ vx - x < px + w /\ vy - y >= py /\ vy - y < py + h

\* wg_engine_hit_test: the point is in the client area and in the button.
hit_test(vx, vy, x, y, tb, px, py, w, h) ==
    /\ vx - x >= 0 /\ vy - (y + tb) >= 0
    /\ vx - x >= px /\ vx - x < px + w
    /\ vy - (y + tb) >= py /\ vy - (y + tb) < py + h

-----------------------------------------------------------------------------
Fills == [call : {"fill"}, l : Coordinates, t : Coordinates, r : Coordinates, b : Coordinates]
Blits == [call : {"blit"}, dx : Coordinates, dy : Coordinates, dw : Sizes2D, dh : Sizes2D,
          sx : Coordinates, sy : Coordinates, sw : Sizes2D, sh : Sizes2D]
Dibs  == [call : {"dib"}, w : 1 .. W, h : 1 .. H, top_down : BOOLEAN]
Lines == [call : {"line"}, x0 : Coordinates, y0 : Coordinates, x1 : Coordinates, y1 : Coordinates]
Taps  == [call : {"tap"}, off : 0 .. 2, scale : Scales, at : 0 .. 1, tb : 0 .. 1,
          px : 0 .. 1, w : 1 .. 2]

\* Where the error of a line starts.
FirstErr(j) ==
    LET adx == AbsOf(j.x1 - j.x0)
        ady == AbsOf(j.y1 - j.y0)
    IN  Cut(IF adx > ady THEN adx ELSE - ady, 2)

RasterInit ==
    /\ job = [call |-> "none"]
    /\ returned = FALSE
    /\ marked = {}
    /\ pen = <<0, 0, 0>>

NewJob ==
    /\ job.call = "none"
    /\ job' \in Fills \cup Blits \cup Dibs \cup Lines \cup Taps
    /\ pen' = IF job'.call = "line" THEN <<job'.x0, job'.y0, FirstErr(job')>> ELSE pen
    /\ UNCHANGED <<returned, marked>>

Fill == job.call = "fill" /\ marked' = wg_gdi_fill_rect(job.l, job.t, job.r, job.b)
Blit == job.call = "blit" /\ marked' = wg_gdi_draw_bitmap(job.dx, job.dy, job.dw, job.dh,
                                          job.sx, job.sy, job.sw, job.sh, W, H)
Dib  == job.call = "dib" /\ marked' = decode_dib(job.w, job.h, job.top_down)

\* The taps, on the pixels of the button, that hit it.
Tap  == /\ job.call = "tap"
        /\ marked' = {m \in ScreenColumns(job.off, job.at, job.px, job.w, job.scale)
                            \X ScreenColumns(job.off, job.at + job.tb, job.px, job.w, job.scale) :
                        hit_test(Virtual(job.off, m[1], job.scale), Virtual(job.off, m[2], job.scale),
                                 job.at, job.at, job.tb, job.px, job.px, job.w, job.w)}

\* One turn of the loop of LineTo.
LineStep ==
    LET dx == job.x1 - job.x0
        dy == job.y1 - job.y0
        e2 == pen[3]
        along == e2 > - AbsOf(dx)
        down  == e2 < AbsOf(dy)
    IN  /\ job.call = "line"
        /\ marked' = marked \cup (Pixels \cap {<<pen[1], pen[2]>>})
        /\ IF <<pen[1], pen[2]>> = <<job.x1, job.y1>>
           THEN returned' = TRUE /\ UNCHANGED pen
           ELSE /\ pen' = <<pen[1] + (IF ~ along THEN 0 ELSE IF dx < 0 THEN -1 ELSE 1),
                            pen[2] + (IF ~ down THEN 0 ELSE IF dy < 0 THEN -1 ELSE 1),
                            e2 - (IF along THEN AbsOf(dy) ELSE 0) + (IF down THEN AbsOf(dx) ELSE 0)>>
                /\ UNCHANGED returned

RasterNext ==
    \/ NewJob
    \/ /\ ~ returned /\ job' = job
       /\ \/ (Fill \/ Blit \/ Dib \/ Tap) /\ returned' = TRUE /\ pen' = pen
          \/ LineStep

RasterSpec == RasterInit /\ [][RasterNext]_rasterVars

-----------------------------------------------------------------------------
RasterTypeOK == returned \in BOOLEAN /\ pen \in Int \X Int \X Int

\* A fill marks the pixels of its rectangle that exist; a blit reads no pixel that
\* its bitmap has not and leaves none of those it should draw; a DIB fills every
\* pixel once; a tap on any screen pixel of a button finds the button.
PixelsRight ==
    /\ returned /\ job.call = "fill" =>
         marked = {p \in Pixels : p[1] >= job.l /\ p[1] < job.r /\ p[2] >= job.t /\ p[2] < job.b}
    /\ returned /\ job.call = "blit" =>
         /\ \A m \in marked : Within(m[1], m[2]) /\ Within(m[3], m[4])
         /\ \A m, n \in marked : <<m[1], m[2]>> = <<n[1], n[2]>> => m = n
         /\ job.dw = job.sw /\ job.dh = job.sh /\ job.dw > 0 /\ job.dh > 0 =>
              {<<m[1], m[2]>> : m \in marked} =
              {p \in Pixels : /\ p[1] - job.dx \in 0 .. job.dw - 1 /\ p[2] - job.dy \in 0 .. job.dh - 1
                              /\ Within(p[1] - job.dx + job.sx, p[2] - job.dy + job.sy)}
    /\ returned /\ job.call = "dib" =>
         /\ {<<m[1], m[2]>> : m \in marked} = (0 .. job.w - 1) \X (0 .. job.h - 1)
         /\ Cardinality(marked) = job.w * job.h
    /\ returned /\ job.call = "tap" =>
         marked = ScreenColumns(job.off, job.at, job.px, job.w, job.scale)
                  \X ScreenColumns(job.off, job.at + job.tb, job.px, job.w, job.scale)

\* A line stays in the box of its ends and on the line, within half a pixel, so it
\* reaches its end (wg_gdi_line_to stops nowhere else).
OnTheLine ==
    job.call = "line" =>
      LET dx == job.x1 - job.x0
          dy == job.y1 - job.y0
          off == (pen[1] - job.x0) * dy - (pen[2] - job.y0) * dx
      IN  2 * AbsOf(off) <= AtLeast(AbsOf(dx), AbsOf(dy))

\* The pixels that FillRect, LineTo, BitBlt and StretchDIBits set, and the button that
\* wg_engine_hit_test finds under a tap, are where the guest put them.
DrawingRight == PixelsRight /\ OnTheLine

=============================================================================
