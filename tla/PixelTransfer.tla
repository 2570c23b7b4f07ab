---------------------------- MODULE PixelTransfer ----------------------------
(***************************************************************************)
(* Mode 3 of one line of the monochrome picture unit (Ppu::tick_mode3 and  *)
(* what it calls, src/src/ppu_timing.cpp): the fetcher, the queue of       *)
(* background pixels, the window's handoffs and the objects, with the      *)
(* writes of LCDC and WX (ppu.cpp) that reach into them. A pixel is where  *)
(* it comes from: a column of the background, or a row and a column of the *)
(* window. Objects are opaque and in front. The LCD stays on, the window's *)
(* first line has been passed, and what is written is written while the    *)
(* transfer runs.                                                          *)
(***************************************************************************)
EXTENDS Integers, Sequences, FiniteSets

CONSTANTS Width,          \* screen_width
          FirstDot,       \* 80: the dot mode 3 begins at
          LatestEnd,      \* 369: mode3_end_dot_ as begin_mode3() leaves it
          WriteStep,      \* 4: writes come a whole number of dots apart
          Scrolls,        \* values of SCX
          Delays,         \* what a late write of SCX adds to the startup
          WindowsAt,      \* values of WX
          ObjectLists,    \* the X of the line's objects, in the order they are fetched
          Controls,       \* values of LCDC: subsets of {"background", "objects", "window"}
          MaxPixelWrites

ASSUME PixelAssumption ==
    /\ {Width, FirstDot, LatestEnd, MaxPixelWrites} \subseteq Nat /\ WriteStep \in Nat \ {0}
    /\ FirstDot < LatestEnd
    /\ Scrolls \cup Delays \cup WindowsAt \subseteq 0 .. 255
    /\ \A l \in ObjectLists : l \in Seq(0 .. 255) /\ Len(l) <= 10
    /\ Controls \subseteq SUBSET {"background", "objects", "window"}

VARIABLES line,         \* what no write changes: [scx, objects]
          lcdc, wx,     \* the registers
          p             \* the members of Ppu that the transfer uses

pixelVars == <<line, lcdc, wx, p>>

\* Pixels of a tile, the X that is off the right edge, and the two marks that
\* share window_disable_source_x_ with columns.
Tile     == 8
OffRight == Width + Tile
Handoff  == 65535
Prefix   == 256

Larger(a, b) == IF a > b THEN a ELSE b

Background(column) == <<"background", column % 256>>
Window(row, column) == <<"window", row, column>>
Blank == <<"blank">>

Nothing == [by |-> 0, left |-> 0]
NoFetch    == [pending |-> 0, render |-> 0]

\* output_x_
Out(q) == Len(q.shown)

WindowOn == {"background", "window"} \subseteq lcdc /\ wx <= Width + 6
WindowStart == Larger(0, wx - 7)

\* begin_mode3()
Begun(l, delay) ==
    [dot |-> FirstDot - 1, end |-> LatestEnd, running |-> TRUE, startup |-> 12 + delay,
     scroll |-> l.scx % Tile, fifo |-> <<>>, shown |-> <<>>,
     phase |-> 0, ticks |-> 2, tile |-> 0, source |-> 0, name |-> 0, ofWindow |-> FALSE, discard |-> TRUE,
     using |-> FALSE, wait |-> 0, column |-> 0, start |-> 0, row |-> 0,
     activations |-> 0, drew |-> {}, rearmed |-> FALSE, windowLine |-> 0,
     disable |-> FALSE, disableAt |-> 0, trigger |-> FALSE, triggerAt |-> 0,
     glitch |-> FALSE, glitchAt |-> 0, applied |-> FALSE, appliedAt |-> 0, restore |-> Blank,
     next |-> 0, objectWait |-> 0, objects |-> [i \in DOMAIN l.objects |-> NoFetch],
     held |-> [x \in 0 .. Width - 1 |-> Nothing],
     last |-> [tile |-> 0, inWindow |-> FALSE, known |-> FALSE], writes |-> 0]

PixelInit ==
    /\ line \in [scx : Scrolls, objects : ObjectLists]
    /\ lcdc \in Controls
    /\ wx \in WindowsAt
    /\ \E delay \in Delays : p = Begun(line, delay)

-----------------------------------------------------------------------------
(* The fetcher: tick_background_fetcher()                                  *)
\* The first pixels are those of the tile whose name was read, the others
\* those of the tile after the source's.
Push(q) ==
    LET column(s) == IF s \div Tile = q.source \div Tile THEN Tile * q.name + (s % Tile) ELSE s
        pixel(s)  == IF q.ofWindow THEN Window(q.row, column(s)) ELSE Background(column(s))
    IN  IF q.discard THEN [q EXCEPT !.discard = FALSE, !.phase = 0, !.ticks = 2]
        ELSE [q EXCEPT !.fifo = @ \o [c \in 1 .. Tile |-> pixel(q.source + c - 1)],
                       !.tile = @ + 1, !.phase = 0, !.ticks = 2]

Fetched(q) ==
    CASE q.phase = 0 ->
           [q EXCEPT !.ofWindow = q.using,
                     !.source = IF q.using THEN q.start + q.tile * Tile
                                ELSE (Tile * (line.scx \div Tile + q.tile)) % 256,
                     !.phase = 1, !.ticks = 2]
      [] q.phase = 1 -> [q EXCEPT !.name = q.source \div Tile, !.phase = 2, !.ticks = 2]
      [] q.phase = 2 /\ q.fifo # <<>> -> [q EXCEPT !.phase = 3, !.ticks = 2]
      [] q.phase # 2 /\ Len(q.fifo) > Tile -> [q EXCEPT !.phase = 4, !.ticks = 1]
      [] OTHER -> Push(q)

FetchBackground(q) ==
    CASE q.phase = 4 /\ Len(q.fifo) > Tile -> q
      [] q.ticks > 1 -> [q EXCEPT !.ticks = @ - 1]
      [] OTHER -> Fetched(q)

-----------------------------------------------------------------------------
(* The window's handoffs                                                   *)
\* The window's column in the first pixel it shows.
FirstColumnOfAll == 0
FirstColumn == Larger(0, 7 - wx)

BeginWindow(q) ==
    LET resumed == q.disableAt = Handoff /\ Out(q) < Tile
        column  == IF resumed THEN 7 ELSE FirstColumn
    IN  [q EXCEPT !.trigger = FALSE, !.using = TRUE, !.rearmed = FALSE,
                  !.disableAt = IF resumed THEN 0 ELSE @,
                  !.row = q.windowLine + q.activations, !.activations = @ + 1,
                  !.fifo = <<>>, !.phase = 0, !.ticks = 2, !.tile = 0,
                  !.wait = IF wx = 0 /\ line.scx % Tile # 0 THEN 6 ELSE 5,
                  !.column = column, !.start = column]

ResumeBackground(q) ==
    [q EXCEPT !.using = FALSE, !.disable = FALSE,
              !.disableAt = IF q.disable /\ @ = Tile /\ Out(q) < Tile THEN Handoff ELSE @,
              !.glitch = FALSE, !.applied = FALSE,
              !.fifo = <<>>, !.phase = 0, !.ticks = 2, !.tile = Out(q) \div Tile]

-----------------------------------------------------------------------------
(* Objects                                                                 *)
TriggerAt(x) == Larger(0, x - 8)

\* trigger_sprites(): what the objects from q.next on that begin at or before
\* the pixel cost, one after another.
Costs(q, due) ==
    LET step(c, x) ==
          LET inWindow == q.using /\ x - 8 >= wx - 7
              from  == IF inWindow THEN x - 8 - (wx - 7) ELSE x - 8 + line.scx
              tile  == from \div Tile
              phase == IF x = 0 THEN 0 ELSE from % Tile
              same  == c.last = [tile |-> tile, inWindow |-> inWindow, known |-> TRUE]
          IN  [cost |-> c.cost + 6 + IF same \/ phase > 4 THEN 0 ELSE 5 - phase,
               last |-> [tile |-> tile, inWindow |-> inWindow, known |-> TRUE]]
        after[i \in q.next .. q.next + due] ==
          IF i = q.next THEN [cost |-> 0, last |-> q.last]
          ELSE step(after[i - 1], line.objects[i])
    IN  after

TriggerObjects(q) ==
    LET begun(i) == line.objects[i] >= OffRight \/ TriggerAt(line.objects[i]) <= Out(q)
        due   == CHOOSE n \in 0 .. Len(line.objects) - q.next :
                   /\ \A i \in q.next + 1 .. q.next + n : begun(i)
                   /\ q.next + n < Len(line.objects) => ~begun(q.next + n + 1)
        seen  == Cardinality({i \in q.next + 1 .. q.next + due : line.objects[i] < OffRight})
        costs == Costs(q, seen)
        tail(x) == IF x \in {3, 4} THEN 6 ELSE 10
    IN  IF "objects" \notin lcdc \/ seen = 0
          THEN [q EXCEPT !.next = @ + due]
          ELSE [q EXCEPT
                  !.next = @ + due, !.last = costs[q.next + seen].last,
                  !.objectWait = costs[q.next + seen].cost,
                  !.objects = [i \in DOMAIN @ |->
                     IF i \in q.next + 1 .. q.next + seen
                       THEN [pending |-> costs[i].cost + tail(line.objects[i]),
                             render |-> costs[i].cost - 1]
                       ELSE @[i]]]

\* The countdowns of the objects being fetched, fetch_object(), and those of
\* their pixels.
Covers(i, x) == x \in line.objects[i] - 8 .. line.objects[i] - 1

CountObjects(q) ==
    LET busy  == {i \in DOMAIN q.objects : q.objects[i].pending > 0}
        drawn == {i \in busy : q.objects[i].render = 1 /\ "objects" \in lcdc}
        over(x) == {i \in drawn : Covers(i, x)}
        first(s) == CHOOSE i \in s : \A j \in s : i <= j
        held(x) ==
          IF q.held[x].by = 0 /\ over(x) # {}
            THEN [by |-> first(over(x)),
                  left |-> q.objects[first(over(x))].pending - 1
                             + (x - (line.objects[first(over(x))] - 8))]
            ELSE q.held[x]
    IN  [q EXCEPT
           !.objects = [i \in DOMAIN @ |->
              IF i \in busy THEN [pending |-> @[i].pending - 1,
                                  render |-> Larger(0, @[i].render - 1)]
              ELSE @[i]],
           !.held = [x \in DOMAIN @ |-> [held(x) EXCEPT !.left = Larger(0, @ - 1)]]]

-----------------------------------------------------------------------------
(* Pixels                                                                  *)
\* compose_pixel()
ObjectAt(q, x) == IF "objects" \in lcdc THEN q.held[x].by ELSE 0

Repaint(q, x, ground) ==
    [q EXCEPT !.shown[x + 1].ground = ground, !.shown[x + 1].object = ObjectAt(q, x)]

EmitPixel(q) ==
    LET x      == Out(q)
        glitch == q.glitch /\ q.glitchAt = x
        prefix == q.using /\ q.disableAt >= Prefix /\ x < q.disableAt % Prefix
        masked(pixel) == IF "background" \in lcdc THEN pixel ELSE Blank
        ground == masked(IF prefix THEN Background(line.scx + x)
                         ELSE IF glitch THEN Blank ELSE Head(q.fifo))
        inWindow == q.using /\ ~glitch
    IN  [q EXCEPT
           !.shown = Append(@, [ground |-> ground, object |-> ObjectAt(q, x), emitted |-> ground]),
           !.fifo = IF glitch THEN @ ELSE Tail(@),
           !.drew = IF inWindow THEN @ \union {q.activations} ELSE @,
           !.column = IF inWindow THEN @ + 1 ELSE @,
           !.disableAt = IF q.using /\ @ >= Prefix /\ x + 1 >= @ % Prefix THEN 0 ELSE @,
           !.glitch = @ /\ ~glitch, !.applied = @ \/ glitch,
           !.appliedAt = IF glitch THEN x ELSE @,
           !.restore = IF glitch THEN Head(q.fifo) ELSE @,
           !.end = IF x + 1 = Width THEN q.dot + 1 ELSE @]

\* The rest of tick_mode3() once startup and handoff are over.
Advance(q) ==
    LET objects == TriggerObjects(q)
    IN  CASE q.objectWait > 0 -> [q EXCEPT !.objectWait = @ - 1]
          [] q.objectWait = 0 /\ q.scroll > 0 ->
               IF q.fifo = <<>> THEN q ELSE [q EXCEPT !.fifo = Tail(@), !.scroll = @ - 1]
          [] q.objectWait = 0 /\ q.scroll = 0 /\ q.using /\ q.disable /\ q.column >= q.disableAt ->
               ResumeBackground(q)
          [] /\ q.objectWait = 0 /\ q.scroll = 0 /\ ~q.using /\ (WindowOn \/ q.trigger)
             /\ q.activations = 0 \/ q.rearmed
             /\ Out(q) >= IF q.trigger THEN q.triggerAt ELSE WindowStart ->
               BeginWindow(q)
          [] OTHER -> IF objects.objectWait # 0 THEN [objects EXCEPT !.objectWait = @ - 1]
                      ELSE IF q.fifo = <<>> THEN objects ELSE EmitPixel(objects)

Transferred(q) ==
    CASE q.startup > 0 -> [q EXCEPT !.startup = @ - 1]
      [] q.startup = 0 /\ q.wait > 0 -> [q EXCEPT !.wait = @ - 1]
      [] OTHER -> Advance(CountObjects(q))

\* One dot of Ppu::tick while STAT's mode is 3: the last one ends it.
TransferDot ==
    /\ p.running
    /\ LET q == [p EXCEPT !.dot = @ + 1]
       IN  p' = IF q.dot < q.end THEN Transferred(FetchBackground(q))
                ELSE [q EXCEPT !.running = FALSE,
                               !.windowLine = IF q.drew = {} THEN @ ELSE @ + q.activations]
    /\ UNCHANGED <<line, lcdc, wx>>

-----------------------------------------------------------------------------
(* FF40, with the LCD left on                                              *)
DisableWindow(q) ==
    LET x       == Out(q)
        resumed == ResumeBackground(q)
        from    == (line.scx % Tile) + x
    IN  CASE q.using /\ q.column \in {1, 2} ->
               [resumed EXCEPT
                  !.shown = [i \in DOMAIN @ |->
                     IF i > x - q.column
                       THEN [@[i] EXCEPT !.ground = Background(line.scx + i - 1),
                                         !.object = ObjectAt(q, i - 1)]
                       ELSE @[i]],
                  !.tile = from \div Tile, !.scroll = from % Tile]
          [] q.using /\ q.column = 0 /\ x % Tile = 0 ->
               [resumed EXCEPT !.glitchAt = x, !.glitch = TRUE]
          [] q.using /\ q.column \notin {1, 2} /\ ~(q.column = 0 /\ x % Tile = 0) ->
               [q EXCEPT !.disable = TRUE,
                         !.disableAt = Tile * ((q.column + 7) \div Tile)
                                         + IF x = 0 /\ q.column # 0 THEN Tile ELSE 0]
          [] /\ ~q.using /\ wx <= Width + 6 /\ q.activations = 0
             /\ WindowStart <= x + 7 ->
               [q EXCEPT !.trigger = TRUE, !.triggerAt = Larger(WindowStart, x + 1)]
          [] OTHER -> q

\* Objects still on the bus are taken back, from the picture too.
CancelObjects(q) ==
    LET cancelled(x) == /\ q.held[x].by # 0 /\ q.held[x].left # 0
                        /\ q.objects[q.held[x].by].pending > 0
    IN  [q EXCEPT
           !.held = [x \in DOMAIN @ |-> IF cancelled(x) THEN Nothing ELSE @[x]],
           !.shown = [i \in DOMAIN @ |->
              IF cancelled(i - 1) THEN [@[i] EXCEPT !.ground = q.shown[i].emitted, !.object = 0]
              ELSE @[i]],
           !.objects = [i \in DOMAIN @ |-> NoFetch],
           !.objectWait = @ + 8]

Writable == p.running /\ p.writes < MaxPixelWrites /\ (p.dot + 1) % WriteStep = 0

WriteLcdc(value) ==
    /\ Writable /\ value # lcdc
    /\ LET q == IF "window" \in lcdc \ value THEN DisableWindow(p) ELSE p
           r == IF "objects" \in lcdc \ value THEN CancelObjects(q) ELSE q
       IN  p' = [r EXCEPT !.writes = @ + 1]
    /\ lcdc' = value
    /\ UNCHANGED <<line, wx>>

-----------------------------------------------------------------------------
(* FF4B                                                                    *)
\* The blank pixel that was inserted is taken out of the picture again.
RepairGlitch(q) ==
    LET x     == Out(q)
        since == x - q.appliedAt
        n     == IF since < Len(q.fifo) THEN since ELSE Len(q.fifo)
    IN  CASE ~q.applied \/ since > 3 -> q
          [] q.applied /\ since <= 2 /\ q.fifo = <<>> ->
               Repaint(q, q.appliedAt, q.restore)
          [] q.applied /\ since <= 2 /\ q.fifo # <<>> ->
               LET back == Repaint(q, q.appliedAt, q.restore)
                   last == IF x - 1 = q.appliedAt THEN back ELSE Repaint(back, x - 1, Head(q.fifo))
               IN  [last EXCEPT !.fifo = Tail(@), !.column = @ + 1]
          [] OTHER ->
               [q EXCEPT
                  !.shown = [i \in DOMAIN @ |->
                     IF i - 1 \in q.appliedAt .. q.appliedAt + n - 1
                       THEN [@[i] EXCEPT !.ground = q.fifo[i - q.appliedAt],
                                         !.object = ObjectAt(q, i - 1)]
                       ELSE @[i]],
                  !.fifo = SubSeq(@, n + 1, Len(@)), !.column = @ + n]

\* The comparator against the pixel the write finds.
CompareWX(q, value) ==
    LET x     == Out(q)
        start == value - 7
        edge  == q.using /\ x < Tile /\ wx = 6 /\ value >= 7
    IN  CASE q.using /\ start >= x /\ start < Width ->
               IF ~edge /\ (q.column + start - x) % Tile = 0
                 THEN [q EXCEPT !.glitchAt = start, !.glitch = TRUE] ELSE q
          [] q.using /\ start < x /\ x < Tile /\ wx = 6 /\ value < 6 ->
               ResumeBackground([q EXCEPT !.disable = TRUE, !.disableAt = Tile])
          [] ~q.using /\ q.trigger /\ start < x /\ q.triggerAt >= x + 4 ->
               [q EXCEPT !.trigger = FALSE, !.rearmed = FALSE, !.activations = 1]
          [] OTHER -> q

\* A handoff at WX = 6 is moved to another pixel, or to another column.
Retime(q, value) ==
    LET resumed == ResumeBackground(q)
        column  == (7 - value) % Tile
    IN  CASE q.using /\ Out(q) < Tile /\ wx = 6 /\ value >= 15 ->
               [resumed EXCEPT !.activations = IF q.drew = {} THEN 0 ELSE 1, !.rearmed = TRUE,
                               !.trigger = TRUE, !.triggerAt = value - 7]
          [] q.using /\ Out(q) < Tile /\ wx = 6 /\ value \in 7 .. 14 ->
               [q EXCEPT !.column = column, !.start = column,
                         !.source = IF q.ofWindow THEN column ELSE @,
                         !.disableAt = IF value <= 13 THEN Prefix + value - 7 ELSE @]
          [] OTHER -> q

WriteWX(value) ==
    /\ Writable
    /\ LET repaired  == [RepairGlitch(p) EXCEPT !.applied = FALSE, !.glitch = FALSE]
           compared  == CompareWX(repaired, value)
           cancelled == compared.disableAt = Handoff /\ repaired.disableAt # Handoff
           r         == Retime(compared, value)
       IN  p' = [r EXCEPT !.writes = @ + 1,
                          !.rearmed = @ \/ /\ ~cancelled /\ r.activations # 0
                                           /\ Larger(0, value - 7) \in Out(r) .. Width - 1]
    /\ wx' = value
    /\ UNCHANGED <<line, lcdc>>

PixelNext ==
    \/ TransferDot
    \/ \E value \in Controls : WriteLcdc(value)
    \/ \E value \in WindowsAt : WriteWX(value)

PixelSpec == PixelInit /\ [][PixelNext]_pixelVars

-----------------------------------------------------------------------------
(* What a line that is left alone shows: the background by SCX, the window *)
(* from its first column at WX on, and before both the first of the        *)
(* objects that cover the pixel.                                           *)
GroundAt(x) ==
    CASE "background" \notin lcdc -> Blank
      [] WindowOn /\ x >= wx - 7 -> Window(0, x - (wx - 7))
      [] OTHER -> Background(line.scx + x)

FirstObject(x) ==
    LET over == {i \in DOMAIN line.objects : Covers(i, x)}
    IN  IF "objects" \in lcdc /\ over # {} THEN CHOOSE i \in over : \A j \in over : i <= j
        ELSE 0

(* However the fetches of objects, the fine scroll and the handoff to the  *)
(* window delay one another, every pixel that goes out is the one of its   *)
(* place, and the window's next row is the next line's if the window was   *)
(* on this one.                                                            *)
PictureIsRight ==
    p.writes = 0 =>
      /\ \A x \in 0 .. Out(p) - 1 :
            /\ p.shown[x + 1].ground = GroundAt(x)
            /\ p.shown[x + 1].object = FirstObject(x)
      /\ ~p.running => p.windowLine = Cardinality(p.drew)
=============================================================================
