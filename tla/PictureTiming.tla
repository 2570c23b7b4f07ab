----------------------------- MODULE PictureTiming -----------------------------
(***************************************************************************)
(* Modes, lines and interrupt requests of the picture unit                 *)
(* (Ppu::tick of src/src/ppu_timing.cpp and the registers of ppu.cpp that  *)
(* take part), with its two shortcuts over dots without work. The pixel    *)
(* pipeline is reduced to the dot mode 3 ends at, which registers decide.  *)
(***************************************************************************)
EXTENDS Naturals

CONSTANTS LineDots,     \* 456
          Notch,        \* 4: the first line is shorter by it
          ScanDots,     \* 80: the last dot of mode 2
          Phase,        \* 4: line 153 changes at one, two and three of them
          Ends,         \* mode3_end_dot_
          EarlyDots,    \* by the end: the dots at which output_x_ is four or,
                        \* with SCX at 1 or 5, two pixels short of the width
          VisibleLines, \* screen_height
          LastLine,     \* 153
          Comparands,   \* values of LYC
          Selections,   \* values of STAT's enable bits
          DotSpans      \* the dots tick() is called with

ASSUME PictureAssumption ==
    /\ {LineDots, Notch, ScanDots, Phase, VisibleLines, LastLine} \subseteq Nat
    /\ Ends \subseteq Nat /\ Ends # {}
    /\ \A e \in Ends : ScanDots + 2 < e /\ e + 1 < LineDots - 2 * Notch
    /\ EarlyDots \in [Ends -> SUBSET Nat]
    /\ \A e \in Ends : \A d \in EarlyDots[e] : ScanDots < d /\ d < e
    /\ 1 < ScanDots /\ 3 * Phase < LineDots
    /\ 1 < VisibleLines /\ VisibleLines < LastLine
    /\ DotSpans \subseteq Nat

VARIABLES colour,       \* cgb_hardware_
          pic           \* the members that tick() reads and changes

picVars == <<colour, pic>>

\* LCD startup without early SCX write samples HBlank this early (dot 248).
SampleDot == ScanDots + 2

PicInit ==
    /\ colour \in BOOLEAN
    /\ pic = [on |-> FALSE, startup |-> FALSE, dot |-> 0, ly |-> 0, mode |-> 0, stat |-> 0,
              equal |-> FALSE, lyc |-> 0, select |-> {}, line |-> FALSE, scy |-> 0,
              early |-> FALSE, end |-> CHOOSE e \in Ends : TRUE, restart |-> FALSE,
              asks |-> {}]

-----------------------------------------------------------------------------
\* stat_condition() and update_stat_line(): a rising edge asks for STAT.
Condition(p) ==
    \/ "lyc" \in p.select /\ p.equal
    \/ "oam" \in p.select /\ (p.stat = 2 \/ (p.stat = 1 /\ p.ly = VisibleLines))
    \/ "vblank" \in p.select /\ p.stat = 1
    \/ "hblank" \in p.select /\ p.stat = 0

Updated(p) ==
    [p EXCEPT !.line = Condition(p),
              !.asks = IF Condition(p) /\ ~p.line THEN @ \union {"stat"} ELSE @]

\* Line 153 of a monochrome machine.
LastLineDot(p) ==
    IF p.ly = LastLine /\ ~colour /\ p.dot \in {Phase, 2 * Phase, 3 * Phase}
      THEN Updated([p EXCEPT !.equal = CASE p.dot = Phase     -> p.lyc = LastLine
                                         [] p.dot = 2 * Phase -> FALSE
                                         [] OTHER             -> p.lyc = 0])
      ELSE p

\* Entry to the modes 2 and 3.
ScanDot(p) ==
    CASE p.startup /\ p.dot = ScanDots -> Updated([p EXCEPT !.stat = 3, !.mode = 3])
      [] ~p.startup /\ p.dot = 1 -> Updated([p EXCEPT !.mode = 2, !.equal = p.ly = p.lyc])
      [] ~p.startup /\ p.dot = ScanDots -> Updated([p EXCEPT !.stat = 3])
      [] ~p.startup /\ p.dot = ScanDots + 1 -> [p EXCEPT !.mode = 3]
      [] OTHER -> p

\* HBlank requested ahead of the last pixels, or sampled ahead at startup.
EarlyDot(p) ==
    CASE ~colour /\ p.early /\ "hblank" \in p.select /\ ~p.line
              /\ p.dot \in EarlyDots[p.end]
            -> [p EXCEPT !.line = TRUE, !.asks = @ \union {"stat"}]
      [] p.startup /\ ~p.early /\ p.dot = SampleDot /\ "hblank" \in p.select /\ ~p.line
            -> [p EXCEPT !.asks = @ \union {"sample"}]
      [] OTHER -> p

TransferEnd(p) ==
    CASE p.dot = p.end ->
            Updated([p EXCEPT !.stat = 0, !.mode = IF p.startup THEN 0 ELSE @,
                              !.asks = IF p.startup THEN @ \union {"hblank"} ELSE @])
      [] ~p.startup /\ p.dot = p.end + 1 ->
            [p EXCEPT !.mode = 0, !.asks = @ \union {"hblank"}]
      [] OTHER -> p

\* The mode 2 source of line 144 rises early on a colour machine.
ColourDot(p) ==
    IF /\ colour /\ p.ly = VisibleLines - 1 /\ p.dot = LineDots - Notch
       /\ "oam" \in p.select /\ ~p.line
      THEN [p EXCEPT !.line = TRUE, !.asks = @ \union {"stat"}]
      ELSE p

VisibleDot(p) ==
    IF p.ly < VisibleLines
      THEN ColourDot(TransferEnd(EarlyDot(ScanDot(p))))
      ELSE p

LengthOf(p) == IF p.startup THEN LineDots - Notch ELSE LineDots

\* begin_visible_line()
VisibleLine(p) == [p EXCEPT !.mode = 0, !.stat = 2, !.early = FALSE]

NextLine(p) ==
    LET q == [p EXCEPT !.dot = 0, !.ly = @ + 1, !.startup = FALSE]
    IN  Updated(
          CASE q.ly = VisibleLines ->
                  [q EXCEPT !.equal = q.ly = q.lyc, !.mode = 1, !.stat = 1,
                            !.asks = @ \union {"vblank"}]
            [] q.ly > LastLine ->
                  VisibleLine([q EXCEPT !.ly = 0, !.equal = q.lyc = 0])
            [] q.ly < VisibleLines -> VisibleLine([q EXCEPT !.equal = FALSE])
            [] ~colour /\ q.ly \in (VisibleLines + 1) .. (LastLine - 1) ->
                  [q EXCEPT !.equal = q.ly = q.lyc]
            [] ~colour /\ q.ly = LastLine -> [q EXCEPT !.equal = FALSE]
            [] OTHER -> q)

LineEnd(p) == IF p.dot = LengthOf(p) THEN NextLine(p) ELSE p

\* The literal dot.
DotOf(p) ==
    LineEnd(VisibleDot(LastLineDot(
        [p EXCEPT !.scy = IF @ = 0 THEN 0 ELSE @ - 1, !.dot = @ + 1])))

-----------------------------------------------------------------------------
(* The two shortcuts: how many dots may be skipped of n that are left.     *)
SkipScan(p, n) ==
    IF /\ n > 1 /\ p.scy = 0 /\ p.stat = 2 /\ ~p.early
       /\ p.dot >= 1 /\ p.dot < ScanDots - 1
      THEN ScanDots - 1 - p.dot ELSE 0

SkipPastLine(p, n) ==
    IF n > 1 /\ p.scy = 0 /\ (p.ly >= VisibleLines \/ p.dot >= p.end + 1)
       /\ p.dot < LengthOf(p) - 1
      THEN LengthOf(p) - 1 - p.dot ELSE 0

\* Behind the end the line is up or no early dot is left: the code looks.
SkipBlank(p, n) ==
    LET end == CASE ~colour /\ p.ly = LastLine /\ p.dot < 3 * Phase ->
                       Phase * (p.dot \div Phase + 1) - 1
                 [] colour /\ p.ly = VisibleLines - 1 /\ p.dot < LineDots - Notch ->
                       LineDots - Notch - 1
                 [] OTHER -> LengthOf(p) - 1
    IN  IF /\ n > 1 /\ p.scy = 0
           /\ p.ly >= VisibleLines \/ p.dot >= p.end + 1
           /\ p.dot < end
          THEN end - p.dot ELSE 0

Skippable(p, n) ==
    LET span == IF SkipScan(p, n) # 0 THEN SkipScan(p, n) ELSE SkipBlank(p, n)
    IN  IF span < n THEN span ELSE n

\* tick(): [pic, left] after each turn of its loop.
Ticked(p, n) ==
    LET turn[i \in 0 .. n] ==
          IF i = 0 THEN [pic |-> [p EXCEPT !.asks = {}], left |-> n]
          ELSE LET t == turn[i - 1]
                   span == Skippable(t.pic, t.left)
               IN  IF t.left = 0 THEN t
                   ELSE IF span # 0
                     THEN [pic |-> [t.pic EXCEPT !.dot = @ + span], left |-> t.left - span]
                   ELSE [pic |-> DotOf(t.pic), left |-> t.left - 1]
    IN  IF p.on THEN turn[n].pic ELSE [p EXCEPT !.asks = {}]

EachDot(p, n) ==
    LET after[i \in 0 .. n] ==
          IF i = 0 THEN [p EXCEPT !.asks = {}] ELSE DotOf(after[i - 1])
    IN  IF p.on THEN after[n] ELSE after[0]

TickPicture(n) == pic' = Ticked(pic, n) /\ UNCHANGED colour

-----------------------------------------------------------------------------
Written(p) == IF p.on THEN Updated(p) ELSE p

Put(p) == pic' = Written([p EXCEPT !.asks = {}]) /\ UNCHANGED colour

SelectSources(s) == pic.select # s /\ Put([pic EXCEPT !.select = s])

\* FF45
CompareWith(value) ==
    /\ pic.lyc # value
    /\ Put([pic EXCEPT
              !.lyc = value,
              !.equal = IF ~pic.on THEN @
                        ELSE IF ~colour /\ pic.ly = LastLine
                          THEN IF pic.dot >= 3 * Phase THEN value = 0
                               ELSE pic.dot \in Phase .. (2 * Phase - 1) /\ value = LastLine
                        ELSE pic.ly = value])

\* FF42, which a colour machine sees two dots later.
ScrollDown == colour /\ pic.scy = 0 /\ Put([pic EXCEPT !.scy = 2])

\* FF43 and whatever else makes mode 3 longer or shorter, ahead of it.
ScrollAside(end, fine) ==
    LET early == /\ fine
                 /\ \/ ~pic.on
                    \/ ~colour /\ ~pic.startup /\ pic.stat = 2 /\ pic.dot < ScanDots
    IN  /\ pic.stat = 2 \/ ~pic.on
        /\ Put([pic EXCEPT !.end = end, !.early = @ \/ early])

\* FF40, bit 7. The line STAT had stays what it was.
TurnOff ==
    /\ pic.on
    /\ pic' = [pic EXCEPT !.on = FALSE, !.dot = 0, !.ly = 0, !.mode = 0, !.stat = 0,
                          !.startup = FALSE, !.restart = TRUE, !.asks = {}]
    /\ UNCHANGED colour

TurnOn ==
    /\ ~pic.on
    /\ LET p == [pic EXCEPT !.on = TRUE, !.dot = 0, !.ly = 0, !.mode = 0, !.stat = 0,
                            !.startup = TRUE, !.restart = FALSE, !.asks = {},
                            !.equal = pic.lyc = 0]
       IN  pic' = IF pic.restart /\ pic.select = {"hblank"} THEN [p EXCEPT !.line = FALSE]
                  ELSE Updated(p)
    /\ UNCHANGED colour

PicNext ==
    \/ \E n \in DotSpans : TickPicture(n)
    \/ \E s \in Selections : SelectSources(s)
    \/ \E value \in Comparands : CompareWith(value)
    \/ \E end \in Ends, fine \in BOOLEAN : ScrollAside(end, fine)
    \/ ScrollDown \/ TurnOff \/ TurnOn

PicSpec == PicInit /\ [][PicNext]_picVars

-----------------------------------------------------------------------------
(* Both shortcuts are invisible: however many dots a call asks for, modes, *)
(* lines, flags and requests are those of dot after dot.                   *)
SkippingIsInvisible == \A n \in DotSpans : Ticked(pic, n) = EachDot(pic, n)

(* "Like line 144, VBlank lines update comparison at entry." The flag of   *)
(* STAT tells whether the line is LYC on every line of VBlank but the last.*)
ComparesInVblank ==
    pic.on /\ pic.ly \in VisibleLines .. (LastLine - 1) => pic.equal = (pic.ly = pic.lyc)
=============================================================================
