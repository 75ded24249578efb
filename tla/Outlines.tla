------------------------------ MODULE Outlines ------------------------------
(***************************************************************************)
(* How the marketing site's scripts read outlines: the paths and groups of *)
(* an SVG (lib/shapes.mjs), the character map and the glyphs of a TrueType *)
(* font (lib/woff.mjs), and a glyph's contour as a closed outline.         *)
(***************************************************************************)
EXTENDS Integers, Sequences, FiniteSets, SequencesExt, FiniteSetsExt, TLC

Failed == [failed |-> TRUE, value |-> <<>>]
Returns(value) == [failed |-> FALSE, value |-> value]

-----------------------------------------------------------------------------
(* Paths.  A token is a letter or a number, whose letter is "".             *)

Letter(c) == [letter |-> c, value |-> 0]
Number(n) == [letter |-> "", value |-> n]

Commands == {"M", "L", "H", "V", "Z", "m", "l", "h", "v", "z"}

\* PATH_TOKEN: what it does not match is not there.
tokensOf(definition) == SelectSeq(definition, LAMBDA t : t.letter \in Commands \cup {""})

Horizontal == {"H", "h"}
Vertical == {"V", "v"}
Moves == {"M", "m"}
Relative == {"m", "l", "h", "v"}

Closed(s) ==
  [s EXCEPT !.current = <<>>,
            !.polygons = IF Len(s.current) > 1 THEN Append(@, s.current) ELSE @]

\* The command with its numbers: a point of the polygon, if one is begun.
Drawn(s) ==
  LET base(v) == IF s.command \in Relative THEN v ELSE 0
      x == IF s.command \in Vertical THEN s.x ELSE base(s.x) + Head(s.args)
      y == IF s.command \in Horizontal THEN s.y ELSE base(s.y) + Last(s.args)
      moved == [s EXCEPT !.x = x, !.y = y, !.args = <<>>, !.open = FALSE]
  IN IF s.command \in Moves THEN [Closed(moved) EXCEPT !.current = <<<<x, y>>>>]
     ELSE [moved EXCEPT !.current = IF @ = <<>> THEN @ ELSE Append(@, <<x, y>>)]

\* A number belongs to the command that is open; it opens the last one again
\* when none is, as a line after a move.
Takes(s, n) ==
  LET again == IF s.command = "M" THEN "L" ELSE IF s.command = "m" THEN "l" ELSE s.command
      t == [s EXCEPT !.command = IF s.open THEN @ ELSE again, !.args = Append(@, n), !.open = TRUE]
      arity == IF t.command \in Horizontal \cup Vertical THEN 1 ELSE 2
  IN IF t.command \in {"", "Z", "z"} THEN [s EXCEPT !.failed = TRUE]
     ELSE IF Len(t.args) = arity THEN Drawn(t) ELSE t

parsePathData(definition) ==
  LET start == [command |-> "", open |-> FALSE, args |-> <<>>, x |-> 0, y |-> 0,
                current |-> <<>>, polygons |-> <<>>, failed |-> FALSE]
      step(s, token) ==
        IF s.failed THEN s
        ELSE IF token.letter = "" THEN Takes(s, token.value)
        ELSE IF s.open THEN [s EXCEPT !.failed = TRUE]
        ELSE IF token.letter \in {"Z", "z"} THEN [Closed(s) EXCEPT !.command = token.letter]
        ELSE [s EXCEPT !.command = token.letter, !.open = TRUE]
      end == FoldLeft(step, start, tokensOf(definition))
  IN IF end.failed \/ end.open THEN Failed ELSE Returns(Closed(end).polygons)

-----------------------------------------------------------------------------
(* Groups.  A node is a group with its translation, its end, or a path,    *)
(* whose fill is 0 when it has none.                                       *)

Moved(polygons, dx, dy) ==
  [i \in DOMAIN polygons |-> [j \in DOMAIN polygons[i] |->
     <<polygons[i][j][1] + dx, polygons[i][j][2] + dy>>]]

loadSvg(nodes) ==
  LET step(s, node) ==
        LET offset == Last(s.stack)
            path == parsePathData(node.d)
        IN IF s.failed THEN s
           ELSE CASE node.tag = "/g" ->
                       IF Len(s.stack) = 1 THEN [s EXCEPT !.failed = TRUE]
                       ELSE [s EXCEPT !.stack = Front(@)]
                  [] node.tag = "g" ->
                       [s EXCEPT !.stack = Append(@, <<offset[1] + node.dx, offset[2] + node.dy>>)]
                  [] OTHER ->
                       IF path.failed \/ node.d = <<>> \/ node.fill = 0 THEN [s EXCEPT !.failed = TRUE]
                       ELSE [s EXCEPT !.shapes = Append(@,
                               [fill |-> node.fill, polygons |-> Moved(path.value, offset[1], offset[2])])]
      end == FoldLeft(step, [stack |-> <<<<0, 0>>>>, shapes |-> <<>>, failed |-> FALSE], nodes)
  IN IF end.failed \/ Len(end.stack) # 1 THEN Failed ELSE Returns(end.shapes)

\* The scale is a number of halves and the result in halves of a pixel.
placeSvg(polygons, x, y, scale) ==
  [i \in DOMAIN polygons |-> [j \in DOMAIN polygons[i] |->
     <<2 * x + polygons[i][j][1] * scale, 2 * y + polygons[i][j][2] * scale>>]]

gcd[a \in Nat, b \in Nat] == IF b = 0 THEN a ELSE gcd[b, a % b]

\* Coordinates are whole; 1 when there is nothing but the origin.
gridUnitOf(polygons) ==
  LET abs(v) == IF v < 0 THEN -v ELSE v
      add(unit, point) == gcd[gcd[unit, abs(point[1])], abs(point[2])]
      unit == FoldLeft(add, 0, FlattenSeq(polygons))
  IN IF unit = 0 THEN 1 ELSE unit

-----------------------------------------------------------------------------
(* Character maps *)

score(platform, encoding) ==
  IF platform = 3 /\ encoding = 10 THEN 4
  ELSE IF platform = 3 /\ encoding = 1 THEN 3
  ELSE IF platform = 0 THEN 2 ELSE 1

\* The first of the subtables with the best score.
bestSubtable(records) ==
  LET value(i) == score(records[i].platform, records[i].encoding)
  IN Min({i \in DOMAIN records : \A j \in DOMAIN records : value(j) <= value(i)})

\* Format 4.  A range offset is counted in words from the place it is at, and
\* reaches into the glyph identifiers that follow the offsets.  0 is a code
\* without a glyph: the map has no entry for it.
segmentGlyph(segments, ids, i, code) ==
  LET s == segments[i]
      at == i - Len(segments) + s.rangeOffset + (code - s.start)
      raw == IF at \in DOMAIN ids THEN ids[at] ELSE 0
  IN IF s.start = 65535 \/ code < s.start \/ code > s.end THEN 0
     ELSE IF s.rangeOffset = 0 THEN (code + s.delta) % 65536
     ELSE IF raw = 0 THEN 0 ELSE (raw + s.delta) % 65536

\* A later segment overwrites the entry of an earlier one.
cmapFormat4(segments, ids, code) ==
  LET having == {i \in DOMAIN segments : segmentGlyph(segments, ids, i, code) # 0}
  IN IF having = {} THEN 0 ELSE segmentGlyph(segments, ids, Max(having), code)

cmapFormat12(groups, code) ==
  LET having == {i \in DOMAIN groups : code \in groups[i].start..groups[i].end}
  IN IF having = {} THEN 0
     ELSE LET g == groups[Max(having)] IN g.glyph + (code - g.start)

\* The map of the subtable that is best, if it is of a format that is known.
parseCmap(records, code) ==
  LET best == records[bestSubtable(records)] IN
  IF records = <<>> THEN Failed
  ELSE CASE best.format = 4 -> Returns(cmapFormat4(best.segments, best.ids, code))
         [] best.format = 12 -> Returns(cmapFormat12(best.segments, code))
         [] OTHER -> Failed

-----------------------------------------------------------------------------
(* Glyphs.  The body of a glyph is a sequence of numbers: flags and repeat *)
(* counts, then deltas.                                                    *)

Bit(flag, bit) == (flag \div bit) % 2 = 1

readFlags(body, count) ==
  LET step(s, k) ==
        LET repeats == IF Bit(body[s.at], 8) THEN body[s.at + 1] ELSE 0
        IN IF Len(s.flags) >= count THEN s
           ELSE [at |-> s.at + (IF Bit(body[s.at], 8) THEN 2 ELSE 1),
                 flags |-> s.flags \o [i \in 1..Min({1 + repeats, count - Len(s.flags)}) |-> body[s.at]]]
  IN FoldLeft(step, [at |-> 1, flags |-> <<>>], [k \in 1..count |-> k])

readCoordinates(body, at, flags, shortBit, sameBit) ==
  LET step(s, flag) ==
        LET delta == IF Bit(flag, shortBit) THEN (IF Bit(flag, sameBit) THEN body[s.at] ELSE -body[s.at])
                     ELSE IF Bit(flag, sameBit) THEN 0 ELSE body[s.at]
            read == Bit(flag, shortBit) \/ ~Bit(flag, sameBit)
        IN [at |-> IF read THEN s.at + 1 ELSE s.at,
            values |-> Append(s.values, delta + (IF s.values = <<>> THEN 0 ELSE Last(s.values)))]
  IN FoldLeft(step, [at |-> at, values |-> <<>>], flags)

\* endPoints count from 0.
readSimpleGlyph(endPoints, body) ==
  LET count == Last(endPoints) + 1
      f == readFlags(body, count)
      xs == readCoordinates(body, f.at, f.flags, 2, 16)
      ys == readCoordinates(body, xs.at, f.flags, 4, 32)
      point(i) == [x |-> xs.values[i], y |-> ys.values[i], onCurve |-> Bit(f.flags[i], 1)]
      start(c) == IF c = 1 THEN 0 ELSE endPoints[c - 1] + 1
      contour(c) == [k \in 1..(endPoints[c] - start(c) + 1) |-> point(start(c) + k)]
  IN SelectSeq([c \in DOMAIN endPoints |-> contour(c)], LAMBDA c : c # <<>>)

\* A glyph is simple, with the position of its outline, or made of components,
\* each with its transform; one without either is empty.  Positions are along
\* one axis, glyphs count from 0.
contoursOf(glyphs, glyphId) ==
  LET numGlyphs == Cardinality(DOMAIN glyphs)
      contours[id \in Nat, depth \in 0..5] ==
        IF depth > 4 \/ id >= numGlyphs THEN Failed
        ELSE IF glyphs[id].components = <<>> THEN Returns(glyphs[id].outlines)
        ELSE LET add(all, c) ==
                   LET part == contours[c.id, depth + 1] IN
                   IF all.failed \/ c.matched \/ part.failed THEN Failed
                   ELSE Returns(all.value \o [i \in DOMAIN part.value |-> c.a * part.value[i] + c.dx])
             IN FoldLeft(add, Returns(<<>>), glyphs[id].components)
  IN contours[glyphId, 0]

-----------------------------------------------------------------------------
(***************************************************************************)
(* Contours.  A point is on the curve or controls it; positions are along  *)
(* one axis.  The outline is kept as the segments that are drawn, a curve  *)
(* with its control point: how finely it is divided makes no difference to *)
(* where it begins and ends.                                               *)
(***************************************************************************)
None == -1

Middle(a, b) == (a + b) \div 2

\* Without a control point, a line.
quadraticTo(out, control, to) == Append(out, [control |-> control, to |-> to])

\* Mutant of closed: the control point that is left over is left out.
leftOpen(walk, start) == walk.out

closed(walk, start) ==
  IF walk.control = None THEN walk.out ELSE quadraticTo(walk.out, walk.control, start)

contourToPolygon(contour) ==
  LET count == Len(contour)
      start == IF contour[1].onCurve THEN contour[1].at
               ELSE IF contour[count].onCurve THEN contour[count].at
               ELSE Middle(contour[1].at, contour[count].at)
      first == IF contour[1].onCurve THEN 1 ELSE 0
      step(s, point) ==
        IF point.onCurve
        THEN [out |-> quadraticTo(s.out, s.control, point.at), control |-> None]
        ELSE [out |-> IF s.control = None THEN s.out
                      ELSE quadraticTo(s.out, s.control, Middle(s.control, point.at)),
              control |-> point.at]
      walk == FoldLeft(step, [out |-> <<[control |-> None, to |-> start]>>, control |-> None],
                       [k \in 1..count |-> contour[((first + k - 1) % count) + 1]])
  IN closed(walk, start)
=============================================================================
