------------------------------- MODULE Raster -------------------------------
(***************************************************************************)
(* How the marketing site's scripts turn polygons into pixels and pixels   *)
(* into files: the anti-aliasing canvas (lib/raster.mjs), the exact        *)
(* rasteriser and the archive writer (generate-brand-assets.mjs).          *)
(*                                                                         *)
(* A pixel is PIXEL units wide and high, so that a coordinate and the      *)
(* height of a sample are integers; a polygon is a sequence of points      *)
(* <<x, y>>, a colour is one channel of it.  A machine word is the set of  *)
(* its bits that are set.                                                  *)
(***************************************************************************)
EXTENDS Integers, Sequences, FiniteSets, SequencesExt, FiniteSetsExt, TLC

CONSTANT SUBSAMPLES             \* scanlines per pixel row
ASSUME SubsamplesAssumption == SUBSAMPLES \in Nat \ {0}

PIXEL == 2 * SUBSAMPLES

floor(u) == u \div PIXEL
ceil(u) == -((-u) \div PIXEL)
round(u) == floor(u + SUBSAMPLES)

-----------------------------------------------------------------------------
(* Scan conversion *)

\* The sides of closed polygons, the horizontal ones left out.
edgesOf(polygons) ==
  LET sides(p) == [i \in DOMAIN p |-> [from |-> p[i], to |-> p[(i % Len(p)) + 1]]]
  IN SelectSeq(FlattenSeq([i \in DOMAIN polygons |-> sides(polygons[i])]),
               LAMBDA e : e.from[2] # e.to[2])

Top(e) == Min({e.from[2], e.to[2]})
Bottom(e) == Max({e.from[2], e.to[2]})
Direction(e) == IF e.to[2] > e.from[2] THEN 1 ELSE -1

\* Where the edge meets the scanline.
Meets(e, y) ==
  e.from[1] + (Direction(e) * (y - e.from[2]) * (e.to[1] - e.from[1])) \div (Bottom(e) - Top(e))

crossings(edges, y) ==
  LET met == SelectSeq(edges, LAMBDA e : Top(e) <= y /\ y < Bottom(e))
  IN SortSeq([i \in DOMAIN met |-> [x |-> Meets(met[i], y), winding |-> Direction(met[i])]],
             LAMBDA l, r : l.x < r.x)

\* Mutant of spans: a span for each pair of crossings, as an even-odd fill has.
spansEvenOdd(cs) ==
  [i \in 1..(Len(cs) \div 2) |-> <<cs[2 * i - 1].x, cs[2 * i].x>>]

\* From where the winding number leaves zero to where it comes back.
spans(cs) ==
  LET step(a, c) ==
        LET start == IF a.winding = 0 THEN c.x ELSE a.start
            winding == a.winding + c.winding
        IN [winding |-> winding, start |-> start,
            out |-> IF winding = 0 THEN Append(a.out, <<start, c.x>>) ELSE a.out]
  IN IF Len(cs) < 2 THEN <<>>
     ELSE FoldLeft(step, [winding |-> 0, start |-> 0, out |-> <<>>], cs).out

-----------------------------------------------------------------------------
(* The canvas *)

Canvas(width, height, background) ==
  [width |-> width, height |-> height,
   pixels |-> [p \in (0..height - 1) \X (0..width - 1) |-> background]]

\* One span of one scanline; the two end columns count for the part of them
\* that it crosses.
addSpan(coverage, from, to, columns) ==
  LET start == Max({0, from})
      end == Min({columns * PIXEL, to})
      first == floor(start)
      last == Min({columns - 1, floor(end - 1)})
  IN IF end <= start THEN coverage
     ELSE [c \in DOMAIN coverage |-> coverage[c] +
             CASE c = first /\ c = last -> end - start
               [] c = first /\ c # last -> (first + 1) * PIXEL - start
               [] c = last /\ c # first -> end - last * PIXEL
               [] first < c /\ c < last -> PIXEL
               [] OTHER -> 0]

FULL == PIXEL * SUBSAMPLES      \* the coverage of a whole pixel

\* A clamped array rounds to the nearest, and a half to the even neighbour.
blend(pixel, color, coverage) ==
  LET n == pixel * FULL + (color - pixel) * Min({coverage, FULL})
      rest == 2 * (n % FULL)
      up == rest > FULL \/ (rest = FULL /\ (n \div FULL) % 2 = 1)
  IN IF 2000 * coverage <= FULL THEN pixel
     ELSE (n \div FULL) + (IF up THEN 1 ELSE 0)

\* The rows and the columns an area reaches are clipped to the canvas, and
\* the edges are looked up by the row.
paint(canvas, polygons, color) ==
  LET edges == edgesOf(polygons)
      sides == ToSet(edges)
      xs == {e.from[1] : e \in sides} \cup {e.to[1] : e \in sides}
      rowFrom == Max({0, floor(Min({Top(e) : e \in sides}))})
      rowTo == Min({canvas.height - 1, ceil(Max({Bottom(e) : e \in sides}))})
      colFrom == Max({0, floor(Min(xs))})
      colTo == Min({canvas.width - 1, ceil(Max(xs))})
      columns == colTo - colFrom + 1
      bucket(row) == SelectSeq(edges, LAMBDA e : floor(Top(e)) <= row /\ row <= ceil(Bottom(e)))
      scan(row) == FlattenSeq([s \in 1..SUBSAMPLES |->
                                 spans(crossings(bucket(row), row * PIXEL + 2 * s - 1))])
      add(coverage, span) ==
        addSpan(coverage, span[1] - colFrom * PIXEL, span[2] - colFrom * PIXEL, columns)
      coverage == [row \in rowFrom..rowTo |->
                     FoldLeft(add, [c \in 0..columns - 1 |-> 0], scan(row))]
  IN IF edges = <<>> THEN canvas
     ELSE IF rowFrom > rowTo \/ colFrom > colTo THEN canvas
     ELSE [canvas EXCEPT !.pixels = [p \in DOMAIN @ |->
             IF p[1] \in rowFrom..rowTo /\ p[2] \in colFrom..colTo
             THEN blend(@[p], color, coverage[p[1]][p[2] - colFrom]) ELSE @[p]]]

\* The exact rasteriser: one scanline through the middle of a row, whole
\* pixels, shape over shape; 0 is transparent.
rasterize(shapes, width, height) ==
  LET fill(pixels, shape) ==
        LET edges == edgesOf(shape.polygons)
            line == [row \in 0..height - 1 |->
                       ToSet(spans(crossings(edges, row * PIXEL + SUBSAMPLES)))]
        IN [p \in DOMAIN pixels |->
              IF \E s \in line[p[1]] :
                   Max({0, round(s[1])}) <= p[2] /\ p[2] < Min({width, round(s[2])})
              THEN shape.fill ELSE pixels[p]]
  IN FoldLeft(fill, [p \in (0..height - 1) \X (0..width - 1) |-> 0], shapes)

-----------------------------------------------------------------------------
(* Portable Network Graphics *)

\* Mutant of leftOf: the byte on the left, of another channel.
byteLeftOf(rgb, row, i) == IF i >= 1 THEN rgb[row + i - 1] ELSE 0

\* The same channel of the pixel on the left.
leftOf(rgb, row, i) == IF i >= 3 THEN rgb[row + i - 3] ELSE 0

\* A row as each filter has it: the bytes, what they add to the pixel on the
\* left, what they add to the row above.
Filtered(rgb, stride, y, type) ==
  [i \in 0..stride - 1 |->
     LET raw == rgb[y * stride + i]
         left == leftOf(rgb, y * stride, i)
         above == IF y > 0 THEN rgb[y * stride - stride + i] ELSE 0
     IN CASE type = 0 -> raw
          [] type = 1 -> (raw - left) % 256
          [] type = 2 -> (raw - above) % 256]

Score(row) == FoldFunction(LAMBDA b, n : n + (IF b < 128 THEN b ELSE 256 - b), 0, row)

filterScanlines(rgb, width, height) ==
  [y \in 0..height - 1 |->
     LET score == [t \in 0..2 |-> Score(Filtered(rgb, 3 * width, y, t))]
         best == IF score[1] <= score[0] /\ score[1] <= score[2] THEN 1
                 ELSE IF score[2] <= score[0] THEN 2 ELSE 0
     IN [type |-> best, data |-> Filtered(rgb, 3 * width, y, best)]]

\* The other writer stores every row as it is, four bytes to a pixel.
pngFromRgba(rgba, width, height) ==
  [y \in 0..height - 1 |->
     [type |-> 0, data |-> [i \in 0..4 * width - 1 |-> rgba[y * 4 * width + i]]]]

Word == 0..31
Byte == 0..7
Xor(a, b) == (a \ b) \cup (b \ a)
Shift(w, n) == {i - n : i \in {j \in w : j >= n}}

\* 0xedb88320.
Polynomial == {31, 30, 29, 27, 26, 24, 23, 21, 20, 19, 15, 9, 8, 5}

CRC_TABLE ==
  LET divide(value, bit) == IF 0 \in value THEN Xor(Polynomial, Shift(value, 1)) ELSE Shift(value, 1)
  IN [index \in SUBSET Byte |-> FoldLeft(divide, index, <<0, 1, 2, 3, 4, 5, 6, 7>>)]

crc32(bytes) ==
  LET add(crc, byte) == Xor(CRC_TABLE[Xor(crc, byte) \cap Byte], Shift(crc, 8))
  IN Xor(FoldLeft(add, Word, bytes), Word)

\* The checksum is of the type and the data, the length of the data alone.
pngChunk(type, data) ==
  [length |-> Len(data), type |-> type, data |-> data, crc |-> crc32(type \o data)]

-----------------------------------------------------------------------------
(***************************************************************************)
(* The archive, as the pieces that are concatenated, each with its size in *)
(* bytes.                                                                  *)
(***************************************************************************)
LOCAL_HEADER == 30
RECORD == 46
END_RECORD == 22

zipFromEntries(entries) ==
  LET size(e) == Len(e.data)
      offset == [i \in 1..Len(entries) + 1 |->
                   FoldLeft(LAMBDA n, e : n + LOCAL_HEADER + Len(e.name) + size(e), 0,
                            SubSeq(entries, 1, i - 1))]
      local(e) == [kind |-> "local", size |-> LOCAL_HEADER + Len(e.name) + size(e),
                   name |-> e.name, crc |-> crc32(e.data), length |-> size(e), data |-> e.data]
      record(i) == [kind |-> "record", size |-> RECORD + Len(entries[i].name),
                    name |-> entries[i].name, crc |-> crc32(entries[i].data),
                    length |-> size(entries[i]), offset |-> offset[i]]
      central == [i \in DOMAIN entries |-> record(i)]
  IN [i \in DOMAIN entries |-> local(entries[i])] \o central
     \o <<[kind |-> "end", size |-> END_RECORD, count |-> Len(entries),
           length |-> FoldLeft(LAMBDA n, r : n + r.size, 0, central),
           offset |-> offset[Len(entries) + 1]]>>
=============================================================================
