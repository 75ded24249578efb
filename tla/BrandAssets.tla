---------------------------- MODULE BrandAssets ----------------------------
(***************************************************************************)
(* The marketing site's asset scripts (generate-og-image.mjs and           *)
(* generate-brand-assets.mjs): the algorithms of Raster and Outlines, and  *)
(* the layout of the social card, each on every input of a small family    *)
(* and compared with what it has to compute, defined another way.          *)
(***************************************************************************)
EXTENDS Raster, Outlines

VARIABLE task                   \* what was computed, from what, with what result

Idle == [kind |-> "idle", input |-> <<>>, output |-> <<>>]

Init == task = Idle

Does(kind, input, output) ==
  task = Idle /\ task' = [kind |-> kind, input |-> input, output |-> output]

-----------------------------------------------------------------------------
(* Shapes *)

rectangle(x, y, width, height) ==
  <<<<x, y>>, <<x + width, y>>, <<x + width, y + height>>, <<x, y + height>>>>

frame(x, y, width, height, thickness) ==
  <<rectangle(x, y, width, thickness),
    rectangle(x, y + height - thickness, width, thickness),
    rectangle(x, y + thickness, thickness, height - 2 * thickness),
    rectangle(x + width - thickness, y + thickness, thickness, height - 2 * thickness)>>

-----------------------------------------------------------------------------
(***************************************************************************)
(* The social card, in thousandths of a pixel.  The font is monospaced:    *)
(* every glyph advances by the same part of an em, which is read from the  *)
(* font and not known to the script.                                       *)
(***************************************************************************)
Milli(n) == 1000 * n

CONTENT == [left |-> Milli(104), right |-> Milli(1200 - 104)]

textWidth(advance, length, size) == length * size * advance

capHeight == 698

centredBaseline(size, middle) == middle + (capHeight * size) \div 2

\* What a line of text takes up, from its ascenders to its descenders.
TextBox(advance, length, size, x, baseline) ==
  [x |-> x, width |-> textWidth(advance, length, size),
   y |-> baseline - Milli(size), height |-> 1275 * size]

\* drawText: the half pixel allows for rounding.
Fits(b) == b.x >= CONTENT.left - 500 /\ b.x + b.width <= CONTENT.right + 500

headerMiddle == Milli(103)
chipMiddle == Milli(504)

RightOf(advance, length, size) == CONTENT.right - textWidth(advance, length, size)

\* The install chip, whose width follows the two texts in it.
Chip(advance) ==
  [x |-> CONTENT.left, width |-> textWidth(advance, 12 + 17, 20) + Milli(44),
   y |-> Milli(474), height |-> Milli(60)]

\* The lockup at one and a half times its size.
Lockup == [x |-> CONTENT.left, width |-> Milli(525), y |-> Milli(72), height |-> Milli(63)]

\* The site, the headline, the subtitle and the languages.
cardTexts(advance) ==
  <<TextBox(advance, 16, 20, RightOf(advance, 16, 20), centredBaseline(20, headerMiddle)),
    TextBox(advance, 25, 52, CONTENT.left, Milli(262)),
    TextBox(advance, 20, 52, CONTENT.left, Milli(332)),
    TextBox(advance, 59, 21, CONTENT.left, Milli(390)),
    TextBox(advance, 64, 21, CONTENT.left, Milli(427)),
    TextBox(advance, 26, 17, RightOf(advance, 26, 17), centredBaseline(17, chipMiddle))>>

\* What is in the chip, the second text from where the first one ends.
chipTexts(advance) ==
  LET first == TextBox(advance, 12, 20, CONTENT.left + Milli(22), centredBaseline(20, chipMiddle))
  IN <<first, TextBox(advance, 17, 20, first.x + first.width, centredBaseline(20, chipMiddle))>>

\* One text that does not fit, and nothing is written.
card(advance) ==
  LET texts == cardTexts(advance) \o chipTexts(advance) IN
  IF \E i \in DOMAIN texts : ~Fits(texts[i]) THEN Failed
  ELSE Returns(cardTexts(advance) \o <<Chip(advance), Lockup>>)

-----------------------------------------------------------------------------
(***************************************************************************)
(* The brand files.  A colour is its red channel; the wordmark's group is  *)
(* moved by a few units instead of 56.                                     *)
(***************************************************************************)
Group(dx, dy) == [tag |-> "g", dx |-> dx, dy |-> dy, fill |-> 0, d |-> <<>>]
GroupEnd == [tag |-> "/g", dx |-> 0, dy |-> 0, fill |-> 0, d |-> <<>>]
Filled(fill, d) == [tag |-> "path", dx |-> 0, dy |-> 0, fill |-> fill, d |-> d]

Tones == {241, 183, 132, 75}
DARK_VARIANT == 241 :> 23 @@ 183 :> 75 @@ 132 :> 132 @@ 75 :> 183

toDarkVariant(source) ==
  [i \in DOMAIN source |->
     [source[i] EXCEPT !.fill = IF @ \in Tones THEN DARK_VARIANT[@] ELSE @]]

WORDMARK == 3

\* What is in the group, up to the first end of one, in a group of its own.
wordmarkFromLockup(source) ==
  LET starts == {i \in DOMAIN source : source[i] = Group(WORDMARK, 0)}
      ends == {j \in DOMAIN source : source[j] = GroupEnd /\ \E i \in starts : i < j}
      from == Min(starts)
      to == Min({j \in ends : j > from})
  IN IF starts = {} \/ ends = {} THEN Failed
     ELSE Returns(<<Group(0, 0)>> \o SubSeq(source, from + 1, to - 1) \o <<GroupEnd>>)

\* A source with the width of its view box, light and dark; the scale is whole.
\* The icon, a source of its own, is treated as the lockup is.
assets(lockup, wordmark, scale) ==
  <<[source |-> wordmark, width |-> 2, scale |-> scale],
    [source |-> toDarkVariant(wordmark), width |-> 2, scale |-> scale],
    [source |-> lockup, width |-> WORDMARK + 2, scale |-> scale],
    [source |-> toDarkVariant(lockup), width |-> WORDMARK + 2, scale |-> scale]>>

\* The image of a source, which the same reader reads that reads the sources.
image(asset) ==
  LET svg == loadSvg(asset.source)
      placed(shape) == [shape EXCEPT !.polygons =
        [i \in DOMAIN @ |-> [j \in DOMAIN @[i] |->
           <<@[i][j][1] * asset.scale * PIXEL, @[i][j][2] * asset.scale * PIXEL>>]]]
  IN IF svg.failed THEN Failed
     ELSE Returns(rasterize([k \in DOMAIN svg.value |-> placed(svg.value[k])],
                            asset.width * asset.scale, asset.scale))

\* One source that cannot be read, and there is no archive.
brand(lockup, scale) ==
  LET wordmark == wordmarkFromLockup(lockup)
      files == assets(lockup, wordmark.value, scale)
      images == [k \in DOMAIN files |-> image(files[k])]
  IN IF wordmark.failed \/ \E k \in DOMAIN files : images[k].failed THEN Failed
     ELSE Returns([k \in DOMAIN files |-> images[k].value])

-----------------------------------------------------------------------------
(* The families of inputs *)

Edges == {-3, 0, 1, PIXEL, PIXEL + 2, 2 * PIXEL + 1}
Rectangles ==
  {rectangle(x, y, w - x, h - y) : <<x, w, y, h>> \in
     {q \in Edges \X Edges \X Edges \X Edges : q[1] < q[2] /\ q[3] < q[4]}}

\* Beside the rectangle: nothing, one turned the other way, one turned the
\* same way, a diamond.
Companions ==
  {<<>>, <<Reverse(rectangle(1, 1, PIXEL, PIXEL))>>, <<rectangle(1, 1, PIXEL, PIXEL)>>,
   <<<<<<PIXEL, 0>>, <<2 * PIXEL, PIXEL>>, <<PIXEL, 2 * PIXEL>>, <<0, PIXEL>>>>>>}

Blank == Canvas(2, 2, 10)
Ink == 201

Paint ==
  \E r \in Rectangles, c \in Companions :
    Does("paint", <<r>> \o c, paint(Blank, <<r>> \o c, Ink))

PaintFrame ==
  \E x, y \in {-1, 1, 3}, w, h \in {4, PIXEL + 3}, t \in 1..2 :
    Does("frame", <<x, y, w, h, t>>, paint(Blank, frame(x, y, w, h, t), Ink))

Sharp(polygons, x, y, scale) ==
  LET halves == placeSvg(polygons, x, y, scale)
  IN [i \in DOMAIN halves |-> [j \in DOMAIN halves[i] |->
        <<halves[i][j][1] * SUBSAMPLES, halves[i][j][2] * SUBSAMPLES>>]]

\* The lockup on the card: refused, unless the scale keeps its grid whole.
PlaceLockup ==
  \E a, b, c, d \in 0..4, scale \in 1..4 :
    LET mark == <<rectangle(a, b, c + 1, d + 1)>> IN
    Does("lockup", mark,
         IF (gridUnitOf(mark) * scale) % 2 # 0 THEN Failed
         ELSE Returns(paint(Blank, Sharp(mark, 0, -1, scale), Ink).pixels))

Whole(a, b, c, d) == rectangle(a * PIXEL, b * PIXEL, (c - a) * PIXEL, (d - b) * PIXEL)

Rasterize ==
  \E a, b \in {-1, 0, 1}, c, d \in {1, 2, 4}, hole \in BOOLEAN :
    LET under == [fill |-> 1, polygons |-> <<Whole(0, 0, 3, 2)>>]
        over == [fill |-> 2, polygons |-> <<Whole(a, b, c, d)>>
                   \o (IF hole THEN <<Reverse(Whole(0, 0, 1, 1))>> ELSE <<>>)]
    IN Does("rasterize", <<under, over>>, rasterize(<<under, over>>, 3, 2))

Box(x, width) ==
  <<Letter("M"), Number(x), Number(0), Letter("h"), Number(width), Letter("v"), Number(1),
    Letter("h"), Number(-width), Letter("Z")>>

\* A mark and two letters one over the other; or a lockup without its group,
\* or with a group that is not ended, or with a letter that is not filled.
WriteBrand ==
  \E mark, under \in Tones, over \in Tones \cup {0}, move \in {WORDMARK, 2}, end \in {0, 1}, scale \in 1..2 :
    LET lockup == <<Group(0, 0), Filled(mark, Box(0, 2)), GroupEnd, Group(move, 0),
                    Filled(under, Box(0, 2)), Filled(over, Box(1, 1))>> \o SubSeq(<<GroupEnd>>, 1, end)
    IN Does("brand", <<lockup, scale>>, brand(lockup, scale))

\* Images of two by two pixels in three colours.
Colours == {<<0, 0, 0>>, <<255, 1, 128>>, <<7, 200, 255>>}
Image(a, b, c, d) == LET bytes == a \o b \o c \o d IN [i \in 0..11 |-> bytes[i + 1]]

WritePng ==
  \E a, b, c, d \in Colours :
    Does("png", Image(a, b, c, d), filterScanlines(Image(a, b, c, d), 2, 2))

\* The same bytes as an image of one pixel a row, with a channel more.
WriteRgbaPng ==
  \E a, b, c \in Colours :
    LET rgba == Image(a, b, c, a) IN Does("rgba", rgba, pngFromRgba(rgba, 1, 2))

Bytes == {{}, {0}, {7}, {0, 2, 3, 6}, Byte}

WriteChunk ==
  \E a, b, c \in Bytes, n \in 0..2 :
    Does("chunk", <<a, b, c>>, pngChunk(<<a, b>>, SubSeq(<<c, a>>, 1, n)))

Texts(n) == [i \in 1..n |-> {i}]

WriteZip ==
  \E n \in 0..3, a, b, c \in 1..2, x, y, z \in 0..2 :
    LET entries == SubSeq(<<[name |-> Texts(a), data |-> Texts(x)], [name |-> Texts(b), data |-> Texts(y)],
                            [name |-> Texts(c), data |-> Texts(z)]>>, 1, n)
    IN Does("zip", entries, zipFromEntries(entries))

\* A polygon written as a path in three styles.
Corners == {<<0, 0>>, <<2, 0>>, <<2, 1>>, <<0, 1>>}

Side(from, to, style) ==
  LET flat == from[2] = to[2]
      upright == from[1] = to[1]
      dx == Number(to[1] - from[1])
      dy == Number(to[2] - from[2])
  IN CASE style = "implicit" -> <<Number(to[1]), Number(to[2])>>
       [] style = "absolute" /\ flat -> <<Letter("H"), Number(to[1])>>
       [] style = "absolute" /\ upright /\ ~flat -> <<Letter("V"), Number(to[2])>>
       [] style = "absolute" /\ ~upright /\ ~flat -> <<Letter("L"), Number(to[1]), Number(to[2])>>
       [] style = "relative" /\ flat -> <<Letter("h"), dx>>
       [] style = "relative" /\ upright /\ ~flat -> <<Letter("v"), dy>>
       [] OTHER -> <<Letter("l"), dx, dy>>

Written(polygon, style) ==
  <<Letter("M"), Number(polygon[1][1]), Number(polygon[1][2])>>
  \o FlattenSeq([i \in 1..Len(polygon) - 1 |-> Side(polygon[i], polygon[i + 1], style)])
  \o <<Letter("Z")>>

ReadPath ==
  \E p \in [1..3 -> Corners], q \in [1..2 -> Corners], s, t \in {"implicit", "absolute", "relative"} :
    Does("path", <<p, q>>, parsePathData(Written(p, s) \o Written(q, t)))

Square == Written(<<<<0, 0>>, <<2, 0>>, <<2, 2>>>>, "absolute")
Nodes ==
  {Group(1, 0), Group(0, 5), GroupEnd, Filled(7, Square)}

ReadSvg ==
  \/ \E n \in 1..5 : \E nodes \in [1..n -> Nodes] : Does("svg", nodes, loadSvg(nodes))
  \/ \E n \in 1..3, unfilled \in {Filled(0, Square), Filled(7, <<>>)} :
       \E nodes \in [1..n -> Nodes \cup {unfilled}] :
         unfilled \in ToSet(nodes) /\ Does("svg", nodes, loadSvg(nodes))

\* Two segments and the one that ends the table; five codes of which each has
\* two, and glyph identifiers of which one is missing.
Segments(d1, o1, d2, o2) ==
  <<[start |-> 0, end |-> 1, delta |-> d1, rangeOffset |-> o1],
    [start |-> 3, end |-> 4, delta |-> d2, rangeOffset |-> o2],
    [start |-> 65535, end |-> 65535, delta |-> 1, rangeOffset |-> 0]>>
Identifiers == <<2, 0, 9>>
Codes == 0..5 \cup {65535}

ReadCmap ==
  \E d1, d2 \in {-1, 0, 7}, o1 \in {0, 3, 4}, o2 \in {0, 2, 4} :
    LET s == Segments(d1, o1, d2, o2) IN
    Does("cmap", s, [code \in Codes |-> cmapFormat4(s, Identifiers, code)])

\* Two subtables out of a format each, for any pair of platforms, and none.
Subtables ==
  [platform : {0, 1, 3}, encoding : {0, 1, 10}, format : {4}, ids : {Identifiers},
   segments : {Segments(7, 0, 7, 0)}]
  \cup [platform : {0, 1, 3}, encoding : {0, 1, 10}, format : {6, 12}, ids : {<<>>},
        segments : {<<[start |-> 0, end |-> 2, glyph |-> 20], [start |-> 4, end |-> 4, glyph |-> 30]>>}]

ReadSubtables ==
  \/ \E a, b \in Subtables, code \in {0, 3} : Does("subtables", <<a, b, code>>, parseCmap(<<a, b>>, code))
  \/ Does("subtables", <<>>, parseCmap(<<>>, 0))

\* A glyph in one of its encodings: deltas in a byte with a sign in the flag
\* or in a word, equal flags one by one or with a count.
FlagOf(dx, dy, on, short) ==
  LET axis(d, s, same) == IF d = 0 THEN same ELSE IF short THEN s + (IF d > 0 THEN same ELSE 0) ELSE 0
  IN axis(dx, 2, 16) + axis(dy, 4, 32) + (IF on THEN 1 ELSE 0)

Counted(flags) ==
  IF \A i \in DOMAIN flags : flags[i] = flags[1] THEN <<flags[1] + 8, Len(flags) - 1>> ELSE flags

Deltas(ds, short) ==
  LET kept == SelectSeq(ds, LAMBDA d : d # 0)
  IN [i \in DOMAIN kept |-> IF short /\ kept[i] < 0 THEN -kept[i] ELSE kept[i]]

Encoded(dxs, dys, ons, short, counted) ==
  LET flags == [i \in DOMAIN dxs |-> FlagOf(dxs[i], dys[i], ons[i], short)]
  IN (IF counted THEN Counted(flags) ELSE flags) \o Deltas(dxs, short) \o Deltas(dys, short)

ReadGlyph ==
  \E dxs, dys \in [1..3 -> {-2, 0, 1}], on \in BOOLEAN, ends \in {<<2>>, <<0, 2>>, <<1, 2>>},
     short, counted \in BOOLEAN :
    LET ons == <<TRUE, on, TRUE>> IN
    Does("glyph", <<dxs, dys, ons, ends>>,
         readSimpleGlyph(ends, Encoded(dxs, dys, ons, short, counted)))

\* Fonts of one simple glyph and composites, cycles and missing glyphs included.
Simple == [outlines |-> <<3>>, components |-> <<>>]
Composite(parts) == [outlines |-> <<>>, components |-> parts]
Font(parts) == [g \in 0..Len(parts) |-> IF g = 0 THEN Simple ELSE Composite(parts[g])]
Part(id, a, dx) == [id |-> id, a |-> a, dx |-> dx, matched |-> FALSE]

ReadComposite ==
  \/ \E a, b, c, d \in 0..3, by \in {<<1, 1>>, <<2, -1>>}, m \in BOOLEAN :
       LET font == Font(<<<<Part(a, by[1], 1), Part(b, 1, 10)>>,
                          <<Part(c, by[2], 100), [Part(d, 1, 1000) EXCEPT !.matched = m]>>>>)
       IN Does("composite", <<font, 2>>, contoursOf(font, 2))
  \/ \E n \in 1..6 :
       LET font == Font([g \in 1..n |-> <<Part(g - 1, 1, 1)>>])
       IN Does("composite", <<font, n>>, contoursOf(font, n))

DrawContour ==
  \E n \in 2..5 : \E ons \in [1..n -> BOOLEAN] :
    LET contour == [i \in 1..n |-> [at |-> 4 * i * i, onCurve |-> ons[i]]]
    IN Does("contour", contour, contourToPolygon(contour))

DrawCard == \E advance \in 500..1000 : Does("card", <<advance>>, card(advance))

Next ==
  \/ Paint \/ PaintFrame \/ PlaceLockup \/ Rasterize \/ WriteBrand
  \/ WritePng \/ WriteRgbaPng \/ WriteChunk \/ WriteZip
  \/ ReadPath \/ ReadSvg \/ ReadCmap \/ ReadSubtables \/ ReadGlyph \/ ReadComposite \/ DrawContour
  \/ DrawCard

Spec == Init /\ [][Next]_task

-----------------------------------------------------------------------------
(***************************************************************************)
(* What has to come out.  Inside: on the scanline at y, between u and      *)
(* u + 1, more or fewer sides go down than up on the left.                 *)
(***************************************************************************)
Inside(polygons, u, y) ==
  LET edges == edgesOf(polygons)
      left(d) == {i \in DOMAIN edges : /\ Direction(edges[i]) = d
                                       /\ Top(edges[i]) <= y /\ y < Bottom(edges[i])
                                       /\ Meets(edges[i], y) <= u}
  IN Cardinality(left(1)) # Cardinality(left(-1))

Area(polygons, p) ==
  Cardinality({<<s, u>> \in (1..SUBSAMPLES) \X (0..PIXEL - 1) :
                 Inside(polygons, p[2] * PIXEL + u, p[1] * PIXEL + 2 * s - 1)})

\* The nearest value to a mixture in proportion to the area.
Mixed(value, area) ==
  LET error == 2 * (value * FULL - (10 * FULL + (Ink - 10) * area))
  IN -FULL <= error /\ error <= FULL

Pixels == (0..1) \X (0..1)

PaintExact ==
  task.kind = "paint" =>
    \A p \in Pixels : Mixed(task.output.pixels[p], Area(task.input, p))

\* Outside the inner rectangle, and every corner once.
FrameExact ==
  task.kind = "frame" =>
    LET x == task.input[1] y == task.input[2] w == task.input[3] h == task.input[4] t == task.input[5]
        area(p) == Area(<<rectangle(x, y, w, h)>>, p)
                   - Area(<<rectangle(x + t, y + t, w - 2 * t, h - 2 * t)>>, p)
    IN \A p \in Pixels : Mixed(task.output.pixels[p], area(p))

LockupSharp ==
  task.kind = "lockup" /\ ~task.output.failed =>
    \A p \in Pixels : task.output.value[p] \in {10, Ink}

RasterExact ==
  task.kind = "rasterize" =>
    \A p \in (0..1) \X (0..2) :
      LET over == {i \in 1..2 : Inside(task.input[i].polygons, p[2] * PIXEL + SUBSAMPLES,
                                       p[1] * PIXEL + SUBSAMPLES)}
      IN task.output[p] = IF over = {} THEN 0 ELSE task.input[Max(over)].fill

CardApart ==
  task.kind = "card" /\ ~task.output.failed =>
    \A i, j \in DOMAIN task.output.value :
      LET a == task.output.value[i] b == task.output.value[j] IN
      i < j => \/ a.x + a.width <= b.x \/ b.x + b.width <= a.x
               \/ a.y + a.height <= b.y \/ b.y + b.height <= a.y

\* The wordmark is the lockup from the column its group is moved to, and a
\* dark image is its light one with the order of the tones reversed, as
\* transparent where that is.
BrandAgrees ==
  task.kind = "brand" =>
    LET lockup == task.input[1]
        scale == task.input[2]
        files == task.output.value
        mirrored(light, dark) == \A p, q \in DOMAIN light :
          /\ light[p] = 0 <=> dark[p] = 0
          /\ light[p] # 0 /\ light[q] # 0 => (light[p] < light[q] <=> dark[q] < dark[p])
    IN /\ task.output.failed <=> \/ Last(lockup) # GroupEnd \/ lockup[4].dx # WORDMARK \/ lockup[6].fill = 0
       /\ ~task.output.failed =>
            /\ \A p \in DOMAIN files[1] : files[1][p] = files[3][<<p[1], p[2] + scale * WORDMARK>>]
            /\ mirrored(files[1], files[2]) /\ mirrored(files[3], files[4])

\* A pixel of the canvas is the ink in proportion to the part of it, sampled
\* by the scanlines, where the winding number is not zero: for polygons that
\* overlap, turn the other way, meet, and reach beyond every side of the
\* canvas.  A frame is that and nothing twice.  A mark whose grid the scale
\* keeps whole has no soft pixel; the exact rasteriser colours a pixel by the
\* last shape over its middle; the brand files agree with each other.  And a
\* card of which every text passed its
\* check has no two things on top of each other, whatever the font's advance.
PixelsExact ==
  PaintExact /\ FrameExact /\ LockupSharp /\ RasterExact /\ BrandAgrees /\ CardApart

-----------------------------------------------------------------------------

\* What a reader makes of the rows: the bytes restored in order.
Restored(rows, stride) ==
  LET byte[y \in 0..1, i \in 0..stride - 1] ==
        LET data == rows[y].data[i]
            left == IF i >= 3 THEN byte[y, i - 3] ELSE 0
            above == IF y > 0 THEN byte[y - 1, i] ELSE 0
        IN (data + (CASE rows[y].type = 0 -> 0 [] rows[y].type = 1 -> left
                      [] rows[y].type = 2 -> above)) % 256
  IN byte

PngRestores ==
  task.kind = "png" =>
    \A y \in 0..1, i \in 0..5 :
      /\ Restored(task.output, 6)[y, i] = task.input[6 * y + i]
      /\ \A t \in 0..2 : Score(task.output[y].data) <= Score(Filtered(task.input, 6, y, t))

RgbaRestores ==
  task.kind = "rgba" =>
    \A y \in 0..1, i \in 0..3 : task.output[y].type = 0 /\ task.output[y].data[i] = task.input[4 * y + i]

\* The checksum's definition: a division bit by bit, the low bit first.
Remainder(bytes) ==
  LET bits == FlattenSeq([b \in DOMAIN bytes |-> [i \in 1..8 |-> i - 1 \in bytes[b]]])
      divide(w, bit) == IF (0 \in w) # bit THEN Xor(Shift(w, 1), Polynomial) ELSE Shift(w, 1)
  IN Xor(FoldLeft(divide, Word, bits), Word)

\* The checksum every PNG ends with, 0xae426082, is that of "IEND".
ASSUME EndChunk ==
  crc32(<<{6, 3, 0}, {6, 2, 0}, {6, 3, 2, 1}, {6, 2}>>)
    = {31, 29, 27, 26, 25, 22, 17, 14, 13, 7, 1}

ChunkChecked ==
  task.kind = "chunk" =>
    task.output.crc = Remainder(task.output.type \o task.output.data)

Begins(file, i) == FoldLeft(LAMBDA n, piece : n + piece.size, 0, SubSeq(file, 1, i - 1))

\* A reader starts from the end of the file: the directory is where the end
\* record says, and its records lead to the entries.
ZipReads ==
  task.kind = "zip" =>
    LET file == task.output
        end == Last(file)
        directory == {i \in DOMAIN file : Begins(file, i) >= end.offset} \ {Len(file)}
    IN /\ Cardinality(directory) = end.count /\ end.count = Len(task.input)
       /\ Begins(file, Len(file)) = end.offset + end.length
       /\ \A k \in DOMAIN task.input :
            \E i \in directory, j \in DOMAIN file :
              /\ file[i].kind = "record" /\ i - k = Len(task.input)
              /\ file[j].kind = "local" /\ Begins(file, j) = file[i].offset
              /\ file[j].name = task.input[k].name /\ file[i].name = file[j].name
              /\ file[j].data = task.input[k].data /\ file[j].length = Len(file[j].data)
              /\ file[i].crc = Remainder(file[j].data) /\ file[j].crc = file[i].crc
              /\ file[i].length = file[j].length

\* The files can be read back: a row restores to the bytes it was made from
\* whichever filter was cheapest, and none is cheaper; the table-driven
\* checksum is the remainder it stands for; the directory at the end of the
\* archive finds every entry at its offset, with its size and checksum.
FilesReadBack == PngRestores /\ RgbaRestores /\ ChunkChecked /\ ZipReads

-----------------------------------------------------------------------------

PathRead ==
  task.kind = "path" => task.output = Returns(task.input)

\* The groups a node is in: opened before it and not closed since.
Around(nodes, i) ==
  {g \in 1..i - 1 : nodes[g].tag = "g" /\ \A k \in g..i - 1 :
     Cardinality({j \in g..k : nodes[j].tag = "g"}) > Cardinality({j \in g..k : nodes[j].tag = "/g"})}

Balanced(nodes) ==
  LET opened(k) == Cardinality({j \in 1..k : nodes[j].tag = "g"})
      ended(k) == Cardinality({j \in 1..k : nodes[j].tag = "/g"})
  IN opened(Len(nodes)) = ended(Len(nodes)) /\ \A k \in DOMAIN nodes : ended(k) <= opened(k)

SvgRead ==
  task.kind = "svg" =>
    LET nodes == task.input
        paths == SetToSortSeq({i \in DOMAIN nodes : nodes[i].tag = "path"}, <)
        at(i) == Moved(<<<<<<0, 0>>, <<2, 0>>, <<2, 2>>>>>>,
                       Cardinality({g \in Around(nodes, i) : nodes[g].dx = 1}),
                       5 * Cardinality({g \in Around(nodes, i) : nodes[g].dy = 5}))
        whole == \A i \in ToSet(paths) : nodes[i] = Filled(7, Square)
    IN task.output = IF Balanced(nodes) /\ whole
                     THEN Returns([k \in DOMAIN paths |-> [fill |-> 7, polygons |-> at(paths[k])]])
                     ELSE Failed

\* As a font is looked up: the first segment that ends at the code or after.
CmapAgrees ==
  task.kind = "cmap" =>
    \A code \in Codes :
      LET i == Min({j \in DOMAIN task.input : task.input[j].end >= code})
          s == task.input[i]
          word == ([j \in DOMAIN task.input |-> task.input[j].rangeOffset] \o Identifiers \o <<0, 0>>)
                    [i + s.rangeOffset + code - s.start]
          glyph == IF code < s.start THEN 0
                   ELSE IF s.rangeOffset = 0 THEN code + s.delta
                   ELSE IF word = 0 THEN 0 ELSE word + s.delta
      IN task.output[code] = glyph % 65536

\* A full Unicode table goes before a basic one, that before any Unicode one,
\* that before the rest, and the first of equals before the others.
SubtableChosen ==
  task.kind = "subtables" =>
    LET rank(r) == CASE <<r.platform, r.encoding>> = <<3, 10>> -> 1
                     [] <<r.platform, r.encoding>> = <<3, 1>> -> 2
                     [] r.platform = 0 -> 3 [] OTHER -> 4
        best == IF rank(task.input[2]) < rank(task.input[1]) THEN task.input[2] ELSE task.input[1]
        code == task.input[3]
    IN task.output = IF task.input = <<>> THEN Failed
                     ELSE CASE best.format = 4 -> Returns(code + 7)
                            [] best.format = 12 -> Returns(IF code = 0 THEN 20 ELSE 0)
                            [] OTHER -> Failed

Sum(ds, n) == FoldLeft(LAMBDA a, d : a + d, 0, SubSeq(ds, 1, n))

\* The points of a glyph are the sums of its deltas, cut at the end points.
GlyphDecoded ==
  task.kind = "glyph" =>
    LET ends == task.input[4] IN
    /\ Len(task.output) = Len(ends)
    /\ FlattenSeq(task.output) =
         [i \in 1..3 |-> [x |-> Sum(task.input[1], i), y |-> Sum(task.input[2], i),
                          onCurve |-> task.input[3][i]]]
    /\ \A c \in DOMAIN ends : Len(FlattenSeq(SubSeq(task.output, 1, c))) = ends[c] + 1

\* Every way down from a glyph to one without components, as the offset it
\* adds up to and the factor; a way that is longer than it may be, that takes
\* a part matched to a point, or that leads to a glyph the font does not have,
\* is the failure of the whole.
Ways(font, id) ==
  LET down(ways) ==
        UNION {IF w.id \notin DOMAIN font \/ w.id = 0 THEN {w}
               ELSE {[id |-> c.id, dx |-> w.dx + w.a * c.dx, a |-> w.a * c.a, steps |-> w.steps + 1,
                      matched |-> w.matched \/ c.matched] : c \in ToSet(font[w.id].components)} : w \in ways}
  IN down(down(down(down(down({[id |-> id, dx |-> 0, a |-> 1, steps |-> 0, matched |-> FALSE]})))))

CompositeAgrees ==
  task.kind = "composite" =>
    LET ways == Ways(task.input[1], task.input[2])
        sound == \A w \in ways : w.id = 0 /\ w.steps <= 4 /\ ~w.matched
    IN /\ task.output.failed <=> ~sound
       /\ sound => ToSet(task.output.value) = {3 * w.a + w.dx : w \in ways}

\* The contour with the middles that are implied, from any of its points.
Implied(contour) ==
  LET n == Len(contour)
      after(i) == contour[(i % n) + 1]
  IN FlattenSeq([i \in 1..n |->
       IF contour[i].onCurve \/ after(i).onCurve THEN <<contour[i].at>>
       ELSE <<contour[i].at, Middle(contour[i].at, after(i).at)>>])

ContourClosed ==
  task.kind = "contour" =>
    LET drawn == FlattenSeq([k \in 1..Len(task.output) - 1 |->
                   LET s == task.output[k + 1]
                   IN IF s.control = None THEN <<s.to>> ELSE <<s.control, s.to>>])
        whole == Implied(task.input)
        n == Len(whole)
    IN /\ Last(task.output).to = Head(task.output).to
       /\ \E r \in 0..n - 1 : drawn = [i \in 1..n |-> whole[((i + r - 1) % n) + 1]]

\* Outlines are read as they were written: a path in absolute, relative or
\* implicit commands gives its polygons back; a shape is moved by the groups
\* around it, and groups that do not match are refused; a character map gives
\* the glyph a lookup in the best subtable finds; a glyph's points are those encoded, in every
\* encoding; a composite has all its parts or fails, in a cycle too; and a
\* contour is drawn closed, through every point and around every control
\* point once, wherever it starts.
OutlinesFaithful ==
  /\ PathRead /\ SvgRead /\ CmapAgrees /\ SubtableChosen /\ GlyphDecoded /\ CompositeAgrees /\ ContourClosed
=============================================================================
