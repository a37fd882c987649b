---------------------------- MODULE ImageBuffer ----------------------------
(***************************************************************************)
(* The pictures of the recognition: src/rknn/utils/image_utils.c, which    *)
(* fits a picture into the model's input, and image_drawing.c, which draws *)
(* frames and labels.                                                      *)
(*                                                                         *)
(* A picture is [format, width, height] and one buffer of bytes.  What the *)
(* bytes hold is left out; which ones are read and written is what can go  *)
(* wrong, so an operator gives the offsets a function touches.  A factor   *)
(* of type float is the fraction it stands for; rounding is left out.      *)
(* The build defines DISABLE_RGA: conversions run on the CPU.              *)
(***************************************************************************)
EXTENDS Integers, Sequences, FiniteSets

Yuv == {"YUV420SP_NV12", "YUV420SP_NV21"}
Format == {"GRAY8", "RGB888", "RGBA8888"} \cup Yuv
Channels == [GRAY8 |-> 1, RGB888 |-> 3, RGBA8888 |-> 4]

get_image_size(image) ==
    IF image.format \in Yuv THEN (image.width * image.height * 3) \div 2
    ELSE image.width * image.height * Channels[image.format]

\* C's division by two.
Half(n) == IF n < 0 THEN -((-n) \div 2) ELSE n \div 2
AtLeast(m, n) == IF n < m THEN m ELSE n

-----------------------------------------------------------------------------
(* Planes of pixels.                                                       *)

\* The pixels of a plane of w by h with x0 <= x < x1 and y0 <= y < y1: the loops skip
\* what is left of and above the plane and end at its right and lower edges.
Area(w, h, x0, x1, y0, y1) ==
    {p \in (0 .. w - 1) \X (0 .. h - 1) : x0 <= p[1] /\ p[1] < x1 /\ y0 <= p[2] /\ p[2] < y1}

\* The offsets of pixels in a plane of lines of w pixels.
Bytes(channel, w, pixels) ==
    {(p[2] * w + p[1]) * channel + c : p \in pixels, c \in 0 .. channel - 1}

\* In a picture of two planes the second one, of two channels and half the size, follows
\* the first.
TwoPlanes(w, h, luma, chroma) == luma \cup {w * h + b : b \in chroma}

-----------------------------------------------------------------------------
(* draw_rectangle.                                                         *)

\* The pixels of a rectangle: all of it, or a band along each side.  The functions for
\* one to four channels differ in the bytes of a pixel only.
Rectangle(w, h, rx, ry, rw, rh, thickness) ==
    LET t0 == thickness \div 2
        t1 == thickness - t0
    IN  IF thickness = -1 THEN Area(w, h, rx, rx + rw, ry, ry + rh)
        ELSE Area(w, h, rx - t0, rx + rw + t1, ry - t0, ry + t1)
             \cup Area(w, h, rx - t0, rx + rw + t1, ry + rh - t0, ry + rh + t1)
             \cup Area(w, h, rx - t0, rx + t1, ry + t1, ry + rh - t0)
             \cup Area(w, h, rx + rw - t0, rx + rw + t1, ry + t1, ry + rh - t0)

draw_rectangle_c1(w, h, rx, ry, rw, rh, thickness) ==
    Bytes(1, w, Rectangle(w, h, rx, ry, rw, rh, thickness))
draw_rectangle_c2(w, h, rx, ry, rw, rh, thickness) ==
    Bytes(2, w, Rectangle(w, h, rx, ry, rw, rh, thickness))
draw_rectangle_c3(w, h, rx, ry, rw, rh, thickness) ==
    Bytes(3, w, Rectangle(w, h, rx, ry, rw, rh, thickness))
draw_rectangle_c4(w, h, rx, ry, rw, rh, thickness) ==
    Bytes(4, w, Rectangle(w, h, rx, ry, rw, rh, thickness))

draw_rectangle_yuv420sp(w, h, rx, ry, rw, rh, thickness) ==
    TwoPlanes(w, h, draw_rectangle_c1(w, h, rx, ry, rw, rh, thickness),
              draw_rectangle_c2(w \div 2, h \div 2, Half(rx), Half(ry), Half(rw), Half(rh),
                                IF thickness = -1 THEN -1 ELSE AtLeast(1, thickness \div 2)))

\* Gray pictures are refused.
draw_rectangle(image, rx, ry, rw, rh, thickness) ==
    LET w == image.width
        h == image.height
    IN  CASE image.format = "RGB888"   -> draw_rectangle_c3(w, h, rx, ry, rw, rh, thickness)
          [] image.format = "RGBA8888" -> draw_rectangle_c4(w, h, rx, ry, rw, rh, thickness)
          [] image.format \in Yuv      -> draw_rectangle_yuv420sp(w, h, rx, ry, rw, rh, thickness)
          [] OTHER                     -> {}

-----------------------------------------------------------------------------
(* draw_text.  A character is "printed", "newline" or something else.      *)

\* The characters before the i-th one that move it down, and on its line to the right.
Newlines(text, i) == {k \in 1 .. i - 1 : text[k] = "newline"}
Before(text, i) ==
    {k \in 1 .. i - 1 : text[k] = "printed" /\ \A j \in k .. i : text[j] # "newline"}

\* The cells of the printed characters.
Text(w, h, text, x, y, fontpixelsize) ==
    LET Column(i) == x + fontpixelsize * Cardinality(Before(text, i))
        Row(i)    == y + 2 * fontpixelsize * Cardinality(Newlines(text, i))
    IN  UNION {Area(w, h, Column(i), Column(i) + fontpixelsize, Row(i), Row(i) + 2 * fontpixelsize)
                 : i \in {k \in 1 .. Len(text) : text[k] = "printed"}}

draw_text_c1(w, h, text, x, y, fontpixelsize) == Bytes(1, w, Text(w, h, text, x, y, fontpixelsize))
draw_text_c2(w, h, text, x, y, fontpixelsize) == Bytes(2, w, Text(w, h, text, x, y, fontpixelsize))
draw_text_c3(w, h, text, x, y, fontpixelsize) == Bytes(3, w, Text(w, h, text, x, y, fontpixelsize))
draw_text_c4(w, h, text, x, y, fontpixelsize) == Bytes(4, w, Text(w, h, text, x, y, fontpixelsize))

draw_text_yuv420sp(w, h, text, x, y, fontpixelsize) ==
    TwoPlanes(w, h, draw_text_c1(w, h, text, x, y, fontpixelsize),
              draw_text_c2(w \div 2, h \div 2, text, Half(x), Half(y), AtLeast(1, fontpixelsize \div 2)))

draw_text(image, text, x, y, fontsize) ==
    LET w == image.width
        h == image.height
    IN  CASE image.format = "RGB888"   -> draw_text_c3(w, h, text, x, y, fontsize)
          [] image.format = "RGBA8888" -> draw_text_c4(w, h, text, x, y, fontsize)
          [] image.format \in Yuv      -> draw_text_yuv420sp(w, h, text, x, y, fontsize)
          [] OTHER                     -> {}

\* The bytes of a glyph of w by h that are read to draw it with w2 by h2 pixels.
resize_bilinear_c1(w, h, w2, h2) ==
    LET At(i, j) == (((h - 1) * i) \div h2) * w + ((w - 1) * j) \div w2
    IN  UNION {{At(i, j), At(i, j) + 1, At(i, j) + w, At(i, j) + w + 1}
                 : i \in 0 .. h2 - 1, j \in 0 .. w2 - 1}

-----------------------------------------------------------------------------
(* Scaling into a box of another picture.  A box is [left, top, right,     *)
(* bottom], its right and bottom edges included.                           *)

BoxWidth(box) == box.right - box.left + 1
BoxHeight(box) == box.bottom - box.top + 1
Whole(image) == [left |-> 0, top |-> 0, right |-> image.width - 1, bottom |-> image.height - 1]

\* Where pixel i of n is taken from, when n pixels stand for m.
Source(i, m, n) == (i * m) \div n

\* Mutant of Neighbour: there is always a pixel to the right and below.
NeighbourBeyond(i, size) == i + 1

\* The pixel it is mixed with: the next one, or the one before at the edge.
Neighbour(i, size) == IF i = size - 1 THEN i - 1 ELSE i + 1

\* crop_and_scale_image_c: the pixels of the source it reads, and those of the target it
\* writes, as offsets of bytes.
ScaleReads(channel, width, height, crop, box) ==
    LET columns == {crop.left + Source(i, BoxWidth(crop), BoxWidth(box)) : i \in 0 .. BoxWidth(box) - 1}
        rows    == {crop.top + Source(j, BoxHeight(crop), BoxHeight(box)) : j \in 0 .. BoxHeight(box) - 1}
    IN  {(y * width + x) * channel + c :
            y \in rows \cup {Neighbour(j, height) : j \in rows},
            x \in columns \cup {Neighbour(i, width) : i \in columns},
            c \in 0 .. channel - 1}

ScaleWrites(channel, width, box) ==
    {(y * width + x) * channel + c :
        y \in box.top .. box.bottom, x \in box.left .. box.right, c \in 0 .. channel - 1}

\* convert_image_cpu for two pictures of one format other than YUV (the only ones here are
\* RGB): what the box leaves of the target is filled.
convert_image_cpu(src, dst, src_box, dst_box) ==
    LET channel == Channels[src.format]
        padded  == BoxWidth(dst_box) # dst.width \/ BoxHeight(dst_box) # dst.height
    IN  [reads  |-> ScaleReads(channel, src.width, src.height, src_box, dst_box),
         writes |-> ScaleWrites(channel, dst.width, dst_box)
                    \cup (IF padded THEN 0 .. get_image_size(dst) - 1 ELSE {})]

Even(n) == n - (n % 2)

\* convert_image_with_letterbox, lines 691-771: the smaller of the two factors, num / den,
\* the size of the picture with it, rounded for alignment, and the box in the middle.
letterbox(src, dst) ==
    LET wider    == dst.width * src.height < dst.height * src.width
        num      == IF wider THEN dst.width ELSE dst.height
        den      == IF wider THEN src.width ELSE src.height
        scaled_w == IF wider THEN dst.width ELSE (src.width * num) \div den
        scaled_h == IF wider THEN (src.height * num) \div den ELSE dst.height
        resize_w == scaled_w - (scaled_w % 4)
        resize_h == Even(scaled_h)
        left     == IF wider THEN 0 ELSE Even((dst.width - resize_w) \div 2)
        top      == IF wider THEN Even((dst.height - resize_h) \div 2) ELSE 0
    IN  [num |-> num, den |-> den, x_pad |-> left, y_pad |-> top,
         dst_box |-> [left   |-> left, top |-> top,
                      right  |-> IF wider THEN dst.width - 1 ELSE left + resize_w - 1,
                      bottom |-> IF wider THEN top + resize_h - 1 ELSE dst.height - 1]]

\* box is the one letterbox(src, dst) gives.
convert_image_with_letterbox(src, dst, box) == convert_image_cpu(src, dst, Whole(src), box)
=============================================================================
