------------------------- MODULE Recognition_proofs -------------------------
(* What AIRecognizer allocates, publishes and loses, for any cameras and bounds; *)
(* and what drawing and scaling touch, for pictures and boxes of any size.       *)
EXTENDS Recognition, Vision, FiniteSetTheorems, WellFoundedInduction, TLAPS

\* What is allocated at each step of processFrame, and what the step goes by.
StageInv ==
    /\ stage \in {"start", "list", "next", "convert"} => buffers = {}
    /\ stage \in {"infer", "count", "alarm", "free"} => buffers = {"rgb_image"}
    /\ stage = "run" => initialized /\ buffers = {"rgb_image", "dst_img"}
    /\ stage \in {"convert", "infer", "run", "count", "alarm"} => sourceCamera \in CameraId
    /\ initialized /\ stage \in {"count", "alarm"} =>
           od_count # Indeterminate /\ inferred = [camera |-> sourceCamera, count |-> od_count]
    /\ initialized /\ stage = "alarm" => od_count > 0

LeakInv == leaked = 2 * bothLost + imageLost + given

CrashInv == crashed => ~initialized \/ unusable

RecInv == RecTypeOK /\ StageInv /\ LeakInv /\ CrashInv

-----------------------------------------------------------------------------
LEMMA RecInitial == RecInit => RecInv
<1> SUFFICES ASSUME RecInit
             PROVE  RecInv
  OBVIOUS
<1>1. inferred \in [camera : CameraId \cup {-1}, count : 0 .. MaxObjects]
  BY RecognitionAssumption DEF RecInit, Nothing
<1>2. lastKeyFrame \in [CameraId -> {"none", "usable", "empty"}] /\ realImages = lastKeyFrame
  BY DEF RecInit
<1>3. RecTypeOK
  BY <1>1, <1>2 DEF RecInit, RecTypeOK, Stages
<1> QED
  BY <1>3 DEF RecInit, RecInv, StageInv, LeakInv, CrashInv

\* Every step of the model's start and of the recognizer's thread.
LEMMA WorkerStep ==
  ASSUME RecInv, ~crashed, initialize \/ RecognizerStep
  PROVE  RecInv'
<1> USE RecognitionAssumption
        DEF RecInv, RecTypeOK, StageInv, LeakInv, CrashInv, Stages, Indeterminate,
            modelVars, workerVars, pastVars
<1>1. CASE initialize
  BY <1>1 DEF initialize
<1>2. CASE getAllRealImage
  BY <1>2 DEF getAllRealImage
<1>3. CASE NextImage
  BY <1>3 DEF NextImage
<1>4. CASE avframeToRGB
  BY <1>4 DEF avframeToRGB
<1>5. CASE infer
  BY <1>5 DEF infer
<1>6. CASE FailsEarly
  BY <1>6 DEF FailsEarly
<1>7. CASE FailsLate
  BY <1>7 DEF FailsLate
<1>8. ASSUME NEW count \in 0 .. MaxObjects, Found(count)
      PROVE  RecInv'
  BY <1>8 DEF Found
<1>9. CASE CountObjects
  BY <1>9 DEF CountObjects, HasObject
<1>10. CASE PublishAlarm
  BY <1>10 DEF PublishAlarm
<1>11. CASE DrawsGarbage
  BY <1>11 DEF DrawsGarbage
<1>12. CASE FreeImage
  BY <1>12 DEF FreeImage
<1> QED
  BY <1>1, <1>2, <1>3, <1>4, <1>5, <1>6, <1>7, <1>8, <1>9, <1>10, <1>11, <1>12
  DEF RecognizerStep

\* What others do to it: the cameras' threads, and tasks that want a picture.
LEMMA OtherStep ==
  ASSUME RecInv, NEW c \in CameraId,
         \/ ImageGiven(c) \/ ImageNotConverted(c)
         \/ \E f \in {"usable", "empty"} : NewKeyFrame(c, f)
  PROVE  RecInv'
<1> USE RecognitionAssumption
        DEF RecInv, RecTypeOK, StageInv, LeakInv, CrashInv, modelVars, workerVars, pastVars
<1>1. CASE ImageGiven(c)
  BY <1>1 DEF ImageGiven
<1>2. CASE ImageNotConverted(c)
  BY <1>2 DEF ImageNotConverted
<1>3. CASE \E f \in {"usable", "empty"} : NewKeyFrame(c, f)
  BY <1>3 DEF NewKeyFrame
<1> QED
  BY <1>1, <1>2, <1>3

LEMMA RecInvariant == RecSpec => []RecInv
<1>1. RecInv /\ [RecNext]_recVars => RecInv'
  <2> SUFFICES ASSUME RecInv, [RecNext]_recVars
               PROVE  RecInv'
    OBVIOUS
  <2>1. CASE RecNext
    BY <2>1, WorkerStep, OtherStep DEF RecNext
  <2>2. CASE UNCHANGED recVars
    BY <2>2 DEF recVars, modelVars, workerVars, pastVars, RecInv, RecTypeOK, StageInv, LeakInv,
                CrashInv
  <2> QED
    BY <2>1, <2>2
<1> QED
  BY RecInitial, <1>1, PTL DEF RecSpec

\* The types of the recognizer's state, for any cameras and any number of objects.
THEOREM RecTypeCorrect == RecSpec => []RecTypeOK
<1>1. RecInv => RecTypeOK
  BY DEF RecInv
<1> QED
  BY <1>1, RecInvariant, PTL

\* An alarm has a picture and, unless there is no model, an object of that camera
\* (lines 35-61 of processFrame), whatever the cameras and other tasks do meanwhile.
THEOREM AlarmCorrect == RecSpec => []AlarmJustified
<1>1. RecInv => AlarmJustified
  BY DEF RecInv, StageInv, CrashInv, AlarmJustified
<1> QED
  BY <1>1, RecInvariant, PTL

\* Nothing is lost but what a failed inference or a task's picture leaves behind,
\* however long the recognizer runs.
THEOREM LeaksCorrect == RecSpec => []LeaksExplained
<1>1. RecInv => LeaksExplained
  BY DEF RecInv, StageInv, LeakInv, LeaksExplained
<1> QED
  BY <1>1, RecInvariant, PTL

-----------------------------------------------------------------------------
(* The pictures: which bytes ImageBuffer's functions touch.                 *)

LEMMA TimesMonotonic == \A a, b, n \in Nat : a <= b => a * n <= b * n
  BY Z3

\* A pixel of a plane has an offset in it.
LEMMA PixelInside ==
  ASSUME NEW m \in Nat, NEW n \in Nat, NEW k \in 0 .. m - 1, NEW c \in 0 .. n - 1
  PROVE  k * n + c \in 0 .. m * n - 1
<1>1. (k + 1) * n <= m * n
  BY TimesMonotonic
<1>2. (k + 1) * n = k * n + n
  BY Z3
<1>3. k * n \in Nat /\ m * n \in Nat
  BY Z3
<1> QED
  BY <1>1, <1>2, <1>3

\* So have its bytes.
LEMMA BytesInside ==
  ASSUME NEW w \in Nat, NEW h \in Nat, NEW channel \in Nat,
         NEW pixels \in SUBSET ((0 .. w - 1) \X (0 .. h - 1))
  PROVE  Bytes(channel, w, pixels) \subseteq 0 .. w * h * channel - 1
<1> SUFFICES ASSUME NEW p \in pixels, NEW c \in 0 .. channel - 1
             PROVE  (p[2] * w + p[1]) * channel + c \in 0 .. w * h * channel - 1
  BY DEF Bytes
<1>1. p[1] \in 0 .. w - 1 /\ p[2] \in 0 .. h - 1
  OBVIOUS
<1>2. p[2] * w + p[1] \in 0 .. h * w - 1
  BY <1>1, PixelInside
<1>3. h * w \in Nat /\ h * w = w * h
  BY Z3
<1>4. (p[2] * w + p[1]) * channel + c \in 0 .. (h * w) * channel - 1
  BY <1>2, <1>3, PixelInside
<1> QED
  BY <1>3, <1>4

\* The loops of the drawing functions stay in the plane.
LEMMA AreaInPlane ==
  ASSUME NEW w \in Nat, NEW h \in Nat, NEW x0, NEW x1, NEW y0, NEW y1
  PROVE  Area(w, h, x0, x1, y0, y1) \in SUBSET ((0 .. w - 1) \X (0 .. h - 1))
  BY DEF Area

LEMMA RectangleInPlane ==
  ASSUME NEW w \in Nat, NEW h \in Nat, NEW rx, NEW ry, NEW rw, NEW rh, NEW thickness
  PROVE  Rectangle(w, h, rx, ry, rw, rh, thickness) \in SUBSET ((0 .. w - 1) \X (0 .. h - 1))
  BY AreaInPlane DEF Rectangle

LEMMA TextInPlane ==
  ASSUME NEW w \in Nat, NEW h \in Nat, NEW text, NEW x, NEW y, NEW fontpixelsize
  PROVE  Text(w, h, text, x, y, fontpixelsize) \in SUBSET ((0 .. w - 1) \X (0 .. h - 1))
  BY AreaInPlane DEF Text

\* The second plane fits behind the first one, and PlanesInside what is drawn in both.
LEMMA SecondPlane ==
  ASSUME NEW w \in Nat, NEW h \in Nat, w % 2 = 0, h % 2 = 0,
         NEW luma \in SUBSET (0 .. w * h * 1 - 1),
         NEW chroma \in SUBSET (0 .. (w \div 2) * (h \div 2) * 2 - 1)
  PROVE  TwoPlanes(w, h, luma, chroma) \subseteq 0 .. (w * h * 3) \div 2 - 1
<1>1. PICK a \in Nat : w = 2 * a
  OBVIOUS
<1>2. PICK b \in Nat : h = 2 * b
  OBVIOUS
<1>3. w \div 2 = a /\ h \div 2 = b
  BY <1>1, <1>2
<1>4. w * h = 4 * (a * b) /\ a * b \in Nat
  BY <1>1, <1>2, Z3
<1> DEFINE n == a * b
<1>5. /\ w * h = 4 * n /\ w * h * 3 = 12 * n /\ w * h * 1 = 4 * n
      /\ (w \div 2) * (h \div 2) * 2 = 2 * n
  BY <1>3, <1>4
<1> HIDE DEF n
<1>6. (w * h * 3) \div 2 = 6 * n /\ n \in Nat
  BY <1>4, <1>5 DEF n
<1>7. luma \subseteq 0 .. 6 * n - 1
  BY <1>5, <1>6
<1>8. \A c \in chroma : w * h + c \in 0 .. 6 * n - 1
  BY <1>5, <1>6
<1> QED
  BY <1>6, <1>7, <1>8 DEF TwoPlanes

LEMMA PlanesInside ==
  ASSUME NEW w \in Nat, NEW h \in Nat, w % 2 = 0, h % 2 = 0,
         NEW pixels \in SUBSET ((0 .. w - 1) \X (0 .. h - 1)),
         NEW halves \in SUBSET ((0 .. w \div 2 - 1) \X (0 .. h \div 2 - 1))
  PROVE  TwoPlanes(w, h, Bytes(1, w, pixels), Bytes(2, w \div 2, halves))
             \subseteq 0 .. (w * h * 3) \div 2 - 1
<1>1. Bytes(1, w, pixels) \in SUBSET (0 .. w * h * 1 - 1)
  BY BytesInside
<1>2. w \div 2 \in Nat /\ h \div 2 \in Nat
  OBVIOUS
<1>3. Bytes(2, w \div 2, halves) \in SUBSET (0 .. (w \div 2) * (h \div 2) * 2 - 1)
  BY <1>2, BytesInside
<1> QED
  BY <1>1, <1>3, SecondPlane

\* A picture with whole pixels; those of two planes have an even width and height.
Picture(image) ==
    /\ image.format \in Format /\ image.width \in Nat /\ image.height \in Nat
    /\ image.format \in Yuv => image.width % 2 = 0 /\ image.height % 2 = 0

Offsets(image) == 0 .. get_image_size(image) - 1

\* Whatever rectangle is asked for, inside, across or beyond the edges, of any thickness,
\* draw_rectangle writes bytes of the picture only.
THEOREM RectangleInside ==
  ASSUME NEW image, Picture(image), NEW rx, NEW ry, NEW rw, NEW rh, NEW thickness
  PROVE  draw_rectangle(image, rx, ry, rw, rh, thickness) \subseteq Offsets(image)
<1> DEFINE w == image.width
           h == image.height
           pixels == Rectangle(w, h, rx, ry, rw, rh, thickness)
           halves == Rectangle(w \div 2, h \div 2, Half(rx), Half(ry), Half(rw), Half(rh),
                               IF thickness = -1 THEN -1 ELSE AtLeast(1, thickness \div 2))
<1>1. w \in Nat /\ h \in Nat /\ w \div 2 \in Nat /\ h \div 2 \in Nat
  BY DEF Picture
<1>2. pixels \in SUBSET ((0 .. w - 1) \X (0 .. h - 1))
  BY <1>1, RectangleInPlane
<1>3. halves \in SUBSET ((0 .. w \div 2 - 1) \X (0 .. h \div 2 - 1))
  BY <1>1, RectangleInPlane
<1> HIDE DEF pixels, halves
<1>4. CASE image.format \in Yuv
  <2>1. TwoPlanes(w, h, Bytes(1, w, pixels), Bytes(2, w \div 2, halves))
            \subseteq 0 .. (w * h * 3) \div 2 - 1
    BY <1>1, <1>2, <1>3, <1>4, PlanesInside DEF Picture
  <2>2. draw_rectangle(image, rx, ry, rw, rh, thickness)
            = TwoPlanes(w, h, Bytes(1, w, pixels), Bytes(2, w \div 2, halves))
    BY <1>4 DEF draw_rectangle, draw_rectangle_yuv420sp, draw_rectangle_c1, draw_rectangle_c2,
                pixels, halves, Yuv
  <2> QED
    BY <1>4, <2>1, <2>2 DEF Offsets, get_image_size
<1>5. CASE image.format = "RGB888"
  <2>1. draw_rectangle(image, rx, ry, rw, rh, thickness) = Bytes(3, w, pixels)
    BY <1>5, Zenon DEF draw_rectangle, draw_rectangle_c3, pixels, Yuv
  <2>2. get_image_size(image) = w * h * 3
    BY <1>5 DEF get_image_size, Channels, Yuv
  <2> QED
    BY <1>1, <1>2, <2>1, <2>2, BytesInside DEF Offsets
<1>6. CASE image.format = "RGBA8888"
  <2>1. draw_rectangle(image, rx, ry, rw, rh, thickness) = Bytes(4, w, pixels)
    BY <1>6, Zenon DEF draw_rectangle, draw_rectangle_c4, pixels, Yuv
  <2>2. get_image_size(image) = w * h * 4
    BY <1>6 DEF get_image_size, Channels, Yuv
  <2> QED
    BY <1>1, <1>2, <2>1, <2>2, BytesInside DEF Offsets
<1>7. CASE image.format = "GRAY8"
  BY <1>7 DEF draw_rectangle, Yuv
<1> QED
  BY <1>4, <1>5, <1>6, <1>7 DEF Picture, Format

\* So does draw_text, for any text, place and size.
THEOREM TextInside ==
  ASSUME NEW image, Picture(image), NEW text, NEW x, NEW y, NEW fontsize
  PROVE  draw_text(image, text, x, y, fontsize) \subseteq Offsets(image)
<1> DEFINE w == image.width
           h == image.height
           pixels == Text(w, h, text, x, y, fontsize)
           halves == Text(w \div 2, h \div 2, text, Half(x), Half(y),
                          AtLeast(1, fontsize \div 2))
<1>1. w \in Nat /\ h \in Nat /\ w \div 2 \in Nat /\ h \div 2 \in Nat
  BY DEF Picture
<1>2. pixels \in SUBSET ((0 .. w - 1) \X (0 .. h - 1))
  BY <1>1, TextInPlane
<1>3. halves \in SUBSET ((0 .. w \div 2 - 1) \X (0 .. h \div 2 - 1))
  BY <1>1, TextInPlane
<1> HIDE DEF pixels, halves
<1>4. CASE image.format \in Yuv
  <2>1. TwoPlanes(w, h, Bytes(1, w, pixels), Bytes(2, w \div 2, halves))
            \subseteq 0 .. (w * h * 3) \div 2 - 1
    BY <1>1, <1>2, <1>3, <1>4, PlanesInside DEF Picture
  <2>2. draw_text(image, text, x, y, fontsize)
            = TwoPlanes(w, h, Bytes(1, w, pixels), Bytes(2, w \div 2, halves))
    BY <1>4 DEF draw_text, draw_text_yuv420sp, draw_text_c1, draw_text_c2, pixels, halves, Yuv
  <2> QED
    BY <1>4, <2>1, <2>2 DEF Offsets, get_image_size
<1>5. CASE image.format = "RGB888"
  BY <1>1, <1>2, <1>5, BytesInside
  DEF draw_text, draw_text_c3, pixels, Offsets, get_image_size, Channels, Yuv
<1>6. CASE image.format = "RGBA8888"
  BY <1>1, <1>2, <1>6, BytesInside
  DEF draw_text, draw_text_c4, pixels, Offsets, get_image_size, Channels, Yuv
<1>7. CASE image.format = "GRAY8"
  BY <1>7 DEF draw_text, Yuv
<1> QED
  BY <1>4, <1>5, <1>6, <1>7 DEF Picture, Format

\* A frame is the area up to its outer edge without the one inside its inner edge: the four
\* bands that draw_rectangle_c3 fills (lines 341-436) leave no gap and no pixel too many,
\* even where they overlap because the frame is thinner than its lines.
THEOREM RectangleIsRing ==
  ASSUME NEW w \in Nat, NEW h \in Nat, NEW rx \in Int, NEW ry \in Int,
         NEW rw \in Nat, NEW rh \in Nat, NEW thickness \in Nat \ {0}
  PROVE  Rectangle(w, h, rx, ry, rw, rh, thickness) = Ring(w, h, rx, ry, rw, rh, thickness)
<1> DEFINE t0 == thickness \div 2
           t1 == thickness - t0
<1>1. t0 \in Nat /\ t1 \in Nat /\ t0 <= t1
  OBVIOUS
<1> HIDE DEF t0, t1
<1>2. Rectangle(w, h, rx, ry, rw, rh, thickness)
        = Area(w, h, rx - t0, rx + rw + t1, ry - t0, ry + t1)
             \cup Area(w, h, rx - t0, rx + rw + t1, ry + rh - t0, ry + rh + t1)
             \cup Area(w, h, rx - t0, rx + t1, ry + t1, ry + rh - t0)
             \cup Area(w, h, rx + rw - t0, rx + rw + t1, ry + t1, ry + rh - t0)
  BY DEF Rectangle, t0, t1
<1>3. \A p \in (0 .. w - 1) \X (0 .. h - 1) :
        p \in Rectangle(w, h, rx, ry, rw, rh, thickness) <=>
            p \in Area(w, h, rx - t0, rx + rw + t1, ry - t0, ry + rh + t1)
                  \ Area(w, h, rx + t1, rx + rw - t0, ry + t1, ry + rh - t0)
  BY <1>1, <1>2 DEF Area
<1>4. Rectangle(w, h, rx, ry, rw, rh, thickness) \in SUBSET ((0 .. w - 1) \X (0 .. h - 1))
  BY RectangleInPlane
<1>5. Area(w, h, rx - t0, rx + rw + t1, ry - t0, ry + rh + t1)
        \in SUBSET ((0 .. w - 1) \X (0 .. h - 1))
  BY AreaInPlane
<1>6. Rectangle(w, h, rx, ry, rw, rh, thickness)
        = Area(w, h, rx - t0, rx + rw + t1, ry - t0, ry + rh + t1)
          \ Area(w, h, rx + t1, rx + rw - t0, ry + t1, ry + rh - t0)
  BY <1>3, <1>4, <1>5
<1> QED
  BY <1>6 DEF Ring, t0, t1

\* Scaling a length down does not take it past the length it is scaled to.
LEMMA QuotientBelow ==
  ASSUME NEW a \in Nat, NEW b \in Nat \ {0}, NEW c \in Nat, a < b * c
  PROVE  a \div b \in 0 .. c - 1
<1> DEFINE q == a \div b
<1>1. q \in Nat /\ b * q <= a
  BY Z3
<1> HIDE DEF q
<1>2. b * q < b * c
  BY <1>1, Z3
<1>3. q < c
  BY <1>1, <1>2, Z3
<1> QED
  BY <1>1, <1>3 DEF q

LEMMA QuotientAtMost ==
  ASSUME NEW a \in Nat, NEW b \in Nat \ {0}, NEW c \in Nat, a <= b * c
  PROVE  a \div b \in 0 .. c
<1>1. b * (c + 1) = b * c + b /\ b * c \in Nat
  BY Z3
<1>2. a < b * (c + 1)
  BY <1>1
<1> QED
  BY <1>2, QuotientBelow

\* A picture that is not empty.
Some(image) == image.width \in Nat \ {0} /\ image.height \in Nat \ {0}

\* The box convert_image_with_letterbox scales into lies in the target picture, for pictures
\* of any size (image_utils.c:691-771); it has no pixels when the source is too long and thin.
THEOREM LetterboxInside ==
  ASSUME NEW src, Some(src), NEW dst, Some(dst)
  PROVE  LET box == letterbox(src, dst).dst_box
         IN  /\ 0 <= box.left /\ box.left <= box.right + 1 /\ box.right < dst.width
             /\ 0 <= box.top /\ box.top <= box.bottom + 1 /\ box.bottom < dst.height
<1> USE DEF Some
<1>1. CASE dst.width * src.height < dst.height * src.width
  <2> DEFINE scaled == (src.height * dst.width) \div src.width
             resize == Even(scaled)
             top == Even((dst.height - resize) \div 2)
  <2>1. src.height * dst.width \in Nat /\ src.height * dst.width < src.width * dst.height
    BY <1>1, Z3
  <2>2. scaled \in 0 .. dst.height - 1
    BY <2>1, QuotientBelow
  <2> HIDE DEF scaled
  <2>3. resize \in 0 .. dst.height - 1
    BY <2>2 DEF Even
  <2> HIDE DEF resize
  <2>4. top \in Nat /\ top + resize <= dst.height
    BY <2>3 DEF Even
  <2> HIDE DEF top
  <2>5. letterbox(src, dst).dst_box = [left |-> 0, top |-> top, right |-> dst.width - 1,
                                       bottom |-> top + resize - 1]
    BY <1>1 DEF letterbox, scaled, resize, top
  <2> QED
    BY <2>3, <2>4, <2>5
<1>2. CASE ~(dst.width * src.height < dst.height * src.width)
  <2> DEFINE scaled == (src.width * dst.height) \div src.height
             resize == scaled - (scaled % 4)
             left == Even((dst.width - resize) \div 2)
  <2>1. src.width * dst.height \in Nat /\ src.width * dst.height <= src.height * dst.width
    BY <1>2, Z3
  <2>2. scaled \in 0 .. dst.width
    BY <2>1, QuotientAtMost
  <2> HIDE DEF scaled
  <2>3. resize \in 0 .. dst.width
    BY <2>2
  <2> HIDE DEF resize
  <2>4. left \in Nat /\ left + resize <= dst.width
    BY <2>3 DEF Even
  <2> HIDE DEF left
  <2>5. letterbox(src, dst).dst_box = [left |-> left, top |-> 0, right |-> left + resize - 1,
                                       bottom |-> dst.height - 1]
    BY <1>2 DEF letterbox, scaled, resize, left
  <2> QED
    BY <2>3, <2>4, <2>5
<1> QED
  BY <1>1, <1>2

\* The pixel a scaled one is taken from, and the one it is mixed with, are of the picture.
LEMMA SourceInside ==
  ASSUME NEW m \in Nat \ {0}, NEW n \in Nat, NEW i \in 0 .. n - 1
  PROVE  Source(i, m, n) \in 0 .. m - 1
<1>1. i \in Nat /\ n \in Nat \ {0} /\ i < n
  OBVIOUS
<1>2. i * m \in Nat
  BY <1>1, Z3
<1>3. i * m < n * m
  BY <1>1, Z3
<1> QED
  BY <1>1, <1>2, <1>3, QuotientBelow DEF Source

LEMMA NeighbourInside ==
  ASSUME NEW size \in Nat, size > 1, NEW i \in 0 .. size - 1
  PROVE  Neighbour(i, size) \in 0 .. size - 1
  BY DEF Neighbour

\* crop_and_scale_image_c reads bytes of the source only, for a box of any size, when the
\* source has two lines and two columns at least: the neighbour of a single one would be
\* outside (image_utils.c:309-340).
THEOREM ScaleReadsInside ==
  ASSUME NEW channel \in Nat, NEW image, image.width \in Nat, image.height \in Nat,
         image.width > 1, image.height > 1,
         NEW box, BoxWidth(box) \in Nat, BoxHeight(box) \in Nat
  PROVE  ScaleReads(channel, image.width, image.height, Whole(image), box)
             \subseteq 0 .. image.width * image.height * channel - 1
<1> DEFINE width == image.width
           height == image.height
           crop == Whole(image)
           columns == {crop.left + Source(i, BoxWidth(crop), BoxWidth(box)) : i \in 0 .. BoxWidth(box) - 1}
           rows == {crop.top + Source(j, BoxHeight(crop), BoxHeight(box)) : j \in 0 .. BoxHeight(box) - 1}
           xs == columns \cup {Neighbour(i, width) : i \in columns}
           ys == rows \cup {Neighbour(j, height) : j \in rows}
<1>1. width \in Nat \ {0} /\ height \in Nat \ {0} /\ width > 1 /\ height > 1
  OBVIOUS
<1>2. crop.left = 0 /\ crop.top = 0 /\ crop.right = width - 1 /\ crop.bottom = height - 1
  BY DEF Whole
<1>3. BoxWidth(crop) = width /\ BoxHeight(crop) = height
  BY <1>1, <1>2 DEF BoxWidth, BoxHeight
<1> HIDE DEF crop, width, height
<1>4. \A i \in 0 .. BoxWidth(box) - 1 : Source(i, width, BoxWidth(box)) \in 0 .. width - 1
  BY <1>1, SourceInside
<1>5. \A j \in 0 .. BoxHeight(box) - 1 : Source(j, height, BoxHeight(box)) \in 0 .. height - 1
  BY <1>1, SourceInside
<1>6. columns \subseteq 0 .. width - 1
  BY <1>1, <1>2, <1>3, <1>4
<1>7. rows \subseteq 0 .. height - 1
  BY <1>1, <1>2, <1>3, <1>5
<1>8. ScaleReads(channel, width, height, crop, box)
        = {(y * width + x) * channel + c : y \in ys, x \in xs, c \in 0 .. channel - 1}
  BY DEF ScaleReads
<1> HIDE DEF columns, rows
<1>9. xs \subseteq 0 .. width - 1
  BY <1>1, <1>6, NeighbourInside
<1>10. ys \subseteq 0 .. height - 1
  BY <1>1, <1>7, NeighbourInside
<1> HIDE DEF xs, ys
<1>11. ASSUME NEW y \in ys, NEW x \in xs, NEW c \in 0 .. channel - 1
       PROVE  (y * width + x) * channel + c \in 0 .. width * height * channel - 1
  <2>1. x \in 0 .. width - 1 /\ y \in 0 .. height - 1
    BY <1>9, <1>10
  <2>2. y * width + x \in 0 .. height * width - 1
    BY <1>1, <2>1, PixelInside
  <2>3. height * width \in Nat /\ height * width = width * height
    BY <1>1, Z3
  <2>4. (y * width + x) * channel + c \in 0 .. (height * width) * channel - 1
    BY <2>2, <2>3, PixelInside
  <2> QED
    BY <2>3, <2>4
<1>12. ScaleReads(channel, width, height, crop, box) \subseteq 0 .. width * height * channel - 1
  BY <1>8, <1>11
<1> QED
  BY <1>12 DEF crop, width, height

\* Drawing a glyph reads the glyph only, for a glyph and a cell of any size
\* (resize_bilinear_c1: the last line and column are read as neighbours, image_drawing.c:1141-1170).
THEOREM GlyphReadsInside ==
  ASSUME NEW w \in Nat, NEW h \in Nat, w > 1, h > 1, NEW w2 \in Nat, NEW h2 \in Nat
  PROVE  resize_bilinear_c1(w, h, w2, h2) \subseteq 0 .. w * h - 1
<1> DEFINE Row(i) == ((h - 1) * i) \div h2
           Column(j) == ((w - 1) * j) \div w2
           At(i, j) == Row(i) * w + Column(j)
<1>1. ASSUME NEW m \in Nat, m > 1, NEW n \in Nat, NEW i \in 0 .. n - 1
      PROVE  ((m - 1) * i) \div n \in 0 .. m - 2
  <2>1. Source(i, m - 1, n) \in 0 .. m - 1 - 1
    BY <1>1, SourceInside
  <2>2. (m - 1) * i = i * (m - 1)
    BY <1>1, Z3
  <2> QED
    BY <2>1, <2>2 DEF Source
<1>2. ASSUME NEW i \in 0 .. h2 - 1, NEW j \in 0 .. w2 - 1
      PROVE  {At(i, j), At(i, j) + 1, At(i, j) + w, At(i, j) + w + 1} \subseteq 0 .. w * h - 1
  <2>1. Row(i) \in 0 .. h - 2 /\ Column(j) \in 0 .. w - 2
    BY <1>1
  <2> DEFINE r == Row(i)
             c == Column(j)
  <2> HIDE DEF Row, Column
  <2>2. /\ r * w + c \in 0 .. h * w - 1
        /\ r * w + (c + 1) \in 0 .. h * w - 1
        /\ (r + 1) * w + c \in 0 .. h * w - 1
        /\ (r + 1) * w + (c + 1) \in 0 .. h * w - 1
    BY <2>1, PixelInside
  <2>3. (r + 1) * w = r * w + w /\ r * w \in Nat /\ h * w = w * h /\ h * w \in Nat
    BY <2>1, Z3
  <2> QED
    BY <2>1, <2>2, <2>3
<1> HIDE DEF At
<1>3. resize_bilinear_c1(w, h, w2, h2)
        = UNION {{At(i, j), At(i, j) + 1, At(i, j) + w, At(i, j) + w + 1}
                   : i \in 0 .. h2 - 1, j \in 0 .. w2 - 1}
  BY DEF resize_bilinear_c1, At
<1> QED
  BY <1>2, <1>3

-----------------------------------------------------------------------------
(* Loops of the post-processing.  Each is a function of the number of turns  *)
(* that gives the value after as many (found, after, results in Detection);  *)
(* that there is such a function is a fact of the module Recursion.          *)

AnyShape(ctx, a, v) == TRUE

\* The entry of the list for the object at place k.
ResultAt(ctx, k) ==
    [box   |-> BackInPicture(ctx.objects[ctx.order[k]].box, ctx.letter_box, ctx.model),
     prob  |-> ctx.sorted[k].prob,
     class |-> ctx.objects[ctx.order[k]].class,
     of    |-> ctx.order[k]]

\* What one turn of a loop makes of v.
Turn(ctx, v, k) ==
    IF ctx.loop = "cells" THEN
        IF Passes(ctx.outputs[k], ctx.threshold, ctx.first, ctx.hasSum)
        THEN Append(v, ObjectOf(ctx.outputs[k], ctx.threshold, ctx.first))
        ELSE v
    ELSE IF ctx.loop = "places" THEN Dropped(ctx.objects, v, k, ctx.class)
    ELSE IF ctx.loop = "classes" THEN nms(ctx.objects, v, k - 1)
    ELSE IF ctx.order[k] = -1 \/ Len(v) >= OBJ_NUMB_MAX_SIZE THEN v
    ELSE Append(v, ResultAt(ctx, k))

\* And the value after k turns; ctx is what the loop does not change.
LoopBody(ctx, f, k) == IF k = 0 THEN ctx.base ELSE Turn(ctx, f[k - 1], k)

Loops == INSTANCE Recursion WITH Body <- LoopBody, Shape <- AnyShape

\* The values of a loop, from before the first turn to after the n-th.
Loop(ctx, n) == CHOOSE f : f = [k \in 0 .. n |-> LoopBody(ctx, f, k)]

\* A loop has such values, each from the one before.
LEMMA LoopRuns ==
    ASSUME NEW ctx, NEW n \in Nat
    PROVE  /\ Loop(ctx, n)[0] = ctx.base
           /\ \A k \in 1 .. n : Loop(ctx, n)[k] = Turn(ctx, Loop(ctx, n)[k - 1], k)
<1> DEFINE size == [k \in 0 .. n |-> k]
           f == Loop(ctx, n)
<1>1. size \in [0 .. n -> Nat]
  OBVIOUS
<1>2. Loops!Local(ctx, 0 .. n, size)
  <2> SUFFICES ASSUME NEW g, NEW h, NEW a \in 0 .. n,
                      \A b \in 0 .. n : size[b] < size[a] => g[b] = h[b]
               PROVE LoopBody(ctx, g, a) = LoopBody(ctx, h, a)
    BY Zenon DEF Loops!Local
  <2>1. a # 0 => g[a - 1] = h[a - 1]
    OBVIOUS
  <2> QED BY <2>1 DEF LoopBody
<1>3. Loops!Closed(ctx, 0 .. n)
  BY DEF Loops!Closed, AnyShape
<1>4. \E g : Loops!Defines(ctx, 0 .. n, g)
  <2> HIDE DEF size
  <2> QED BY <1>1, <1>2, <1>3, Loops!FunctionExists, Zenon
<1>5. f = [k \in 0 .. n |-> LoopBody(ctx, f, k)]
  BY <1>4, Zenon DEF Loop, Loops!Defines
<1>6. \A k \in 0 .. n : f[k] = LoopBody(ctx, f, k)
  <2> HIDE DEF f
  <2> QED BY <1>5, Zenon
<1> QED BY <1>6 DEF LoopBody

-----------------------------------------------------------------------------
(* Candidates.                                                               *)

\* A set of classes that is not empty has one whose score is the largest, the first of these.
LEMMA BestExists ==
    ASSUME NEW score \in [Classes -> Int], NEW above \in SUBSET Classes, above # {}
    PROVE  \E c \in above : \A d \in above :
              score[d] < score[c] \/ (score[d] = score[c] /\ c <= d)
<1> DEFINE Best(c, n) == \A d \in above : d < n =>
                            score[d] < score[c] \/ (score[d] = score[c] /\ c <= d)
           S == {n \in Nat : (\E d \in above : d < n) => \E c \in above : c < n /\ Best(c, n)}
<1>1. OBJ_CLASS_NUM \in Nat /\ Classes = 0 .. OBJ_CLASS_NUM - 1
  BY DetectionAssumption DEF Classes
<1>2. 0 \in S
  BY <1>1
<1>3. ASSUME NEW n \in 1 .. OBJ_CLASS_NUM, n - 1 \in S PROVE n \in S
  <2>1. n \in Nat /\ n - 1 \in Nat
    OBVIOUS
  <2>2. CASE n - 1 \notin above
    <3>1. \A d \in above : d < n <=> d < n - 1
      BY <1>1, <2>1, <2>2
    <3> QED BY <1>3, <2>1, <3>1
  <2>3. CASE n - 1 \in above /\ ~ \E d \in above : d < n - 1
    <3>1. \A d \in above : d < n => d = n - 1
      BY <1>1, <2>1, <2>3
    <3>2. score[n - 1] \in Int
      BY <2>3
    <3> QED BY <2>1, <2>3, <3>1, <3>2
  <2>4. CASE n - 1 \in above /\ \E d \in above : d < n - 1
    <3>1. PICK c \in above : c < n - 1 /\ Best(c, n - 1)
      BY <1>3, <2>4
    <3>2. \A d \in above : d < n => d = n - 1 \/ d < n - 1
      BY <1>1, <2>1
    <3>3. /\ c \in Int /\ score[c] \in Int /\ score[n - 1] \in Int
          /\ \A d \in above : score[d] \in Int
      BY <1>1, <2>4
    <3>4. CASE score[n - 1] > score[c]
      <4>1. Best(n - 1, n)
        BY <2>1, <3>1, <3>2, <3>3, <3>4
      <4> QED BY <2>1, <2>4, <4>1
    <3>5. CASE ~ (score[n - 1] > score[c])
      <4>1. Best(c, n)
        BY <2>1, <3>1, <3>2, <3>3, <3>5
      <4> QED BY <2>1, <3>1, <3>3, <4>1
    <3> QED BY <3>4, <3>5
  <2> QED BY <2>2, <2>3, <2>4
<1>4. OBJ_CLASS_NUM \in S
  <2>1. \A k \in 0 .. OBJ_CLASS_NUM : k \in S
    <3> HIDE DEF S
    <3> QED BY <1>1, <1>2, <1>3, Loops!UpTo
  <2> HIDE DEF S
  <2> QED BY <1>1, <2>1
<1>5. \E e \in above : e < OBJ_CLASS_NUM
  <2>1. PICK e \in above : TRUE
    OBVIOUS
  <2>2. e < OBJ_CLASS_NUM
    BY <1>1
  <2> QED BY <2>2
<1>6. PICK c \in above : Best(c, OBJ_CLASS_NUM)
  BY <1>4, <1>5
<1>7. \A d \in above : d < OBJ_CLASS_NUM
  BY <1>1
<1> QED BY <1>6, <1>7

\* A cell passes if it has a class above the threshold; its object is of such a class.
LEMMA Scored ==
    ASSUME NEW score \in [Classes -> Int],
           NEW threshold \in Int, NEW first \in Int, first <= threshold
    PROVE  LET m == MaxScore(score, threshold, first) IN
           /\ m.score > threshold <=> \E c \in Classes : score[c] > threshold
           /\ m.score > threshold => m.score \in Int /\ m.class \in Classes
<1> DEFINE above == {c \in Classes : score[c] > threshold /\ score[c] > first}
           best(c) == \A d \in above : score[d] < score[c] \/ (score[d] = score[c] /\ c <= d)
           m == MaxScore(score, threshold, first)
<1>1. CASE above = {}
  <2>1. m = [score |-> first, class |-> -1]
    BY <1>1, Zenon DEF MaxScore
  <2>2. \A c \in Classes : ~ (score[c] > threshold)
    BY <1>1
  <2> QED BY <2>1, <2>2
<1>2. CASE above # {}
  <2> DEFINE c == CHOOSE c \in above : best(c)
  <2>1. \E d \in above : best(d)
    BY <1>2, BestExists
  <2>2. c \in above
    BY <2>1
  <2>3. m = [score |-> score[c], class |-> c]
    BY <1>2, Zenon DEF MaxScore
  <2>4. score[c] > threshold /\ c \in Classes /\ score[c] \in Int
    BY <2>2
  <2> HIDE DEF c
  <2> QED BY <2>3, <2>4
<1> QED BY <1>1, <1>2

\* What is known of the cells that a model puts out.
IsCells(outputs) ==
    /\ Len(outputs) \in Nat /\ DOMAIN outputs = 1 .. Len(outputs)
    /\ \A k \in DOMAIN outputs : outputs[k].score \in [Classes -> Int]

\* And of a list of objects.
IsObjects(list) ==
    /\ Len(list) \in Nat /\ DOMAIN list = 1 .. Len(list)
    /\ \A m \in DOMAIN list : list[m].prob \in Int /\ list[m].class \in Classes

\* One object for every cell that passes.
LEMMA OneForEachCell ==
    ASSUME NEW outputs, IsCells(outputs), NEW threshold \in Int, NEW first \in Int,
           first <= threshold, NEW hasSum
    PROVE  LET list == Candidates(outputs, threshold, first, hasSum) IN
           /\ IsObjects(list)
           /\ Len(list) = Cardinality({k \in DOMAIN outputs :
                                          Passes(outputs[k], threshold, first, hasSum)})
<1> DEFINE ctx == [loop |-> "cells", base |-> <<>>, outputs |-> outputs,
                   threshold |-> threshold, first |-> first, hasSum |-> hasSum]
           n == Len(outputs)
           f == Loop(ctx, n)
           passes(k) == Passes(outputs[k], threshold, first, hasSum)
           object(k) == ObjectOf(outputs[k], threshold, first)
           Passing(k) == {j \in 1 .. k : passes(j)}
           Obj == {object(k) : k \in {j \in 1 .. n : passes(j)}}
           S == {k \in 0 .. n : /\ f[k] \in Seq(Obj)
                                /\ IsFiniteSet(Passing(k))
                                /\ Len(f[k]) = Cardinality(Passing(k))}
<1>1. n \in Nat /\ DOMAIN outputs = 1 .. n
  BY DEF IsCells
<1>2. Candidates(outputs, threshold, first, hasSum) = f[n]
  BY DEF Candidates, Loop, LoopBody, Turn
<1>3. \A v, k : Turn(ctx, v, k) = IF passes(k) THEN Append(v, object(k)) ELSE v
  BY DEF Turn
<1>4. f[0] = <<>>
  BY <1>1, LoopRuns
<1>5. ASSUME NEW k \in 1 .. n
      PROVE  f[k] = IF passes(k) THEN Append(f[k - 1], object(k)) ELSE f[k - 1]
  <2>1. f[k] = Turn(ctx, f[k - 1], k)
    BY <1>1, LoopRuns, Zenon
  <2> QED BY <1>3, <2>1, Zenon
<1> HIDE DEF ctx, f, passes, object, n
<1>6. 0 \in S
  <2>1. Passing(0) = {}
    OBVIOUS
  <2>2. f[0] \in Seq(Obj) /\ Len(f[0]) = 0
    <3> HIDE DEF Obj
    <3> QED BY <1>4
  <2>3. 0 \in 0 .. n
    BY <1>1
  <2>4. IsFiniteSet(Passing(0)) /\ Cardinality(Passing(0)) = 0
    <3> HIDE DEF Passing
    <3> QED BY <2>1, FS_EmptySet
  <2> HIDE DEF Obj, Passing
  <2> QED BY <2>2, <2>3, <2>4
<1>7. ASSUME NEW k \in 1 .. n, k - 1 \in S PROVE k \in S
  <2>1. k \in 0 .. n /\ k - 1 \in 0 .. n
    BY <1>1
  <2>2. CASE passes(k)
    <3>1. Passing(k) = Passing(k - 1) \cup {k} /\ k \notin Passing(k - 1)
      BY <1>1, <2>2
    <3>2. object(k) \in Obj
      BY <2>2
    <3>3. f[k] = Append(f[k - 1], object(k))
      BY <1>5, <2>2
    <3>4. IsFiniteSet(Passing(k)) /\ Cardinality(Passing(k)) = Cardinality(Passing(k - 1)) + 1
      <4> HIDE DEF Passing
      <4> QED BY <1>7, <3>1, FS_AddElement
    <3> HIDE DEF Obj, Passing
    <3>5. f[k] \in Seq(Obj) /\ Len(f[k]) = Len(f[k - 1]) + 1
      BY <1>7, <3>2, <3>3
    <3> QED BY <1>7, <2>1, <3>4, <3>5
  <2>3. CASE ~ passes(k)
    <3>1. Passing(k) = Passing(k - 1)
      BY <1>1, <2>3
    <3>2. f[k] = f[k - 1]
      BY <1>5, <2>3
    <3> HIDE DEF Obj, Passing
    <3> QED BY <1>7, <2>1, <3>1, <3>2
  <2> QED BY <2>2, <2>3
<1>8. f[n] \in Seq(Obj) /\ Len(f[n]) = Cardinality(Passing(n))
  <2>1. \A k \in 0 .. n : k \in S
    <3> HIDE DEF S
    <3> QED BY <1>1, <1>6, <1>7, Loops!UpTo
  <2>2. n \in S
    <3> HIDE DEF S
    <3> QED BY <1>1, <2>1
  <2> HIDE DEF Obj, Passing
  <2> QED BY <2>2
<1>9. ASSUME NEW o \in Obj PROVE o.prob \in Int /\ o.class \in Classes
  <2>1. PICK k \in 1 .. n : passes(k) /\ o = object(k)
    OBVIOUS
  <2>2. outputs[k].score \in [Classes -> Int]
    BY <1>1 DEF IsCells
  <2> QED BY <2>1, <2>2, Scored DEF passes, object, Passes, ObjectOf
<1>10. IsObjects(f[n])
  <2> HIDE DEF Obj
  <2> QED BY <1>8, <1>9 DEF IsObjects
<1> QED BY <1>1, <1>2, <1>8, <1>10 DEF passes

-----------------------------------------------------------------------------
(* The quicksort.  What it does to a list is said by Rearranged: the same    *)
(* pairs, none twice, in another order between two places.                   *)

\* No pair twice.
Distinct(s) == \A i, j \in 1 .. Len(s) : s[i] = s[j] => i = j

\* t has the pairs of s, those of low .. high in any order, the others where they were.
Rearranged(s, t, low, high) ==
    /\ Len(t) = Len(s)
    /\ \A m \in 1 .. Len(s) : m \notin low .. high => t[m] = s[m]
    /\ \A m \in low .. high : \E j \in low .. high : t[m] = s[j]
    /\ \A m \in low .. high : \E j \in low .. high : s[m] = t[j]
    /\ Distinct(s) => Distinct(t)

\* What moves within a part moves within the whole.
LEMMA RearrangedInPart ==
    ASSUME NEW s, NEW t, Len(s) \in Nat,
           NEW low \in Nat, NEW high \in Nat, NEW l \in Nat, NEW h \in Nat,
           Rearranged(s, t, l, h), 1 <= low, low <= l, h <= high, high <= Len(s)
    PROVE  Rearranged(s, t, low, high)
<1>1. ASSUME NEW m \in low .. high
      PROVE  (\E j \in low .. high : t[m] = s[j]) /\ (\E j \in low .. high : s[m] = t[j])
  <2>1. CASE m \in l .. h
    <3>1. (\E j \in l .. h : t[m] = s[j]) /\ (\E j \in l .. h : s[m] = t[j])
      BY <2>1, Zenon DEF Rearranged
    <3>2. \A j \in l .. h : j \in low .. high
      OBVIOUS
    <3> QED BY <3>1, <3>2, Zenon
  <2>2. CASE m \notin l .. h
    <3>1. m \in 1 .. Len(s)
      OBVIOUS
    <3>2. t[m] = s[m]
      BY <2>2, <3>1, Zenon DEF Rearranged
    <3> QED BY <3>2, Zenon
  <2> QED BY <2>1, <2>2
<1>2. ASSUME NEW m \in 1 .. Len(s), m \notin low .. high PROVE t[m] = s[m]
  <2>1. m \notin l .. h
    BY <1>2
  <2> QED BY <2>1, Zenon DEF Rearranged
<1>3. Len(t) = Len(s) /\ (Distinct(s) => Distinct(t))
  BY Zenon DEF Rearranged
<1> QED BY <1>1, <1>2, <1>3, Zenon DEF Rearranged

\* And once more.
LEMMA RearrangedTwice ==
    ASSUME NEW s, NEW t, NEW u, NEW low, NEW high,
           Rearranged(s, t, low, high), Rearranged(t, u, low, high)
    PROVE  Rearranged(s, u, low, high)
<1>1. ASSUME NEW m \in low .. high
      PROVE  (\E j \in low .. high : u[m] = s[j]) /\ (\E j \in low .. high : s[m] = u[j])
  <2>1. PICK i \in low .. high : u[m] = t[i]
    BY Zenon DEF Rearranged
  <2>2. PICK i2 \in low .. high : s[m] = t[i2]
    BY Zenon DEF Rearranged
  <2>3. \E j \in low .. high : t[i] = s[j]
    BY Zenon DEF Rearranged
  <2>4. \E j \in low .. high : t[i2] = u[j]
    BY Zenon DEF Rearranged
  <2> QED BY <2>1, <2>2, <2>3, <2>4
<1>2. ASSUME NEW m \in 1 .. Len(s), m \notin low .. high PROVE u[m] = s[m]
  BY <1>2, Zenon DEF Rearranged
<1>3. Len(u) = Len(s) /\ (Distinct(s) => Distinct(u))
  BY Zenon DEF Rearranged
<1> QED BY <1>1, <1>2, <1>3, Zenon DEF Rearranged

\* The runs over the list from either end find their place.
LEMMA FromRightFinds ==
    ASSUME NEW s \in Seq(Pair), NEW low \in Nat, NEW high \in Nat, NEW key \in Int,
           1 <= low, low <= high, high <= Len(s)
    PROVE  LET k == FromRight(s, low, high, key) IN
           /\ k \in low .. high /\ (k = low \/ s[k].prob > key)
           /\ \A l \in k + 1 .. high : s[l].prob <= key
<1> DEFINE Reached(k) == k = low \/ s[k].prob > key
           Rest(k) == \A l \in k + 1 .. high : s[l].prob <= key
           T == {j \in Nat : \E k \in low .. high : Reached(k) /\ j = high - k}
<1>1. T \in SUBSET Nat /\ high - low \in T
  OBVIOUS
<1>2. PICK j \in T : \A i \in T : j <= i
  <2> HIDE DEF T
  <2> QED BY <1>1, Loops!LeastNumber
<1>3. PICK k \in low .. high : Reached(k) /\ j = high - k
  BY <1>2
<1>4. ASSUME NEW l \in k + 1 .. high PROVE s[l].prob <= key
  <2>1. l \in low .. high /\ high - l \in Nat /\ ~ (j <= high - l)
    BY <1>3
  <2>2. ~ Reached(l)
    BY <1>2, <2>1
  <2>3. s[l].prob \in Int
    <3>1. s[l] \in Pair
      BY <2>1
    <3> QED BY <3>1 DEF Pair
  <2> QED BY <2>2, <2>3
<1>5. \E k2 \in low .. high : Reached(k2) /\ Rest(k2)
  BY <1>3, <1>4
<1> QED BY <1>5 DEF FromRight

LEMMA FromLeftFinds ==
    ASSUME NEW s \in Seq(Pair), NEW low \in Nat, NEW high \in Nat, NEW key \in Int,
           1 <= low, low <= high, high <= Len(s)
    PROVE  LET k == FromLeft(s, low, high, key) IN
           /\ k \in low .. high /\ (k = high \/ s[k].prob < key)
           /\ \A l \in low .. k - 1 : s[l].prob >= key
<1> DEFINE Reached(k) == k = high \/ s[k].prob < key
           Rest(k) == \A l \in low .. k - 1 : s[l].prob >= key
           T == {k \in low .. high : Reached(k)}
<1>1. T \in SUBSET Nat /\ high \in T
  OBVIOUS
<1>2. PICK k \in T : \A i \in T : k <= i
  <2> HIDE DEF T
  <2> QED BY <1>1, Loops!LeastNumber
<1>4. ASSUME NEW l \in low .. k - 1 PROVE s[l].prob >= key
  <2>1. l \in low .. high /\ ~ (k <= l)
    BY <1>2
  <2>2. ~ Reached(l)
    BY <1>2, <2>1
  <2>3. s[l].prob \in Int
    <3>1. s[l] \in Pair
      BY <2>1
    <3> QED BY <3>1 DEF Pair
  <2> QED BY <2>2, <2>3
<1>5. \E k2 \in low .. high : Reached(k2) /\ Rest(k2)
  BY <1>2, <1>4
<1> QED BY <1>5 DEF FromLeft

\* The list with the pair in the hole.
Filled(a) == [a.s EXCEPT ![a.low] = a.pair]

\* Three places of a list exchange their pairs in a circle, or two of them.
LEMMA Rotated ==
    ASSUME NEW s \in Seq(Pair), NEW low \in Nat, NEW high \in Nat, 1 <= low, high <= Len(s),
           NEW i \in low .. high, NEW k \in low .. high, NEW l \in low .. high,
           NEW t, t = [s EXCEPT ![i] = s[k], ![k] = s[l], ![l] = s[i]],
           i # l \/ k = l
    PROVE  Rearranged(s, t, low, high) 
<1> DEFINE from(m) == IF m = l THEN i ELSE IF m = k THEN l ELSE IF m = i THEN k ELSE m
           to(m) == IF m = i THEN l ELSE IF m = k THEN i ELSE IF m = l THEN k ELSE m
<1>1. Len(t) = Len(s) /\ i \in 1 .. Len(s) /\ k \in 1 .. Len(s) /\ l \in 1 .. Len(s)
  OBVIOUS
<1>2. ASSUME NEW m \in 1 .. Len(s) PROVE t[m] = s[from(m)]
  BY <1>1
<1>3. ASSUME NEW m \in 1 .. Len(s) PROVE from(m) \in 1 .. Len(s) /\ to(from(m)) = m
  BY <1>1
<1>4. ASSUME NEW m \in 1 .. Len(s) PROVE to(m) \in 1 .. Len(s) /\ from(to(m)) = m
  BY <1>1
<1>5. ASSUME NEW m \in low .. high PROVE from(m) \in low .. high /\ to(m) \in low .. high
  OBVIOUS
<1>6. ASSUME NEW m, m \notin low .. high PROVE from(m) = m
  BY <1>6
<1>7. \A m \in low .. high : m \in 1 .. Len(s)
  OBVIOUS
<1> HIDE DEF from, to
<1>8. \A m \in low .. high : \E j \in low .. high : t[m] = s[j]
  BY <1>2, <1>5, <1>7
<1>9. ASSUME NEW m \in low .. high PROVE \E j \in low .. high : s[m] = t[j]
  <2>1. to(m) \in low .. high /\ to(m) \in 1 .. Len(s) /\ from(to(m)) = m
    BY <1>4, <1>5, <1>7
  <2>2. t[to(m)] = s[m]
    BY <1>2, <2>1
  <2> QED BY <2>1, <2>2
<1>10. ASSUME Distinct(s), NEW m \in 1 .. Len(s), NEW j \in 1 .. Len(s), t[m] = t[j] PROVE m = j
  <2>1. s[from(m)] = s[from(j)]
    BY <1>2, <1>10
  <2>2. from(m) = from(j)
    BY <1>3, <1>10, <2>1 DEF Distinct
  <2> QED BY <1>3, <2>2
<1>11. Distinct(s) => Distinct(t)
  BY <1>1, <1>10 DEF Distinct
<1> QED BY <1>1, <1>2, <1>6, <1>8, <1>9, <1>11, Zenon DEF Rearranged

\* What one run of the outer loop does: the hole moves right, its part gets shorter, what is
\* left of it is not below the pair, what is right of it not above.
LEMMA SqueezedHas ==
    ASSUME NEW a \in Holes, a.low < a.high
    PROVE  LET b == Squeezed(a) IN
           /\ b \in Holes /\ b.pair = a.pair /\ Len(b.s) = Len(a.s)
           /\ a.low <= b.low /\ b.high <= a.high /\ b.high - b.low < a.high - a.low
           /\ \A m \in a.low .. b.low - 1 : b.s[m].prob >= a.pair.prob
           /\ \A m \in b.high + 1 .. a.high : b.s[m].prob <= a.pair.prob
           /\ Rearranged(Filled(a), Filled(b), a.low, a.high)
<1> DEFINE s    == a.s
           low  == a.low
           high == a.high
           pair == a.pair
           key  == pair.prob
           k    == FromRight(s, low, high, key)
           s1   == [s EXCEPT ![low] = s[k]]
           l    == FromLeft(s1, low, k, key)
           s2   == [s1 EXCEPT ![k] = s1[l]]
           b    == Squeezed(a)
<1>1. /\ s \in Seq(Pair) /\ low \in Nat /\ high \in Nat /\ pair \in Pair /\ key \in Int
      /\ 1 <= low /\ low < high /\ high <= Len(s)
  BY DEF Holes, Pair
<1>2. b = [s |-> s2, low |-> l, high |-> k, pair |-> pair]
  BY DEF Squeezed
<1> HIDE DEF s, low, high, pair, key
<1>3. /\ k \in low .. high /\ (k = low \/ s[k].prob > key)
      /\ \A m \in k + 1 .. high : s[m].prob <= key
  BY <1>1, FromRightFinds
<1> HIDE DEF k
<1>4. s1 \in Seq(Pair) /\ Len(s1) = Len(s) /\ s1[low] = s[k]
      /\ \A m \in 1 .. Len(s) : m # low => s1[m] = s[m]
  BY <1>1, <1>3
<1> HIDE DEF s1
<1>5. /\ l \in low .. k /\ (l = k \/ s1[l].prob < key)
      /\ \A m \in low .. l - 1 : s1[m].prob >= key
  <2>1. low <= k /\ k <= Len(s1) /\ k \in Nat
    BY <1>1, <1>3, <1>4
  <2> QED BY <1>1, <1>4, <2>1, FromLeftFinds
<1> HIDE DEF l
<1>6. l = low => k = low
  <2> SUFFICES ASSUME l = low, k # low PROVE FALSE
    OBVIOUS
  <2>1. s[k].prob < key /\ s[k].prob > key
    BY <1>3, <1>4, <1>5
  <2>2. s[k] \in Pair
    BY <1>1, <1>3
  <2> QED BY <1>1, <2>1, <2>2 DEF Pair
<1>7. s2 \in Seq(Pair) /\ Len(s2) = Len(s)
      /\ \A m \in 1 .. Len(s) : m # k => s2[m] = s1[m]
  BY <1>1, <1>3, <1>4, <1>5
<1> HIDE DEF s2
<1>8. ASSUME NEW m \in low .. l - 1 PROVE s2[m].prob >= key
  <2>1. m # k /\ m \in 1 .. Len(s)
    BY <1>1, <1>3, <1>5
  <2> QED BY <1>5, <1>7, <2>1
<1>9. ASSUME NEW m \in k + 1 .. high PROVE s2[m].prob <= key
  <2>1. m # k /\ m # low /\ m \in 1 .. Len(s)
    BY <1>1, <1>3
  <2> QED BY <1>3, <1>4, <1>7, <2>1
<1>10. Rearranged([s EXCEPT ![low] = pair], [s2 EXCEPT ![l] = pair], low, high)
  <2> DEFINE S == [s EXCEPT ![low] = pair]
             T == [s2 EXCEPT ![l] = pair]
  <2>1. S \in Seq(Pair) /\ Len(S) = Len(s)
    BY <1>1
  <2>2. l \in low .. high /\ low \in low .. high /\ (low # l \/ k = l)
    BY <1>1, <1>3, <1>5, <1>6
  <2>3. T = [S EXCEPT ![low] = S[k], ![k] = S[l], ![l] = S[low]]
    <3>1. CASE k = low
      <4>1. l = low
        BY <1>1, <1>5, <3>1
      <4>2. s1 = s /\ s2 = s
        BY <1>1, <3>1, <4>1 DEF s1, s2
      <4> QED BY <1>1, <3>1, <4>1, <4>2
    <3>2. CASE k # low
      <4>1. l # low
        BY <1>6, <3>2
      <4>2. S[k] = s[k] /\ S[l] = s[l] /\ S[low] = pair /\ s1[l] = s[l]
        BY <1>1, <1>3, <1>4, <2>2, <3>2, <4>1
      <4>3. T = [[[s EXCEPT ![low] = s[k]] EXCEPT ![k] = s[l]] EXCEPT ![l] = pair]
        BY <4>2 DEF s1, s2
      <4>4. [S EXCEPT ![low] = S[k], ![k] = S[l], ![l] = S[low]]
              = [[[s EXCEPT ![low] = s[k]] EXCEPT ![k] = s[l]] EXCEPT ![l] = pair]
        BY <1>1, <4>2
      <4> QED BY <4>3, <4>4
    <3> QED BY <3>1, <3>2
  <2> HIDE DEF S, T
  <2> QED BY <1>1, <1>3, <2>1, <2>2, <2>3, Rotated DEF S, T
<1>11. b \in Holes
  <2>1. 1 <= l /\ l <= k /\ k <= Len(s2) /\ l \in Nat /\ k \in Nat
    BY <1>1, <1>3, <1>5, <1>7
  <2> QED BY <1>1, <1>2, <1>7, <2>1 DEF Holes
<1>12. l >= low /\ k <= high /\ k - l < high - low
  BY <1>1, <1>3, <1>5, <1>6
<1>13. b.s = s2 /\ b.low = l /\ b.high = k /\ b.pair = pair
  BY <1>2
<1> HIDE DEF b
<1> QED BY <1>7, <1>8, <1>9, <1>10, <1>11, <1>12, <1>13 DEF Filled, s, low, high, pair, key, b

\* The body of Partition.
PartitionBody(ctx, f, a) ==
    IF a.low < a.high THEN f[Squeezed(a)]
    ELSE [s |-> [a.s EXCEPT ![a.low] = a.pair], at |-> a.low]

Partitions == INSTANCE Recursion WITH Body <- PartitionBody, Shape <- AnyShape

\* The recursion ends: the part gets shorter.
LEMMA PartitionIs ==
    ASSUME NEW a \in Holes
    PROVE  Partition[a] = PartitionBody({}, Partition, a)
<1> DEFINE size == [h \in Holes |-> h.high - h.low]
<1>1. size \in [Holes -> Nat]
  BY DEF Holes
<1>2. Partitions!Local({}, Holes, size)
  <2> SUFFICES ASSUME NEW g, NEW h, NEW b \in Holes,
                      \A c \in Holes : size[c] < size[b] => g[c] = h[c]
               PROVE PartitionBody({}, g, b) = PartitionBody({}, h, b)
    BY Zenon DEF Partitions!Local
  <2>1. CASE b.low < b.high
    <3>1. Squeezed(b) \in Holes /\ size[Squeezed(b)] < size[b]
      BY <2>1, SqueezedHas
    <3> QED BY <2>1, <3>1, Zenon DEF PartitionBody
  <2>2. CASE ~ (b.low < b.high)
    BY <2>2, Zenon DEF PartitionBody
  <2> QED BY <2>1, <2>2
<1>3. Partitions!Closed({}, Holes)
  BY DEF Partitions!Closed, AnyShape
<1>4. \E f : Partitions!Defines({}, Holes, f)
  <2> HIDE DEF size
  <2> QED BY <1>1, <1>2, <1>3, Partitions!FunctionExists, Zenon
<1>5. Partition = [h \in Holes |-> PartitionBody({}, Partition, h)]
  BY <1>4, Zenon DEF Partition, PartitionBody, Partitions!Defines
<1> QED BY <1>5, Zenon

\* What partitioning makes of a part: the pair lies between those that are not below it and
\* those that are not above it.
Parted(a, p) ==
    /\ p.s \in Seq(Pair) /\ p.at \in a.low .. a.high /\ p.s[p.at] = a.pair
    /\ \A m \in a.low .. p.at - 1 : p.s[m].prob >= a.pair.prob
    /\ \A m \in p.at + 1 .. a.high : p.s[m].prob <= a.pair.prob
    /\ Rearranged(Filled(a), p.s, a.low, a.high)

\* Partitioning does that, by induction on the length of the part.
LEMMA PartitionParts ==
    ASSUME NEW a \in Holes
    PROVE  Parted(a, Partition[a])
<1> DEFINE size == [h \in Holes |-> h.high - h.low]
           S == {h \in Holes : Parted(h, Partition[h])}
<1>1. size \in [Holes -> Nat]
  BY DEF Holes
<1>2. ASSUME NEW h \in Holes, \A b \in Holes : size[b] < size[h] => b \in S PROVE h \in S
  <2> DEFINE p == Partition[h]
  <2>1. /\ h.s \in Seq(Pair) /\ h.low \in Nat /\ h.high \in Nat /\ h.pair \in Pair
        /\ 1 <= h.low /\ h.low <= h.high /\ h.high <= Len(h.s)
    BY DEF Holes
  <2>2. CASE h.low < h.high
    <3> DEFINE b == Squeezed(h)
    <3>1. /\ b \in Holes /\ b.pair = h.pair /\ Len(b.s) = Len(h.s)
          /\ h.low <= b.low /\ b.high <= h.high /\ b.high - b.low < h.high - h.low
          /\ \A m \in h.low .. b.low - 1 : b.s[m].prob >= h.pair.prob
          /\ \A m \in b.high + 1 .. h.high : b.s[m].prob <= h.pair.prob
          /\ Rearranged(Filled(h), Filled(b), h.low, h.high)
      BY <2>2, SqueezedHas
    <3>2. p = Partition[b]
      BY <2>2, PartitionIs DEF PartitionBody
    <3> HIDE DEF b, p
    <3>3. /\ b.s \in Seq(Pair) /\ b.low \in Nat /\ b.high \in Nat /\ b.pair \in Pair
          /\ 1 <= b.low /\ b.low <= b.high /\ b.high <= Len(b.s)
      BY <3>1 DEF Holes
    <3>4. Parted(b, p)
      <4>1. size[b] < size[h]
        BY <3>1
      <4> HIDE DEF size
      <4> QED BY <1>2, <3>1, <3>2, <4>1
    <3>5. Len(Filled(b)) = Len(h.s) /\ \A m \in 1 .. Len(h.s) : m # b.low => Filled(b)[m] = b.s[m]
      BY <3>1, <3>3 DEF Filled
    <3>6. Rearranged(Filled(b), p.s, b.low, b.high)
      BY <3>4 DEF Parted
    <3>7. Rearranged(Filled(h), p.s, h.low, h.high)
      <4>1. Rearranged(Filled(b), p.s, h.low, h.high)
        BY <2>1, <3>1, <3>3, <3>5, <3>6, RearrangedInPart
      <4> QED BY <3>1, <4>1, RearrangedTwice, Zenon
    <3>8. ASSUME NEW m \in 1 .. Len(h.s), m \notin b.low .. b.high PROVE p.s[m] = b.s[m]
      <4>1. m # b.low
        BY <3>3, <3>8
      <4>2. p.s[m] = Filled(b)[m]
        BY <3>5, <3>6, <3>8 DEF Rearranged
      <4> QED BY <3>5, <4>1, <4>2
    <3>9. /\ p.s \in Seq(Pair) /\ p.at \in b.low .. b.high /\ p.s[p.at] = h.pair
          /\ \A m \in b.low .. p.at - 1 : p.s[m].prob >= h.pair.prob
          /\ \A m \in p.at + 1 .. b.high : p.s[m].prob <= h.pair.prob
      BY <3>1, <3>4 DEF Parted
    <3>10. ASSUME NEW m \in h.low .. p.at - 1 PROVE p.s[m].prob >= h.pair.prob
      <4>1. CASE m \in h.low .. b.low - 1
        <5>1. m \in 1 .. Len(h.s) /\ m \notin b.low .. b.high
          BY <2>1, <3>1, <3>3, <4>1
        <5>2. p.s[m] = b.s[m] /\ b.s[m].prob >= h.pair.prob
          BY <3>1, <3>8, <4>1, <5>1, Zenon
        <5> QED BY <5>2, Zenon
      <4>2. CASE m \in b.low .. p.at - 1
        BY <3>9, <4>2, Zenon
      <4> QED BY <2>1, <3>3, <3>9, <4>1, <4>2
    <3>11. ASSUME NEW m \in p.at + 1 .. h.high PROVE p.s[m].prob <= h.pair.prob
      <4>1. CASE m \in b.high + 1 .. h.high
        <5>1. m \in 1 .. Len(h.s) /\ m \notin b.low .. b.high
          BY <2>1, <3>1, <3>3, <4>1
        <5>2. p.s[m] = b.s[m] /\ b.s[m].prob <= h.pair.prob
          BY <3>1, <3>8, <4>1, <5>1, Zenon
        <5> QED BY <5>2, Zenon
      <4>2. CASE m \in p.at + 1 .. b.high
        BY <3>9, <4>2, Zenon
      <4> QED BY <2>1, <3>3, <3>9, <4>1, <4>2
    <3>12. p.at \in h.low .. h.high
      BY <2>1, <3>1, <3>3, <3>9
    <3> QED BY <3>7, <3>9, <3>10, <3>11, <3>12 DEF Parted, p
  <2>3. CASE ~ (h.low < h.high)
    <3>1. p = [s |-> Filled(h), at |-> h.low]
      BY <2>3, PartitionIs DEF PartitionBody, Filled
    <3>2. Filled(h) \in Seq(Pair) /\ Filled(h)[h.low] = h.pair /\ h.low = h.high
      BY <2>1, <2>3 DEF Filled
    <3>3. Rearranged(Filled(h), Filled(h), h.low, h.high)
      BY DEF Rearranged
    <3> HIDE DEF p
    <3> QED BY <2>1, <3>1, <3>2, <3>3 DEF Parted, p
  <2> QED BY <2>2, <2>3
<1> HIDE DEF size, S
<1>3. a \in S
  BY <1>1, <1>2, Loops!BySize
<1> QED BY <1>3 DEF S

\* What quicksort takes up when it has parted a list.
HoleAt(a) == [s |-> a.s, low |-> a.left, high |-> a.right, pair |-> a.s[a.left]]
Lower(a) == [s |-> Partition[HoleAt(a)].s, left |-> a.left, right |-> Partition[HoleAt(a)].at - 1]
Upper(a, lower) == [s |-> lower, left |-> Partition[HoleAt(a)].at + 1, right |-> a.right]

\* The body of quick_sort_indice_inverse.
SortBody(ctx, f, a) ==
    IF a.left >= a.right THEN a.s ELSE f[Upper(a, f[Lower(a)])]

\* What is known of a sorted list in advance: it keeps the second call within Parts.
IsList(ctx, a, v) == v \in Seq(Pair) /\ Len(v) = Len(a.s)

Sorts == INSTANCE Recursion WITH Body <- SortBody, Shape <- IsList

PartSize == [a \in Parts |-> IF a.left <= a.right THEN a.right - a.left ELSE 0]

\* The two parts that are sorted after a list was parted are shorter than it.
LEMMA PartsHas ==
    ASSUME NEW a \in Parts, a.left < a.right
    PROVE  /\ HoleAt(a) \in Holes /\ Parted(HoleAt(a), Partition[HoleAt(a)])
           /\ Filled(HoleAt(a)) = a.s
           /\ Len(Partition[HoleAt(a)].s) = Len(a.s)
           /\ Lower(a) \in Parts /\ PartSize[Lower(a)] < PartSize[a]
           /\ \A v : IsList({}, a, v) =>
                 Upper(a, v) \in Parts /\ PartSize[Upper(a, v)] < PartSize[a]
<1> DEFINE h == HoleAt(a)
           p == Partition[h]
<1>1. /\ a.s \in Seq(Pair) /\ a.left \in Nat /\ a.right \in Nat
      /\ 1 <= a.left /\ a.right <= Len(a.s)
  BY DEF Parts
<1>2. h \in Holes /\ h.s = a.s /\ h.low = a.left /\ h.high = a.right
  <2>1. a.s[a.left] \in Pair
    BY <1>1
  <2> QED BY <1>1, <2>1 DEF Holes, HoleAt
<1>3. Filled(h) = a.s
  BY <1>1 DEF HoleAt, Filled
<1>4. Parted(h, p)
  <2> HIDE DEF h
  <2> QED BY <1>2, PartitionParts
<1> HIDE DEF p, h
<1>5. p.s \in Seq(Pair) /\ Len(p.s) = Len(a.s) /\ p.at \in a.left .. a.right
  BY <1>2, <1>3, <1>4 DEF Parted, Rearranged
<1>6. Lower(a) \in Parts /\ Lower(a).left = a.left /\ Lower(a).right = p.at - 1
  <2>1. Lower(a) = [s |-> p.s, left |-> a.left, right |-> p.at - 1]
    BY DEF Lower, p, h
  <2>2. p.at - 1 \in Nat /\ p.at - 1 <= Len(p.s)
    BY <1>1, <1>5
  <2> QED BY <1>1, <1>5, <2>1, <2>2 DEF Parts
<1>7. PartSize[Lower(a)] < PartSize[a]
  BY <1>1, <1>5, <1>6 DEF PartSize
<1>8. ASSUME NEW v, IsList({}, a, v)
      PROVE  Upper(a, v) \in Parts /\ PartSize[Upper(a, v)] < PartSize[a]
  <2>1. Upper(a, v) = [s |-> v, left |-> p.at + 1, right |-> a.right]
    BY DEF Upper, p, h
  <2>2. p.at + 1 \in Nat /\ 1 <= p.at + 1 /\ a.right <= Len(v) /\ v \in Seq(Pair)
    BY <1>1, <1>5, <1>8 DEF IsList
  <2>3. Upper(a, v) \in Parts
    BY <1>1, <2>1, <2>2 DEF Parts
  <2>4. Upper(a, v).left = p.at + 1 /\ Upper(a, v).right = a.right
    BY <2>1
  <2> QED BY <1>1, <1>5, <2>3, <2>4 DEF PartSize
<1> QED BY <1>2, <1>3, <1>4, <1>5, <1>6, <1>7, <1>8 DEF p, h

LEMMA PartSizeIsNat == PartSize \in [Parts -> Nat]
<1>1. \A a \in Parts : (IF a.left <= a.right THEN a.right - a.left ELSE 0) \in Nat
  BY DEF Parts
<1> QED BY <1>1 DEF PartSize

\* The recursion ends: both parts are shorter.
LEMMA SortIs ==
    \A a \in Parts : quick_sort_indice_inverse[a] = SortBody({}, quick_sort_indice_inverse, a)
<1>1. PartSize \in [Parts -> Nat]
  BY PartSizeIsNat
<1>2. Sorts!Local({}, Parts, PartSize)
  <2> SUFFICES ASSUME NEW g, NEW h, Sorts!Shaped({}, Parts, g), Sorts!Shaped({}, Parts, h),
                      NEW a \in Parts,
                      \A c \in Parts : PartSize[c] < PartSize[a] => g[c] = h[c]
               PROVE SortBody({}, g, a) = SortBody({}, h, a)
    BY Zenon DEF Sorts!Local
  <2>1. CASE a.left < a.right
    <3>1. Lower(a) \in Parts /\ g[Lower(a)] = h[Lower(a)]
      BY <2>1, PartsHas
    <3>2. IsList({}, a, g[Lower(a)])
      <4>1. IsList({}, Lower(a), g[Lower(a)])
        BY <3>1, Zenon DEF Sorts!Shaped
      <4>2. Len(Lower(a).s) = Len(a.s)
        BY <2>1, PartsHas DEF Lower
      <4> QED BY <4>1, <4>2 DEF IsList
    <3>3. g[Upper(a, g[Lower(a)])] = h[Upper(a, g[Lower(a)])]
      BY <2>1, <3>2, PartsHas
    <3> QED BY <3>1, <3>3, Zenon DEF SortBody
  <2>2. CASE ~ (a.left < a.right)
    <3>1. a.left >= a.right
      BY <2>2 DEF Parts
    <3> QED BY <3>1, Zenon DEF SortBody
  <2> QED BY <2>1, <2>2
<1>3. Sorts!Closed({}, Parts)
  <2>1. ASSUME NEW a \in Parts PROVE IsList({}, a, a.s)
    BY DEF Parts, IsList
  <2>2. ASSUME NEW f, Sorts!Shaped({}, Parts, f), NEW a \in Parts
        PROVE  IsList({}, a, SortBody({}, f, a))
    <3>1. CASE a.left < a.right
      <4>1. Lower(a) \in Parts
        BY <3>1, PartsHas
      <4>2. IsList({}, a, f[Lower(a)])
        <5>1. IsList({}, Lower(a), f[Lower(a)])
          BY <2>2, <4>1, Zenon DEF Sorts!Shaped
        <5>2. Len(Lower(a).s) = Len(a.s)
          BY <3>1, PartsHas DEF Lower
        <5> QED BY <5>1, <5>2 DEF IsList
      <4> DEFINE u == Upper(a, f[Lower(a)])
      <4>3. u \in Parts
        BY <3>1, <4>2, PartsHas
      <4>4. u.s = f[Lower(a)]
        BY DEF Upper
      <4> HIDE DEF u
      <4>5. IsList({}, u, f[u])
        BY <2>2, <4>3, Zenon DEF Sorts!Shaped
      <4>6. SortBody({}, f, a) = f[u]
        <5>1. ~ (a.left >= a.right)
          BY <3>1 DEF Parts
        <5> QED BY <5>1, Zenon DEF SortBody, u
      <4> QED BY <4>2, <4>4, <4>5, <4>6 DEF IsList
    <3>2. CASE ~ (a.left < a.right)
      <4>1. a.left >= a.right
        BY <3>2 DEF Parts
      <4> QED BY <2>1, <4>1, Zenon DEF SortBody
    <3> QED BY <3>1, <3>2
  <2> QED BY <2>1, <2>2, Zenon DEF Sorts!Closed
<1>4. \E f : Sorts!Defines({}, Parts, f) /\ Sorts!Shaped({}, Parts, f)
  BY <1>1, <1>2, <1>3, Sorts!FunctionExists, Zenon
<1>5. \E f : f = [a \in Parts |-> SortBody({}, f, a)]
  BY <1>4, Zenon DEF Sorts!Defines
<1>6. quick_sort_indice_inverse
        = [a \in Parts |-> SortBody({}, quick_sort_indice_inverse, a)]
  BY <1>5, Zenon DEF quick_sort_indice_inverse, SortBody, Upper, Lower, HoleAt
<1> QED BY <1>6, Zenon

\* The pairs of a part in order, the best first.
Sorted(a, v) ==
    /\ v \in Seq(Pair) /\ Len(v) = Len(a.s)
    /\ \A k, l \in a.left .. a.right : k <= l => v[k].prob >= v[l].prob
    /\ Rearranged(a.s, v, a.left, a.right)

\* Sorting both parts sorts the whole.
LEMMA PartsSorted ==
    ASSUME NEW a \in Parts, a.left < a.right, NEW lower, Sorted(Lower(a), lower),
           NEW v, Sorted(Upper(a, lower), v)
    PROVE  Sorted(a, v)
<1> DEFINE h == HoleAt(a)
           p == Partition[h]
           at == p.at
           key == h.pair.prob
<1>1. /\ a.s \in Seq(Pair) /\ a.left \in Nat /\ a.right \in Nat
      /\ 1 <= a.left /\ a.left < a.right /\ a.right <= Len(a.s)
  BY DEF Parts
<1>2. /\ h.low = a.left /\ h.high = a.right /\ Filled(h) = a.s /\ Parted(h, p)
      /\ Len(p.s) = Len(a.s)
  BY PartsHas DEF HoleAt
<1>3. /\ Lower(a) = [s |-> p.s, left |-> a.left, right |-> at - 1]
      /\ Upper(a, lower) = [s |-> lower, left |-> at + 1, right |-> a.right]
  BY DEF Lower, Upper
<1> HIDE DEF h, p
<1>4. /\ p.s \in Seq(Pair) /\ at \in a.left .. a.right /\ p.s[at] = h.pair
      /\ \A m \in a.left .. at - 1 : p.s[m].prob >= key
      /\ \A m \in at + 1 .. a.right : p.s[m].prob <= key
      /\ Rearranged(a.s, p.s, a.left, a.right)
  BY <1>2 DEF Parted
<1> HIDE DEF at
<1>5. /\ lower \in Seq(Pair) /\ Len(lower) = Len(a.s)
      /\ \A k, l \in a.left .. at - 1 : k <= l => lower[k].prob >= lower[l].prob
      /\ Rearranged(p.s, lower, a.left, at - 1)
  BY <1>2, <1>3 DEF Sorted
<1>6. /\ v \in Seq(Pair) /\ Len(v) = Len(a.s)
      /\ \A k, l \in at + 1 .. a.right : k <= l => v[k].prob >= v[l].prob
      /\ Rearranged(lower, v, at + 1, a.right)
  BY <1>3, <1>5 DEF Sorted
<1> DEFINE n == Len(a.s)
<1>7. ASSUME NEW m \in a.left .. at - 1
      PROVE  v[m] = lower[m] /\ v[m].prob >= key /\ v[m].prob \in Int
  <2>1. m \in 1 .. n /\ m \notin at + 1 .. a.right
    BY <1>1, <1>4
  <2>2. v[m] = lower[m]
    BY <1>5, <1>6, <2>1 DEF Rearranged
  <2>3. PICK j \in a.left .. at - 1 : lower[m] = p.s[j]
    BY <1>5 DEF Rearranged
  <2>4. v[m] \in Pair
    BY <1>6, <2>1
  <2> QED BY <1>4, <2>2, <2>3, <2>4 DEF Pair
<1>8. ASSUME NEW m \in at + 1 .. a.right PROVE v[m].prob <= key /\ v[m].prob \in Int
  <2>1. PICK j \in at + 1 .. a.right : v[m] = lower[j]
    BY <1>6 DEF Rearranged
  <2>2. j \in 1 .. n /\ m \in 1 .. n /\ j \notin a.left .. at - 1
    BY <1>1, <1>4
  <2>3. lower[j] = p.s[j]
    BY <1>2, <1>5, <2>2 DEF Rearranged
  <2>4. v[m] \in Pair
    BY <1>6, <2>2
  <2> QED BY <1>4, <2>1, <2>3, <2>4 DEF Pair
<1>9. v[at].prob = key /\ key \in Int
  <2>1. at \in 1 .. n /\ at \notin at + 1 .. a.right /\ at \notin a.left .. at - 1
    BY <1>1, <1>4
  <2>2. v[at] = lower[at]
    BY <1>5, <1>6, <2>1 DEF Rearranged
  <2>3. lower[at] = p.s[at]
    BY <1>2, <1>5, <2>1 DEF Rearranged
  <2>4. v[at] \in Pair
    BY <1>6, <2>1
  <2> QED BY <1>4, <2>2, <2>3, <2>4 DEF Pair
<1>10. ASSUME NEW k \in a.left .. a.right, NEW l \in a.left .. a.right, k <= l
       PROVE  v[k].prob >= v[l].prob
  <2>1. \A m \in a.left .. a.right : m \in a.left .. at - 1 \/ m = at \/ m \in at + 1 .. a.right
    BY <1>1, <1>4
  <2>2. CASE k \in a.left .. at - 1 /\ l \in a.left .. at - 1
    <3>1. lower[k].prob >= lower[l].prob
      BY <1>5, <1>10, <2>2
    <3> QED BY <1>7, <2>2, <3>1
  <2>3. CASE k \in at + 1 .. a.right /\ l \in at + 1 .. a.right
    BY <1>6, <1>10, <2>3
  <2>4. CASE k \in a.left .. at /\ l \in at .. a.right
    <3>1. v[k].prob >= key /\ v[k].prob \in Int
      BY <1>1, <1>4, <1>7, <1>9, <2>1, <2>4
    <3>2. v[l].prob <= key /\ v[l].prob \in Int
      BY <1>1, <1>4, <1>8, <1>9, <2>1, <2>4
    <3> QED BY <1>9, <3>1, <3>2
  <2> QED BY <1>1, <1>4, <1>10, <2>1, <2>2, <2>3, <2>4
<1>11. Rearranged(a.s, v, a.left, a.right)
  <2>1. at - 1 \in Nat /\ at + 1 \in Nat /\ n \in Nat
        /\ a.left <= at + 1 /\ at - 1 <= a.right
    BY <1>1, <1>4
  <2>2. Rearranged(p.s, lower, a.left, a.right)
    BY <1>1, <1>2, <1>5, <2>1, RearrangedInPart
  <2>3. Rearranged(lower, v, a.left, a.right)
    BY <1>1, <1>5, <1>6, <2>1, RearrangedInPart
  <2> QED BY <1>4, <2>2, <2>3, RearrangedTwice, Zenon
<1> QED BY <1>6, <1>10, <1>11 DEF Sorted

\* The quicksort sorts (lines 147-178): for any list and any part of it the pairs are the same,
\* the others are where they were, and in the part the best come first.
THEOREM QuickSorted ==
    ASSUME NEW a \in Parts
    PROVE  Sorted(a, quick_sort_indice_inverse[a])
<1> DEFINE S == {b \in Parts : Sorted(b, quick_sort_indice_inverse[b])}
<1>1. ASSUME NEW b \in Parts, \A c \in Parts : PartSize[c] < PartSize[b] => c \in S
      PROVE  b \in S
  <2>1. CASE b.left < b.right
    <3> DEFINE lower == quick_sort_indice_inverse[Lower(b)]
               v == quick_sort_indice_inverse[Upper(b, lower)]
    <3>1. Sorted(Lower(b), lower)
      BY <1>1, <2>1, PartsHas
    <3>2. IsList({}, b, lower)
      <4>1. Len(Lower(b).s) = Len(b.s)
        BY <2>1, PartsHas DEF Lower
      <4> QED BY <3>1, <4>1 DEF IsList, Sorted
    <3>3. Sorted(Upper(b, lower), v)
      BY <1>1, <2>1, <3>2, PartsHas
    <3>4. ~ (b.left >= b.right)
      BY <2>1 DEF Parts
    <3>5. quick_sort_indice_inverse[b] = v
      BY <3>4, SortIs, Zenon DEF SortBody
    <3> HIDE DEF lower, v
    <3>6. Sorted(b, v)
      BY <2>1, <3>1, <3>3, PartsSorted
    <3> QED BY <3>5, <3>6
  <2>2. CASE ~ (b.left < b.right)
    <3>1. b.left >= b.right /\ b.s \in Seq(Pair) /\ b.left \in Nat /\ b.right \in Nat
          /\ 1 <= b.left /\ b.right <= Len(b.s)
      BY <2>2 DEF Parts
    <3>2. quick_sort_indice_inverse[b] = b.s
      BY <3>1, SortIs, Zenon DEF SortBody
    <3>3. Rearranged(b.s, b.s, b.left, b.right)
      BY DEF Rearranged
    <3>4. ASSUME NEW k \in b.left .. b.right, NEW l \in b.left .. b.right
          PROVE  b.s[k].prob >= b.s[l].prob
      <4>1. k = l /\ b.s[k] \in Pair
        BY <3>1
      <4> QED BY <4>1 DEF Pair
    <3> QED BY <3>1, <3>2, <3>3, <3>4 DEF Sorted
  <2> QED BY <2>1, <2>2
<1>2. PartSize \in [Parts -> Nat]
  BY PartSizeIsNat
<1> HIDE DEF S
<1>3. a \in S
  BY <1>1, <1>2, Loops!BySize
<1> QED BY <1>3 DEF S

\* What sorting makes of a list of objects: each of them once, the best first.
LEMMA ObjectsSorted ==
    ASSUME NEW list, IsObjects(list)
    PROVE  LET sorted == SortByProb(list)
               n == Len(list)
           IN /\ Len(sorted) = n /\ DOMAIN sorted = 1 .. n
              /\ \A k \in 1 .. n : /\ sorted[k].index \in 1 .. n
                                   /\ sorted[k].prob = list[sorted[k].index].prob
                                   /\ sorted[k].prob \in Int
              /\ \A k, l \in 1 .. n : k <= l => sorted[k].prob >= sorted[l].prob
              /\ \A k, l \in 1 .. n : sorted[k].index = sorted[l].index => k = l
              /\ \A m \in 1 .. n : \E k \in 1 .. n : sorted[k].index = m
<1> DEFINE n == Len(list)
           s == [k \in 1 .. n |-> [prob |-> list[k].prob, index |-> k]]
           a == [s |-> s, left |-> 1, right |-> n]
           v == quick_sort_indice_inverse[a]
<1>1. n \in Nat /\ \A k \in 1 .. n : list[k].prob \in Int
  BY DEF IsObjects
<1>2. s \in Seq(Pair) /\ Len(s) = n
  <2>1. \A k \in 1 .. n : s[k] \in Pair
    BY <1>1 DEF Pair
  <2> QED BY <1>1, <2>1
<1>3. a \in Parts
  <2> HIDE DEF s
  <2> QED BY <1>1, <1>2 DEF Parts
<1>4. Sorted(a, v)
  <2> HIDE DEF a
  <2> QED BY <1>3, QuickSorted
<1>5. SortByProb(list) = v
  BY DEF SortByProb
<1> HIDE DEF v
<1>6. /\ v \in Seq(Pair) /\ Len(v) = n
      /\ \A k, l \in 1 .. n : k <= l => v[k].prob >= v[l].prob
      /\ Rearranged(s, v, 1, n)
  <2> HIDE DEF s, n
  <2> QED BY <1>2, <1>4, Zenon DEF Sorted
<1>7. \A m \in 1 .. n : s[m].prob = list[m].prob /\ s[m].index = m
  OBVIOUS
<1> HIDE DEF s, n
<1>8. ASSUME NEW k \in 1 .. n
      PROVE  v[k].index \in 1 .. n /\ v[k].prob = list[v[k].index].prob /\ v[k].prob \in Int
  <2>1. PICK j \in 1 .. n : v[k] = s[j]
    BY <1>6, Zenon DEF Rearranged
  <2> QED BY <1>1, <1>7, <2>1
<1>9. ASSUME NEW m \in 1 .. n PROVE \E k \in 1 .. n : v[k].index = m
  <2>1. PICK k \in 1 .. n : s[m] = v[k]
    BY <1>6, Zenon DEF Rearranged
  <2> QED BY <1>7, <2>1
<1>10. ASSUME NEW k \in 1 .. n, NEW l \in 1 .. n, v[k].index = v[l].index PROVE k = l
  <2>1. PICK i \in 1 .. n : v[k] = s[i]
    BY <1>6, Zenon DEF Rearranged
  <2>2. PICK j \in 1 .. n : v[l] = s[j]
    BY <1>6, Zenon DEF Rearranged
  <2>3. v[k] = v[l]
    BY <1>7, <1>10, <2>1, <2>2
  <2>4. Distinct(s)
    BY <1>2, <1>7 DEF Distinct
  <2>5. Distinct(v)
    BY <1>6, <2>4 DEF Rearranged
  <2> QED BY <1>6, <2>3, <2>5 DEF Distinct
<1>11. DOMAIN v = 1 .. n
  BY <1>6
<1> QED BY <1>5, <1>6, <1>8, <1>9, <1>10, <1>11, Zenon DEF n

-----------------------------------------------------------------------------
(* The suppression.                                                          *)

\* The order of the objects before any is dropped; o is such an order with some dropped.
IsFirst(first) ==
    /\ Len(first) \in Nat /\ DOMAIN first = 1 .. Len(first)
    /\ \A k \in DOMAIN first : first[k] # -1
Thins(first, o) ==
    /\ Len(o) = Len(first) /\ DOMAIN o = 1 .. Len(first)
    /\ \A k \in DOMAIN first : o[k] \in {first[k], -1}

OfClass(list, first, k, class) == list[first[k]].class = class
Hit(list, first, k, l) == Overlap(list[first[k]].box, list[first[l]].box)

\* Of a class, no two that are left overlap where the first is among the first n ...
Apart(list, first, o, class, n) ==
    \A k \in 1 .. n : \A l \in k + 1 .. Len(first) :
        o[k] # -1 /\ o[l] # -1 /\ OfClass(list, first, k, class) /\ OfClass(list, first, l, class)
            => ~ Hit(list, first, k, l)

\* ... and whatever is dropped overlaps one of these that is left.
Beaten(list, first, o, class, n) ==
    \A l \in 1 .. Len(first) :
        o[l] = -1 /\ OfClass(list, first, l, class) =>
            \E k \in 1 .. n : /\ k < l /\ o[k] # -1
                             /\ OfClass(list, first, k, class) /\ Hit(list, first, k, l)

Thinned(list, first, o, class, n) ==
    Apart(list, first, o, class, n) /\ Beaten(list, first, o, class, n)

\* Only objects of the class have been dropped.
OnlyClass(list, first, order, o, class) ==
    \A k \in 1 .. Len(first) : ~ OfClass(list, first, k, class) => o[k] = order[k]

\* One place after the other.
LEMMA PlaceThinned ==
    ASSUME NEW list, NEW first, IsFirst(first), NEW o, Thins(first, o), NEW class,
           NEW k \in 1 .. Len(first), Thinned(list, first, o, class, k - 1)
    PROVE  LET p == Dropped(list, o, k, class) IN
           /\ Thins(first, p) /\ Thinned(list, first, p, class, k)
           /\ OnlyClass(list, first, o, p, class)
<1> DEFINE n == Len(first)
           p == Dropped(list, o, k, class)
           Of(l) == OfClass(list, first, l, class)
           hit(i, l) == Hit(list, first, i, l)
<1>1. n \in Nat /\ DOMAIN first = 1 .. n /\ DOMAIN o = 1 .. n /\ Len(o) = n
      /\ \A l \in 1 .. n : first[l] # -1 /\ o[l] \in {first[l], -1}
  BY DEF IsFirst, Thins
<1>2. \A l \in 1 .. n : Has(list, o, l, class) <=> o[l] # -1 /\ Of(l)
  BY <1>1 DEF Has, OfClass
<1>3. /\ \A i \in 1 .. k - 1 : \A l \in i + 1 .. n :
            o[i] # -1 /\ o[l] # -1 /\ Of(i) /\ Of(l) => ~ hit(i, l)
      /\ \A l \in 1 .. n : o[l] = -1 /\ Of(l) =>
            \E i \in 1 .. k - 1 : i < l /\ o[i] # -1 /\ Of(i) /\ hit(i, l)
  <2>1. \A i \in 1 .. k - 1 : \A l \in i + 1 .. n :
            o[i] # -1 /\ o[l] # -1 /\ Of(i) /\ Of(l) => ~ hit(i, l)
    BY Zenon DEF Thinned, Apart
  <2>2. \A l \in 1 .. n : o[l] = -1 /\ Of(l) =>
            \E i \in 1 .. k - 1 : i < l /\ o[i] # -1 /\ Of(i) /\ hit(i, l)
    BY Zenon DEF Thinned, Beaten
  <2> QED BY <2>1, <2>2, Zenon
<1>4. \A i \in 1 .. k : i \in 1 .. k - 1 \/ i = k
  BY <1>1
<1>5. \A i \in 1 .. k - 1 : i \in 1 .. k /\ i \in 1 .. n /\ i # k /\ ~ (i > k)
  BY <1>1
<1>6. CASE ~ (o[k] # -1 /\ Of(k))
  <2>1. p = o
    BY <1>2, <1>6, Zenon DEF Dropped
  <2> HIDE DEF p, Of, hit
  <2>2. \A i \in 1 .. k : \A l \in i + 1 .. n :
            p[i] # -1 /\ p[l] # -1 /\ Of(i) /\ Of(l) => ~ hit(i, l)
    BY <1>3, <1>4, <1>6, <2>1, Zenon
  <2>3. \A l \in 1 .. n : p[l] = -1 /\ Of(l) =>
            \E i \in 1 .. k : i < l /\ p[i] # -1 /\ Of(i) /\ hit(i, l)
    BY <1>3, <1>5, <2>1, Zenon
  <2>4. Apart(list, first, p, class, k)
    BY <2>2, Zenon DEF Apart, Of, hit
  <2>5. Beaten(list, first, p, class, k)
    BY <2>3, Zenon DEF Beaten, Of, hit
  <2>6. OnlyClass(list, first, o, p, class)
    BY <2>1, Zenon DEF OnlyClass
  <2> QED BY <2>1, <2>4, <2>5, <2>6, Zenon DEF Thinned, p
<1>7. CASE o[k] # -1 /\ Of(k)
  <2>1. p = [l \in 1 .. n |-> IF l > k /\ o[l] # -1 /\ Of(l) /\ hit(k, l) THEN -1 ELSE o[l]]
    <3>1. \A l \in 1 .. n : Has(list, o, l, class)
             => (Overlap(list[o[k]].box, list[o[l]].box) <=> hit(k, l))
      BY <1>1, <1>2, <1>7 DEF Hit
    <3> QED BY <1>1, <1>2, <1>7, <3>1 DEF Dropped
  <2> HIDE DEF p, Of, hit
  <2>2. /\ Len(p) = n /\ DOMAIN p = 1 .. n
        /\ \A l \in 1 .. n : p[l] = IF l > k /\ o[l] # -1 /\ Of(l) /\ hit(k, l) THEN -1 ELSE o[l]
    BY <1>1, <2>1
  <2> DEFINE m == k
  <2>3. \A i \in 1 .. k : \A l \in i + 1 .. n :
            p[i] # -1 /\ p[l] # -1 /\ Of(i) /\ Of(l) => ~ hit(i, l)
    <3> SUFFICES ASSUME NEW i \in 1 .. k, NEW l \in i + 1 .. n,
                        p[i] # -1, p[l] # -1, Of(i), Of(l), hit(i, l)
                 PROVE  FALSE
      OBVIOUS
    <3>1. l \in 1 .. n /\ i \in 1 .. n /\ l > i
      BY <1>1
    <3>2. o[i] # -1 /\ o[l] # -1
      BY <2>2, <3>1
    <3>3. i = k
      BY <1>3, <1>4, <3>2
    <3> QED BY <2>2, <3>1, <3>2, <3>3
  <2>4. \A l \in 1 .. n : p[l] = -1 /\ Of(l) =>
            \E i \in 1 .. k : i < l /\ p[i] # -1 /\ Of(i) /\ hit(i, l)
    <3> SUFFICES ASSUME NEW l \in 1 .. n, p[l] = -1, Of(l)
                 PROVE  \E i \in 1 .. k : i < l /\ p[i] # -1 /\ Of(i) /\ hit(i, l)
      OBVIOUS
    <3>1. \A i \in 1 .. k : i \in 1 .. n /\ ~ (i > k)
      BY <1>1
    <3>2. \A i \in 1 .. k : p[i] = o[i]
      BY <2>2, <3>1
    <3>3. CASE o[l] = -1
      BY <1>3, <1>5, <3>2, <3>3, Zenon
    <3>4. CASE o[l] # -1
      <4>1. l > k /\ hit(k, l)
        BY <2>2, <3>4
      <4>2. k \in 1 .. k /\ k < l
        BY <4>1
      <4> QED BY <1>7, <3>2, <4>1, <4>2
    <3> QED BY <3>3, <3>4
  <2>5. Thins(first, p)
    BY <1>1, <2>2 DEF Thins
  <2>6. OnlyClass(list, first, o, p, class)
    BY <2>2 DEF OnlyClass, Of
  <2>7. Apart(list, first, p, class, k)
    BY <2>3, Zenon DEF Apart, Of, hit
  <2>8. Beaten(list, first, p, class, k)
    BY <2>4, Zenon DEF Beaten, Of, hit
  <2> QED BY <2>5, <2>6, <2>7, <2>8, Zenon DEF Thinned, p
<1> QED BY <1>6, <1>7

\* One run over the list makes a class thin and leaves the others alone.
LEMMA ClassThinned ==
    ASSUME NEW list, NEW first, IsFirst(first), NEW order, Thins(first, order), NEW class,
           \A k \in 1 .. Len(first) : OfClass(list, first, k, class) => order[k] = first[k]
    PROVE  LET o == nms(list, order, class) IN
           /\ Thins(first, o) /\ Thinned(list, first, o, class, Len(first))
           /\ OnlyClass(list, first, order, o, class)
<1> DEFINE n == Len(first)
           ctx == [loop |-> "places", base |-> order, objects |-> list, class |-> class]
           f == Loop(ctx, n)
           S == {k \in 0 .. n : /\ Thins(first, f[k]) /\ Thinned(list, first, f[k], class, k)
                                /\ OnlyClass(list, first, order, f[k], class)}
<1>1. n \in Nat /\ Len(order) = n /\ \A k \in 1 .. n : first[k] # -1
  BY DEF IsFirst, Thins
<1>2. nms(list, order, class) = f[n]
  <2>1. nms(list, order, class) = Loop(ctx, Len(order))[Len(order)]
    BY DEF nms, Loop, LoopBody, Turn
  <2> QED BY <1>1, <2>1
<1>3. \A v, k : Turn(ctx, v, k) = Dropped(list, v, k, class)
  BY DEF Turn
<1>4. f[0] = order /\ \A k \in 1 .. n : f[k] = Dropped(list, f[k - 1], k, class)
  <2>1. f[0] = ctx.base /\ \A k \in 1 .. n : f[k] = Turn(ctx, f[k - 1], k)
    <3> HIDE DEF ctx, n
    <3> QED BY <1>1, LoopRuns, Zenon
  <2> QED BY <1>3, <2>1
<1> HIDE DEF f, n, ctx
<1>5. 0 \in S
  <2>1. Thinned(list, first, order, class, 0)
    BY <1>1 DEF Thinned, Apart, Beaten, n
  <2> QED BY <1>1, <1>4, <2>1 DEF OnlyClass
<1>6. ASSUME NEW k \in 1 .. n, k - 1 \in S PROVE k \in S
  <2> DEFINE p == Dropped(list, f[k - 1], k, class)
  <2>1. Thins(first, p) /\ Thinned(list, first, p, class, k)
        /\ OnlyClass(list, first, f[k - 1], p, class)
    BY <1>6, PlaceThinned DEF n
  <2>2. f[k] = p /\ k \in 0 .. n
    BY <1>1, <1>4
  <2>3. OnlyClass(list, first, order, p, class)
    BY <1>6, <2>1 DEF OnlyClass
  <2> QED BY <2>1, <2>2, <2>3
<1>7. n \in S
  <2> HIDE DEF S
  <2>1. \A k \in 0 .. n : k \in S
    BY <1>1, <1>5, <1>6, Loops!UpTo
  <2> QED BY <1>1, <2>1
<1> QED BY <1>2, <1>7 DEF n

\* Suppression makes every class thin.
LEMMA AllThinned ==
    ASSUME NEW list, NEW first, IsFirst(first)
    PROVE  LET o == Suppressed(list, first) IN
           Thins(first, o) /\ \A class \in Classes : Thinned(list, first, o, class, Len(first))
<1> DEFINE n == Len(first)
           ctx == [loop |-> "classes", base |-> first, objects |-> list]
           f == Loop(ctx, OBJ_CLASS_NUM)
           S == {c \in 0 .. OBJ_CLASS_NUM :
                    /\ Thins(first, f[c])
                    /\ \A class \in Classes :
                          IF class < c THEN Thinned(list, first, f[c], class, n)
                          ELSE \A k \in 1 .. n :
                                  OfClass(list, first, k, class) => f[c][k] = first[k]}
<1>1. n \in Nat /\ OBJ_CLASS_NUM \in Nat /\ Classes = 0 .. OBJ_CLASS_NUM - 1
  BY DetectionAssumption DEF IsFirst, Classes
<1>2. Suppressed(list, first) = f[OBJ_CLASS_NUM]
  BY DEF Suppressed, Loop, LoopBody, Turn
<1>3. \A v, k : Turn(ctx, v, k) = nms(list, v, k - 1)
  BY DEF Turn
<1>4. f[0] = first /\ \A c \in 1 .. OBJ_CLASS_NUM : f[c] = nms(list, f[c - 1], c - 1)
  <2>1. f[0] = ctx.base /\ \A k \in 1 .. OBJ_CLASS_NUM : f[k] = Turn(ctx, f[k - 1], k)
    <3> HIDE DEF ctx
    <3> QED BY <1>1, LoopRuns, Zenon
  <2> QED BY <1>3, <2>1
<1> HIDE DEF f, n, ctx
<1>5. 0 \in S
  <2>1. Thins(first, first)
    BY DEF IsFirst, Thins
  <2>2. \A class \in Classes : ~ (class < 0)
    BY <1>1
  <2> QED BY <1>1, <1>4, <2>1, <2>2
<1>6. ASSUME NEW c \in 1 .. OBJ_CLASS_NUM, c - 1 \in S PROVE c \in S
  <2> DEFINE o == f[c]
             b == f[c - 1]
  <2>1. c - 1 \in Classes /\ c \in 0 .. OBJ_CLASS_NUM /\ c \in Nat
    BY <1>1
  <2>2. /\ Thins(first, o) /\ Thinned(list, first, o, c - 1, n)
        /\ OnlyClass(list, first, b, o, c - 1)
    <3>1. ~ (c - 1 < c - 1)
      BY <2>1
    <3>2. \A k \in 1 .. n : OfClass(list, first, k, c - 1) => b[k] = first[k]
      BY <1>6, <2>1, <3>1
    <3>3. o = nms(list, b, c - 1)
      BY <1>4
    <3> QED BY <1>6, <3>2, <3>3, ClassThinned DEF n
  <2>3. ASSUME NEW class \in Classes, class # c - 1,
               NEW k \in 1 .. n, OfClass(list, first, k, class)
        PROVE  o[k] = b[k]
    BY <2>2, <2>3 DEF OnlyClass, OfClass, n
  <2>4. ASSUME NEW class \in Classes, class < c PROVE Thinned(list, first, o, class, n)
    <3>1. CASE class = c - 1
      BY <2>2, <3>1
    <3>2. CASE class # c - 1
      <4>1. class < c - 1
        BY <1>1, <2>1, <2>4, <3>2
      <4>2. Thinned(list, first, b, class, n)
        BY <1>6, <4>1
      <4>3. \A k \in 1 .. n : \A l \in k + 1 .. n : l \in 1 .. n
        BY <1>1
      <4>4. \A k \in 1 .. n : OfClass(list, first, k, class) => o[k] = b[k]
        BY <2>3, <3>2
      <4> HIDE DEF o, b
      <4>5. Apart(list, first, o, class, n)
        BY <4>2, <4>3, <4>4, Zenon DEF Thinned, Apart, n
      <4>6. Beaten(list, first, o, class, n)
        BY <4>2, <4>4, Zenon DEF Thinned, Beaten, n
      <4> QED BY <4>5, <4>6, Zenon DEF Thinned
    <3> QED BY <3>1, <3>2
  <2>5. ASSUME NEW class \in Classes, ~ (class < c),
               NEW k \in 1 .. n, OfClass(list, first, k, class)
        PROVE  o[k] = first[k]
    <3>1. class # c - 1 /\ ~ (class < c - 1)
      BY <1>1, <2>1, <2>5
    <3>2. b[k] = first[k]
      BY <1>6, <2>5, <3>1
    <3> QED BY <2>3, <2>5, <3>1, <3>2
  <2> QED BY <2>1, <2>2, <2>4, <2>5
<1>7. OBJ_CLASS_NUM \in S
  <2> HIDE DEF S
  <2>1. \A k \in 0 .. OBJ_CLASS_NUM : k \in S
    BY <1>1, <1>5, <1>6, Loops!UpTo
  <2> QED BY <1>1, <2>1
<1>8. \A class \in Classes : class < OBJ_CLASS_NUM
  BY <1>1
<1> QED BY <1>2, <1>7, <1>8 DEF n

-----------------------------------------------------------------------------
(* The list of what was found.                                               *)

\* The list has the objects at the places pos, in their order, of the first k; and all that
\* are left of these unless it is full.
Entry(ctx) == {ResultAt(ctx, k) : k \in Nat}

ListedBy(ctx, list, k, pos) ==
    /\ list \in Seq(Entry(ctx))
    /\ pos \in Seq(1 .. k) /\ Len(pos) = Len(list)
    /\ Len(pos) <= OBJ_NUMB_MAX_SIZE
    /\ \A i \in 1 .. Len(pos) : ctx.order[pos[i]] # -1 /\ list[i] = ResultAt(ctx, pos[i])
    /\ \A i, j \in 1 .. Len(pos) : i < j => pos[i] < pos[j]
    /\ Len(pos) < OBJ_NUMB_MAX_SIZE =>
          \A m \in 1 .. k : ctx.order[m] # -1 => \E i \in 1 .. Len(pos) : pos[i] = m

Listed(ctx, list, k) == \E pos : ListedBy(ctx, list, k, pos)

\* One place after the other.
LEMMA PlaceListed ==
    ASSUME NEW ctx, ctx.loop = "results", NEW k \in Nat \ {0}, NEW list, Listed(ctx, list, k - 1)
    PROVE  Listed(ctx, Turn(ctx, list, k), k)
<1> DEFINE new == Turn(ctx, list, k)
<1>1. PICK pos : ListedBy(ctx, list, k - 1, pos)
  BY DEF Listed
<1>2. /\ list \in Seq(Entry(ctx)) /\ pos \in Seq(1 .. k - 1) /\ Len(pos) = Len(list)
      /\ Len(pos) <= OBJ_NUMB_MAX_SIZE
      /\ \A i \in 1 .. Len(pos) : ctx.order[pos[i]] # -1 /\ list[i] = ResultAt(ctx, pos[i])
      /\ \A i, j \in 1 .. Len(pos) : i < j => pos[i] < pos[j]
      /\ Len(pos) < OBJ_NUMB_MAX_SIZE =>
            \A m \in 1 .. k - 1 : ctx.order[m] # -1 => \E i \in 1 .. Len(pos) : pos[i] = m
  BY <1>1 DEF ListedBy
<1>3. new = IF ctx.order[k] = -1 \/ Len(list) >= OBJ_NUMB_MAX_SIZE THEN list
            ELSE Append(list, ResultAt(ctx, k))
  BY DEF Turn
<1>4. OBJ_NUMB_MAX_SIZE \in Nat /\ Len(pos) \in Nat
  BY <1>2, DetectionAssumption
<1>5. \A m \in 1 .. k : m \in 1 .. k - 1 \/ m = k
  OBVIOUS
<1>6. \A i \in 1 .. Len(pos) : pos[i] \in 1 .. k - 1
  BY <1>2
<1>7. CASE ctx.order[k] = -1 \/ Len(list) >= OBJ_NUMB_MAX_SIZE
  <2>1. new = list
    BY <1>3, <1>7
  <2>2. pos \in Seq(1 .. k)
    BY <1>2
  <2>3. Len(pos) < OBJ_NUMB_MAX_SIZE =>
            \A m \in 1 .. k : ctx.order[m] # -1 => \E i \in 1 .. Len(pos) : pos[i] = m
    BY <1>2, <1>4, <1>5, <1>7
  <2> HIDE DEF new
  <2>4. ListedBy(ctx, new, k, pos)
    BY <1>2, <2>1, <2>2, <2>3 DEF ListedBy
  <2> QED BY <2>4 DEF Listed, new
<1>8. CASE ~ (ctx.order[k] = -1 \/ Len(list) >= OBJ_NUMB_MAX_SIZE)
  <2> DEFINE n == Len(pos)
             p == Append(pos, k)
  <2>1. new = Append(list, ResultAt(ctx, k))
    BY <1>3, <1>8
  <2>2. n \in Nat /\ n < OBJ_NUMB_MAX_SIZE /\ n = Len(list)
    BY <1>2, <1>4, <1>8
  <2>3. /\ p \in Seq(1 .. k) /\ Len(p) = n + 1 /\ p[n + 1] = k
        /\ \A i \in 1 .. n : p[i] = pos[i]
    BY <1>2, <2>2
  <2>4. /\ new \in Seq(Entry(ctx)) /\ Len(new) = n + 1 /\ new[n + 1] = ResultAt(ctx, k)
        /\ \A i \in 1 .. n : new[i] = list[i]
    <3>1. ResultAt(ctx, k) \in Entry(ctx)
      BY DEF Entry
    <3> HIDE DEF new
    <3> QED BY <1>2, <2>1, <2>2, <3>1
  <2> HIDE DEF new, p, n
  <2>5. \A i \in 1 .. n + 1 : i \in 1 .. n \/ i = n + 1
    BY <2>2
  <2>6. \A i \in 1 .. n + 1 : ctx.order[p[i]] # -1 /\ new[i] = ResultAt(ctx, p[i])
    BY <1>2, <1>8, <2>3, <2>4, <2>5 DEF n
  <2>7. ASSUME NEW i \in 1 .. n + 1, NEW j \in 1 .. n + 1, i < j PROVE p[i] < p[j]
    <3>1. i \in 1 .. n
      BY <2>2, <2>7
    <3>2. pos[i] \in 1 .. k - 1
      BY <1>6, <3>1 DEF n
    <3>3. CASE j \in 1 .. n
      BY <1>2, <2>3, <2>7, <3>1, <3>3 DEF n
    <3>4. CASE j = n + 1
      BY <2>3, <3>1, <3>2, <3>4
    <3> QED BY <2>5, <3>3, <3>4
  <2>8. ASSUME NEW m \in 1 .. k, ctx.order[m] # -1 PROVE \E i \in 1 .. n + 1 : p[i] = m
    <3>1. CASE m \in 1 .. k - 1
      <4>1. PICK i \in 1 .. n : pos[i] = m
        BY <1>2, <2>2, <2>8, <3>1 DEF n
      <4>2. i \in 1 .. n + 1
        BY <2>2
      <4> QED BY <2>3, <4>1, <4>2
    <3>2. CASE m = k
      <4>1. n + 1 \in 1 .. n + 1
        BY <2>2
      <4> QED BY <2>3, <3>2, <4>1
    <3> QED BY <1>5, <3>1, <3>2
  <2>9. n + 1 <= OBJ_NUMB_MAX_SIZE
    BY <1>4, <2>2
  <2>10. ListedBy(ctx, new, k, p)
    BY <2>3, <2>4, <2>6, <2>7, <2>8, <2>9 DEF ListedBy
  <2> QED BY <2>10 DEF Listed, new
<1> QED BY <1>7, <1>8

\* post_process lists the best of each class, with their boxes moved back into the picture
\* (lines 606-656), for any list of objects.
THEOREM PostProcessed ==
    ASSUME NEW list, IsObjects(list), NEW lb, NEW model
    PROVE  LET results == post_process(list, lb, model) IN
           /\ BestOfEachClass(list, results)
           /\ \A k \in DOMAIN results : \E m \in DOMAIN list :
                 results[k].box = BackInPicture(list[m].box, lb, model)
<1> DEFINE n == Len(list)
           sorted == SortByProb(list)
           first == [k \in 1 .. Len(sorted) |-> sorted[k].index]
           order == Suppressed(list, first)
           ctx == [loop |-> "results", base |-> <<>>, objects |-> list, sorted |-> sorted,
                   order |-> order, letter_box |-> lb, model |-> model]
           f == Loop(ctx, n)
           results == post_process(list, lb, model)
<1>1. /\ n \in Nat /\ DOMAIN list = 1 .. n
      /\ \A m \in 1 .. n : list[m].class \in Classes /\ list[m].prob \in Int
  BY DEF IsObjects
<1>2. /\ Len(sorted) = n
      /\ \A k \in 1 .. n : /\ sorted[k].index \in 1 .. n
                           /\ sorted[k].prob = list[sorted[k].index].prob
                           /\ sorted[k].prob \in Int
      /\ \A k, l \in 1 .. n : k <= l => sorted[k].prob >= sorted[l].prob
      /\ \A k, l \in 1 .. n : sorted[k].index = sorted[l].index => k = l
      /\ \A m \in 1 .. n : \E k \in 1 .. n : sorted[k].index = m
  BY ObjectsSorted
<1> HIDE DEF sorted, n
<1>21. \A k \in 1 .. n : /\ sorted[k].index \in 1 .. n /\ sorted[k].prob \in Int
                         /\ sorted[k].prob = list[sorted[k].index].prob
  BY <1>2, Zenon
<1>22. \A k, l \in 1 .. n : k <= l => sorted[k].prob >= sorted[l].prob
  BY <1>2, Zenon
<1>23. \A k, l \in 1 .. n : sorted[k].index = sorted[l].index => k = l
  BY <1>2, Zenon
<1>3. IsFirst(first) /\ Len(first) = n /\ \A k \in 1 .. n : first[k] = sorted[k].index
  <2>1. /\ Len(first) = n /\ DOMAIN first = 1 .. n
        /\ \A k \in 1 .. n : first[k] = sorted[k].index
    BY <1>1, <1>2
  <2> HIDE DEF first
  <2>2. \A k \in 1 .. n : first[k] # -1
    BY <1>1, <1>21, <2>1
  <2> QED BY <1>1, <2>1, <2>2 DEF IsFirst
<1> HIDE DEF first
<1>4. Thins(first, order) /\ \A class \in Classes : Thinned(list, first, order, class, n)
  BY <1>3, AllThinned
<1>5. results = f[n]
  <2>1. Len(order) = n
    BY <1>3, <1>4 DEF Thins
  <2>2. results = Loop(ctx, Len(order))[Len(order)]
    BY DEF post_process, Loop, LoopBody, Turn, ResultAt, sorted, first
  <2> QED BY <2>1, <2>2
<1> HIDE DEF order, results
<1>6. Listed(ctx, f[n], n)
  <2> DEFINE S == {k \in 0 .. n : Listed(ctx, f[k], k)}
  <2>1. f[0] = <<>> /\ \A k \in 1 .. n : f[k] = Turn(ctx, f[k - 1], k)
    <3>1. f[0] = ctx.base /\ \A k \in 1 .. n : f[k] = Turn(ctx, f[k - 1], k)
      <4> HIDE DEF ctx
      <4> QED BY <1>1, LoopRuns, Zenon
    <3> QED BY <3>1
  <2>2. ctx.loop = "results"
    OBVIOUS
  <2> HIDE DEF ctx, f
  <2>3. 0 \in S
    <3>1. ListedBy(ctx, <<>>, 0, <<>>)
      BY DetectionAssumption DEF ListedBy
    <3> QED BY <1>1, <2>1, <3>1 DEF Listed
  <2>4. ASSUME NEW k \in 1 .. n, k - 1 \in S PROVE k \in S
    <3>1. k \in Nat \ {0} /\ k \in 0 .. n
      BY <1>1
    <3>2. Listed(ctx, Turn(ctx, f[k - 1], k), k)
      BY <2>2, <2>4, <3>1, PlaceListed
    <3> QED BY <2>1, <3>1, <3>2
  <2>5. n \in S
    <3> HIDE DEF S
    <3>1. \A k \in 0 .. n : k \in S
      BY <1>1, <2>3, <2>4, Loops!UpTo
    <3> QED BY <1>1, <3>1
  <2> QED BY <2>5
<1>7. PICK pos : ListedBy(ctx, results, n, pos)
  BY <1>5, <1>6, Zenon DEF Listed
<1> DEFINE len == Len(results)
<1>8. /\ len \in Nat /\ len = Len(pos) /\ len <= OBJ_NUMB_MAX_SIZE
      /\ \A i \in 1 .. len : /\ pos[i] \in 1 .. n /\ order[pos[i]] # -1
                             /\ results[i].prob = sorted[pos[i]].prob
                             /\ results[i].class = list[order[pos[i]]].class
                             /\ results[i].of = order[pos[i]]
                             /\ results[i].box
                                  = BackInPicture(list[order[pos[i]]].box, lb, model)
      /\ \A i, j \in 1 .. len : i < j => pos[i] < pos[j]
      /\ len < OBJ_NUMB_MAX_SIZE =>
            \A m \in 1 .. n : order[m] # -1 => \E i \in 1 .. len : pos[i] = m
  <2>1. /\ ctx.order = order /\ ctx.sorted = sorted /\ ctx.objects = list
        /\ ctx.letter_box = lb /\ ctx.model = model
    OBVIOUS
  <2> HIDE DEF ctx
  <2>2. /\ pos \in Seq(1 .. n) /\ len = Len(pos) /\ len <= OBJ_NUMB_MAX_SIZE
        /\ \A i \in 1 .. len : order[pos[i]] # -1 /\ results[i] = ResultAt(ctx, pos[i])
        /\ \A i, j \in 1 .. len : i < j => pos[i] < pos[j]
        /\ len < OBJ_NUMB_MAX_SIZE =>
              \A m \in 1 .. n : order[m] # -1 => \E i \in 1 .. len : pos[i] = m
    BY <1>7, <2>1 DEF ListedBy
  <2>3. len \in Nat /\ \A i \in 1 .. len : pos[i] \in 1 .. n
    <3>1. pos \in Seq(1 .. n) /\ len = Len(pos)
      BY <2>2
    <3>2. ASSUME NEW D, pos \in Seq(D)
          PROVE  Len(pos) \in Nat /\ \A i \in 1 .. Len(pos) : pos[i] \in D
      BY <3>2
    <3> HIDE DEF len
    <3> QED BY <3>1, <3>2, Zenon
  <2>4. \A k : /\ ResultAt(ctx, k).prob = sorted[k].prob
               /\ ResultAt(ctx, k).class = list[order[k]].class
               /\ ResultAt(ctx, k).of = order[k]
               /\ ResultAt(ctx, k).box = BackInPicture(list[order[k]].box, lb, model)
    BY <2>1 DEF ResultAt
  <2> HIDE DEF len
  <2> QED BY <2>2, <2>3, <2>4
<1> HIDE DEF f, ctx, len
<1>9. ASSUME NEW k \in 1 .. n, order[k] # -1
      PROVE  order[k] = first[k] /\ order[k] = sorted[k].index /\ order[k] \in 1 .. n
             /\ list[order[k]].prob = sorted[k].prob
  <2>1. order[k] = first[k]
    BY <1>1, <1>3, <1>4, <1>9 DEF Thins, IsFirst
  <2> QED BY <1>3, <1>21, <2>1
<1>10. ASSUME NEW i \in 1 .. len
       PROVE  /\ results[i].class = list[results[i].of].class /\ results[i].class \in Classes
              /\ results[i].prob = list[results[i].of].prob /\ results[i].prob \in Int
  <2> DEFINE k == pos[i]
  <2>1. k \in 1 .. n /\ order[k] # -1 /\ results[i].prob = sorted[k].prob
        /\ results[i].class = list[order[k]].class /\ results[i].of = order[k]
    BY <1>8
  <2> HIDE DEF k
  <2>2. order[k] \in 1 .. n /\ list[order[k]].prob = sorted[k].prob
    BY <1>9, <2>1
  <2> QED BY <1>1, <2>1, <2>2
<1>11. ASSUME NEW i \in 1 .. len, NEW j \in 1 .. len, i < j
       PROVE  /\ results[i].prob >= results[j].prob
              /\ results[i].of # results[j].of
              /\ list[results[i].of].class = list[results[j].of].class
                   => ~Overlap(list[results[i].of].box, list[results[j].of].box)
  <2> DEFINE k == pos[i]
             l == pos[j]
  <2>1. /\ k \in 1 .. n /\ l \in 1 .. n /\ k < l /\ order[k] # -1 /\ order[l] # -1
        /\ results[i].of = order[k] /\ results[j].of = order[l]
        /\ results[i].prob = sorted[k].prob /\ results[j].prob = sorted[l].prob
    BY <1>8, <1>11
  <2> HIDE DEF k, l
  <2>2. results[i].prob >= results[j].prob
    BY <1>22, <2>1
  <2>3. order[k] # order[l]
    <3>1. order[k] = sorted[k].index /\ order[l] = sorted[l].index /\ k # l
      BY <1>9, <2>1
    <3> QED BY <1>23, <2>1, <3>1, Zenon
  <2>4. ASSUME list[order[k]].class = list[order[l]].class,
               Overlap(list[order[k]].box, list[order[l]].box)
        PROVE  FALSE
    <3> DEFINE class == list[order[k]].class
    <3>1. order[k] = first[k] /\ order[l] = first[l] /\ class \in Classes
      BY <1>1, <1>9, <2>1
    <3>2. /\ OfClass(list, first, k, class) /\ OfClass(list, first, l, class)
          /\ Hit(list, first, k, l)
      BY <2>4, <3>1 DEF OfClass, Hit
    <3>3. l \in k + 1 .. Len(first)
      BY <1>1, <1>3, <2>1
    <3> HIDE DEF class
    <3>4. Thinned(list, first, order, class, n)
      BY <1>4, <3>1
    <3> QED BY <2>1, <3>2, <3>3, <3>4, Zenon DEF Thinned, Apart
  <2> QED BY <2>1, <2>2, <2>3, <2>4
<1>12. ASSUME len < OBJ_NUMB_MAX_SIZE, NEW m \in 1 .. n
       PROVE  \E i \in 1 .. len :
                 \/ results[i].of = m
                 \/ /\ list[results[i].of].class = list[m].class
                    /\ list[results[i].of].prob >= list[m].prob
                    /\ Overlap(list[results[i].of].box, list[m].box)
  <2>1. PICK l \in 1 .. n : sorted[l].index = m
    BY <1>2
  <2>2. first[l] = m /\ sorted[l].prob = list[m].prob
    BY <1>3, <1>21, <2>1
  <2>3. CASE order[l] # -1
    <3>1. PICK i \in 1 .. len : pos[i] = l
      BY <1>8, <1>12, <2>3
    <3>2. results[i].of = m
      BY <1>8, <1>9, <2>2, <2>3, <3>1
    <3> QED BY <3>2
  <2>4. CASE order[l] = -1
    <3> DEFINE class == list[m].class
    <3>1. class \in Classes /\ OfClass(list, first, l, class)
      BY <1>1, <2>2 DEF OfClass
    <3>2. Thinned(list, first, order, class, n)
      BY <1>4, <3>1
    <3>3. l \in 1 .. Len(first)
      BY <1>3
    <3> HIDE DEF class
    <3>4. PICK k \in 1 .. n : /\ k < l /\ order[k] # -1
                             /\ OfClass(list, first, k, class) /\ Hit(list, first, k, l)
      BY <2>4, <3>1, <3>2, <3>3, Zenon DEF Thinned, Beaten
    <3>5. PICK i \in 1 .. len : pos[i] = k
      BY <1>8, <1>12, <3>4
    <3>6. results[i].of = order[k] /\ order[k] = first[k] /\ list[order[k]].prob = sorted[k].prob
      BY <1>8, <1>9, <3>4, <3>5
    <3>7. list[results[i].of].class = class /\ Overlap(list[results[i].of].box, list[m].box)
      BY <2>2, <3>4, <3>6 DEF OfClass, Hit
    <3>8. list[results[i].of].prob >= list[m].prob
      <4>1. sorted[k].prob >= sorted[l].prob
        BY <1>22, <3>4
      <4> QED BY <2>2, <3>6, <4>1
    <3> QED BY <3>7, <3>8 DEF class
  <2> QED BY <2>3, <2>4
<1>13. BestOfEachClass(list, results)
  BY <1>1, <1>10, <1>11, <1>12, Zenon DEF BestOfEachClass, len
<1>14. ASSUME NEW k \in DOMAIN results
       PROVE  \E m \in DOMAIN list :
                 results[k].box = BackInPicture(list[m].box, lb, model)
  <2>1. k \in 1 .. len
    BY <1>7 DEF ListedBy, len
  <2>2. pos[k] \in 1 .. n /\ order[pos[k]] # -1
        /\ results[k].box = BackInPicture(list[order[pos[k]]].box, lb, model)
    BY <1>8, <2>1
  <2>3. order[pos[k]] \in DOMAIN list
    BY <1>1, <1>9, <2>2
  <2> QED BY <2>2, <2>3
<1> QED BY <1>13, <1>14 DEF results

-----------------------------------------------------------------------------
(* One picture on its way through the recognition.                          *)

\* A set of numbers that are bounded has a largest one.
LEMMA Largest ==
  ASSUME NEW b \in Nat, NEW S \in SUBSET (0 .. b), S # {}
  PROVE  Max(S) \in S
<1> DEFINE T == {b - x : x \in S}
<1>1. T \subseteq Nat /\ T # {}
  <2>1. PICK x \in S : TRUE
    OBVIOUS
  <2>2. b - x \in T
    BY <2>1, Zenon
  <2>3. \A y \in S : b - y \in Nat
    OBVIOUS
  <2> QED BY <2>2, <2>3
<1>2. PICK y \in T : \A z \in T : <<z, y>> \notin OpToRel(<, Nat)
  BY <1>1, NatLessThanWellFounded, WFMin
<1>3. \A z \in T : ~ (z < y)
  BY <1>1, <1>2 DEF OpToRel
<1>4. PICK x \in S : y = b - x
  BY <1>2
<1>5. ASSUME NEW z \in S PROVE x >= z
  <2>1. b - z \in T
    BY Zenon
  <2>2. ~ (b - z < b - x)
    BY <1>3, <1>4, <2>1, Zenon
  <2>3. z \in Int /\ x \in Int
    <3> HIDE DEF T
    <3> QED BY SMT
  <2> QED
    <3> HIDE DEF T
    <3> QED BY <2>2, <2>3
<1> QED BY <1>4, <1>5 DEF Max

\* What is clamped is in the range, whatever it was: the boxes of post_process are made of
\* such numbers (lines 646-649).
LEMMA Clamped ==
  ASSUME NEW val, NEW max \in Nat
  PROVE  clamp(val, 0, max) \in 0 .. max
<1> DEFINE S == {0} \cup {n \in 0 .. max : n <= val}
<1>1. S \in SUBSET (0 .. max) /\ S # {}
  OBVIOUS
<1> HIDE DEF S
<1>2. Max(S) \in S
  BY <1>1, Largest
<1> QED BY <1>1, <1>2 DEF clamp, S

\* A box that came back from the model's input.
IsBox(box) == {box.left, box.top, box.right, box.bottom} \subseteq Nat

LEMMA BackIsBox ==
  ASSUME NEW box, NEW lb, lb.num \in Nat \ {0}, lb.den \in Nat,
         NEW model, model.width \in Nat, model.height \in Nat
  PROVE  IsBox(BackInPicture(box, lb, model))
<1> DEFINE Back(v, max) == (clamp(v, 0, max) * lb.den) \div lb.num
<1>1. ASSUME NEW v, NEW max \in Nat PROVE Back(v, max) \in Nat
  <2> DEFINE c == clamp(v, 0, max)
  <2>1. c \in Nat
    BY Clamped
  <2> HIDE DEF c
  <2>2. c * lb.den \in Nat
    BY <2>1, Z3
  <2>3. \A n \in Nat, d \in Nat \ {0} : n \div d \in Nat
    BY Z3
  <2> QED BY <2>2, <2>3 DEF c
<1>2. BackInPicture(box, lb, model)
        = [left   |-> Back(box.x - lb.x_pad, model.width),
           top    |-> Back(box.y - lb.y_pad, model.height),
           right  |-> Back(box.x - lb.x_pad + box.w, model.width),
           bottom |-> Back(box.y - lb.y_pad + box.h, model.height)]
  BY DEF BackInPicture
<1> HIDE DEF Back
<1> QED BY <1>1, <1>2 DEF IsBox

\* So is every box of the list, whatever the sorting and the dropping have done.
LEMMA ListHasBoxes ==
  ASSUME NEW list, IsObjects(list), NEW lb, lb.num \in Nat \ {0}, lb.den \in Nat,
         NEW model, model.width \in Nat, model.height \in Nat,
         NEW k \in DOMAIN post_process(list, lb, model)
  PROVE  IsBox(post_process(list, lb, model)[k].box)
<1>1. \A l \in DOMAIN post_process(list, lb, model) : \E m \in DOMAIN list :
         post_process(list, lb, model)[l].box = BackInPicture(list[m].box, lb, model)
  BY PostProcessed
<1>2. PICK m \in DOMAIN list :
         post_process(list, lb, model)[k].box = BackInPicture(list[m].box, lb, model)
  BY <1>1, Zenon
<1> QED BY <1>2, BackIsBox

\* A square picture fits into the input of a model with some pixels to show for it, where the
\* input has four lines and columns at least (rounding takes off three columns at most).
LEMMA SquareFits ==
  ASSUME NEW src, Some(src), src.width = src.height,
         NEW dst, Some(dst), dst.width >= 4, dst.height >= 4
  PROVE  LET box == letterbox(src, dst).dst_box
         IN  /\ {box.left, box.top, box.right, box.bottom} \subseteq Nat
             /\ box.left <= box.right /\ box.right < dst.width
             /\ box.top <= box.bottom /\ box.bottom < dst.height
<1> DEFINE side == src.width
<1>1. side \in Nat \ {0} /\ src.height = side
  BY DEF Some
<1>2. \A n \in Nat : (side * n) \div side = n
  <2> HIDE DEF side
  <2> SUFFICES ASSUME NEW n \in Nat PROVE (side * n) \div side = n
    OBVIOUS
  <2> DEFINE q == (side * n) \div side
  <2>1. q \in Nat /\ side * q <= side * n /\ side * n < side * (q + 1)
    BY <1>1, Z3
  <2> HIDE DEF q
  <2>2. q <= n /\ n < q + 1
    BY <1>1, <2>1, Z3
  <2> QED BY <2>1, <2>2 DEF q
<1>3. (dst.width * src.height < dst.height * src.width) <=> dst.width < dst.height
  <2>1. \A a, b \in Nat : a * side < b * side <=> a < b
    <3> HIDE DEF side
    <3> QED BY <1>1, Z3
  <2> QED BY <1>1, <2>1 DEF Some
<1> USE DEF Some
<1>4. CASE dst.width < dst.height
  <2> DEFINE resize == Even(dst.width)
             top == Even((dst.height - resize) \div 2)
  <2>1. letterbox(src, dst).dst_box = [left |-> 0, top |-> top, right |-> dst.width - 1,
                                       bottom |-> top + resize - 1]
    <3>1. (src.height * dst.width) \div src.width = dst.width
      BY <1>1, <1>2
    <3> QED BY <1>3, <1>4, <3>1 DEF letterbox
  <2>2. resize \in Nat /\ 1 <= resize /\ resize < dst.height
    BY <1>4 DEF Even
  <2> HIDE DEF resize
  <2>3. top \in Nat /\ top + resize <= dst.height
    BY <2>2 DEF Even
  <2> HIDE DEF top
  <2> QED BY <2>1, <2>2, <2>3
<1>5. CASE ~(dst.width < dst.height)
  <2> DEFINE resize == dst.height - (dst.height % 4)
             left == Even((dst.width - resize) \div 2)
  <2>1. letterbox(src, dst).dst_box = [left |-> left, top |-> 0, right |-> left + resize - 1,
                                       bottom |-> dst.height - 1]
    <3>1. (src.width * dst.height) \div src.height = dst.height
      BY <1>1, <1>2
    <3> QED BY <1>3, <1>5, <3>1 DEF letterbox
  <2>2. resize \in Nat /\ 1 <= resize /\ resize <= dst.width
    BY <1>5
  <2> HIDE DEF resize
  <2>3. left \in Nat /\ left + resize <= dst.width
    BY <2>2 DEF Even
  <2> HIDE DEF left
  <2> QED BY <2>1, <2>2, <2>3
<1> QED BY <1>4, <1>5

\* The place of a byte in a buffer.
Offset(channel, w, x, y, c) == (y * w + x) * channel + c

\* A box that is all of the picture is written to the last byte: every byte belongs to a pixel.
LEMMA WholeBox ==
  ASSUME NEW w \in Nat, NEW h \in Nat, NEW channel \in Nat \ {0},
         NEW box, box.left = 0, box.right = w - 1, box.top = 0, box.bottom = h - 1
  PROVE  0 .. w * h * channel - 1 \subseteq ScaleWrites(channel, w, box)
<1> SUFFICES ASSUME NEW b \in 0 .. w * h * channel - 1 PROVE b \in ScaleWrites(channel, w, box)
  OBVIOUS
<1>0. w * h \in Nat /\ w * h * channel \in Nat
  BY Z3
<1> DEFINE p == b \div channel
           c == b % channel
<1>1. b \in Nat /\ b < (w * h) * channel
  BY <1>0
<1>2. p \in Nat /\ c \in 0 .. channel - 1 /\ b = p * channel + c
  BY <1>1, Z3
<1>3. p < w * h
  <2> HIDE DEF p, c
  <2>1. p * channel < (w * h) * channel
    BY <1>1, <1>2
  <2> QED BY <1>0, <1>2, <2>1, Z3
<1> HIDE DEF p, c
<1>4. w # 0
  BY <1>2, <1>3, Z3
<1> DEFINE y == p \div w
           x == p % w
<1>5. y \in Nat /\ x \in 0 .. w - 1 /\ p = y * w + x
  BY <1>2, <1>4, Z3
<1>6. y < h
  <2> HIDE DEF x, y
  <2>1. y * w < h * w
    BY <1>2, <1>3, <1>5, Z3
  <2> QED BY <1>4, <1>5, <2>1, Z3
<1>7. y \in 0 .. h - 1 /\ b = (y * w + x) * channel + c
  BY <1>2, <1>5, <1>6
<1> HIDE DEF x, y
<1>8. b = Offset(channel, w, x, y, c) /\ x \in 0 .. w - 1 /\ y \in 0 .. h - 1 /\ c \in 0 .. channel - 1
  BY <1>2, <1>5, <1>7, Zenon DEF Offset
<1>9. ScaleWrites(channel, w, box)
        = {Offset(channel, w, i, j, k) : j \in 0 .. h - 1, i \in 0 .. w - 1, k \in 0 .. channel - 1}
  BY DEF ScaleWrites, Offset
<1> QED BY <1>8, <1>9

\* convert_image_cpu fills the whole of the target: the box, and, where that is smaller, the
\* rest too.
LEMMA ScaleFills ==
  ASSUME NEW src, src.format = "RGB888",
         NEW dst, dst.format = "RGB888", dst.width \in Nat, dst.height \in Nat,
         NEW from, NEW box, {box.left, box.top, box.right, box.bottom} \subseteq Nat,
         box.left <= box.right, box.right < dst.width,
         box.top <= box.bottom, box.bottom < dst.height
  PROVE  convert_image_cpu(src, dst, from, box).writes = Offsets(dst)
<1> DEFINE w == dst.width
           h == dst.height
           writes == ScaleWrites(3, w, box)
<1>1. Offsets(dst) = 0 .. w * h * 3 - 1 /\ get_image_size(dst) = w * h * 3
  BY DEF Offsets, get_image_size, Channels, Yuv
<1>2. convert_image_cpu(src, dst, from, box).writes
        = writes \cup (IF BoxWidth(box) # w \/ BoxHeight(box) # h THEN 0 .. w * h * 3 - 1 ELSE {})
  BY <1>1 DEF convert_image_cpu, Channels
<1>3. writes \subseteq 0 .. w * h * 3 - 1
  <2> SUFFICES ASSUME NEW y \in box.top .. box.bottom, NEW x \in box.left .. box.right,
                      NEW c \in 0 .. 2
               PROVE  (y * w + x) * 3 + c \in 0 .. w * h * 3 - 1
    BY DEF ScaleWrites
  <2>1. x \in 0 .. w - 1 /\ y \in 0 .. h - 1
    OBVIOUS
  <2>2. y * w + x \in 0 .. h * w - 1
    BY <2>1, PixelInside
  <2>3. h * w \in Nat /\ h * w = w * h
    BY Z3
  <2>4. (y * w + x) * 3 + c \in 0 .. (h * w) * 3 - 1
    BY <2>2, <2>3, PixelInside
  <2> QED BY <2>3, <2>4
<1>4. CASE BoxWidth(box) = w /\ BoxHeight(box) = h
  <2>1. box.left = 0 /\ box.right = w - 1 /\ box.top = 0 /\ box.bottom = h - 1
    BY <1>4 DEF BoxWidth, BoxHeight
  <2>2. w \in Nat /\ h \in Nat /\ 3 \in Nat \ {0}
    OBVIOUS
  <2>3. 0 .. w * h * 3 - 1 \subseteq writes
    <3> HIDE DEF w, h
    <3> QED BY <2>1, <2>2, WholeBox, Zenon
  <2> QED BY <1>1, <1>2, <1>3, <1>4, <2>3
<1> QED BY <1>1, <1>2, <1>3, <1>4

\* The frame of an object begins inside the picture and is a pixel wide and high at least,
\* wherever the object is (lines 86-95 of drawDetections).
LEMMA MarkedInside ==
  ASSUME NEW image, Some(image), NEW box, IsBox(box)
  PROVE  LET m == Marked(image, box)
         IN  /\ m.x1 \in 0 .. image.width - 1 /\ m.y1 \in 0 .. image.height - 1
             /\ m.x2 - m.x1 \in Nat /\ m.y2 - m.y1 \in Nat
<1>1. ASSUME NEW size \in Nat \ {0}, NEW low \in Nat, NEW high \in Nat
      PROVE  LET first == Larger(0, Smaller(low, size - 1))
             IN  /\ first \in 0 .. size - 1
                 /\ Larger(first + 1, Smaller(high, size - 1)) - first \in Nat
  BY DEF Larger, Smaller
<1>2. /\ image.width \in Nat \ {0} /\ image.height \in Nat \ {0}
      /\ box.left \in Nat /\ box.right \in Nat /\ box.top \in Nat /\ box.bottom \in Nat
  BY DEF Some, IsBox
<1> QED BY <1>1, <1>2 DEF Marked

\* A frame with lines of three pixels that begins in the picture can be seen.
LEMMA RingSeen ==
  ASSUME NEW w \in Nat, NEW h \in Nat, NEW x \in 0 .. w - 1, NEW y \in 0 .. h - 1,
         NEW rw \in Nat, NEW rh \in Nat
  PROVE  Ring(w, h, x, y, rw, rh, 3) # {}
<1>1. 3 \div 2 = 1
  OBVIOUS
<1>2. Ring(w, h, x, y, rw, rh, 3)
        = Area(w, h, x - 1, x + rw + 2, y - 1, y + rh + 2)
          \ Area(w, h, x + 2, x + rw - 1, y + 2, y + rh - 1)
  BY <1>1 DEF Ring
<1>3. <<x, y>> \in Area(w, h, x - 1, x + rw + 2, y - 1, y + rh + 2)
  BY DEF Area
<1>4. <<x, y>> \notin Area(w, h, x + 2, x + rw - 1, y + 2, y + rh - 1)
  BY DEF Area
<1> QED BY <1>2, <1>3, <1>4

\* What draw_rectangle draws for an object is such a frame.
LEMMA FrameIsRing ==
  ASSUME NEW image, Some(image), image.format = "RGB888", NEW box, IsBox(box)
  PROVE  LET m == Marked(image, box)
             ring == Ring(image.width, image.height, m.x1, m.y1, m.x2 - m.x1, m.y2 - m.y1, 3)
         IN  /\ draw_rectangle(image, m.x1, m.y1, m.x2 - m.x1, m.y2 - m.y1, 3)
                  = Bytes(3, image.width, ring)
             /\ ring # {}
<1> DEFINE m == Marked(image, box)
           w == image.width
           h == image.height
<1>1. /\ m.x1 \in 0 .. w - 1 /\ m.y1 \in 0 .. h - 1
      /\ m.x2 - m.x1 \in Nat /\ m.y2 - m.y1 \in Nat /\ w \in Nat /\ h \in Nat
  BY MarkedInside DEF Some
<1> DEFINE rw == m.x2 - m.x1
           rh == m.y2 - m.y1
           x == m.x1
           y == m.y1
<1> HIDE DEF m
<1>2. x \in Int /\ y \in Int /\ rw \in Nat /\ rh \in Nat
  BY <1>1
<1>3. draw_rectangle(image, x, y, rw, rh, 3) = Bytes(3, w, Rectangle(w, h, x, y, rw, rh, 3))
  BY Zenon DEF draw_rectangle, draw_rectangle_c3, Yuv
<1> HIDE DEF x, y, rw, rh, w, h
<1>4. Rectangle(w, h, x, y, rw, rh, 3) = Ring(w, h, x, y, rw, rh, 3)
  <2>1. w \in Nat /\ h \in Nat /\ 3 \in Nat \ {0}
    BY <1>1
  <2> QED BY <1>2, <2>1, RectangleIsRing, SMTT(30)
<1>5. Ring(w, h, x, y, rw, rh, 3) # {}
  BY <1>1, <1>2, RingSeen DEF x, y
<1> QED BY <1>3, <1>4, <1>5 DEF m, x, y, rw, rh, w, h

-----------------------------------------------------------------------------
(* The picture on its way: the inductive invariant says what each step has left. *)

\* The picture is of the scenes from the first step on.
SceneInv ==
    /\ step \in {"picture", "letterbox", "outputs", "draw", "done"}
    /\ step # "picture" => scene \in Scene

\* What scaling has left.
BoxInv ==
    step \in {"outputs", "draw", "done"} =>
        /\ letter_box = letterbox(img, dst_img)
        /\ converted = convert_image_with_letterbox(img, dst_img, letter_box.dst_box)

\* What post_process has left, and what was drawn of it.
ListInv ==
    step \in {"draw", "done"} =>
        objects = Objects /\ od_results = post_process(objects, letter_box, scene.model)
DrawnInv == drawn = IF step = "done" THEN drawDetections(img, od_results) ELSE {}

VisionInv == SceneInv /\ BoxInv /\ ListInv /\ DrawnInv

\* Both pictures have pixels.
LEMMA PicturesHavePixels ==
  ASSUME VisionInv, step # "picture"
  PROVE  /\ Some(img) /\ img.width = Side /\ img.height = Side /\ img.format = "RGB888" /\ Side > 1
         /\ Some(dst_img) /\ dst_img.format = "RGB888"
         /\ dst_img.width = scene.model.width /\ dst_img.height = scene.model.height
         /\ dst_img.width >= 4 /\ dst_img.height >= 4
<1>1. /\ scene.model.width \in Nat /\ scene.model.height \in Nat
      /\ scene.model.width >= 4 /\ scene.model.height >= 4
  BY VisionAssumption DEF VisionInv, SceneInv
<1>2. Side \in Nat \ {0} /\ Side > 1
  BY VisionAssumption
<1> QED BY <1>1, <1>2 DEF img, dst_img, Rgb, Some

\* The factor of a letterbox is a number: no picture is without a line or a column.
LEMMA FactorIsNumber ==
  ASSUME NEW src, Some(src), NEW dst, Some(dst)
  PROVE  letterbox(src, dst).num \in Nat \ {0} /\ letterbox(src, dst).den \in Nat
  BY DEF letterbox, Some

LEMMA VisionInitial == VisionInit => VisionInv
  BY DEF VisionInit, VisionInv, SceneInv, BoxInv, ListInv, DrawnInv

\* Each step leaves what the invariant says of it.
LEMMA VisionKeeps == VisionInv /\ [VisionNext]_visionVars => VisionInv'
<1> SUFFICES ASSUME VisionInv, [VisionNext]_visionVars PROVE VisionInv'
  OBVIOUS
<1>1. img' = img
  BY DEF img, Rgb
<1>2. CASE TakePicture
  BY <1>1, <1>2 DEF TakePicture, VisionInv, SceneInv, BoxInv, ListInv, DrawnInv
<1>3. CASE LetterBox
  <2>1. /\ step = "letterbox" /\ step' = "outputs" /\ UNCHANGED <<scene, objects, od_results, drawn>>
        /\ letter_box' = letterbox(img, dst_img)
        /\ converted' = convert_image_with_letterbox(img, dst_img, letter_box'.dst_box)
    BY <1>3 DEF LetterBox
  <2>2. dst_img' = dst_img
    BY <2>1 DEF dst_img, Rgb
  <2> QED BY <1>1, <2>1, <2>2 DEF VisionInv, SceneInv, BoxInv, ListInv, DrawnInv
<1>4. CASE PostProcess
  <2>1. /\ step = "outputs" /\ step' = "draw" /\ UNCHANGED <<scene, letter_box, converted, drawn>>
        /\ objects' = Objects /\ od_results' = post_process(objects', letter_box, scene.model)
    BY <1>4 DEF PostProcess
  <2>2. dst_img' = dst_img
    BY <2>1 DEF dst_img, Rgb
  <2>3. SceneInv' /\ BoxInv' /\ DrawnInv'
    BY <1>1, <2>1, <2>2 DEF VisionInv, SceneInv, BoxInv, DrawnInv
  <2>4. Objects' = Objects
    BY <2>1 DEF Objects
  <2>5. ListInv'
    BY <2>1, <2>4 DEF ListInv
  <2> QED BY <2>3, <2>5 DEF VisionInv
<1>5. CASE Draw
  <2>1. /\ step = "draw" /\ step' = "done" /\ drawn' = drawDetections(img, od_results)
        /\ UNCHANGED <<scene, letter_box, converted, objects, od_results>>
    BY <1>5 DEF Draw
  <2>2. dst_img' = dst_img
    BY <2>1 DEF dst_img, Rgb
  <2>3. Objects' = Objects
    BY <2>1 DEF Objects
  <2> QED BY <1>1, <2>1, <2>2, <2>3 DEF VisionInv, SceneInv, BoxInv, ListInv, DrawnInv
<1>6. CASE UNCHANGED visionVars
  <2>1. dst_img' = dst_img /\ Objects' = Objects
    BY <1>6 DEF visionVars, dst_img, Rgb, Objects
  <2> QED BY <1>1, <1>6, <2>1 DEF visionVars, VisionInv, SceneInv, BoxInv, ListInv, DrawnInv
<1> QED BY <1>2, <1>3, <1>4, <1>5, <1>6 DEF VisionNext

\* The scaled picture: read inside, written to the last byte, in a box that is not empty.
LEMMA ScaledInside ==
  ASSUME VisionInv, step \notin {"picture", "letterbox"}
  PROVE  LET box == letter_box.dst_box IN
         /\ 0 <= box.left /\ box.left <= box.right /\ box.right < dst_img.width
         /\ 0 <= box.top /\ box.top <= box.bottom /\ box.bottom < dst_img.height
         /\ converted.reads \subseteq Buffer(img)
         /\ converted.writes = Buffer(dst_img)
<1> DEFINE box == letter_box.dst_box
<1>1. /\ letter_box = letterbox(img, dst_img)
      /\ converted = convert_image_cpu(img, dst_img, Whole(img), box)
  BY DEF VisionInv, SceneInv, BoxInv, convert_image_with_letterbox
<1>2. /\ Some(img) /\ img.width = img.height /\ img.format = "RGB888"
      /\ img.width > 1 /\ img.height > 1
      /\ Some(dst_img) /\ dst_img.format = "RGB888"
      /\ dst_img.width >= 4 /\ dst_img.height >= 4
  BY PicturesHavePixels
<1>3. /\ {box.left, box.top, box.right, box.bottom} \subseteq Nat
      /\ box.left <= box.right /\ box.right < dst_img.width
      /\ box.top <= box.bottom /\ box.bottom < dst_img.height
  BY <1>1, <1>2, SquareFits
<1> HIDE DEF box
<1>4. converted.writes = Buffer(dst_img)
  BY <1>1, <1>2, <1>3, ScaleFills DEF Some, Offsets, Buffer
<1>5. converted.reads \subseteq Buffer(img)
  <2>1. converted.reads = ScaleReads(3, img.width, img.height, Whole(img), box)
    BY <1>1, <1>2 DEF convert_image_cpu, Channels
  <2>2. Buffer(img) = 0 .. img.width * img.height * 3 - 1
    BY <1>2 DEF Buffer, get_image_size, Channels, Yuv
  <2>3. BoxWidth(box) \in Nat /\ BoxHeight(box) \in Nat
    BY <1>3 DEF BoxWidth, BoxHeight
  <2>4. 3 \in Nat /\ img.width \in Nat /\ img.height \in Nat
    BY <1>2 DEF Some
  <2> QED BY <1>2, <2>1, <2>2, <2>3, <2>4, ScaleReadsInside, Zenon
<1>6. 0 <= box.left /\ 0 <= box.top
  BY <1>3
<1> QED BY <1>3, <1>4, <1>5, <1>6 DEF box

\* There is an object for each of the cells that hold something, whether the outputs are
\* quantised or not.
LEMMA CellsThatHold ==
  ASSUME VisionInv, step # "picture"
  PROVE  IsObjects(Objects) /\ Len(Objects) = Cardinality(Holding)
<1> DEFINE least == IF scene.quant THEN ScoreThres ELSE ScoreThres - ScoreZp
           first == IF scene.quant THEN FirstScore ELSE 0
           outputs == scene.outputs
           hasSum == scene.hasSum
           passing == {k \in DOMAIN outputs : Passes(outputs[k], least, first, hasSum)}
<1>1. least \in Int /\ first \in Int /\ first <= least
  BY DetectionAssumption DEF FirstScore, Wrap8
<1>2. Objects = Candidates(outputs, least, first, hasSum)
  BY DEF Objects, process_i8, process_fp32
<1>3. IsCells(outputs)
  <2>1. outputs \in Seq(Cell)
    BY VisionAssumption DEF VisionInv, SceneInv
  <2>2. Len(outputs) \in Nat /\ DOMAIN outputs = 1 .. Len(outputs)
    BY <2>1
  <2>3. \A k \in DOMAIN outputs : outputs[k] \in Cell
    <3> HIDE DEF outputs
    <3> QED BY <2>1, <2>2
  <2> QED BY <2>2, <2>3 DEF IsCells, Cell
<1>4. Holding = {k \in DOMAIN outputs : /\ \E c \in Classes : outputs[k].score[c] > least
                                        /\ hasSum => outputs[k].sum >= least}
  BY DEF Holding
<1> HIDE DEF least, first, outputs, hasSum
<1>5. passing = Holding
  <2>1. ASSUME NEW k \in DOMAIN outputs
        PROVE  Passes(outputs[k], least, first, hasSum)
                 <=> /\ \E c \in Classes : outputs[k].score[c] > least
                     /\ hasSum => outputs[k].sum >= least
    <3>1. MaxScore(outputs[k].score, least, first).score > least
            <=> \E c \in Classes : outputs[k].score[c] > least
      BY <1>1, <1>3, Scored DEF IsCells
    <3> QED BY <3>1, Zenon DEF Passes
  <2> QED BY <1>4, <2>1, Zenon
<1>6. /\ IsObjects(Candidates(outputs, least, first, hasSum))
      /\ Len(Candidates(outputs, least, first, hasSum)) = Cardinality(passing)
  BY <1>1, <1>3, OneForEachCell
<1> QED BY <1>2, <1>5, <1>6, Zenon

\* Whatever the list holds, drawing stays in the picture.
LEMMA DetectionsInside ==
  ASSUME NEW image, Picture(image), NEW list
  PROVE  drawDetections(image, list) \subseteq Offsets(image)
<1>1. \A k \in DOMAIN list : Frame(image, list[k].box) \subseteq Offsets(image)
  BY RectangleInside, Zenon DEF Frame
<1>2. \A k \in DOMAIN list : Caption(image, list[k].box) \subseteq Offsets(image)
  BY TextInside, Zenon DEF Caption
<1> QED BY <1>1, <1>2 DEF drawDetections

\* Whatever the model puts out, for pictures and inputs of any size: scaling reads bytes of the
\* picture and fills the model's input, drawing writes bytes of the picture, and every object
\* of the list gets a frame that can be seen.
THEOREM PicturesCorrect == VisionSpec => []PicturesInside
<1>1. ASSUME VisionInv PROVE PicturesInside
  <2>1. Buffer(img) = Offsets(img)
    BY DEF Buffer, Offsets
  <2>2. drawn \subseteq Buffer(img)
    <3>1. CASE step = "done"
      <4>1. Picture(img)
        BY <1>1, <3>1, PicturesHavePixels DEF Picture, Some, Format, Yuv
      <4> QED BY <1>1, <2>1, <3>1, <4>1, DetectionsInside DEF VisionInv, DrawnInv
    <3>2. CASE step # "done"
      BY <1>1, <3>2 DEF VisionInv, DrawnInv
    <3> QED BY <3>1, <3>2
  <2>3. ASSUME step = "done", NEW k \in DOMAIN od_results
        PROVE  LET m == Marked(img, od_results[k].box)
                   ring == Ring(Side, Side, m.x1, m.y1, m.x2 - m.x1, m.y2 - m.y1, 3)
                   frame == draw_rectangle(img, m.x1, m.y1, m.x2 - m.x1, m.y2 - m.y1, 3)
               IN  /\ frame = Bytes(3, Side, ring) /\ ring # {}
                   /\ frame \subseteq drawn
    <3>1. IsBox(od_results[k].box)
      <4>1. IsObjects(objects) /\ od_results = post_process(objects, letter_box, scene.model)
        BY <1>1, <2>3, CellsThatHold DEF VisionInv, ListInv
      <4>2. letter_box.num \in Nat \ {0} /\ letter_box.den \in Nat
        BY <1>1, <2>3, PicturesHavePixels, FactorIsNumber DEF VisionInv, BoxInv
      <4>3. scene.model.width \in Nat /\ scene.model.height \in Nat
        BY <1>1, <2>3, PicturesHavePixels DEF Some
      <4> QED BY <2>3, <4>1, <4>2, <4>3, ListHasBoxes
    <3>2. Some(img) /\ img.width = Side /\ img.height = Side /\ img.format = "RGB888"
      BY <1>1, <2>3, PicturesHavePixels
    <3>3. Frame(img, od_results[k].box) \subseteq drawn
      BY <1>1, <2>3 DEF VisionInv, DrawnInv, drawDetections
    <3> QED BY <3>1, <3>2, <3>3, FrameIsRing, Zenon DEF Frame
  <2>4. step \notin {"picture", "letterbox"} =>
          LET box == letter_box.dst_box IN
          /\ 0 <= box.left /\ box.left <= box.right /\ box.right < dst_img.width
          /\ 0 <= box.top /\ box.top <= box.bottom /\ box.bottom < dst_img.height
          /\ converted.reads \subseteq Buffer(img)
          /\ converted.writes = Buffer(dst_img)
    BY <1>1, ScaledInside, Zenon
  <2> QED BY <2>2, <2>3, <2>4, Zenon DEF PicturesInside
<1> QED BY <1>1, VisionInitial, VisionKeeps, PTL DEF VisionSpec

\* Whatever the model puts out: post_process gives the best objects of each class, from all
\* the cells that hold something, for outputs and limits of any size.
THEOREM DetectionsCorrect == VisionSpec => []DetectionsSound
<1>1. ASSUME VisionInv, step \in {"draw", "done"}
      PROVE  Len(objects) = Cardinality(Holding) /\ BestOfEachClass(objects, od_results)
  <2>1. objects = Objects /\ od_results = post_process(objects, letter_box, scene.model)
    BY <1>1 DEF VisionInv, ListInv
  <2>2. IsObjects(objects) /\ Len(objects) = Cardinality(Holding)
    BY <1>1, <2>1, CellsThatHold, Zenon
  <2>3. BestOfEachClass(objects, post_process(objects, letter_box, scene.model))
    BY <2>2, PostProcessed, Zenon
  <2> QED BY <2>1, <2>2, <2>3, Zenon
<1>2. VisionInv => DetectionsSound
  BY <1>1, Zenon DEF DetectionsSound
<1> QED BY <1>2, VisionInitial, VisionKeeps, PTL DEF VisionSpec
=============================================================================
