------------------------------- MODULE Vision -------------------------------
(***************************************************************************)
(* What the recognition does to one picture: avframeToRGB has made it      *)
(* square, inference_yolov8_model fits it into the model's input and runs  *)
(* the model (external), post_process lists the objects, drawDetections    *)
(* marks them.  A scene is a model with its outputs for one picture.       *)
(***************************************************************************)
EXTENDS ImageBuffer, Detection

CONSTANTS Side,      \* model_input_width_ and model_input_height_
          FontSize, LabelGap,   \* 16 and 20 in drawDetections
          LabelText,     \* the characters of a label
          Scene,     \* [model : [width, height], outputs, quant, hasSum]
          NoScene    \* before there is a picture

\* The input of a model has room for a cell of its finest grid, and more.
ASSUME VisionAssumption ==
    /\ {Side, FontSize, LabelGap} \subseteq Nat \ {0} /\ Side > 1
    /\ \A s \in Scene :
          /\ {s.model.width, s.model.height} \subseteq Nat
          /\ s.model.width >= 4 /\ s.model.height >= 4
          /\ s.outputs \in Seq(Cell)
          /\ \A k \in DOMAIN s.outputs : s.outputs[k].stride % 2 = 0

VARIABLES scene,        \* the picture that is recognised
          step,         \* what comes next
          letter_box,   \* its place in the model's input, and the factor
          converted,    \* the bytes that scaling has read and written
          objects,      \* the cells that hold something
          od_results,   \* the list of what was found
          drawn         \* the bytes that were drawn

visionVars == <<scene, step, letter_box, converted, objects, od_results, drawn>>

Rgb(width, height) == [format |-> "RGB888", width |-> width, height |-> height]

\* The picture, and the input of the model.
img == Rgb(Side, Side)
dst_img == Rgb(scene.model.width, scene.model.height)

\* memset() with 0.
Cleared == [num |-> 0, den |-> 0, x_pad |-> 0, y_pad |-> 0,
            dst_box |-> [left |-> 0, top |-> 0, right |-> 0, bottom |-> 0]]

VisionInit ==
    /\ scene = NoScene /\ step = "picture"
    /\ letter_box = Cleared /\ converted = [reads |-> {}, writes |-> {}]
    /\ objects = <<>> /\ od_results = <<>> /\ drawn = {}

TakePicture ==
    /\ step = "picture" /\ step' = "letterbox"
    /\ scene' \in Scene
    /\ UNCHANGED <<letter_box, converted, objects, od_results, drawn>>

-----------------------------------------------------------------------------
(* inference_yolov8_model.                                                 *)

LetterBox ==
    /\ step = "letterbox" /\ step' = "outputs"
    /\ letter_box' = letterbox(img, dst_img)
    /\ converted' = convert_image_with_letterbox(img, dst_img, letter_box'.dst_box)
    /\ UNCHANGED <<scene, objects, od_results, drawn>>

\* The model has run.
Objects ==
    IF scene.quant THEN process_i8(scene.outputs, scene.hasSum)
    ELSE process_fp32(scene.outputs, scene.hasSum)

PostProcess ==
    /\ step = "outputs" /\ step' = "draw"
    /\ objects' = Objects
    /\ od_results' = post_process(objects', letter_box, scene.model)
    /\ UNCHANGED <<scene, letter_box, converted, drawn>>

-----------------------------------------------------------------------------
(* ImageProcessor::drawDetections.                                         *)

\* The corners of the frame of an object.
Marked(image, box) ==
    LET x1 == Larger(0, Smaller(box.left, image.width - 1))
        y1 == Larger(0, Smaller(box.top, image.height - 1))
    IN  [x1 |-> x1, y1 |-> y1,
         x2 |-> Larger(x1 + 1, Smaller(box.right, image.width - 1)),
         y2 |-> Larger(y1 + 1, Smaller(box.bottom, image.height - 1))]

Frame(image, box) ==
    LET m == Marked(image, box)
    IN  draw_rectangle(image, m.x1, m.y1, m.x2 - m.x1, m.y2 - m.y1, 3)

\* The label is above the frame, or near the top of the picture.
Caption(image, box) ==
    LET m == Marked(image, box)
        text_y == IF m.y1 - LabelGap > 0 THEN m.y1 - LabelGap ELSE LabelGap
    IN  draw_text(image, LabelText, m.x1, text_y, FontSize)

drawDetections(image, results) ==
    UNION {Frame(image, results[k].box) \cup Caption(image, results[k].box)
             : k \in DOMAIN results}

Draw ==
    /\ step = "draw" /\ step' = "done"
    /\ drawn' = drawDetections(img, od_results)
    /\ UNCHANGED <<scene, letter_box, converted, objects, od_results>>

VisionNext == TakePicture \/ LetterBox \/ PostProcess \/ Draw

VisionSpec == VisionInit /\ [][VisionNext]_visionVars

-----------------------------------------------------------------------------
(* Properties.                                                             *)

Buffer(image) == 0 .. get_image_size(image) - 1

\* The pixels within thickness/2 of the sides of a box of rw by rh.
Ring(w, h, rx, ry, rw, rh, thickness) ==
    LET t0 == thickness \div 2
        t1 == thickness - t0
    IN  Area(w, h, rx - t0, rx + rw + t1, ry - t0, ry + rh + t1)
        \ Area(w, h, rx + t1, rx + rw - t0, ry + t1, ry + rh - t0)

\* Scaling reads inside the picture and fills the model's input, and the box of the picture
\* lies in it (convert_image_with_letterbox, crop_and_scale_image_c); whatever is drawn stays
\* in the picture, and every object has a frame around it, part of which can be seen, also
\* when the object touches an edge or lies in the margin (lines 86-95 of drawDetections).
PicturesInside ==
    /\ step \notin {"picture", "letterbox"} =>
          LET box == letter_box.dst_box IN
          /\ 0 <= box.left /\ box.left <= box.right /\ box.right < dst_img.width
          /\ 0 <= box.top /\ box.top <= box.bottom /\ box.bottom < dst_img.height
          /\ converted.reads \subseteq Buffer(img)
          /\ converted.writes = Buffer(dst_img)
    /\ drawn \subseteq Buffer(img)
    /\ step = "done" =>
          \A k \in DOMAIN od_results :
              LET m == Marked(img, od_results[k].box)
                  ring == Ring(Side, Side, m.x1, m.y1, m.x2 - m.x1, m.y2 - m.y1, 3)
                  frame == draw_rectangle(img, m.x1, m.y1, m.x2 - m.x1, m.y2 - m.y1, 3)
              IN  /\ frame = Bytes(3, Side, ring) /\ ring # {}
                  /\ frame \subseteq drawn

\* The cells that hold something: a class whose score is above the threshold.
Holding ==
    LET least == IF scene.quant THEN ScoreThres ELSE ScoreThres - ScoreZp
    IN  {k \in DOMAIN scene.outputs :
            /\ \E c \in Classes : scene.outputs[k].score[c] > least
            /\ scene.hasSum => scene.outputs[k].sum >= least}

\* Of a list of objects the best first, no two of a class overlapping, none twice; and unless
\* the result is full, what is missing overlaps a better one of its class.
BestOfEachClass(list, results) ==
    LET n     == Len(results)
        Of(k) == list[results[k].of]
    IN  /\ \A k \in 1 .. n :
              /\ results[k].class = Of(k).class /\ results[k].class \in Classes
              /\ results[k].prob = Of(k).prob
        /\ \A k, l \in 1 .. n : k < l =>
              /\ results[k].prob >= results[l].prob
              /\ results[k].of # results[l].of
              /\ Of(k).class = Of(l).class => ~Overlap(Of(k).box, Of(l).box)
        /\ n < OBJ_NUMB_MAX_SIZE =>
              \A m \in DOMAIN list : \E k \in 1 .. n :
                  \/ results[k].of = m
                  \/ /\ Of(k).class = list[m].class /\ Of(k).prob >= list[m].prob
                     /\ Overlap(Of(k).box, list[m].box)

\* What post_process must give (lines 608-654): an object for each of the cells that hold
\* something, and the best of these, however the quicksort and the suppression got there.
DetectionsSound ==
    step \in {"draw", "done"} =>
        /\ Len(objects) = Cardinality(Holding)
        /\ BestOfEachClass(objects, od_results)
=============================================================================
