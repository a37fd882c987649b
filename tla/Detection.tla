----------------------------- MODULE Detection -----------------------------
(***************************************************************************)
(* src/common/yolo8/postprocess.cc: from the outputs of the model to the   *)
(* list of detected objects.                                               *)
(*                                                                         *)
(* The outputs are a sequence of cells in the order in which post_process  *)
(* visits them (three branches, row by row): [i, j, stride, score, box,    *)
(* sum], where score[c] is the quantised score of class c, sum the         *)
(* quantised sum of the scores, and box the distances of the four sides    *)
(* in cells.  The code computes these distances as mean values             *)
(* (compute_dfl) and everything after them in floats; here they are whole, *)
(* and strides are even.  Dequantisation is increasing, so a score stays   *)
(* as it is.                                                               *)
(***************************************************************************)
EXTENDS Integers, Sequences, FiniteSetsExt

CONSTANTS OBJ_CLASS_NUM,
          OBJ_NUMB_MAX_SIZE,
          ScoreZp,      \* the zero point of the scores, from the model
          ScoreThres,   \* BOX_THRESH, quantised
          NmsPercent    \* NMS_THRESH

Wrap8(n) == ((n + 128) % 256) - 128     \* the conversion to int8_t
FirstScore == Wrap8(-ScoreZp)

\* A fact about the model: with another zero point a cell that holds nothing would pass
\* (line 339) as an object of class -1.  BOX_THRESH is positive, so that quantising does not
\* put it below the zero point.
ASSUME DetectionAssumption ==
    /\ OBJ_CLASS_NUM \in Nat \ {0} /\ OBJ_NUMB_MAX_SIZE \in Nat \ {0}
    /\ ScoreZp \in -128 .. 127 /\ ScoreThres \in -128 .. 127
    /\ FirstScore <= ScoreThres /\ ScoreZp <= ScoreThres

Classes == 0 .. OBJ_CLASS_NUM - 1
Cell == [i : Nat, j : Nat, stride : Nat, score : [Classes -> Int], box : [1 .. 4 -> Int],
         sum : Int]
Larger(a, b) == IF a < b THEN b ELSE a
Smaller(a, b) == IF a < b THEN a ELSE b
\* The largest number of min .. max that is not above val; min, if all are.
clamp(val, min, max) == Max({min} \cup {n \in min .. max : n <= val})

-----------------------------------------------------------------------------
(* Candidates.                                                             *)

\* The first class of the largest score, if that is above the threshold.
MaxScore(score, threshold, first) ==
    LET above == {c \in Classes : score[c] > threshold /\ score[c] > first}
        best(c) == \A d \in above : score[d] < score[c] \/ (score[d] = score[c] /\ c <= d)
        c == CHOOSE c \in above : best(c)
    IN  IF above = {} THEN [score |-> first, class |-> -1]
        ELSE [score |-> score[c], class |-> c]

\* The box of a cell, from the distances of its left, top, right and lower sides.
BoxOf(cell) ==
    LET half == cell.stride \div 2
        x1 == (cell.j - cell.box[1]) * cell.stride + half
        y1 == (cell.i - cell.box[2]) * cell.stride + half
        x2 == (cell.j + cell.box[3]) * cell.stride + half
        y2 == (cell.i + cell.box[4]) * cell.stride + half
    IN  [x |-> x1, y |-> y1, w |-> x2 - x1, h |-> y2 - y1]

\* The sum of the scores, if the model gives it, is a quick filter.
Passes(cell, threshold, first, hasSum) ==
    /\ hasSum => cell.sum >= threshold
    /\ MaxScore(cell.score, threshold, first).score > threshold

ObjectOf(cell, threshold, first) ==
    [prob  |-> MaxScore(cell.score, threshold, first).score,
     class |-> MaxScore(cell.score, threshold, first).class,
     box   |-> BoxOf(cell)]

\* found[k] is the list of objects after k cells.
Candidates(outputs, threshold, first, hasSum) ==
    LET found[k \in 0 .. Len(outputs)] ==
            IF k = 0 THEN <<>>
            ELSE IF Passes(outputs[k], threshold, first, hasSum)
                 THEN Append(found[k - 1], ObjectOf(outputs[k], threshold, first))
                 ELSE found[k - 1]
    IN  found[Len(outputs)]

process_i8(outputs, hasSum) == Candidates(outputs, ScoreThres, FirstScore, hasSum)
\* Scores that are not quantised, and the threshold, count from 0.
process_fp32(outputs, hasSum) == Candidates(outputs, ScoreThres - ScoreZp, 0, hasSum)

-----------------------------------------------------------------------------
(* Sorting, and dropping what a better object of the class overlaps.       *)

Pair == [prob : Int, index : Int]

\* The rightmost place of low .. high with more than key, and the leftmost with less; low
\* and high if there is none.
FromRight(s, low, high, key) ==
    CHOOSE k \in low .. high : /\ k = low \/ s[k].prob > key
                               /\ \A l \in k + 1 .. high : s[l].prob <= key
FromLeft(s, low, high, key) ==
    CHOOSE k \in low .. high : /\ k = high \/ s[k].prob < key
                               /\ \A l \in low .. k - 1 : s[l].prob >= key

\* A part low .. high of the list with a hole at low, and the pair that is not in the list.
Holes == {a \in [s : Seq(Pair), low : Nat, high : Nat, pair : Pair] :
             1 <= a.low /\ a.low <= a.high /\ a.high <= Len(a.s)}

\* One run of the outer loop moves a pair into the hole at low and one into the hole at high.
Squeezed(a) ==
    LET k  == FromRight(a.s, a.low, a.high, a.pair.prob)
        s1 == [a.s EXCEPT ![a.low] = a.s[k]]
        l  == FromLeft(s1, a.low, k, a.pair.prob)
    IN  [s |-> [s1 EXCEPT ![k] = s1[l]], low |-> l, high |-> k, pair |-> a.pair]

\* Until they meet; the pair goes there.
Partition[a \in Holes] ==
    IF a.low < a.high THEN Partition[Squeezed(a)]
    ELSE [s |-> [a.s EXCEPT ![a.low] = a.pair], at |-> a.low]

Parts == {a \in [s : Seq(Pair), left : Nat, right : Nat] : 1 <= a.left /\ a.right <= Len(a.s)}

quick_sort_indice_inverse[a \in Parts] ==
    IF a.left >= a.right THEN a.s
    ELSE LET p     == Partition[[s |-> a.s, low |-> a.left, high |-> a.right,
                                 pair |-> a.s[a.left]]]
             lower == quick_sort_indice_inverse[[s |-> p.s, left |-> a.left, right |-> p.at - 1]]
         IN  quick_sort_indice_inverse[[s |-> lower, left |-> p.at + 1, right |-> a.right]]

SortByProb(objects) ==
    quick_sort_indice_inverse[
        [s     |-> [k \in 1 .. Len(objects) |-> [prob |-> objects[k].prob, index |-> k]],
         left  |-> 1,
         right |-> Len(objects)]]

\* CalculateOverlap(a, b) > threshold.
Overlap(a, b) ==
    LET Common(p, m, q, n) == Larger(0, Smaller(p + m, q + n) - Larger(p, q) + 1)
        Size(box) == (box.w + 1) * (box.h + 1)
        i == Common(a.x, a.w, b.x, b.w) * Common(a.y, a.h, b.y, b.h)
        u == Size(a) + Size(b) - i
    IN  u > 0 /\ 100 * i > NmsPercent * u

\* The object at place k of order, if it is not dropped, is of the class.
Has(objects, order, k, class) == order[k] # -1 /\ objects[order[k]].class = class

\* Mutant of nms: what was dropped drops others, too.
nmsOfDropped(objects, order, class) ==
    [l \in 1 .. Len(order) |->
        IF \E k \in 1 .. l - 1 : /\ Has(objects, order, k, class) /\ Has(objects, order, l, class)
                                 /\ Overlap(objects[order[k]].box, objects[order[l]].box)
        THEN -1 ELSE order[l]]

\* What the object at place k drops.
Dropped(objects, order, k, class) ==
    IF ~Has(objects, order, k, class) THEN order
    ELSE [l \in 1 .. Len(order) |->
            IF /\ l > k /\ Has(objects, order, l, class)
               /\ Overlap(objects[order[k]].box, objects[order[l]].box)
            THEN -1 ELSE order[l]]

\* order[k] is the index of the k-th best object, or -1 once it is dropped.
nms(objects, order, class) ==
    LET after[k \in 0 .. Len(order)] ==
            IF k = 0 THEN order ELSE Dropped(objects, after[k - 1], k, class)
    IN  after[Len(order)]

-----------------------------------------------------------------------------
(* post_process.                                                           *)

\* The box of an object in the picture that was fitted into the model's input.
BackInPicture(box, letter_box, model) ==
    LET x1 == box.x - letter_box.x_pad
        y1 == box.y - letter_box.y_pad
        Back(v, max) == (clamp(v, 0, max) * letter_box.den) \div letter_box.num
    IN  [left   |-> Back(x1, model.width),         top    |-> Back(y1, model.height),
         right  |-> Back(x1 + box.w, model.width), bottom |-> Back(y1 + box.h, model.height)]

\* One class after the other.
Suppressed(objects, order) ==
    LET after[c \in 0 .. OBJ_CLASS_NUM] ==
            IF c = 0 THEN order ELSE nms(objects, after[c - 1], c - 1)
    IN  after[OBJ_CLASS_NUM]

\* The list is cut when it is full.
post_process(objects, letter_box, model) ==
    LET sorted == SortByProb(objects)
        order  == Suppressed(objects, [k \in 1 .. Len(sorted) |-> sorted[k].index])
        Result(k) == [box  |-> BackInPicture(objects[order[k]].box, letter_box, model),
                      prob |-> sorted[k].prob, class |-> objects[order[k]].class,
                      of   |-> order[k]]
        results[k \in 0 .. Len(order)] ==
            IF k = 0 THEN <<>>
            ELSE IF order[k] = -1 \/ Len(results[k - 1]) >= OBJ_NUMB_MAX_SIZE THEN results[k - 1]
            ELSE Append(results[k - 1], Result(k))
    IN  results[Len(order)]
=============================================================================
