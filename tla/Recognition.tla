---------------------------- MODULE Recognition ----------------------------
(***************************************************************************)
(* The recognition of objects: AIRecognizer takes the last key frames of   *)
(* all cameras, round after round, and publishes an alarm for each one in  *)
(* which the model finds something; GetCameraRealImageTask gives one frame *)
(* to whoever asks for it.                                                 *)
(*                                                                         *)
(* What is in a frame is left out (modules ImageBuffer, Detection and      *)
(* Vision are about that); here it is which steps are taken on it, what is *)
(* allocated and freed, and what happens when one of them fails.           *)
(***************************************************************************)
EXTENDS Integers

CONSTANTS CameraId,      \* the ids of the cameras, in the order of std::map
          MaxObjects,    \* bound on the objects in a picture
          MaxFailures,   \* bound on failing inferences
          MaxImages      \* bound on the pictures people ask for

ASSUME RecognitionAssumption ==
    /\ CameraId \subseteq Nat
    /\ {MaxObjects, MaxFailures, MaxImages} \subseteq Nat

VARIABLES
    \* AIModelService
    initialized,   \* initialized_
    rknn_ctx,      \* the context of the model: "none", "held", or "leaked"
    \* Camera
    lastKeyFrame,  \* "none", "usable", or "empty": a frame that cannot be converted
    \* AIRecognizer::worker_
    stage, realImages, listed, sourceCamera,
    od_count,      \* od_results.count
    buffers,       \* of the frame that is processed: "rgb_image", "dst_img"
    \* the process
    leaked,        \* buffers nobody can free any more
    crashed,       \* it has ended: an indeterminate value was used
    \* what happened
    inferred,      \* the last result of the model
    bothLost,      \* inferences that failed with dst_img and rgb_image not freed
    imageLost,     \* those that failed with rgb_image not freed
    given,         \* pictures that were given to somebody
    unusable       \* somebody asked for a frame that cannot be converted

modelVars == <<initialized, rknn_ctx>>
workerVars == <<stage, realImages, listed, sourceCamera, od_count, buffers>>
pastVars == <<inferred, bothLost, imageLost, given, unusable>>
recVars == <<modelVars, lastKeyFrame, workerVars, leaked, crashed, pastVars>>

Indeterminate == -1
Nothing == [camera |-> -1, count |-> 0]
Stages == {"start", "list", "next", "convert", "infer", "run", "count", "alarm", "free"}

RecTypeOK ==
    /\ initialized \in BOOLEAN /\ rknn_ctx \in {"none", "held", "leaked"}
    /\ lastKeyFrame \in [CameraId -> {"none", "usable", "empty"}]
    /\ stage \in Stages
    /\ realImages \in [CameraId -> {"none", "usable", "empty"}]
    /\ listed \subseteq CameraId
    /\ sourceCamera \in CameraId \cup {-1}
    /\ od_count \in 0 .. MaxObjects \cup {Indeterminate}
    /\ buffers \subseteq {"rgb_image", "dst_img"}
    /\ leaked \in Nat /\ crashed \in BOOLEAN
    /\ inferred \in [camera : CameraId \cup {-1}, count : 0 .. MaxObjects]
    /\ bothLost \in Nat /\ imageLost \in Nat /\ given \in Nat /\ unusable \in BOOLEAN

RecInit ==
    /\ initialized = FALSE /\ rknn_ctx = "none"
    /\ lastKeyFrame = [c \in CameraId |-> "none"]
    /\ stage = "start"
    /\ realImages = [c \in CameraId |-> "none"] /\ listed = {} /\ sourceCamera = -1
    /\ od_count = Indeterminate /\ buffers = {}
    /\ leaked = 0 /\ crashed = FALSE
    /\ inferred = Nothing /\ bothLost = 0 /\ imageLost = 0 /\ given = 0 /\ unusable = FALSE

-----------------------------------------------------------------------------
(* main: the model, then the recognizer's thread.                          *)

\* The labels or the model file cannot be read, rknn_init fails, or a query does, which
\* leaves the context of init_yolov8_model behind.
initialize ==
    /\ stage = "start"
    /\ \/ initialized' = TRUE /\ rknn_ctx' = "held"
       \/ UNCHANGED initialized /\ rknn_ctx' \in {"none", "leaked"}
    /\ stage' = "list"      \* main does not look at the result
    /\ UNCHANGED <<lastKeyFrame, realImages, listed, sourceCamera, od_count, buffers,
                   leaked, crashed, pastVars>>

\* External to this module: a camera's thread decodes a key frame, or fails to
\* (camera.cpp:162) and stores what there is.
NewKeyFrame(c, f) ==
    /\ f \in {"usable", "empty"}
    /\ lastKeyFrame' = [lastKeyFrame EXCEPT ![c] = f]
    /\ UNCHANGED <<modelVars, workerVars, leaked, crashed, pastVars>>

-----------------------------------------------------------------------------
(* consumeLoop.                                                            *)

\* getAllRealImage: the cameras that have a frame.  Each is read under its own mutex;
\* nothing relates the frames of two cameras.
getAllRealImage ==
    /\ stage = "list"
    /\ realImages' = lastKeyFrame
    /\ listed' = {c \in CameraId : lastKeyFrame[c] # "none"}
    /\ stage' = "next"
    /\ UNCHANGED <<modelVars, lastKeyFrame, sourceCamera, od_count, buffers, leaked,
                   crashed, pastVars>>

\* The next picture, or sleep and list again.
NextImage ==
    /\ stage = "next"
    /\ \/ /\ listed = {}
          /\ stage' = "list"
          /\ UNCHANGED <<listed, sourceCamera>>
       \/ \E c \in listed :
            /\ \A d \in listed : c <= d
            /\ listed' = listed \ {c} /\ sourceCamera' = c
            /\ stage' = "convert"
    /\ UNCHANGED <<modelVars, lastKeyFrame, realImages, od_count, buffers, leaked,
                   crashed, pastVars>>

-----------------------------------------------------------------------------
(* processFrame.                                                           *)

\* avframeToRGB allocates the picture, or returns with an error.
avframeToRGB ==
    /\ stage = "convert"
    /\ IF realImages[sourceCamera] = "usable"
       THEN stage' = "infer" /\ buffers' = {"rgb_image"}
       ELSE stage' = "next" /\ UNCHANGED buffers
    /\ od_count' = Indeterminate      \* a local variable without a value
    /\ UNCHANGED <<modelVars, lastKeyFrame, realImages, listed, sourceCamera, leaked, crashed,
                   pastVars>>

\* Without a model infer() returns false, which is 0 and so success, and leaves od_results
\* alone; with one inference_yolov8_model clears it and allocates the model's input.  When
\* that fails rgb_image (line 39 of processFrame) is not freed.
infer ==
    /\ stage = "infer"
    /\ od_count' = IF initialized THEN 0 ELSE od_count
    /\ \/ /\ ~initialized /\ stage' = "count"
          /\ UNCHANGED <<buffers, leaked, imageLost>>
       \/ /\ initialized /\ stage' = "run"
          /\ buffers' = buffers \cup {"dst_img"}
          /\ UNCHANGED <<leaked, imageLost>>
       \/ /\ initialized /\ stage' = "next" /\ bothLost + imageLost < MaxFailures
          /\ buffers' = {} /\ leaked' = leaked + 1 /\ imageLost' = imageLost + 1
    /\ UNCHANGED <<modelVars, lastKeyFrame, realImages, listed, sourceCamera, crashed,
                   inferred, bothLost, given, unusable>>

\* convert_image_with_letterbox, rknn_inputs_set or rknn_run fails: neither dst_img nor
\* rgb_image is freed.
FailsEarly ==
    /\ stage = "run" /\ bothLost + imageLost < MaxFailures
    /\ leaked' = leaked + 2 /\ buffers' = {}
    /\ bothLost' = bothLost + 1
    /\ stage' = "next"
    /\ UNCHANGED <<modelVars, lastKeyFrame, realImages, listed, sourceCamera, od_count,
                   crashed, inferred, imageLost, given, unusable>>

\* rknn_outputs_get fails: dst_img is freed, rgb_image is not.
FailsLate ==
    /\ stage = "run" /\ bothLost + imageLost < MaxFailures
    /\ leaked' = leaked + 1 /\ buffers' = {}
    /\ imageLost' = imageLost + 1
    /\ stage' = "next"
    /\ UNCHANGED <<modelVars, lastKeyFrame, realImages, listed, sourceCamera, od_count,
                   crashed, inferred, bothLost, given, unusable>>

\* post_process has found count objects; the outputs and dst_img are released.
Found(count) ==
    /\ stage = "run"
    /\ od_count' = count
    /\ inferred' = [camera |-> sourceCamera, count |-> count]
    /\ buffers' = buffers \ {"dst_img"}
    /\ stage' = "count"
    /\ UNCHANGED <<modelVars, lastKeyFrame, realImages, listed, sourceCamera, leaked, crashed,
                   bothLost, imageLost, given, unusable>>

\* Mutant of HasObject: a list without objects will do.
HasObjectOrNone == od_count >= 0

\* Line 41: an indeterminate count may be anything.
HasObject == od_count = Indeterminate \/ od_count > 0

\* Is there an object?
CountObjects ==
    /\ stage = "count"
    /\ \/ HasObject /\ stage' = "alarm"
       \/ od_count <= 0 /\ stage' = "free"
    /\ UNCHANGED <<modelVars, lastKeyFrame, realImages, listed, sourceCamera, od_count,
                   buffers, leaked, crashed, pastVars>>

\* Drawing, compressing (without a check) and publishing.
PublishAlarm ==
    /\ stage = "alarm"
    /\ stage' = "free"
    /\ UNCHANGED <<modelVars, lastKeyFrame, realImages, listed, sourceCamera, od_count,
                   buffers, leaked, crashed, pastVars>>

\* Drawing what od_results happens to hold may read outside of it.
DrawsGarbage ==
    /\ stage = "alarm" /\ od_count = Indeterminate
    /\ crashed' = TRUE
    /\ UNCHANGED <<modelVars, lastKeyFrame, workerVars, leaked, pastVars>>

\* Mutant of FreeImage: the picture is forgotten.
FreeForgotten ==
    /\ stage = "free"
    /\ leaked' = leaked + 1 /\ buffers' = {}
    /\ stage' = "next"
    /\ UNCHANGED <<modelVars, lastKeyFrame, realImages, listed, sourceCamera, od_count,
                   crashed, pastVars>>

FreeImage ==
    /\ stage = "free"
    /\ buffers' = buffers \ {"rgb_image"}
    /\ stage' = "next"
    /\ UNCHANGED <<modelVars, lastKeyFrame, realImages, listed, sourceCamera, od_count,
                   leaked, crashed, pastVars>>

-----------------------------------------------------------------------------
(* GetCameraRealImageTask::run.                                            *)

\* The picture is converted and sent; it is not freed.
ImageGiven(c) ==
    /\ lastKeyFrame[c] = "usable" /\ given < MaxImages
    /\ given' = given + 1 /\ leaked' = leaked + 1
    /\ UNCHANGED <<modelVars, lastKeyFrame, workerVars, crashed, inferred, bothLost, imageLost,
                   unusable>>

\* The result of avframeToRGB is not looked at, and out_image has no value: an empty picture
\* is sent, or bytes are read from anywhere.
ImageNotConverted(c) ==
    /\ lastKeyFrame[c] = "empty" /\ ~unusable
    /\ unusable' = TRUE
    /\ crashed' \in BOOLEAN
    /\ UNCHANGED <<modelVars, lastKeyFrame, workerVars, leaked, inferred, bothLost, imageLost, given>>

-----------------------------------------------------------------------------
RecognizerStep == \/ getAllRealImage \/ NextImage \/ avframeToRGB \/ infer
                  \/ FailsEarly \/ FailsLate \/ (\E count \in 0 .. MaxObjects : Found(count))
                  \/ CountObjects \/ PublishAlarm \/ DrawsGarbage \/ FreeImage

RecNext ==
    /\ ~crashed
    /\ \/ initialize
       \/ RecognizerStep
       \/ \E c \in CameraId :
            \/ ImageGiven(c) \/ ImageNotConverted(c)
            \/ \E f \in {"usable", "empty"} : NewKeyFrame(c, f)

RecSpec == RecInit /\ [][RecNext]_recVars

-----------------------------------------------------------------------------
(* Properties.                                                             *)

\* An alarm (lines 43-61 of processFrame) is for a picture of the camera it names in which
\* the model found something, and that picture is still there to be drawn on; unless there
\* is no model, in which case there may be an alarm for nothing.  Nothing else makes the
\* process use an indeterminate value, except for a command that asks for an unusable frame.
AlarmJustified ==
    /\ stage = "alarm" =>
        /\ "rgb_image" \in buffers
        /\ initialized => od_count > 0
                          /\ inferred = [camera |-> sourceCamera, count |-> od_count]
    /\ crashed => ~initialized \/ unusable

\* Between two pictures the recognizer holds no buffer, and what was lost is explained: one
\* or two buffers for a failed inference (lines 186-234 of yolov8.cc, lines 37-40 of
\* processFrame) and one for each picture somebody asked for (task.cpp:24-27).  However many
\* pictures are recognised, with or without objects or a model, nothing more is.
LeaksExplained ==
    /\ stage \in {"list", "next", "convert"} => buffers = {}
    /\ leaked = 2 * bothLost + imageLost + given
=============================================================================
