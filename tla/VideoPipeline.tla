---------------------------- MODULE VideoPipeline ----------------------------
(***************************************************************************)
(* The demo's video pipeline (pfclist.cpp): one thread captures frames, one *)
(* thread per channel runs inference on the last frame it was handed, one   *)
(* thread shows the raw picture and every channel's result.  They share     *)
(* m_matshow, guarded by m_mtxshow, and m_predMat, one lock per entry.      *)
(*                                                                          *)
(* The pipeline calls the client library through its interface: the handles *)
(* are those of DnnApi, which DnnClient implements.  An exception leaves    *)
(* through the thread's function and terminates the program.                *)
(*                                                                          *)
(* A section that touches one entry is one step; the show thread copies the *)
(* map entry by entry under a ReadLock, which keeps the writers out.  What  *)
(* the lock itself guarantees is the subject of module SharedMutex.         *)
(***************************************************************************)
EXTENDS Integers, FiniteSets

CONSTANTS Chn,        \* m_chnsz
          ArraySize,  \* of m_dnnhandel, m_mtxpred and m_predMat
          MaxFrames   \* bound: frames told apart; later ones count as the last

ASSUME PipelineAssumption ==
  Chn \in Nat /\ ArraySize \in Nat \ {0, 1} /\ MaxFrames \in Nat \ {0}

VARIABLES
  opened, call, answer, \* the client library
  crashed,   \* std::terminate was called
  frame,     \* the capture thread's frameImage
  chnsize,   \* its local copy of m_chnsz, counted down
  capture,   \* where it is
  predMat,   \* m_predMat: the frame an entry holds, 0 while isupdate is false
  predict, image,       \* where each channel's thread is, its local image
  matshow,   \* m_matshow: a frame and the frame its rectangles belong to
  show, copied          \* where the show thread is, its copy of m_matshow

client   == <<opened, call, answer>>
capturer == <<frame, chnsize, capture>>
workers  == <<predict, image>>
shower   == <<show, copied>>
vars     == <<client, crashed, capturer, predMat, workers, matshow, shower>>

Channels == 0..(Chn - 1)
Frames   == 1..MaxFrames
NoFrame  == 0

Api == INSTANCE DnnApi WITH
  Handles <- Channels, Images <- Frames, NoImage <- NoFrame

\* What g_u may draw: it was made before main read the number of channels
Draws == 0..1

\* The rectangles of the last dnn_predict call on c; none when it wrote nothing
Rectangles(c) == IF answer[c].kind = "detections" THEN answer[c].img ELSE NoFrame

\* Mutant of CanWrite: a writer does not wait for the reader
CanWrite_Always == TRUE

\* No thread holds m_mtxshow for reading
CanWrite == show # "copying"

\* f with the value v for k
With(f, k, v) == [j \in DOMAIN f \cup {k} |-> IF j = k THEN v ELSE f[j]]

Put(key, entry) == matshow' = With(matshow, key, entry)

-----------------------------------------------------------------------------
Init ==
  /\ Api!ApiInit
  /\ crashed = FALSE
  /\ frame = NoFrame /\ chnsize = Chn /\ capture = "start"
  /\ predMat = [i \in 0..(ArraySize - 1) |-> NoFrame]
  /\ predict = [c \in Channels |-> "none"]
  /\ image = [c \in Channels |-> NoFrame]
  /\ matshow = <<>>
  /\ show = "none" /\ copied = <<>>

(* start                                                                    *)

\* The handles are made one after the other
AddChannel ==
  /\ ~crashed /\ capture = "start"
  /\ Cardinality(opened) < Chn
  /\ Api!Open(Cardinality(opened))
  /\ UNCHANGED <<crashed, capturer, predMat, workers, matshow, shower>>

\* dnn_addconn throws
AddThrows ==
  /\ ~crashed /\ capture = "start"
  /\ Cardinality(opened) < Chn
  /\ crashed' = TRUE
  /\ UNCHANGED <<client, capturer, predMat, workers, matshow, shower>>

\* run starts the other threads
Launch ==
  /\ ~crashed /\ capture = "start" /\ opened = Channels
  /\ capture' = "grab"
  /\ predict' = [c \in Channels |-> "look"]
  /\ show' = "wait"
  /\ UNCHANGED <<client, crashed, frame, chnsize, predMat, image, matshow,
                 copied>>

-----------------------------------------------------------------------------
(* run: the capture thread                                                  *)

\* The next frame, which is entry 0 of m_matshow as soon as the lock is free;
\* an empty frame would change nothing
PublishRaw ==
  /\ ~crashed /\ capture = "grab" /\ CanWrite
  /\ frame' = IF frame < MaxFrames THEN frame + 1 ELSE frame
  /\ Put(0, [img |-> frame', det |-> NoFrame])
  /\ capture' = "deliver"
  /\ UNCHANGED <<client, crashed, chnsize, predMat, workers, shower>>

\* Mutant of Picked: the draw alone decides
Picked_Drawn == Draws

\* The channels that may get the frame: at first each but channel 0 in turn,
\* from the last down, then what is drawn
Picked == IF chnsize > 1 THEN {chnsize - 1} ELSE Draws

\* The frame is handed to channel i
Deliver(i) ==
  /\ ~crashed /\ capture = "deliver" /\ i \in Picked
  /\ chnsize' = IF chnsize > 1 THEN chnsize - 1 ELSE chnsize
  /\ predMat' = [predMat EXCEPT ![i] = frame]
  /\ capture' = "grab"
  /\ UNCHANGED <<client, crashed, frame, workers, matshow, shower>>

-----------------------------------------------------------------------------
(* predict and run_one: one thread per channel                              *)

\* With isupdate set, and nothing resets it, the image is copied and predicted
Look(c) ==
  /\ ~crashed /\ predict[c] = "look" /\ predMat[c] # NoFrame
  /\ image' = [image EXCEPT ![c] = predMat[c]]
  /\ Api!Invoke(c, predMat[c])
  /\ predict' = [predict EXCEPT ![c] = "calling"]
  /\ UNCHANGED <<crashed, capturer, predMat, matshow, shower>>

\* dnn_predict returns, or throws and so ends the program
Predicted(c) ==
  /\ ~crashed /\ predict[c] = "calling"
  /\ Api!Return(c)
  /\ crashed' = (answer'[c] = Api!Threw)
  /\ predict' = [predict EXCEPT ![c] = "publish"]
  /\ UNCHANGED <<capturer, predMat, image, matshow, shower>>

\* Mutant of Publish: the picture is taken from m_predMat once more
Publish_Reread(c) ==
  /\ ~crashed /\ predict[c] = "publish" /\ CanWrite
  /\ Put(c + 1, [img |-> predMat[c], det |-> Rectangles(c)])
  /\ predict' = [predict EXCEPT ![c] = "look"]
  /\ image' = [image EXCEPT ![c] = NoFrame]
  /\ UNCHANGED <<client, crashed, capturer, predMat, shower>>

\* Mutant of Publish: one entry too far
Publish_Shifted(c) ==
  /\ ~crashed /\ predict[c] = "publish" /\ CanWrite
  /\ Put(c + 2, [img |-> image[c], det |-> Rectangles(c)])
  /\ predict' = [predict EXCEPT ![c] = "look"]
  /\ image' = [image EXCEPT ![c] = NoFrame]
  /\ UNCHANGED <<client, crashed, capturer, predMat, shower>>

\* The channel's picture and rectangles are entry c + 1; the local image is
\* not used again before it is replaced
Publish(c) ==
  /\ ~crashed /\ predict[c] = "publish" /\ CanWrite
  /\ Put(c + 1, [img |-> image[c], det |-> Rectangles(c)])
  /\ predict' = [predict EXCEPT ![c] = "look"]
  /\ image' = [image EXCEPT ![c] = NoFrame]
  /\ UNCHANGED <<client, crashed, capturer, predMat, shower>>

-----------------------------------------------------------------------------
(* showManyImages: the show thread                                          *)

BeginCopy ==
  /\ ~crashed /\ show = "wait"
  /\ show' = "copying"
  /\ UNCHANGED <<client, crashed, capturer, predMat, workers, matshow, copied>>

\* The entries the iteration has not reached
Ahead == {k \in DOMAIN matshow : \A j \in DOMAIN copied : j < k}

CopyEntry ==
  /\ ~crashed /\ show = "copying"
  /\ \E k \in Ahead : /\ \A j \in Ahead : k <= j
                     /\ copied' = With(copied, k, matshow[k])
  /\ UNCHANGED <<client, crashed, capturer, predMat, workers, matshow, show>>

\* Mutant of Enough: any non-empty copy will do
Enough_Any == copied # <<>>

\* matshow.size() == m_chnsz+1
Enough == Cardinality(DOMAIN copied) = Chn + 1

\* Unlock; with every entry there the window is drawn, else the copy is dropped
EndCopy ==
  /\ ~crashed /\ show = "copying" /\ Ahead = {}
  /\ \/ Enough /\ show' = "drawing" /\ UNCHANGED copied
     \/ ~Enough /\ show' = "wait" /\ copied' = <<>>
  /\ UNCHANGED <<client, crashed, capturer, predMat, workers, matshow>>

Drawn ==
  /\ ~crashed /\ show = "drawing"
  /\ show' = "wait" /\ copied' = <<>>
  /\ UNCHANGED <<client, crashed, capturer, predMat, workers, matshow>>

-----------------------------------------------------------------------------
Start == AddChannel \/ AddThrows \/ Launch
Capture == PublishRaw \/ \E i \in DOMAIN predMat : Deliver(i)
Predict(c) == Look(c) \/ Predicted(c) \/ Publish(c)
Show == BeginCopy \/ CopyEntry \/ EndCopy \/ Drawn

Terminated == crashed /\ UNCHANGED vars

Next ==
  \/ Start \/ Capture \/ Show
  \/ \E c \in Channels : Predict(c)
  \/ Terminated

\* Every thread runs and every dnn_predict call ends (EveryCallEnds of module
\* DnnClient); a writer that waits for m_mtxshow gets it between two copies
\* (EveryoneServed of module SharedMutex); and each value g_u can draw keeps
\* being drawn.
Fairness ==
  /\ WF_vars(Start) /\ WF_vars(Capture) /\ WF_vars(Show)
  /\ SF_vars(PublishRaw)
  /\ \A c \in Channels : WF_vars(Predict(c)) /\ SF_vars(Publish(c))
  /\ \A i \in Draws : SF_vars(Deliver(i))

Spec == Init /\ [][Next]_vars /\ Fairness

-----------------------------------------------------------------------------
\* Type invariant.
TypeOK ==
  /\ opened \subseteq Channels
  /\ crashed \in BOOLEAN
  /\ frame \in 0..MaxFrames /\ chnsize \in Nat
  /\ capture \in {"start", "grab", "deliver"}
  /\ \A i \in DOMAIN predMat : predMat[i] \in 0..MaxFrames
  /\ predict \in [Channels -> {"none", "look", "calling", "publish"}]
  /\ image \in [Channels -> 0..MaxFrames]
  /\ DOMAIN matshow \subseteq 0..Chn
  /\ show \in {"none", "wait", "copying", "drawing"}

\* showManyImages dereferences find(i) for every i below the map's size: the
\* size test is enough for that, because the only keys are 0 to m_chnsz.
WindowComplete == show = "drawing" => DOMAIN copied = 0..Chn

\* The rectangles drawn on a picture were computed from that picture, whatever
\* frames arrive while dnn_predict runs (run_one works on its own image).
OwnRectangles ==
  \A k \in DOMAIN matshow : matshow[k].det \in {NoFrame, matshow[k].img}

\* No channel in the window is ahead of the raw picture beside it: a frame is
\* in entry 0 before any channel gets it, and the copy is of one moment.
RawLeads ==
  show = "drawing" => \A k \in DOMAIN copied : copied[k].img <= copied[0].img

\* Unless an exception ends the program, the window appears: every channel
\* gets a frame and publishes it.
WindowAppears == <>(crashed \/ show = "drawing")

-----------------------------------------------------------------------------
\* README.md:16-17: "./video_client 64 0" runs 64 channels; every channel has
\* its place in the arrays of pfclist.h.
ChannelsFit == \A c \in opened : c < ArraySize

\* README.md:17: "64 chnnal live video to predict"; unless an exception ends the
\* program, every channel's picture follows the camera to the last frame.
ChannelsLive ==
  \A c \in Channels :
    <>(crashed \/ (c + 1 \in DOMAIN matshow /\ matshow[c + 1].img = MaxFrames))
=============================================================================
