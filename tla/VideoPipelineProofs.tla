------------------------- MODULE VideoPipelineProofs -------------------------
(***************************************************************************)
(* Proofs about the demo's pipeline for any number of channels, array size  *)
(* and number of frames.                                                    *)
(*                                                                          *)
(* A frame reaches the window along three places, m_predMat, a channel's    *)
(* own image and m_matshow; the invariant says that none of them is ahead   *)
(* of the capture thread, and what the show thread may rely on while it     *)
(* copies and after it has let the lock go.                                 *)
(***************************************************************************)
EXTENDS VideoPipeline, FiniteSetTheorems, TLAPS

\* Every channel has its place in the arrays of pfclist.h.  Nobody looks; for more
\* channels see ChannelsFit.
Fits == Chn <= ArraySize

Answers == [kind : {"nothing", "threw", "detections"}, img : 0..MaxFrames]

Types ==
  /\ opened \subseteq Channels
  /\ frame \in 0..MaxFrames /\ chnsize \in Nat
  /\ capture \in {"start", "grab", "deliver"}
  /\ predMat \in [0..(ArraySize - 1) -> 0..MaxFrames]
  /\ call \in [Channels -> 0..MaxFrames]
  /\ answer \in [Channels -> Answers]
  /\ predict \in [Channels -> {"none", "look", "calling", "publish"}]
  /\ image \in [Channels -> 0..MaxFrames]
  /\ DOMAIN matshow \subseteq 0..Chn
  /\ show \in {"none", "wait", "copying", "drawing"}

\* Before run, none of the other threads exists
Started ==
  capture = "start" => show = "none" /\ \A c \in Channels : predict[c] = "none"

\* A call in progress is for the channel's own image, and so is what it gave
CallInv ==
  \A c \in Channels :
    /\ predict[c] = "calling" => call[c] = image[c]
    /\ predict[c] = "publish" /\ answer[c].kind = "detections" =>
         answer[c].img = image[c]

\* No frame is ahead of the capture thread, and its last one is the raw picture
FrameInv ==
  /\ \A i \in 0..(ArraySize - 1) : predMat[i] <= frame
  /\ \A c \in Channels : image[c] <= frame
  /\ \A k \in DOMAIN matshow : matshow[k].img \in 0..frame
  /\ 0 \in DOMAIN matshow => matshow[0].img = frame

\* A copy begins empty, and as long as the lock is held it is of one moment
CopyInv ==
  /\ show \in {"none", "wait"} => copied = <<>>
  /\ show = "copying" =>
       /\ DOMAIN copied \subseteq DOMAIN matshow
       /\ \A k \in DOMAIN copied : copied[k] = matshow[k]

Inv ==
  /\ Types /\ Started /\ CallInv /\ FrameInv /\ OwnRectangles
  /\ CopyInv /\ WindowComplete /\ RawLeads

-----------------------------------------------------------------------------
\* The size test of showManyImages is enough: as many keys as there are, out
\* of 0 to m_chnsz, are all of them.
LEMMA AllThere ==
  ASSUME NEW D \in SUBSET (0..Chn), Cardinality(D) = Chn + 1
  PROVE  D = 0..Chn
<1>1. Chn \in Nat
  BY PipelineAssumption
<1>2. IsFiniteSet(0..Chn) /\ Cardinality(0..Chn) = Chn + 1
  <2>1. /\ IsFiniteSet(0..Chn)
        /\ Cardinality(0..Chn) = IF 0 > Chn THEN 0 ELSE Chn - 0 + 1
    BY <1>1, FS_Interval
  <2> QED BY <1>1, <2>1
<1> QED BY <1>2, FS_Subset

LEMMA InitInv == Init => Inv
<1> SUFFICES ASSUME Init PROVE Inv
  OBVIOUS
<1>1. Types
  BY PipelineAssumption
     DEF Init, Types, Channels, NoFrame, Answers, Api!ApiInit, Api!Nothing
<1>2. Started /\ CallInv
  BY DEF Init, Started, CallInv
<1>3. FrameInv
  BY PipelineAssumption DEF Init, FrameInv, Channels, NoFrame
<1>4. OwnRectangles /\ CopyInv /\ WindowComplete /\ RawLeads
  BY DEF Init, OwnRectangles, CopyInv, WindowComplete, RawLeads
<1> QED BY <1>1, <1>2, <1>3, <1>4 DEF Inv

\* A step that leaves the pictures and the show thread alone.
LEMMA ShownFrame ==
  ASSUME Inv, UNCHANGED <<matshow, shower>>
  PROVE  (OwnRectangles /\ CopyInv /\ WindowComplete /\ RawLeads)'
BY DEF Inv, shower, OwnRectangles, CopyInv, WindowComplete, RawLeads

\* A picture that is put into m_matshow while nobody reads it.
LEMMA PutStep ==
  ASSUME Inv, CanWrite, UNCHANGED shower,
         NEW k \in 0..Chn, NEW e, Put(k, e), e.det \in {NoFrame, e.img}
  PROVE  (OwnRectangles /\ CopyInv /\ WindowComplete /\ RawLeads)'
<1>1. /\ DOMAIN matshow' = DOMAIN matshow \cup {k}
      /\ matshow'[k] = e
      /\ \A j \in DOMAIN matshow \ {k} : matshow'[j] = matshow[j]
  BY DEF Put, With
<1>2. OwnRectangles'
  BY <1>1 DEF Inv, OwnRectangles
<1>3. (CopyInv /\ WindowComplete /\ RawLeads)'
  BY DEF Inv, shower, CanWrite, CopyInv, WindowComplete, RawLeads
<1> QED BY <1>2, <1>3

-----------------------------------------------------------------------------
\* start and the launch of the threads.
LEMMA StartStep ==
  ASSUME Inv, Start
  PROVE  Inv'
<1> USE DEF capturer, workers, client, shower
<1>1. CASE AddChannel
  <2> DEFINE n == Cardinality(opened)
  <2>1. n \in Channels
    <3>1. Chn \in Nat /\ IsFiniteSet(0..(Chn - 1))
      BY PipelineAssumption, FS_Interval
    <3>2. opened \in SUBSET (0..(Chn - 1))
      BY DEF Inv, Types, Channels
    <3>3. n \in Nat
      BY <3>1, <3>2, FS_Subset, FS_CardinalityType
    <3> QED BY <1>1, <3>1, <3>3 DEF AddChannel, Channels
  <2>2. /\ opened' = opened \cup {n} /\ call' = call
        /\ answer' = [answer EXCEPT ![n] = [kind |-> "nothing", img |-> NoFrame]]
    BY <1>1 DEF AddChannel, Api!Open, Api!Nothing
  <2> HIDE DEF n
  <2>3. Types'
    BY <1>1, <2>1, <2>2, PipelineAssumption
       DEF AddChannel, Inv, Types, Answers, NoFrame
  <2>4. (Started /\ CallInv /\ FrameInv)'
    BY <1>1 DEF AddChannel, Inv, Started, CallInv, FrameInv
  <2>5. UNCHANGED <<matshow, shower>>
    BY <1>1 DEF AddChannel
  <2> QED BY <2>3, <2>4, <2>5, ShownFrame DEF Inv
<1>2. CASE AddThrows
  <2>1. Types'
    BY <1>2 DEF AddThrows, Inv, Types
  <2>2. (Started /\ CallInv /\ FrameInv)'
    BY <1>2 DEF AddThrows, Inv, Started, CallInv, FrameInv
  <2>3. UNCHANGED <<matshow, shower>>
    BY <1>2 DEF AddThrows
  <2> QED BY <2>1, <2>2, <2>3, ShownFrame DEF Inv
<1>3. CASE Launch
  <2>1. Types'
    BY <1>3 DEF Launch, Inv, Types
  <2>2. (Started /\ CallInv /\ FrameInv)'
    BY <1>3 DEF Launch, Inv, Started, CallInv, FrameInv
  <2>3. (OwnRectangles /\ CopyInv /\ WindowComplete /\ RawLeads)'
    BY <1>3 DEF Launch, Inv, Started, OwnRectangles, CopyInv, WindowComplete, RawLeads
  <2> QED BY <2>1, <2>2, <2>3 DEF Inv
<1> QED BY <1>1, <1>2, <1>3 DEF Start

\* The capture thread.
LEMMA CaptureStep ==
  ASSUME Inv, Capture
  PROVE  Inv'
<1> USE DEF capturer, workers, client, shower
<1>1. CASE PublishRaw
  <2> DEFINE e == [img |-> frame', det |-> NoFrame]
  <2>1. /\ frame \in 0..MaxFrames /\ frame' \in 0..MaxFrames /\ frame <= frame'
        /\ MaxFrames \in Nat /\ Chn \in Nat
    BY <1>1, PipelineAssumption DEF PublishRaw, Inv, Types
  <2>2. Put(0, e)
    BY <1>1 DEF PublishRaw
  <2>3. /\ DOMAIN matshow' = DOMAIN matshow \cup {0}
        /\ matshow'[0] = e
        /\ \A j \in DOMAIN matshow \ {0} : matshow'[j] = matshow[j]
    BY <2>2 DEF Put, With
  <2>4. Types'
    BY <1>1, <2>1, <2>3 DEF PublishRaw, Inv, Types
  <2>5. (Started /\ CallInv)'
    BY <1>1 DEF PublishRaw, Inv, Started, CallInv
  <2>6. FrameInv'
    <3>1. \A i \in 0..(ArraySize - 1) : predMat'[i] <= frame'
      BY <1>1, <2>1 DEF PublishRaw, Inv, Types, FrameInv
    <3>2. \A c \in Channels : image'[c] <= frame'
      BY <1>1, <2>1 DEF PublishRaw, Inv, Types, FrameInv
    <3>3. \A k \in DOMAIN matshow' : matshow'[k].img \in 0..frame'
      BY <2>1, <2>3 DEF Inv, FrameInv
    <3>4. matshow'[0].img = frame'
      BY <2>3
    <3> QED BY <3>1, <3>2, <3>3, <3>4 DEF FrameInv
  <2>7. (OwnRectangles /\ CopyInv /\ WindowComplete /\ RawLeads)'
    <3>1. 0 \in 0..Chn /\ e.det \in {NoFrame, e.img}
      BY <2>1
    <3>2. CanWrite /\ UNCHANGED shower
      BY <1>1 DEF PublishRaw
    <3> HIDE DEF e
    <3> QED BY <2>2, <3>1, <3>2, PutStep
  <2> QED BY <2>4, <2>5, <2>6, <2>7 DEF Inv
<1>2. ASSUME NEW i \in DOMAIN predMat, Deliver(i)
      PROVE  Inv'
  <2>1. predMat' = [predMat EXCEPT ![i] = frame]
    BY <1>2 DEF Deliver
  <2>2. Types'
    <3>1. frame \in 0..MaxFrames /\ chnsize' \in Nat
      BY <1>2 DEF Deliver, Inv, Types
    <3>2. predMat' \in [0..(ArraySize - 1) -> 0..MaxFrames]
      BY <2>1, <3>1 DEF Inv, Types
    <3> QED BY <1>2, <3>1, <3>2 DEF Deliver, Inv, Types
  <2>3. (Started /\ CallInv)'
    BY <1>2 DEF Deliver, Inv, Started, CallInv
  <2>4. FrameInv'
    <3>1. \A j \in 0..(ArraySize - 1) : predMat'[j] <= frame
      BY <2>1 DEF Inv, Types, FrameInv
    <3> QED BY <1>2, <3>1 DEF Deliver, Inv, FrameInv
  <2>5. UNCHANGED <<matshow, shower>>
    BY <1>2 DEF Deliver
  <2> QED BY <2>2, <2>3, <2>4, <2>5, ShownFrame DEF Inv
<1> QED BY <1>1, <1>2 DEF Capture

\* The thread of a channel.
LEMMA PredictStep ==
  ASSUME Inv, Fits, NEW c \in Channels, Predict(c)
  PROVE  Inv'
<1> USE DEF capturer, workers, client, shower
<1>1. CASE Look(c)
  <2>1. /\ image' = [image EXCEPT ![c] = predMat[c]]
        /\ predict' = [predict EXCEPT ![c] = "calling"]
        /\ call' = [call EXCEPT ![c] = predMat[c]]
        /\ answer' = [answer EXCEPT ![c] = [kind |-> "nothing", img |-> NoFrame]]
        /\ opened' = opened
    BY <1>1 DEF Look, Api!Invoke, Api!Nothing
  <2>2. predMat[c] \in 0..MaxFrames /\ predMat[c] <= frame
    BY PipelineAssumption DEF Inv, Types, FrameInv, Channels, Fits
  <2>3. Types'
    BY <1>1, <2>1, <2>2, PipelineAssumption
       DEF Look, Inv, Types, Answers, NoFrame
  <2>4. (Started /\ CallInv)'
    BY <1>1, <2>1 DEF Look, Inv, Types, Started, CallInv
  <2>5. FrameInv'
    BY <1>1, <2>1, <2>2 DEF Look, Inv, Types, FrameInv
  <2>6. UNCHANGED <<matshow, shower>>
    BY <1>1 DEF Look
  <2> QED BY <2>3, <2>4, <2>5, <2>6, ShownFrame DEF Inv
<1>2. CASE Predicted(c)
  <2>1. PICK r \in {Api!Nothing, Api!Threw, Api!Detections(call[c])} :
          answer' = [answer EXCEPT ![c] = r]
    BY <1>2 DEF Predicted, Api!Return
  <2>2. /\ call' = [call EXCEPT ![c] = NoFrame] /\ opened' = opened
        /\ predict' = [predict EXCEPT ![c] = "publish"]
        /\ UNCHANGED <<capturer, predMat, image, matshow, shower>>
    BY <1>2 DEF Predicted, Api!Return
  <2>3. call[c] = image[c] /\ call[c] \in 0..MaxFrames
    BY <1>2 DEF Predicted, Inv, Types, CallInv
  <2>4. r \in Answers /\ (r.kind = "detections" => r.img = image[c])
    <3>1. CASE r = Api!Nothing
      BY <3>1, PipelineAssumption DEF Api!Nothing, Answers, NoFrame
    <3>2. CASE r = Api!Threw
      BY <3>2, PipelineAssumption DEF Api!Threw, Answers, NoFrame
    <3>3. CASE r = Api!Detections(call[c])
      BY <2>3, <3>3 DEF Api!Detections, Answers
    <3> QED BY <3>1, <3>2, <3>3
  <2>5. Types'
    BY <2>1, <2>2, <2>4, PipelineAssumption DEF Inv, Types, NoFrame
  <2>6. Started'
    BY <1>2, <2>2 DEF Predicted, Inv, Types, Started
  <2>7. CallInv'
    BY <2>1, <2>2, <2>4 DEF Inv, Types, CallInv
  <2>8. FrameInv'
    BY <2>2 DEF Inv, FrameInv
  <2> QED BY <2>2, <2>5, <2>6, <2>7, <2>8, ShownFrame DEF Inv
<1>3. CASE Publish(c)
  <2> DEFINE e == [img |-> image[c], det |-> Rectangles(c)]
  <2>1. /\ predict[c] = "publish" /\ Put(c + 1, e) /\ CanWrite
        /\ predict' = [predict EXCEPT ![c] = "look"]
        /\ image' = [image EXCEPT ![c] = NoFrame]
        /\ UNCHANGED <<client, capturer, predMat, shower>>
    BY <1>3 DEF Publish
  <2>2. /\ DOMAIN matshow' = DOMAIN matshow \cup {c + 1}
        /\ matshow'[c + 1] = e
        /\ \A j \in DOMAIN matshow \ {c + 1} : matshow'[j] = matshow[j]
    BY <2>1 DEF Put, With
  <2>3. c + 1 \in 0..Chn /\ c + 1 # 0 /\ c \in Nat
    BY PipelineAssumption DEF Channels
  <2>4. image[c] \in 0..frame
    BY DEF Inv, Types, FrameInv
  <2>5. Types'
    BY <2>1, <2>2, <2>3, PipelineAssumption DEF Inv, Types, NoFrame
  <2>6. (Started /\ CallInv)'
    BY <2>1 DEF Inv, Types, Started, CallInv
  <2>7. FrameInv'
    <3>1. \A d \in Channels : image'[d] <= frame
      BY <2>1, PipelineAssumption DEF Inv, Types, FrameInv, NoFrame
    <3>2. \A k \in DOMAIN matshow' : matshow'[k].img \in 0..frame
      BY <2>2, <2>4 DEF Inv, FrameInv
    <3>3. 0 \in DOMAIN matshow' => matshow'[0].img = frame
      BY <2>2, <2>3 DEF Inv, FrameInv
    <3> QED BY <2>1, <3>1, <3>2, <3>3 DEF Inv, FrameInv
  <2>8. e.det \in {NoFrame, e.img}
    BY <2>1 DEF Inv, CallInv, Rectangles
  <2>9. (OwnRectangles /\ CopyInv /\ WindowComplete /\ RawLeads)'
    <3> HIDE DEF e
    <3> QED BY <2>1, <2>3, <2>8, PutStep
  <2> QED BY <2>5, <2>6, <2>7, <2>9 DEF Inv
<1> QED BY <1>1, <1>2, <1>3 DEF Predict

\* The show thread.
LEMMA ShowStep ==
  ASSUME Inv, Show
  PROVE  Inv'
<1> USE DEF capturer, workers, client
<1>1. UNCHANGED <<client, capturer, predMat, workers, matshow>>
  BY DEF Show, BeginCopy, CopyEntry, EndCopy, Drawn
<1>2. (Started /\ CallInv /\ FrameInv /\ OwnRectangles)'
  <2>1. show # "none"
    BY DEF Show, BeginCopy, CopyEntry, EndCopy, Drawn
  <2> QED BY <1>1, <2>1 DEF Inv, Started, CallInv, FrameInv, OwnRectangles
<1>3. show' \in {"wait", "copying", "drawing"} => Types'
  BY <1>1 DEF Inv, Types
<1>4. CASE BeginCopy
  <2>1. show' = "copying" /\ copied' = copied /\ copied = <<>>
    BY <1>4 DEF BeginCopy, Inv, CopyInv
  <2>2. (CopyInv /\ WindowComplete /\ RawLeads)'
    BY <2>1 DEF CopyInv, WindowComplete, RawLeads
  <2> QED BY <1>2, <1>3, <2>1, <2>2 DEF Inv
<1>5. CASE CopyEntry
  <2>1. PICK k \in Ahead : copied' = With(copied, k, matshow[k])
    BY <1>5 DEF CopyEntry
  <2>2. /\ DOMAIN copied' = DOMAIN copied \cup {k}
        /\ copied'[k] = matshow[k]
        /\ \A j \in DOMAIN copied \ {k} : copied'[j] = copied[j]
    BY <2>1 DEF With
  <2>3. show = "copying" /\ show' = show /\ k \in DOMAIN matshow
    BY <1>5 DEF CopyEntry, Ahead
  <2>4. (CopyInv /\ WindowComplete /\ RawLeads)'
    BY <1>1, <2>2, <2>3 DEF Inv, CopyInv, WindowComplete, RawLeads
  <2> QED BY <1>2, <1>3, <2>3, <2>4 DEF Inv
<1>6. CASE EndCopy
  <2>1. /\ show = "copying"
        /\ \/ Enough /\ show' = "drawing" /\ copied' = copied
           \/ show' = "wait" /\ copied' = <<>>
    BY <1>6 DEF EndCopy
  <2>2. CASE Enough /\ show' = "drawing" /\ copied' = copied
    <3>1. DOMAIN copied = 0..Chn
      <4>1. DOMAIN copied \in SUBSET (0..Chn)
        BY <2>1 DEF Inv, Types, CopyInv
      <4> QED BY <2>2, <4>1, AllThere DEF Enough
    <3>2. 0 \in DOMAIN copied
      BY <3>1, PipelineAssumption
    <3>3. \A k \in DOMAIN copied : copied[k].img <= copied[0].img
      BY <2>1, <3>2 DEF Inv, Types, CopyInv, FrameInv
    <3>4. (CopyInv /\ WindowComplete /\ RawLeads)'
      BY <2>2, <3>1, <3>3 DEF CopyInv, WindowComplete, RawLeads
    <3> QED BY <1>2, <1>3, <2>2, <3>4 DEF Inv
  <2>3. CASE show' = "wait" /\ copied' = <<>>
    <3>1. (CopyInv /\ WindowComplete /\ RawLeads)'
      BY <2>3 DEF CopyInv, WindowComplete, RawLeads
    <3> QED BY <1>2, <1>3, <2>3, <3>1 DEF Inv
  <2> QED BY <2>1, <2>2, <2>3
<1>7. CASE Drawn
  <2>1. show' = "wait" /\ copied' = <<>>
    BY <1>7 DEF Drawn
  <2>2. (CopyInv /\ WindowComplete /\ RawLeads)'
    BY <2>1 DEF CopyInv, WindowComplete, RawLeads
  <2> QED BY <1>2, <1>3, <2>1, <2>2 DEF Inv
<1> QED BY <1>4, <1>5, <1>6, <1>7 DEF Show

LEMMA Invariance == ASSUME Fits PROVE Spec => []Inv
<1>1. Inv /\ UNCHANGED vars => Inv'
  BY DEF vars, client, capturer, workers, shower, Inv, Types, Started, CallInv,
         FrameInv, OwnRectangles, CopyInv, WindowComplete, RawLeads
<1>2. Inv /\ [Next]_vars => Inv'
  BY <1>1, StartStep, CaptureStep, PredictStep, ShowStep DEF Next, Terminated
<1> QED BY <1>2, InitInv, PTL DEF Spec

-----------------------------------------------------------------------------
\* With a place for every channel in the arrays, the window is drawn with every
\* entry there, none ahead of the raw picture, and each with rectangles of its own
\* picture.
THEOREM Window ==
  ASSUME Fits
  PROVE  Spec => [](WindowComplete /\ RawLeads /\ OwnRectangles)
<1>1. Inv => WindowComplete /\ RawLeads /\ OwnRectangles
  BY DEF Inv
<1> QED BY <1>1, Invariance, PTL

\* With a place for every channel in the arrays, threads, tables and frames stay
\* in range.
THEOREM Typing ==
  ASSUME Fits
  PROVE  Spec => []TypeOK
<1> DEFINE Flag == crashed \in BOOLEAN
<1>1. Init => Flag
  BY DEF Init
<1>2. Flag /\ [Next]_vars => Flag'
  BY DEF Next, Start, AddChannel, AddThrows, Launch, Capture, PublishRaw, Deliver,
         Predict, Look, Predicted, Publish, Show, BeginCopy, CopyEntry, EndCopy,
         Drawn, Terminated, vars
<1>3. Inv /\ Flag => TypeOK
  <2> HIDE DEF Flag
  <2>1. Flag => crashed \in BOOLEAN
    BY DEF Flag
  <2>2. Inv => \A i \in DOMAIN predMat : predMat[i] \in 0..MaxFrames
    BY DEF Inv, Types
  <2> QED BY <2>1, <2>2 DEF Inv, Types, TypeOK
<1> QED BY <1>1, <1>2, <1>3, Invariance, PTL DEF Spec
===============================================================================
