------------------------------ MODULE Detections ------------------------------
(***************************************************************************)
(* The body of an inference response: what the server puts into it and what *)
(* connection::predict reads out of it, by the handle's m_itype.            *)
(*                                                                          *)
(* A body is four blocks, the boxes, two more, and a count.  Coordinates    *)
(* are whole 416ths of the picture's side, scores are hundredths.  An       *)
(* object is [cid, score, tlx, tly, brx, bry], a detection of the picture   *)
(* or a DNNTARGET.                                                          *)
(***************************************************************************)
EXTENDS Integers, Sequences, FiniteSets

CONSTANT Slots  \* entries of each block: 100

ASSUME SlotsAssumption == Slots \in Nat

\* DNN_SERVER_TRT, DNN_SERVER_TFS, and any other value an int that was never
\* assigned may hold
TRT == 0
TFS == 1
Other == 2
Types == {TRT, TFS, Other}

Side == 416

\* A score of 0.3 counts: as a float it is a little more than the double 0.3
Counts(score) == score >= 30

-----------------------------------------------------------------------------
(* The servers                                                              *)

\* A SavedModel gives fractions of the side, y first; a TensorRT plan gives
\* pixels, x first
BoxOf(layout, o) ==
  IF layout = TFS THEN <<o.tly, o.tlx, o.bry, o.brx>>
  ELSE <<Side * o.tlx, Side * o.tly, Side * o.brx, Side * o.bry>>

\* What is written where there is no object
Padding == [cid |-> 0, score |-> 0, tlx |-> 0, tly |-> 0, brx |-> 0, bry |-> 0]

\* The objects found, best first.  Class and score blocks have different places
\* in the two layouts, and a SavedModel counts all its slots.
Encode(layout, objs) ==
  LET at(i) == IF i \in DOMAIN objs THEN objs[i] ELSE Padding
      scores  == [i \in 1..Slots |-> at(i).score]
      classes == [i \in 1..Slots |-> at(i).cid]
  IN [boxes  |-> [i \in 1..Slots |-> BoxOf(layout, at(i))],
      second |-> IF layout = TFS THEN classes ELSE scores,
      third  |-> IF layout = TFS THEN scores ELSE classes,
      num    |-> IF layout = TFS THEN Slots ELSE Len(objs)]

-----------------------------------------------------------------------------
(* connection::predict                                                      *)

\* Fractions with y first, or pixels with x first
TargetBox(itype, b) ==
  IF itype = TFS
    THEN [x1 |-> b[2], y1 |-> b[1], x2 |-> b[4], y2 |-> b[3]]
    ELSE [x1 |-> b[1] \div Side, y1 |-> b[2] \div Side,
          x2 |-> b[3] \div Side, y2 |-> b[4] \div Side]

\* Mutant of Decode: the blocks of every model are read in one order
Decode_OneOrder(itype, body) ==
  LET scores  == body.third
      classes == body.second
      num == IF itype = TFS
               THEN Cardinality({i \in 1..body.num : Counts(scores[i])})
               ELSE body.num
  IN [i \in 1..num |->
        LET b == TargetBox(itype, body.boxes[i]) IN
        [cid |-> classes[i], score |-> scores[i],
         tlx |-> b.x1, tly |-> b.y1, brx |-> b.x2, bry |-> b.y2]]

\* What is copied to the caller, as many as *size says.  Of a SavedModel's
\* slots the good ones are counted, and the first that many are taken.
Decode(itype, body) ==
  LET scores  == IF itype = TRT THEN body.second ELSE body.third
      classes == IF itype = TRT THEN body.third ELSE body.second
      num == IF itype = TFS
               THEN Cardinality({i \in 1..body.num : Counts(scores[i])})
               ELSE body.num
  IN [i \in 1..num |->
        LET b == TargetBox(itype, body.boxes[i]) IN
        [cid |-> classes[i], score |-> scores[i],
         tlx |-> b.x1, tly |-> b.y1, brx |-> b.x2, bry |-> b.y2]]

-----------------------------------------------------------------------------
Objects == [cid : Nat, score : 0..100,
            tlx : 0..Side, tly : 0..Side, brx : 0..Side, bry : 0..Side]

\* What a picture may show to a model: at most one object per slot, best first
Scenes ==
  {s \in Seq(Objects) :
     Len(s) <= Slots /\ \A i, j \in DOMAIN s : i < j => s[i].score >= s[j].score}

\* The objects a caller is to be told of
Wanted(layout, objs) ==
  {i \in DOMAIN objs : layout = TFS => Counts(objs[i].score)}

\* The targets are the objects wanted, each with its class, score and box.
Told(layout, objs, targets) ==
  /\ DOMAIN targets = Wanted(layout, objs)
  /\ \A i \in DOMAIN targets : targets[i] = objs[i]
===============================================================================
