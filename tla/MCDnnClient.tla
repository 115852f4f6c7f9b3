----------------------------- MODULE MCDnnClient -----------------------------
(***************************************************************************)
(* The client library on small instances, and what is checked of it.        *)
(***************************************************************************)
EXTENDS DnnClient, TLC

\* One model of one version
OneVersion == {[plat |-> "tensorflow_savedmodel", listed |-> {1}, ready |-> {1}]}

\* A model of one version, the same model with a second version that is still
\* loading, and a model of another platform whose version 2 is gone and whose
\* version 3 is still loading
OldAndNew ==
  OneVersion \cup
  {[plat |-> "tensorflow_savedmodel", listed |-> {1, 2}, ready |-> {1}],
   [plat |-> "tensorrt_plan", listed |-> {1, 3}, ready |-> {1}]}

\* Bound: what one version was said to be is looked at when it is said, and
\* not carried on.  Nothing the library does depends on it.
Remembered == got.done => got.query.version = AllVersions

\* The servers are alike
Alike == Permutations(Ips)

\* Nothing on any image, where detections do not matter
NoObjects == [i \in Images |-> <<>>]

\* Two images: one with objects on both sides of the threshold and one on it,
\* one that shows nothing to speak of
TwoScenes ==
  [i \in Images |->
     IF i = CHOOSE j \in Images : TRUE
       THEN <<[cid |-> 2, score |-> 90, tlx |-> 10, tly |-> 200, brx |-> 110, bry |-> 416],
              [cid |-> 0, score |-> 30, tlx |-> 0, tly |-> 5, brx |-> 400, bry |-> 50],
              [cid |-> 1, score |-> 29, tlx |-> 300, tly |-> 0, brx |-> 333, bry |-> 7]>>
       ELSE <<[cid |-> 1, score |-> 12, tlx |-> 1, tly |-> 2, brx |-> 3, bry |-> 4]>>]
=============================================================================
