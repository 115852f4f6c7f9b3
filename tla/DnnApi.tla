------------------------------- MODULE DnnApi -------------------------------
(***************************************************************************)
(* What a caller of utdnn.h relies on, one handle at a time: a handle is    *)
(* opened by dnn_addconn and closed by dnn_rmconn; between the two, each    *)
(* dnn_predict call ends with the detections of the image it was given,     *)
(* with nothing, or with an exception, never with another image's           *)
(* detections.  No wire, server or address appears here: DnnClient          *)
(* implements this interface.                                               *)
(***************************************************************************)
CONSTANTS Handles,      \* the connection objects callers may hold
          Images,       \* the images they submit
          NoImage       \* no call in progress

VARIABLES opened,       \* the handles that exist
          call,         \* the image of the call in progress on each handle
          answer        \* what the last completed call gave

apiVars == <<opened, call, answer>>

Nothing == [kind |-> "nothing", img |-> NoImage]
Threw   == [kind |-> "threw", img |-> NoImage]
Detections(i) == [kind |-> "detections", img |-> i]

ApiInit ==
  /\ opened = {}
  /\ call = [h \in Handles |-> NoImage]
  /\ answer = [h \in Handles |-> Nothing]

Open(h) ==
  /\ h \notin opened
  /\ opened' = opened \cup {h}
  /\ answer' = [answer EXCEPT ![h] = Nothing]
  /\ UNCHANGED call

Close(h) ==
  /\ h \in opened /\ call[h] = NoImage
  /\ opened' = opened \ {h}
  /\ UNCHANGED <<call, answer>>

Invoke(h, i) ==
  /\ h \in opened /\ call[h] = NoImage
  /\ call' = [call EXCEPT ![h] = i]
  /\ answer' = [answer EXCEPT ![h] = Nothing]
  /\ UNCHANGED opened

Return(h) ==
  /\ call[h] # NoImage
  /\ \E r \in {Nothing, Threw, Detections(call[h])} :
       answer' = [answer EXCEPT ![h] = r]
  /\ call' = [call EXCEPT ![h] = NoImage]
  /\ UNCHANGED opened

ApiNext ==
  \E h \in Handles :
    Open(h) \/ Close(h) \/ (\E i \in Images : Invoke(h, i)) \/ Return(h)

ApiSpec == ApiInit /\ [][ApiNext]_apiVars
=============================================================================
