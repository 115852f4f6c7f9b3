---------------------------- MODULE DnnAnswerProofs ----------------------------
(***************************************************************************)
(* Proofs about what the library tells its callers, for any pictures,       *)
(* models and number of slots.  Of dnn_predict: connection::predict reads a *)
(* body as the server wrote it, and never one with another layout.  Of      *)
(* dnn_getstate: what it says of a model is so, and what a constructor      *)
(* learnt holds until the server is replaced.  Last, that every dnn_predict *)
(* call ends: an answer is owed to a call that waits, and with the fairness *)
(* of threads and servers it comes.                                         *)
(***************************************************************************)
EXTENDS DnnClientProofs, NumberLemmas, FiniteSetTheorems

\* A set of the first positions, with no gap, is as long as it has elements.
LEMMA Prefix ==
  ASSUME NEW n \in Nat, NEW S \in SUBSET (1..n),
         \A i, j \in 1..n : i < j /\ j \in S => i \in S
  PROVE  S = 1..Cardinality(S)
<1>1. IsFiniteSet(1..n)
  BY FS_Interval
<1>2. IsFiniteSet(S) /\ Cardinality(S) \in Nat
  BY <1>1, FS_Subset, FS_CardinalityType
<1> DEFINE k == Cardinality(S)
<1>3. IsFiniteSet(1..k) /\ Cardinality(1..k) = k
  <2>1. /\ IsFiniteSet(1..k)
        /\ Cardinality(1..k) = IF 1 > k THEN 0 ELSE k - 1 + 1
    BY <1>2, FS_Interval
  <2> QED BY <1>2, <2>1
<1>4. ASSUME NEW i \in S PROVE i \in 1..k
  <2>1. 1..i \in SUBSET S
    BY <1>4
  <2>2. Cardinality(1..i) <= k
    BY <1>2, <2>1, FS_Subset
  <2>3. Cardinality(1..i) = IF 1 > i THEN 0 ELSE i - 1 + 1
    BY <1>4, FS_Interval
  <2> QED BY <1>2, <2>2, <2>3
<1>5. S \in SUBSET (1..k)
  BY <1>4
<1>6. 1..k = S
  BY <1>3, <1>5, FS_Subset
<1> QED BY <1>6

\* connection::predict reads out of a body what a server of the handle's type
\* wrote into it: of a SavedModel the objects above the threshold, which are the
\* first ones, else all, with nothing swapped.
THEOREM DecodeTells ==
  ASSUME SlotsAssumption, NEW layout \in {TRT, TFS}, NEW s \in Scenes
  PROVE  Told(layout, s, Decode(layout, Encode(layout, s)))
<1> DEFINE body == Encode(layout, s)
           at(i) == IF i \in DOMAIN s THEN s[i] ELSE Padding
           good == {i \in 1..Slots : Counts(at(i).score)}
<1>1. /\ s \in Seq(Objects) /\ Len(s) \in Nat /\ Len(s) <= Slots
      /\ DOMAIN s = 1..Len(s) /\ Slots \in Nat
      /\ \A i \in DOMAIN s : s[i] \in Objects
      /\ \A i, j \in DOMAIN s : i < j => s[i].score >= s[j].score
  BY DEF Scenes, SlotsAssumption
<1>2. good = {i \in DOMAIN s : Counts(s[i].score)}
  BY <1>1 DEF Counts, Padding
<1>3. good = 1..Cardinality(good)
  <2>1. ASSUME NEW i \in 1..Slots, NEW j \in 1..Slots, i < j, j \in good
        PROVE  i \in good
    <3>1. j \in DOMAIN s /\ Counts(s[j].score)
      BY <1>2, <2>1
    <3>2. i \in DOMAIN s /\ s[i].score >= s[j].score
      BY <1>1, <2>1, <3>1
    <3>3. s[i] \in Objects /\ s[j] \in Objects
      BY <1>1, <3>1, <3>2
    <3>4. s[i].score \in Nat /\ s[j].score \in Nat
      BY <3>3 DEF Objects
    <3> QED BY <1>2, <3>1, <3>2, <3>4 DEF Counts
  <2> HIDE DEF good
  <2>2. good \in SUBSET (1..Slots)
    BY DEF good
  <2> QED BY <1>1, <2>1, <2>2, Prefix
<1>4. DOMAIN Decode(layout, body) = Wanted(layout, s)
  <2>1. CASE layout = TRT
    BY <1>1, <2>1 DEF Decode, Encode, Wanted, TRT, TFS
  <2>2. CASE layout = TFS
    <3>1. {i \in 1..body.num : Counts(body.third[i])} = good
      BY <1>1, <2>2 DEF Encode, TRT, TFS
    <3>2. Wanted(layout, s) = good
      BY <1>2, <2>2 DEF Wanted
    <3>3. DOMAIN Decode(layout, body)
            = 1..Cardinality({i \in 1..body.num : Counts(body.third[i])})
      BY <2>2 DEF Decode, TRT, TFS
    <3> QED BY <1>3, <3>1, <3>2, <3>3
  <2> QED BY <2>1, <2>2
<1>5. ASSUME NEW i \in DOMAIN Decode(layout, body)
      PROVE  Decode(layout, body)[i] = s[i]
  <2>1. i \in DOMAIN s /\ i \in 1..Slots /\ s[i] \in Objects
    BY <1>1, <1>4, <1>5 DEF Wanted
  <2>2. /\ body.boxes[i] = BoxOf(layout, s[i])
        /\ layout = TRT => body.second[i] = s[i].score /\ body.third[i] = s[i].cid
        /\ layout = TFS => body.second[i] = s[i].cid /\ body.third[i] = s[i].score
    BY <2>1 DEF Encode, TRT, TFS
  <2>3. LET b == TargetBox(layout, body.boxes[i]) IN
        b.x1 = s[i].tlx /\ b.y1 = s[i].tly /\ b.x2 = s[i].brx /\ b.y2 = s[i].bry
    BY <2>1, <2>2 DEF TargetBox, BoxOf, Objects, Side, TRT, TFS
  <2>4. Decode(layout, body)[i] =
          LET b == TargetBox(layout, body.boxes[i]) IN
          [cid |-> s[i].cid, score |-> s[i].score,
           tlx |-> b.x1, tly |-> b.y1, brx |-> b.x2, bry |-> b.y2]
    BY <1>5, <2>2 DEF Decode, TRT, TFS
  <2> QED BY <2>1, <2>3, <2>4 DEF Objects
<1> QED BY <1>4, <1>5 DEF Told

-----------------------------------------------------------------------------
(* Responses are read with the layout they were asked for                   *)

\* A request is laid out as the handle's type says
Asked(h) == reqs[h] # <<>> => Head(reqs[h]).layout = itype[h]

\* A response is laid out as the request was
Replied(h) ==
  resps[h] # <<>> /\ Head(resps[h]).img # NoImage =>
    Head(resps[h]).body = Encode(itype[h], Scene[Head(resps[h]).img])

\* The caller was told of the objects on its image
Informed(h) ==
  out[h].kind = "detections" => Told(itype[h], Scene[out[h].img], out[h].objs)

Sound(h) == itype[h] # Other => Asked(h) /\ Replied(h) /\ Informed(h)

\* Types are those of servers, or were never assigned; the state of a model is
\* asked of a server
TypeInv ==
  /\ itype \in [Handles -> Types]
  /\ adm = "asked" => admPeer.addr \in Addrs
  /\ admList # <<>> => admList[1].type \in {TRT, TFS}

BodyInv == TypeInv /\ \A h \in Handles : Sound(h)

\* A handle keeps its promise when nothing is put on its stream.
LEMMA SoundFrame ==
  ASSUME NEW h \in Handles, Sound(h),
         itype'[h] = itype[h] \/ itype'[h] = Other,
         reqs'[h] = reqs[h] \/ reqs'[h] = <<>>,
         resps'[h] = resps[h] \/ resps'[h] = <<>>,
         out'[h] = out[h] \/ out'[h].kind # "detections"
  PROVE  Sound(h)'
BY DEF Sound, Asked, Replied, Informed

\* The first entry of a list of versions has the model's type.
LEMMA ListTyped ==
  ASSUME NEW cfg \in Configs, state2st(cfg) # <<>>
  PROVE  state2st(cfg)[1].type \in {TRT, TFS}
<1> DEFINE n == Cardinality(cfg.listed)
<1>1. n \in Nat
  BY ClientAssumption, FS_CardinalityType
<1>2. n # 0
  <2>1. ASSUME n = 0 PROVE state2st(cfg) = <<>>
    BY <2>1 DEF state2st
  <2> QED BY <2>1
<1>3. 1 \in 1..n
  BY <1>1, <1>2
<1> QED BY <1>3 DEF state2st, Layout

LEMMA BodyInit == Init => BodyInv
BY DEF Init, BodyInv, TypeInv, Sound, Types, Other, TRT, TFS

\* The steps of the administering thread.
LEMMA BodyAdmin ==
  ASSUME Inv, BodyInv, Admin
  PROVE  BodyInv'
<1> USE DEF objects, wire, worker
<1>1. ASSUME NEW p \in live \cup {Null}, NEW a \in Addrs, DnnInit(p, a)
      PROVE  BodyInv'
  <2>1. TypeInv'
    BY <1>1 DEF DnnInit, BodyInv, TypeInv, admin
  <2>2. ASSUME NEW h \in Handles PROVE Sound(h)'
    <3>1. itype' = itype /\ out' = out
      BY <1>1 DEF DnnInit
    <3>2. /\ reqs'[h] = reqs[h] \/ reqs'[h] = <<>>
          /\ resps'[h] = resps[h] \/ resps'[h] = <<>>
      BY <1>1 DEF DnnInit, Reconnect, Inv, WireInv
    <3> QED BY <3>1, <3>2, SoundFrame DEF BodyInv
  <2> QED BY <2>1, <2>2 DEF BodyInv
<1>2. ASSUME NEW k \in Handles, DnnRmconn(k) PROVE BodyInv'
  <2>1. TypeInv'
    BY <1>2 DEF DnnRmconn, BodyInv, TypeInv, Types, admin
  <2>2. ASSUME NEW h \in Handles PROVE Sound(h)'
    <3>1. out' = out /\ (itype'[h] = itype[h] \/ itype'[h] = Other)
      BY <1>2 DEF DnnRmconn, BodyInv, TypeInv
    <3>2. /\ reqs'[h] = reqs[h] \/ reqs'[h] = <<>>
          /\ resps'[h] = resps[h] \/ resps'[h] = <<>>
      BY <1>2 DEF DnnRmconn, Reconnect, Inv, WireInv
    <3> QED BY <3>1, <3>2, SoundFrame DEF BodyInv
  <2> QED BY <2>1, <2>2 DEF BodyInv
<1>3. ASSUME NEW who, NEW q, Ask(who, q) PROVE BodyInv'
  <2>1. TypeInv'
    BY <1>3 DEF Ask, Reachable, Peer, BodyInv, TypeInv
  <2>2. ASSUME NEW h \in Handles PROVE Sound(h)'
    BY <1>3, SoundFrame DEF Ask, BodyInv
  <2> QED BY <2>1, <2>2 DEF BodyInv
<1>4. ASSUME Answered PROVE BodyInv'
  <2>1. srv[admPeer.addr].cfg \in Configs
    BY <1>4 DEF Answered, BodyInv, TypeInv, Inv, PeerInv
  <2>2. TypeInv'
    BY <1>4, <2>1, ListTyped DEF Answered, Idle, BodyInv, TypeInv
  <2>3. ASSUME NEW h \in Handles PROVE Sound(h)'
    BY <1>4, SoundFrame DEF Answered, BodyInv
  <2> QED BY <2>2, <2>3 DEF BodyInv
<1>5. ASSUME AskThrows PROVE BodyInv'
  <2>1. TypeInv'
    BY <1>5 DEF AskThrows, Idle, BodyInv, TypeInv
  <2>2. ASSUME NEW h \in Handles PROVE Sound(h)'
    BY <1>5, SoundFrame DEF AskThrows, BodyInv
  <2> QED BY <2>1, <2>2 DEF BodyInv
<1>6. ASSUME Constructed PROVE BodyInv'
  <2>1. TypeInv'
    BY <1>6 DEF Constructed, Idle, BodyInv, TypeInv, Types
  <2>2. ASSUME NEW h \in Handles, h # admFor PROVE Sound(h)'
    <3>1. /\ itype'[h] = itype[h] /\ out'[h] = out[h]
          /\ reqs'[h] = reqs[h] /\ resps'[h] = resps[h]
      BY <1>6, <2>2
      DEF Constructed, Reconnect, Inv, WireInv, CallInv, BodyInv, TypeInv
    <3> QED BY <3>1, SoundFrame DEF BodyInv
  <2>3. ASSUME NEW h \in Handles, h = admFor PROVE Sound(h)'
    <3>1. reqs'[h] = <<>> /\ resps'[h] = <<>> /\ out'[h].kind # "detections"
      BY <1>6, <2>3
      DEF Constructed, Reconnect, Inv, WireInv, CallInv, Untouched
    <3> QED BY <3>1 DEF Sound, Asked, Replied, Informed
  <2> QED BY <2>1, <2>2, <2>3 DEF BodyInv
<1> QED BY <1>1, <1>2, <1>3, <1>4, <1>5, <1>6
        DEF Admin, DnnAddconn, DnnGetstate

\* The steps of the workers.
LEMMA BodyWorker ==
  ASSUME Inv, BodyInv, SlotsAssumption, NEW h \in Handles,
         (\E i \in Images : Call(h, i)) \/ Predict(h)
  PROVE  BodyInv'
<1> USE DEF objects, wire, admin
<1>1. itype' = itype /\ admin' = admin
  BY DEF Call, Predict, Skip, Write, WriteThrows, Read, ReadThrows
<1>2. TypeInv'
  BY <1>1 DEF BodyInv, TypeInv
<1>3. ASSUME NEW k \in Handles, k # h PROVE Sound(k)'
  <2>1. reqs'[k] = reqs[k] /\ resps'[k] = resps[k] /\ out'[k] = out[k]
    BY <1>3 DEF Call, Predict, Skip, Write, WriteThrows, Read, ReadThrows,
                Finish, Inv, WireInv, CallInv
  <2> QED BY <1>1, <2>1, SoundFrame DEF BodyInv
<1>4. Sound(h)'
  <2>1. CASE \/ \E i \in Images : Call(h, i)
             \/ Skip(h) \/ WriteThrows(h) \/ ReadThrows(h)
    <3>1. reqs' = reqs /\ resps' = resps /\ out'[h].kind # "detections"
      BY <2>1 DEF Call, Skip, WriteThrows, ReadThrows, Finish, Inv, CallInv,
                  Untouched, Exception
    <3> QED BY <1>1, <3>1, SoundFrame DEF BodyInv
  <2>2. CASE Write(h)
    <3>1. reqs[h] = <<>> /\ resps' = resps /\ out' = out
      BY <2>2 DEF Write, Inv, WireInv, Exchange, Carries
    <3>2. reqs'[h] = <<>> \/ reqs'[h] = Append(<<>>, Request(h))
      BY <2>2, <3>1 DEF Write, Inv, WireInv
    <3>3. itype[h] # Other => Request(h).layout = itype[h]
      BY DEF Request, BodyInv, TypeInv, Types
    <3>4. itype[h] # Other => Asked(h)'
      BY <1>1, <3>2, <3>3 DEF Asked
    <3>5. itype[h] # Other => Replied(h)' /\ Informed(h)'
      BY <1>1, <3>1 DEF BodyInv, Sound, Replied, Informed
    <3> QED BY <1>1, <3>4, <3>5 DEF Sound
  <2>3. CASE Read(h)
    <3> DEFINE r == Head(resps[h])
    <3>1. reqs' = reqs /\ resps'[h] = <<>> /\ r.img \in {arg[h], NoImage}
      BY <2>3, TakeOne DEF Read, Inv, WireInv, Exchange
    <3>2. arg[h] \in Images
      BY <2>3 DEF Read, Inv, CallInv
    <3>3. out'[h] = IF r.img = NoImage THEN Untouched ELSE Detected(h, r)
      BY <2>3 DEF Read, Finish, Inv, CallInv
    <3>4. ASSUME itype[h] # Other, r.img # NoImage
          PROVE  Told(itype[h], Scene[r.img], Detected(h, r).objs)
      <4>1. r.body = Encode(itype[h], Scene[r.img])
        BY <2>3, <3>4 DEF Read, BodyInv, Sound, Replied
      <4>2. itype[h] \in {TRT, TFS}
        BY <3>4 DEF BodyInv, TypeInv, Types
      <4>3. Scene[r.img] \in Scenes
        BY <3>1, <3>2, <3>4, ClientAssumption
      <4>4. Detected(h, r).objs = Decode(itype[h], r.body)
        BY DEF Detected
      <4> QED BY <4>1, <4>2, <4>3, <4>4, DecodeTells
    <3>5. itype[h] # Other => Informed(h)'
      BY <1>1, <3>3, <3>4 DEF Informed, Untouched, Detected
    <3>6. itype[h] # Other => Asked(h)' /\ Replied(h)'
      BY <1>1, <3>1 DEF BodyInv, Sound, Asked, Replied
    <3> QED BY <1>1, <3>5, <3>6 DEF Sound
  <2> QED BY <2>1, <2>2, <2>3 DEF Predict
<1> QED BY <1>2, <1>3, <1>4 DEF BodyInv

\* The steps of the servers.
LEMMA BodyServer ==
  ASSUME Inv, BodyInv,
         \/ \E h \in Handles : Serve(h) \/ Hangup(h)
         \/ \E a \in Addrs : Crash(a) \/ Restart(a)
  PROVE  BodyInv'
<1> USE DEF objects, wire, worker, admin
<1>1. itype' = itype /\ admin' = admin /\ out' = out
  BY DEF Serve, Hangup, Crash, Restart
<1>2. TypeInv'
  BY <1>1 DEF BodyInv, TypeInv
<1>3. ASSUME NEW h \in Handles, NEW k \in Handles, Serve(h)
      PROVE  Sound(k)'
  <2>1. CASE k # h
    <3>1. reqs'[k] = reqs[k] /\ resps'[k] = resps[k]
      BY <1>3, <2>1 DEF Serve, Inv, WireInv
    <3> QED BY <1>1, <3>1, SoundFrame DEF BodyInv
  <2>2. CASE k = h
    <3> DEFINE q == Head(reqs[h])
               c == srv[sock[h].addr].cfg
    <3>1. resps[h] = <<>> /\ Tail(reqs[h]) = <<>>
      BY <1>3, TakeOne DEF Serve, Inv, WireInv, Exchange
    <3>2. reqs'[h] = <<>> /\ resps'[h] = Append(<<>>, Reply(c, q))
      BY <1>3, <3>1 DEF Serve, Inv, WireInv
    <3>3. Head(resps'[h]) = Reply(c, q)
      BY <3>2
    <3>4. ASSUME itype[h] # Other, Reply(c, q).img # NoImage
          PROVE  Reply(c, q).body = Encode(itype[h], Scene[Reply(c, q).img])
      <4>1. q.layout = itype[h]
        BY <1>3, <3>4 DEF Serve, BodyInv, Sound, Asked
      <4> QED BY <3>4, <4>1 DEF Reply
    <3>5. itype[h] # Other => Asked(h)' /\ Replied(h)'
      BY <1>1, <3>2, <3>3, <3>4 DEF Asked, Replied
    <3>6. itype[h] # Other => Informed(h)'
      BY <1>1 DEF BodyInv, Sound, Informed
    <3> QED BY <1>1, <2>2, <3>5, <3>6 DEF Sound
  <2> QED BY <2>1, <2>2
<1>4. ASSUME NEW k \in Handles,
             \/ \E h \in Handles : Hangup(h)
             \/ \E a \in Addrs : Crash(a) \/ Restart(a)
      PROVE  Sound(k)'
  <2>1. /\ reqs'[k] = reqs[k] \/ reqs'[k] = <<>>
        /\ resps'[k] = resps[k] \/ resps'[k] = <<>>
    BY <1>4 DEF Hangup, Crash, Restart, Inv, WireInv
  <2> QED BY <1>1, <2>1, SoundFrame DEF BodyInv
<1>5. ASSUME NEW k \in Handles PROVE Sound(k)'
  BY <1>3, <1>4, <1>5
<1> QED BY <1>2, <1>5 DEF BodyInv

LEMMA BodyStep == Inv /\ BodyInv /\ [Next]_vars => BodyInv'
<1> SUFFICES ASSUME Inv, BodyInv, [Next]_vars PROVE BodyInv'
  OBVIOUS
<1>1. CASE Next
  BY <1>1, SlotsAssumption, BodyAdmin, BodyWorker, BodyServer DEF Next
<1>2. CASE UNCHANGED vars
  <2>1. TypeInv'
    BY <1>2 DEF vars, objects, admin, BodyInv, TypeInv
  <2>2. ASSUME NEW h \in Handles PROVE Sound(h)'
    BY <1>2, SoundFrame DEF vars, objects, wire, worker, BodyInv
  <2> QED BY <2>1, <2>2 DEF BodyInv
<1> QED BY <1>1, <1>2

\* Whatever servers are restarted with, every handle whose type was read from a
\* server tells its caller the objects on the image submitted, and no others.
THEOREM Truth == Spec => []DetectionsTrue
<1>1. BodyInv => DetectionsTrue
  BY DEF BodyInv, Sound, Informed, DetectionsTrue
<1> QED BY <1>1, BodyInit, BodyStep, OneExchange, PTL DEF Spec
LEMMA Bodies == Spec => []BodyInv
  BY BodyInit, BodyStep, OneExchange, PTL DEF Spec


-----------------------------------------------------------------------------
(* What dnn_getstate tells its caller                                       *)

\* An answer is the copy of a list that some server gave, or of none; so is the
\* list a constructor goes on with
GotInv ==
  /\ query \in Queries
  /\ admPeer \in Incarnations
  /\ admList = <<>> \/ \E cfg \in Configs : admList = state2st(cfg)
  /\ got = NoGot \/ \E q \in Queries, peer \in Incarnations, cfg \in Models :
                       got = Got(q, peer, cfg, state2st(cfg))

\* What connection::state2st makes of the answer to a state request.
LEMMA Listed ==
  ASSUME NEW cfg \in Models
  PROVE  /\ Cardinality(cfg.listed) \in Nat
         /\ Len(state2st(cfg)) = Cardinality(cfg.listed)
         /\ DOMAIN state2st(cfg) = 1..Cardinality(cfg.listed)
         /\ \A i \in 1..Cardinality(cfg.listed) :
              /\ state2st(cfg)[i].version = i
              /\ state2st(cfg)[i].type = Layout(cfg)
              /\ state2st(cfg)[i].state <=> i \in cfg.ready
<1> DEFINE n == Cardinality(cfg.listed)
<1>1. n \in Nat
  <2>1. IsFiniteSet(cfg.listed)
    BY ClientAssumption, FS_EmptySet DEF Models, NoConfig
  <2> QED BY <2>1, FS_CardinalityType
<1>2. DOMAIN state2st(cfg) = 1..n
  BY DEF state2st
<1>3. Len(state2st(cfg)) = n
  <2> DEFINE S == {state2st(cfg)[i] : i \in 1..n}
  <2>1. state2st(cfg) \in [1..n -> S]
    BY DEF state2st
  <2> QED BY <1>1, <2>1, Long
<1>4. ASSUME NEW i \in 1..n
      PROVE  /\ state2st(cfg)[i].version = i
             /\ state2st(cfg)[i].type = Layout(cfg)
             /\ state2st(cfg)[i].state <=> i \in cfg.ready
  BY DEF state2st
<1> QED BY <1>1, <1>2, <1>3, <1>4

\* What conlist::getstate makes of that list.
LEMMA Copied ==
  ASSUME NEW q \in Queries, NEW cfg \in Models
  PROVE  LET list == state2st(cfg)
             c == CopyOut(list, q)
         IN /\ c.written # <<>> => c.ncnt = Len(c.written)
            /\ q.version = AllVersions => c.ncnt <= q.cap
            /\ \A i \in DOMAIN c.written : \E j \in DOMAIN list : c.written[i] = list[j]
            /\ q.version = AllVersions /\ q.cap >= Len(list) => c.written = list
            /\ q.version = AllVersions /\ q.cap < Len(list) => c.written = <<>>
<1> DEFINE list == state2st(cfg)
           hits == {i \in DOMAIN list : list[i].version = q.version}
           first == CHOOSE i \in hits : \A j \in hits : i <= j
           c == CopyOut(list, q)
<1>0. Len(list) \in Nat /\ DOMAIN list = 1..Len(list)
  BY Listed
<1>1. CASE q.version # AllVersions /\ hits # {}
  <2>1. c = [ncnt |-> 1, written |-> <<list[first]>>]
    BY <1>1 DEF CopyOut
  <2>2. first \in hits
    <3>1. ASSUME NEW i \in hits, NEW j \in hits PROVE i <= j
      BY Listed, <1>0
    <3> QED BY <1>1, <3>1
  <2> HIDE DEF first, c, list
  <2>3. first \in DOMAIN list
    BY <2>2
  <2>4. /\ c.ncnt = 1 /\ c.written = <<list[first]>>
        /\ Len(c.written) = 1 /\ DOMAIN c.written = {1}
        /\ c.written[1] = list[first]
    BY <2>1
  <2> QED BY <1>1, <2>3, <2>4 DEF list, c
<1>2. CASE q.version # AllVersions /\ hits = {}
  <2>1. c = [ncnt |-> q.cap, written |-> <<>>]
    BY <1>2 DEF CopyOut
  <2> QED BY <1>2, <2>1
<1>3. CASE q.version = AllVersions /\ q.cap >= Len(list)
  <2>1. c = [ncnt |-> Len(list), written |-> list]
    BY <1>3 DEF CopyOut
  <2> QED BY <1>0, <1>3, <2>1 DEF Queries
<1>4. CASE q.version = AllVersions /\ ~(q.cap >= Len(list))
  <2>1. c = [ncnt |-> 0, written |-> <<>>]
    BY <1>4 DEF CopyOut
  <2> QED BY <1>0, <1>4, <2>1 DEF Queries
<1> QED BY <1>1, <1>2, <1>3, <1>4

\* The steps that leave dnn_getstate's arguments and outcome alone.
LEMMA GotFrame ==
  ASSUME GotInv, query' = query \/ query' = NoQuery, got' = got \/ got' = NoGot,
         admList' = admList \/ admList' = <<>>,
         admPeer' = admPeer \/ admPeer' = NoPeer
  PROVE  GotInv'
<1>1. NoQuery \in Queries
  BY DEF NoQuery, Queries
<1>2. NoPeer \in Incarnations
  BY DEF NoPeer, Incarnations
<1> QED BY <1>1, <1>2 DEF GotInv

LEMMA GotAsk ==
  ASSUME Inv, GotInv, NEW who, NEW q \in Queries, Ask(who, q)
  PROVE  GotInv'
<1>1. state2st(NoConfig) = <<>>
  BY FS_EmptySet DEF state2st, NoConfig
<1>2. NoPeer \in Incarnations /\ NoConfig \in Models
  BY DEF NoPeer, Incarnations, Models
<1>3. admList' = admList
  BY DEF Ask
<1>4. CASE got' = Got(q, NoPeer, NoConfig, <<>>) /\ UNCHANGED <<admPeer, query>>
  BY <1>1, <1>2, <1>3, <1>4 DEF GotInv
<1>5. CASE Reachable(cur) /\ admPeer' = Peer(cur) /\ query' = q
           /\ (got' = NoGot \/ got' = got)
  <2>1. Peer(cur) \in Incarnations
    BY <1>5 DEF Reachable, Peer, Inv, PeerInv, Incarnations
  <2> QED BY <1>3, <1>5, <2>1 DEF GotInv
<1>6. CASE UNCHANGED <<admPeer, query, got>>
  BY <1>3, <1>6, GotFrame
<1> QED BY <1>4, <1>5, <1>6 DEF Ask

LEMMA GotStep == Inv /\ BodyInv /\ GotInv /\ [Next]_vars => GotInv'
<1> SUFFICES ASSUME Inv, BodyInv, GotInv, [Next]_vars PROVE GotInv'
  OBVIOUS
<1>0. NoQuery \in Queries /\ NoPeer \in Incarnations
  BY DEF NoQuery, Queries, NoPeer, Incarnations
<1>1. ASSUME NEW h \in Handles, DnnAddconn(h) PROVE GotInv'
  BY <1>0, <1>1, GotAsk DEF DnnAddconn
<1>2. ASSUME NEW n \in Caps, NEW v \in {AllVersions, 1, 2}, DnnGetstate(n, v)
      PROVE  GotInv'
  <2>1. [cap |-> n, version |-> v] \in Queries
    BY ClientAssumption DEF Queries, AllVersions
  <2> QED BY <1>2, <2>1, GotAsk DEF DnnGetstate
<1>3. ASSUME Answered PROVE GotInv'
  <2> DEFINE cfg == srv[admPeer.addr].cfg
  <2>1. cfg \in Configs /\ cfg \in Models
    BY <1>3 DEF Answered, BodyInv, TypeInv, Inv, PeerInv, Models
  <2>2. CASE got' = Got(query, admPeer, cfg, state2st(cfg)) /\ Idle
    <3>1. query \in Queries /\ admPeer \in Incarnations
      BY DEF GotInv
    <3> HIDE DEF cfg
    <3> QED BY <1>0, <2>1, <2>2, <3>1 DEF GotInv, Idle
  <2>3. CASE UNCHANGED <<got, query, admPeer>> /\ admList' = state2st(cfg)
    BY <2>1, <2>3 DEF GotInv
  <2> QED BY <1>3, <2>2, <2>3 DEF Answered
<1>4. ASSUME \/ \E p \in live \cup {Null}, a \in Addrs : DnnInit(p, a)
             \/ \E h \in Handles : DnnRmconn(h)
             \/ AskThrows \/ Constructed
      PROVE  GotInv'
  BY <1>4, GotFrame DEF DnnInit, DnnRmconn, AskThrows, Constructed, Idle, admin
<1>5. ASSUME \/ \E h \in Handles :
                  \/ \E i \in Images : Call(h, i)
                  \/ Predict(h) \/ Serve(h) \/ Hangup(h)
             \/ \E a \in Addrs : Crash(a) \/ Restart(a)
             \/ UNCHANGED vars
      PROVE  GotInv'
  BY <1>5, GotFrame DEF Call, Predict, Skip, Write, WriteThrows, Read, ReadThrows,
                        Serve, Hangup, Crash, Restart, admin, vars
<1> QED BY <1>1, <1>2, <1>3, <1>4, <1>5 DEF Next, Admin

LEMMA GotInit == Init => GotInv
  BY DEF Init, GotInv, NoQuery, Queries, NoPeer, Incarnations

LEMMA Gots == Spec => []GotInv
  BY GotInit, GotStep, Bodies, OneExchange, PTL DEF Spec

\* Whatever a server lists and whatever the caller has room for, dnn_getstate
\* claims no version ready that is not, writes no more than fits, and leaves
\* nothing out of a list that is numbered from 1 and fits.
LEMMA GotTrue == GotInv => StateListTrue
<1> SUFFICES ASSUME GotInv, got.done PROVE StateListTrue
  BY DEF StateListTrue
<1>1. PICK q \in Queries, peer \in Incarnations, cfg \in Models :
        got = Got(q, peer, cfg, state2st(cfg))
  BY DEF GotInv, NoGot
<1> DEFINE list == state2st(cfg)
           c == CopyOut(list, q)
<1>2. /\ got.query = q /\ got.cfg = cfg
      /\ got.ncnt = c.ncnt /\ got.written = c.written
  BY <1>1 DEF Got
<1>3. /\ c.written # <<>> => c.ncnt = Len(c.written)
      /\ q.version = AllVersions => c.ncnt <= q.cap
      /\ \A i \in DOMAIN c.written : \E j \in DOMAIN list : c.written[i] = list[j]
      /\ q.version = AllVersions /\ q.cap >= Len(list) => c.written = list
  BY Copied
<1> HIDE DEF c, list
<1>4. /\ Len(list) = Cardinality(cfg.listed) /\ DOMAIN list = 1..Cardinality(cfg.listed)
      /\ \A i \in DOMAIN list : list[i].version = i /\ (list[i].state <=> i \in cfg.ready)
  BY Listed DEF list
<1>5. ASSUME NEW i \in DOMAIN got.written
      PROVE  got.written[i].state <=> got.written[i].version \in got.cfg.ready
  <2>1. PICK j \in DOMAIN list : c.written[i] = list[j]
    BY <1>2, <1>3
  <2>2. list[j].state <=> list[j].version \in cfg.ready
    BY <1>4
  <2> QED BY <1>2, <2>1, <2>2
<1>6. ASSUME got.query.version = AllVersions,
             got.cfg.listed = 1..Cardinality(got.cfg.listed),
             got.query.cap >= Cardinality(got.cfg.listed)
      PROVE  {got.written[i].version : i \in DOMAIN got.written} = got.cfg.listed
  <2>1. got.written = list
    BY <1>2, <1>3, <1>4, <1>6
  <2>2. {list[i].version : i \in DOMAIN list} = DOMAIN list
    BY <1>4
  <2>3. DOMAIN list = got.cfg.listed
    BY <1>2, <1>4, <1>6
  <2> QED BY <2>1, <2>2, <2>3
<1> QED BY <1>2, <1>3, <1>5, <1>6 DEF StateListTrue

\* dnn_getstate writes as many versions as *ncnt says, no more than the array holds
\* when all are asked for, and calls ready those that are; where they are numbered
\* from 1 and there is room, it tells of each.
THEOREM StateTold == Spec => []StateListTrue
BY Gots, GotTrue, PTL

-----------------------------------------------------------------------------
(* Ranges                                                                   *)

LEMMA TypingInit == Init => ObjectsOK
<1> SUFFICES ASSUME Init PROVE ObjectsOK
  OBVIOUS
<1>1. 1 \in 1..(MaxInc + 1)
  BY ClientAssumption
<1>2. \A a \in Addrs : srv[a].up = TRUE /\ srv[a].inc = 1 /\ srv[a].cfg \in Configs
  BY DEF Init
<1> QED BY <1>1, <1>2 DEF Init, ObjectsOK, Types

\* A connect keeps address and flag in their ranges.
LEMMA TypingReconnect ==
  ASSUME ObjectsOK, NEW h \in Handles, NEW a \in Addrs \cup {NoAddr}, Reconnect(h, a)
  PROVE  /\ caddr' \in [Handles -> Addrs \cup {NoAddr}]
         /\ connected' \in [Handles -> BOOLEAN]
<1>1. caddr' \in [Handles -> Addrs \cup {NoAddr}]
  BY DEF ObjectsOK, Reconnect
<1>2. connected' \in [Handles -> BOOLEAN]
  <2>1. Reachable(a) \in BOOLEAN
    BY Zenon DEF Reachable
  <2> QED BY <2>1 DEF ObjectsOK, Reconnect
<1> QED BY <1>1, <1>2

\* The steps of the administering thread.
LEMMA TypingAdmin == Inv /\ BodyInv /\ ObjectsOK /\ Admin => ObjectsOK'
<1> SUFFICES ASSUME Inv, BodyInv, ObjectsOK, Admin PROVE ObjectsOK'
  OBVIOUS
<1> USE DEF objects, wire, worker
<1>1. ASSUME NEW p \in live \cup {Null}, NEW a \in Addrs, DnnInit(p, a)
      PROVE  ObjectsOK'
  <2>1. /\ caddr' \in [Handles -> Addrs \cup {NoAddr}]
        /\ connected' \in [Handles -> BOOLEAN]
    <3>1. CASE p # Null /\ cur[1] # a[1]
      <4>1. p \in Handles /\ Reconnect(p, a)
        BY <1>1, <3>1 DEF DnnInit, ObjectsOK
      <4> QED BY <4>1, TypingReconnect
    <3>2. CASE ~(p # Null /\ cur[1] # a[1])
      BY <1>1, <3>2 DEF DnnInit, ObjectsOK
    <3> QED BY <3>1, <3>2
  <2> QED BY <1>1, <2>1 DEF DnnInit, ObjectsOK, admin
<1>2. ASSUME NEW who \in Handles \cup {Query}, NEW q, Ask(who, q)
      PROVE  ObjectsOK'
  BY <1>2 DEF Ask, ObjectsOK
<1>3. ASSUME Answered \/ AskThrows PROVE ObjectsOK'
  BY <1>3 DEF Answered, AskThrows, Idle, ObjectsOK
<1>4. ASSUME Constructed PROVE ObjectsOK'
  <2>1. admFor \in Handles
    BY <1>4 DEF Inv, AdminInv, Constructed
  <2>2. /\ caddr' \in [Handles -> Addrs \cup {NoAddr}]
        /\ connected' \in [Handles -> BOOLEAN]
    BY <1>4, <2>1, TypingReconnect DEF Constructed, ObjectsOK
  <2>3. itype' \in [Handles -> Types]
    BY <1>4, <2>1 DEF Constructed, ObjectsOK, BodyInv, TypeInv, Types
  <2> QED BY <1>4, <2>1, <2>2, <2>3 DEF Constructed, Idle, ObjectsOK
<1>5. ASSUME NEW h \in Handles, DnnRmconn(h) PROVE ObjectsOK'
  <2>1. /\ caddr' \in [Handles -> Addrs \cup {NoAddr}]
        /\ connected' \in [Handles -> BOOLEAN]
    BY <1>5, TypingReconnect DEF DnnRmconn
  <2>2. itype' \in [Handles -> Types]
    BY <1>5 DEF DnnRmconn, ObjectsOK, Types
  <2> QED BY <1>5, <2>1, <2>2 DEF DnnRmconn, ObjectsOK, admin
<1> QED BY <1>1, <1>2, <1>3, <1>4, <1>5 DEF Admin, DnnAddconn, DnnGetstate

\* The steps of the servers.
LEMMA TypingServer ==
  ASSUME ObjectsOK, Inv, NEW a \in Addrs, Crash(a) \/ Restart(a)
  PROVE  ObjectsOK'
<1>1. /\ srv'[a].up \in BOOLEAN
      /\ srv'[a].inc \in 1..(MaxInc + 1)
      /\ srv'[a].cfg \in Configs
  <2>1. CASE Crash(a)
    BY <2>1 DEF Crash, ObjectsOK, Inv, PeerInv
  <2>2. CASE Restart(a)
    <3>1. PICK c \in Configs :
            srv'[a] = [up |-> TRUE, inc |-> srv[a].inc + 1, cfg |-> c]
      BY <2>2 DEF Restart, Inv, PeerInv
    <3>2. srv[a].inc \in 1..(MaxInc + 1) /\ srv[a].inc <= MaxInc
      BY <2>2 DEF Restart, ObjectsOK
    <3> QED BY <3>1, <3>2, ClientAssumption
  <2> QED BY <2>1, <2>2
<1>2. \A b \in Addrs \ {a} : srv'[b] = srv[b]
  BY DEF Crash, Restart, Inv, PeerInv
<1> QED BY <1>1, <1>2 DEF Crash, Restart, ObjectsOK, objects, worker, admin

LEMMA TypingStep == Inv /\ BodyInv /\ ObjectsOK /\ [Next]_vars => ObjectsOK'
<1> SUFFICES ASSUME Inv, BodyInv, ObjectsOK, [Next]_vars PROVE ObjectsOK'
  OBVIOUS
<1>1. ASSUME NEW h \in Handles,
             (\E i \in Images : Call(h, i)) \/ Predict(h) \/ Serve(h) \/ Hangup(h)
      PROVE  ObjectsOK'
  BY <1>1 DEF Call, Predict, Skip, Write, WriteThrows, Read, ReadThrows, Finish,
              Serve, Hangup, ObjectsOK, objects, worker, admin
<1>2. CASE UNCHANGED vars
  BY <1>2 DEF vars, objects, worker, admin, ObjectsOK
<1> QED BY <1>1, <1>2, TypingAdmin, TypingServer DEF Next

\* What is on the wire and what callers are left with is unchanged, gone, or
\* taken back to nothing.
LEMMA MessagesFrame ==
  ASSUME NEW h \in Handles, MessagesOK(h),
         reqs'[h] = reqs[h] \/ reqs'[h] = <<>>,
         resps'[h] = resps[h] \/ resps'[h] = <<>>,
         out'[h] \in {out[h], Untouched, Exception}
  PROVE  MessagesOK(h)'
<1>1. \A i \in DOMAIN reqs'[h] : IsRequest(reqs'[h][i])
  BY DEF MessagesOK
<1>2. \A i \in DOMAIN resps'[h] : IsResponse(resps'[h][i])
  BY DEF MessagesOK
<1>3. IsOutcome(out'[h])
  BY DEF MessagesOK, IsOutcome
<1> QED BY <1>1, <1>2, <1>3 DEF MessagesOK

\* One message put on an empty stream is the only one there.
LEMMA OnlyOne ==
  ASSUME NEW r, NEW i \in DOMAIN Append(<<>>, r)
  PROVE  Append(<<>>, r)[i] = r
<1>1. Append(<<>>, r) = <<r>>
  OBVIOUS
<1> QED BY <1>1

\* A request is made of what its handle and its caller hold, a response of what
\* its server hosts.
LEMMA MessagesStep ==
  ASSUME Inv, BodyInv, \A h \in Handles : MessagesOK(h), [Next]_vars,
         NEW h \in Handles
  PROVE  MessagesOK(h)'
<1> USE DEF Inv, WireInv, CallInv, PeerInv, objects, wire, worker
<1>1. CASE Admin
  <2>1. /\ reqs'[h] = reqs[h] \/ reqs'[h] = <<>>
        /\ resps'[h] = resps[h] \/ resps'[h] = <<>>
        /\ out'[h] \in {out[h], Untouched}
    <3>1. ASSUME NEW k, NEW a, Reconnect(k, a)
          PROVE  /\ reqs'[h] = reqs[h] \/ reqs'[h] = <<>>
                 /\ resps'[h] = resps[h] \/ resps'[h] = <<>>
      BY <3>1 DEF Reconnect
    <3>2. CASE Constructed
      BY <3>1, <3>2 DEF Constructed
    <3>3. CASE \E k \in Handles : DnnRmconn(k)
      BY <3>1, <3>3 DEF DnnRmconn
    <3>4. CASE \E p \in live \cup {Null}, a \in Addrs : DnnInit(p, a)
      BY <3>1, <3>4 DEF DnnInit
    <3>5. ASSUME NEW who, NEW q, Ask(who, q)
          PROVE  reqs' = reqs /\ resps' = resps /\ out' = out
      BY <3>5 DEF Ask
    <3>6. CASE Answered \/ AskThrows
      BY <3>6 DEF Answered, AskThrows
    <3> QED BY <1>1, <3>2, <3>3, <3>4, <3>5, <3>6
            DEF Admin, DnnAddconn, DnnGetstate
  <2> QED BY <2>1, MessagesFrame
<1>2. ASSUME NEW k \in Handles, k # h,
             \/ \E i \in Images : Call(k, i)
             \/ Predict(k) \/ Serve(k) \/ Hangup(k)
      PROVE  MessagesOK(h)'
  <2>1. reqs'[h] = reqs[h] /\ resps'[h] = resps[h] /\ out'[h] = out[h]
    BY <1>2 DEF Call, Predict, Skip, Write, WriteThrows, Read, ReadThrows, Finish,
                Serve, Hangup
  <2> QED BY <2>1, MessagesFrame
<1>3. CASE \/ \E i \in Images : Call(h, i)
           \/ Skip(h) \/ WriteThrows(h) \/ ReadThrows(h)
  <2>1. reqs' = reqs /\ resps' = resps /\ out'[h] \in {Untouched, Exception}
    BY <1>3 DEF Call, Skip, WriteThrows, ReadThrows, Finish
  <2> QED BY <2>1, MessagesFrame
<1>4. CASE Write(h)
  <2>1. reqs[h] = <<>> /\ resps' = resps /\ out' = out
    BY <1>4 DEF Write, Exchange, Carries
  <2>2. reqs'[h] = <<>> \/ reqs'[h] = Append(<<>>, Request(h))
    BY <1>4, <2>1 DEF Write
  <2>3. IsRequest(Request(h))
    BY <1>4 DEF Write, Request, IsRequest, ServerTypes
  <2>4. ASSUME NEW i \in DOMAIN reqs'[h] PROVE IsRequest(reqs'[h][i])
    <3>1. CASE reqs'[h] = <<>>
      BY <2>4, <3>1
    <3>2. CASE reqs'[h] = Append(<<>>, Request(h))
      <4>1. reqs'[h][i] = Request(h)
        BY <2>4, <3>2, OnlyOne
      <4> QED BY <2>3, <4>1
    <3> QED BY <2>2, <3>1, <3>2
  <2> QED BY <2>1, <2>4 DEF MessagesOK
<1>5. CASE Read(h)
  <2> DEFINE r == Head(resps[h])
  <2>1. reqs' = reqs /\ resps'[h] = <<>>
    BY <1>5, TakeOne DEF Read, Exchange
  <2>2. out'[h] = IF r.img = NoImage THEN Untouched ELSE Detected(h, r)
    BY <1>5 DEF Read, Finish
  <2>3. IsResponse(r)
    <3>1. 1 \in DOMAIN resps[h] /\ r = resps[h][1]
      BY <1>5 DEF Read, Exchange, Carries
    <3> QED BY <3>1 DEF MessagesOK
  <2>4. IsOutcome(out'[h])
    <3>1. CASE r.img = NoImage
      BY <2>2, <3>1 DEF IsOutcome
    <3>2. CASE r.img # NoImage
      <4>1. PICK i \in Images, l \in ServerTypes :
              r.img = i /\ r = [img |-> i, body |-> Encode(l, Scene[i])]
        <5>1. r # [img |-> NoImage, body |-> "empty"]
          BY <3>2
        <5> HIDE DEF r
        <5> QED BY <2>3, <5>1 DEF IsResponse
      <4> HIDE DEF r
      <4>2. r.body = Encode(l, Scene[i])
        BY <4>1
      <4>3. itype[h] \in Types
        BY DEF BodyInv, TypeInv
      <4>4. out'[h] = [kind |-> "detections", img |-> i,
                       objs |-> Decode(itype[h], Encode(l, Scene[i]))]
        BY <2>2, <3>2, <4>1, <4>2 DEF Detected
      <4>5. out'[h].img = i
        BY <4>4
      <4> QED BY <4>3, <4>4, <4>5 DEF IsOutcome
    <3> QED BY <3>1, <3>2
  <2> QED BY <2>1, <2>4 DEF MessagesOK
<1>6. CASE Serve(h)
  <2> DEFINE q == Head(reqs[h])
             cfg == srv[sock[h].addr].cfg
  <2>1. reqs'[h] = <<>> /\ out' = out /\ resps[h] = <<>>
    BY <1>6, TakeOne DEF Serve, Exchange
  <2>2. resps'[h] = Append(<<>>, Reply(cfg, q))
    BY <1>6, <2>1 DEF Serve
  <2>3. IsResponse(Reply(cfg, q))
    <3>1. Layout(cfg) \in ServerTypes
      BY DEF Layout, ServerTypes
    <3>2. q.img \in Images
      <4>1. 1 \in DOMAIN reqs[h] /\ q = reqs[h][1]
        BY <1>6 DEF Serve, Exchange, Carries
      <4> QED BY <4>1 DEF MessagesOK, IsRequest
    <3> HIDE DEF q, cfg
    <3>3. CASE q.ver \in cfg.ready /\ q.layout = Layout(cfg)
      <4>1. Reply(cfg, q) = [img |-> q.img, body |-> Encode(Layout(cfg), Scene[q.img])]
        BY <3>3 DEF Reply
      <4>2. Reply(cfg, q).img = q.img
        BY <4>1
      <4> QED BY <3>1, <3>2, <4>1, <4>2 DEF IsResponse
    <3>4. CASE ~(q.ver \in cfg.ready /\ q.layout = Layout(cfg))
      BY <3>4 DEF Reply, IsResponse
    <3> QED BY <3>3, <3>4
  <2>4. ASSUME NEW i \in DOMAIN resps'[h] PROVE IsResponse(resps'[h][i])
    <3> HIDE DEF q, cfg
    <3>1. resps'[h][i] = Reply(cfg, q)
      BY <2>2, <2>4, OnlyOne
    <3> QED BY <2>3, <3>1
  <2> QED BY <2>1, <2>4 DEF MessagesOK
<1>7. CASE Hangup(h) \/ UNCHANGED vars
  <2>1. /\ reqs'[h] = reqs[h] \/ reqs'[h] = <<>>
        /\ resps'[h] = resps[h] \/ resps'[h] = <<>>
        /\ out' = out
    BY <1>7 DEF Hangup, vars
  <2> QED BY <2>1, MessagesFrame
<1>8. ASSUME NEW a \in Addrs, Crash(a) \/ Restart(a) PROVE MessagesOK(h)'
  <2>1. /\ reqs'[h] = reqs[h] \/ reqs'[h] = <<>>
        /\ resps'[h] = resps[h] \/ resps'[h] = <<>>
        /\ out' = out
    BY <1>8 DEF Crash, Restart
  <2> QED BY <2>1, MessagesFrame
<1>9. CASE \E k \in Handles : (\E i \in Images : Call(k, i)) \/ Predict(k) \/ Serve(k)
                               \/ Hangup(k)
  BY <1>2, <1>3, <1>4, <1>5, <1>6, <1>7, <1>9 DEF Predict
<1> QED BY <1>1, <1>7, <1>8, <1>9 DEF Next

LEMMA MessagesInit == Init => \A h \in Handles : MessagesOK(h)
  BY DEF Init, MessagesOK, IsOutcome

\* A list of versions has a number, a type and a state for each.
LEMMA ListInRange ==
  ASSUME NEW cfg \in Models
  PROVE  state2st(cfg) \in Seq(Versions)
<1> DEFINE n == Cardinality(cfg.listed)
<1>1. n \in Nat
  BY Listed
<1>2. ASSUME NEW i \in 1..n
      PROVE  [version |-> i, type |-> Layout(cfg), state |-> i \in cfg.ready]
               \in Versions
  <2>1. i \in Nat \ {0}
    BY <1>1
  <2>2. Layout(cfg) \in ServerTypes
    BY DEF Layout, ServerTypes
  <2>3. CASE i \in cfg.ready
    <3>1. (i \in cfg.ready) = TRUE
      BY <2>3
    <3> QED BY <2>1, <2>2, <3>1 DEF Versions
  <2>4. CASE i \notin cfg.ready
    <3>1. (i \in cfg.ready) = FALSE
      BY <2>4
    <3> QED BY <2>1, <2>2, <3>1 DEF Versions
  <2> QED BY <2>3, <2>4
<1> HIDE DEF n
<1>3. state2st(cfg) \in [1..n -> Versions]
  BY <1>2 DEF state2st, n
<1> QED BY <1>1, <1>3

LEMMA ReportOf ==
  ASSUME NEW d \in BOOLEAN, NEW q \in Queries, NEW peer \in Incarnations,
         NEW cfg \in Models, NEW n \in Nat, NEW w \in Seq(Versions)
  PROVE  [done |-> d, query |-> q, peer |-> peer, cfg |-> cfg, ncnt |-> n,
          written |-> w] \in Reports
  BY DEF Reports

\* Who asks gets numbers and entries in their ranges.
LEMMA ReportInRange ==
  ASSUME GotInv
  PROVE  ReportsOK
<1>1. admList \in Seq(Versions)
  <2>1. ASSUME NEW cfg \in Configs PROVE state2st(cfg) \in Seq(Versions)
    BY ListInRange DEF Models
  <2>2. <<>> \in Seq(Versions)
    OBVIOUS
  <2> QED BY <2>1, <2>2 DEF GotInv
<1>2. ASSUME got = NoGot PROVE got \in Reports
  <2>1. /\ NoQuery \in Queries /\ NoConfig \in Models
        /\ NoPeer \in Incarnations /\ <<>> \in Seq(Versions) /\ FALSE \in BOOLEAN
        /\ 0 \in Nat
    BY DEF NoQuery, Queries, NoPeer, Incarnations, Models
  <2>2. NoGot \in Reports
    BY <2>1, ReportOf DEF NoGot
  <2> QED BY <1>2, <2>2
<1>3. ASSUME NEW q \in Queries, NEW peer \in Incarnations, NEW cfg \in Models,
             got = Got(q, peer, cfg, state2st(cfg))
      PROVE  got \in Reports
  <2> DEFINE list == state2st(cfg)
             c == CopyOut(list, q)
  <2>1. list \in Seq(Versions) /\ DOMAIN list = 1..Len(list) /\ Len(list) \in Nat
    BY ListInRange
  <2>2. c.ncnt \in Nat /\ c.written \in Seq(Versions)
    <3> DEFINE hits == {i \in DOMAIN list : list[i].version = q.version}
               first == CHOOSE i \in hits : \A j \in hits : i <= j
    <3>1. CASE q.version # AllVersions /\ hits # {}
      <4>1. first \in hits
        <5>1. ASSUME NEW i \in hits, NEW j \in hits PROVE i <= j
          BY Listed
        <5> QED BY <3>1, <5>1
      <4>2. c = [ncnt |-> 1, written |-> <<list[first]>>]
        BY <3>1 DEF CopyOut
      <4> HIDE DEF first, c, list
      <4>3. list[first] \in Versions
        BY <2>1, <4>1
      <4>4. <<list[first]>> \in Seq(Versions)
        BY <4>3
      <4> QED BY <4>2, <4>4
    <3>2. CASE q.version # AllVersions /\ hits = {}
      <4>1. c = [ncnt |-> q.cap, written |-> <<>>]
        BY <3>2 DEF CopyOut
      <4> QED BY <4>1 DEF Queries
    <3>3. CASE q.version = AllVersions
      <4>1. CASE q.cap >= Len(list)
        <5>1. c = [ncnt |-> Len(list), written |-> list]
          BY <3>3, <4>1 DEF CopyOut
        <5> HIDE DEF c, list
        <5> QED BY <2>1, <5>1
      <4>2. CASE ~(q.cap >= Len(list))
        <5>1. c = [ncnt |-> 0, written |-> <<>>]
          BY <3>3, <4>2 DEF CopyOut
        <5>2. <<>> \in Seq(Versions)
          OBVIOUS
        <5> HIDE DEF c, list
        <5> QED BY <5>1, <5>2
      <4> QED BY <4>1, <4>2
    <3> QED BY <3>1, <3>2, <3>3
  <2>3. got = [done |-> TRUE, query |-> q, peer |-> peer, cfg |-> cfg,
               ncnt |-> c.ncnt, written |-> c.written]
    BY <1>3 DEF Got
  <2> HIDE DEF c
  <2>4. TRUE \in BOOLEAN
    OBVIOUS
  <2> QED BY <2>2, <2>3, <2>4, ReportOf
<1>4. got \in Reports
  <2>1. ASSUME got # NoGot PROVE got \in Reports
    <3>1. PICK q \in Queries, peer \in Incarnations, cfg \in Models :
            got = Got(q, peer, cfg, state2st(cfg))
      BY <2>1 DEF GotInv
    <3> QED BY <1>3, <3>1
  <2> QED BY <1>2, <2>1
<1> QED BY <1>1, <1>4 DEF ReportsOK, GotInv

\* The library and its threads stay in their ranges, and so do the messages they
\* exchange with servers and what they tell their callers.
THEOREM Typing == Spec => []TypeOK
<1>1. Spec => []ObjectsOK
  BY Bodies, TypingInit, TypingStep, OneExchange, PTL DEF Spec
<1> DEFINE Messages == \A h \in Handles : MessagesOK(h)
<1>2. Init => Messages
  BY MessagesInit
<1>3. Inv /\ BodyInv /\ Messages /\ [Next]_vars => Messages'
  BY MessagesStep
<1>4. ObjectsOK /\ Messages /\ GotInv => TypeOK
  BY ReportInRange DEF TypeOK
<1> HIDE DEF Messages
<1> QED BY <1>1, <1>2, <1>3, <1>4, Gots, Bodies, OneExchange, PTL DEF Spec


-----------------------------------------------------------------------------
(* What a constructor learnt, and how long it holds                         *)

\* What was learnt from an incarnation p of a server that is not of the future
\* holds as long as p has not been replaced
Holds(p, type) ==
  /\ p \in [addr : Addrs, inc : Nat]
  /\ p.inc <= srv[p.addr].inc
  /\ p.inc = srv[p.addr].inc => type = Layout(srv[p.addr].cfg)

LearntInv ==
  /\ DOMAIN learnt = Handles
  /\ \A h \in Handles : learnt[h] # NoPeer => Holds(learnt[h], itype[h])
  /\ adm = "idle" => admList = <<>>
  /\ adm = "asked" =>
       /\ admList = <<>> /\ admPeer \in [addr : Addrs, inc : Nat]
       /\ admPeer.inc <= srv[admPeer.addr].inc
  /\ adm = "listed" /\ admList # <<>> => Holds(admPeer, admList[1].type)

LEMMA LearntAdmin == Inv /\ BodyInv /\ LearntInv /\ Admin => LearntInv'
<1> SUFFICES ASSUME Inv, BodyInv, LearntInv, Admin PROVE LearntInv'
  OBVIOUS
<1> USE DEF objects, Holds
<1>1. ASSUME NEW p \in live \cup {Null}, NEW a \in Addrs, DnnInit(p, a)
      PROVE  LearntInv'
  BY <1>1 DEF DnnInit, LearntInv, admin
<1>2. ASSUME NEW who, NEW q, Ask(who, q) PROVE LearntInv'
  <2>1. Reachable(cur) => /\ Peer(cur) \in [addr : Addrs, inc : Nat]
                          /\ Peer(cur).addr = cur /\ Peer(cur).inc = srv[cur].inc
                          /\ srv[cur].inc \in Nat
    BY DEF Reachable, Peer, Inv, PeerInv
  <2> QED BY <1>2, <2>1 DEF Ask, LearntInv
<1>3. ASSUME Answered PROVE LearntInv'
  <2> DEFINE cfg == srv[admPeer.addr].cfg
  <2>1. cfg \in Models
    BY <1>3 DEF Answered, BodyInv, TypeInv, Inv, PeerInv, Models
  <2>2. state2st(cfg) # <<>> => state2st(cfg)[1].type = Layout(cfg)
    <3>1. ASSUME Cardinality(cfg.listed) = 0 PROVE state2st(cfg) = <<>>
      BY <3>1 DEF state2st
    <3>2. Cardinality(cfg.listed) \in Nat
      BY <2>1, Listed
    <3> QED BY <2>1, <3>1, <3>2, Listed
  <2> QED BY <1>3, <2>2 DEF Answered, Idle, LearntInv
<1>4. ASSUME AskThrows PROVE LearntInv'
  BY <1>4 DEF AskThrows, Idle, LearntInv
<1>5. ASSUME Constructed PROVE LearntInv'
  <2>1. PICK h \in Handles : h = admFor
    BY <1>5 DEF Inv, AdminInv, Constructed
  <2>2. /\ learnt'[h] = IF admList # <<>> THEN admPeer ELSE NoPeer
        /\ admList # <<>> => itype'[h] = admList[1].type
        /\ \A k \in Handles \ {h} : learnt'[k] = learnt[k] /\ itype'[k] = itype[k]
        /\ DOMAIN learnt' = Handles
    BY <1>5, <2>1 DEF Constructed, LearntInv, BodyInv, TypeInv
  <2> QED BY <1>5, <2>2 DEF Constructed, Idle, LearntInv
<1>6. ASSUME NEW h \in Handles, DnnRmconn(h) PROVE LearntInv'
  <2>1. /\ learnt'[h] = NoPeer /\ DOMAIN learnt' = Handles
        /\ \A k \in Handles \ {h} : learnt'[k] = learnt[k] /\ itype'[k] = itype[k]
    BY <1>6 DEF DnnRmconn, LearntInv, BodyInv, TypeInv
  <2> QED BY <1>6, <2>1 DEF DnnRmconn, LearntInv, admin
<1> QED BY <1>1, <1>2, <1>3, <1>4, <1>5, <1>6
        DEF Admin, DnnAddconn, DnnGetstate

\* A server that crashes keeps its model, and one that comes back is another
\* incarnation.
LEMMA HoldsOn ==
  ASSUME Inv, NEW a \in Addrs, Crash(a) \/ Restart(a), NEW p, NEW t, Holds(p, t)
  PROVE  /\ p \in [addr : Addrs, inc : Nat] /\ p.inc <= srv'[p.addr].inc
         /\ p.inc = srv'[p.addr].inc => t = Layout(srv'[p.addr].cfg)
<1>1. ASSUME NEW b \in Addrs
      PROVE  /\ srv[b].inc \in Nat
             /\ \/ srv'[b].inc = srv[b].inc /\ srv'[b].cfg = srv[b].cfg
                \/ srv'[b].inc = srv[b].inc + 1
  <2>1. CASE Crash(a)
    BY <2>1 DEF Crash, Inv, PeerInv
  <2>2. CASE Restart(a)
    BY <2>2 DEF Restart, Inv, PeerInv
  <2> QED BY <2>1, <2>2
<1> QED BY <1>1 DEF Holds

LEMMA LearntServer ==
  ASSUME Inv, LearntInv, NEW a \in Addrs, Crash(a) \/ Restart(a)
  PROVE  LearntInv'
<1>1. ASSUME NEW p, NEW t, Holds(p, t)
      PROVE  /\ p \in [addr : Addrs, inc : Nat] /\ p.inc <= srv'[p.addr].inc
             /\ p.inc = srv'[p.addr].inc => t = Layout(srv'[p.addr].cfg)
  BY <1>1, HoldsOn
<1>2. ASSUME NEW b \in Addrs
      PROVE  srv[b].inc \in Nat /\ srv'[b].inc \in Nat /\ srv[b].inc <= srv'[b].inc
  <2>1. CASE Crash(a)
    BY <2>1 DEF Crash, Inv, PeerInv
  <2>2. CASE Restart(a)
    BY <2>2 DEF Restart, Inv, PeerInv
  <2> QED BY <2>1, <2>2
<1>3. UNCHANGED <<objects, admin>>
  BY DEF Crash, Restart
<1> QED BY <1>1, <1>2, <1>3 DEF LearntInv, Holds, objects, admin

LEMMA LearntStep == Inv /\ BodyInv /\ LearntInv /\ [Next]_vars => LearntInv'
<1> SUFFICES ASSUME Inv, BodyInv, LearntInv, [Next]_vars PROVE LearntInv'
  OBVIOUS
<1>1. ASSUME NEW h \in Handles,
             (\E i \in Images : Call(h, i)) \/ Predict(h) \/ Serve(h) \/ Hangup(h)
      PROVE  LearntInv'
  BY <1>1 DEF Call, Predict, Skip, Write, WriteThrows, Read, ReadThrows, Serve,
              Hangup, objects, admin, LearntInv, Holds
<1>2. CASE UNCHANGED vars
  BY <1>2 DEF vars, objects, admin, LearntInv, Holds
<1> QED BY <1>1, <1>2, LearntAdmin, LearntServer DEF Next

\* As long as the server a handle's type was read from has not been replaced, it
\* runs the model of that type; so does what a constructor has read so far.
THEOREM Learnt == Spec => []LearntInv
<1>1. Init => LearntInv
  BY DEF Init, LearntInv
<1> QED BY <1>1, Bodies, LearntStep, OneExchange, PTL DEF Spec

\* A request that reaches the server its handle was made against is laid out as
\* that server's model expects, for any number of restarts in between.
THEOREM Layouts == Spec => []LayoutUnderstood
<1>1. Inv /\ BodyInv /\ LearntInv => LayoutUnderstood
  <2> SUFFICES ASSUME Inv, BodyInv, LearntInv, NEW h \in Handles,
                      reqs[h] # <<>>, learnt[h] = sock[h]
               PROVE  Head(reqs[h]).layout = Layout(srv[sock[h].addr].cfg)
    BY DEF LayoutUnderstood
  <2>1. Alive(sock[h])
    BY DEF Inv, WireInv, Exchange
  <2>2. itype[h] = Layout(srv[sock[h].addr].cfg)
    BY <2>1 DEF Alive, LearntInv, Holds
  <2>3. itype[h] # Other
    BY <2>2 DEF Layout, TRT, TFS, Other
  <2> QED BY <2>2, <2>3 DEF BodyInv, Sound, Asked
<1> QED BY <1>1, Bodies, Learnt, OneExchange, PTL

\* What a caller of dnn_getstate holds of an incarnation is what a handle, or a
\* constructor on its way, has read from the same
AgreeInv ==
  got.peer # NoPeer =>
    /\ Holds(got.peer, Layout(got.cfg))
    /\ \A h \in Handles : learnt[h] = got.peer => itype[h] = Layout(got.cfg)
    /\ adm = "listed" /\ admList # <<>> /\ admPeer = got.peer =>
         admList[1].type = Layout(got.cfg)

LEMMA AgreeAdmin == Inv /\ BodyInv /\ LearntInv /\ AgreeInv /\ Admin => AgreeInv'
<1> SUFFICES ASSUME Inv, BodyInv, LearntInv, AgreeInv, Admin PROVE AgreeInv'
  OBVIOUS
<1> USE DEF objects, admin, Holds
<1>1. ASSUME NEW p \in live \cup {Null}, NEW a \in Addrs, DnnInit(p, a)
      PROVE  AgreeInv'
  BY <1>1 DEF DnnInit, AgreeInv
<1>2. ASSUME NEW who, NEW q, Ask(who, q) PROVE AgreeInv'
  <2>1. CASE got' = NoGot \/ got' = Got(q, NoPeer, NoConfig, <<>>)
    BY <2>1 DEF NoGot, Got, AgreeInv
  <2>2. CASE got' = got
    <3>1. admList' = <<>>
      BY <1>2 DEF Ask, LearntInv
    <3> QED BY <1>2, <2>2, <3>1 DEF Ask, AgreeInv
  <2> QED BY <1>2, <2>1, <2>2 DEF Ask
<1>3. ASSUME Answered PROVE AgreeInv'
  <2> DEFINE cfg == srv[admPeer.addr].cfg
  <2>1. /\ admPeer \in [addr : Addrs, inc : Nat]
        /\ srv[admPeer.addr].inc = admPeer.inc /\ UNCHANGED <<srv, learnt, itype>>
    BY <1>3 DEF Answered, Alive, LearntInv
  <2>2. CASE got' = Got(query, admPeer, cfg, state2st(cfg)) /\ adm' = "idle"
    <3>1. got'.peer = admPeer /\ got'.cfg = cfg
      BY <2>2 DEF Got
    <3>2. Holds(got'.peer, Layout(got'.cfg))
      BY <2>1, <3>1, <1>3, Zenon, SMT DEF Inv, PeerInv
    <3>3. ASSUME NEW h \in Handles, learnt[h] = admPeer PROVE itype[h] = Layout(cfg)
      <4>1. learnt[h] # NoPeer
        BY <1>3, <3>3 DEF Answered, Alive
      <4> QED BY <2>1, <3>3, <4>1 DEF LearntInv
    <3> QED BY <2>1, <2>2, <3>1, <3>2, <3>3 DEF AgreeInv
  <2>3. CASE got' = got /\ adm' = "listed" /\ admList' = state2st(cfg)
             /\ admPeer' = admPeer
    <3>1. state2st(cfg) # <<>> => state2st(cfg)[1].type = Layout(cfg)
      <4>1. cfg \in Models
        BY <1>3 DEF Answered, BodyInv, TypeInv, Inv, PeerInv, Models
      <4>2. ASSUME Cardinality(cfg.listed) = 0 PROVE state2st(cfg) = <<>>
        BY <4>2 DEF state2st
      <4>3. Cardinality(cfg.listed) \in Nat
        BY <4>1, Listed
      <4> QED BY <4>1, <4>2, <4>3, Listed
    <3> QED BY <2>1, <2>3, <3>1 DEF AgreeInv
  <2> QED BY <1>3, <2>2, <2>3 DEF Answered, Idle
<1>4. ASSUME AskThrows PROVE AgreeInv'
  BY <1>4 DEF AskThrows, Idle, AgreeInv
<1>5. ASSUME Constructed PROVE AgreeInv'
  <2>1. PICK h \in Handles : h = admFor
    BY <1>5 DEF Inv, AdminInv, Constructed
  <2>2. /\ learnt'[h] = IF admList # <<>> THEN admPeer ELSE NoPeer
        /\ admList # <<>> => itype'[h] = admList[1].type
        /\ \A k \in Handles \ {h} : learnt'[k] = learnt[k] /\ itype'[k] = itype[k]
        /\ UNCHANGED <<srv, got>> /\ adm = "listed" /\ adm' = "idle"
    BY <1>5, <2>1 DEF Constructed, Idle, LearntInv, BodyInv, TypeInv
  <2>3. ASSUME got.peer # NoPeer, NEW k \in Handles, learnt'[k] = got.peer
        PROVE  itype'[k] = Layout(got.cfg)
    <3>1. CASE k = h
      BY <2>2, <2>3, <3>1 DEF AgreeInv
    <3>2. CASE k # h
      BY <2>2, <2>3, <3>2 DEF AgreeInv
    <3> QED BY <3>1, <3>2
  <2> QED BY <2>2, <2>3 DEF AgreeInv
<1>6. ASSUME NEW h \in Handles, DnnRmconn(h) PROVE AgreeInv'
  <2>1. /\ learnt'[h] = NoPeer
        /\ \A k \in Handles \ {h} : learnt'[k] = learnt[k] /\ itype'[k] = itype[k]
    BY <1>6 DEF DnnRmconn, LearntInv, BodyInv, TypeInv
  <2> QED BY <1>6, <2>1 DEF DnnRmconn, AgreeInv
<1> QED BY <1>1, <1>2, <1>3, <1>4, <1>5, <1>6
        DEF Admin, DnnAddconn, DnnGetstate

LEMMA AgreeStep ==
  Inv /\ BodyInv /\ LearntInv /\ AgreeInv /\ [Next]_vars => AgreeInv'
<1> SUFFICES ASSUME Inv, BodyInv, LearntInv, AgreeInv, [Next]_vars PROVE AgreeInv'
  OBVIOUS
<1>1. ASSUME NEW h \in Handles,
             (\E i \in Images : Call(h, i)) \/ Predict(h) \/ Serve(h) \/ Hangup(h)
      PROVE  AgreeInv'
  BY <1>1 DEF Call, Predict, Skip, Write, WriteThrows, Read, ReadThrows, Serve,
              Hangup, objects, admin, AgreeInv, Holds
<1>2. ASSUME NEW a \in Addrs, Crash(a) \/ Restart(a) PROVE AgreeInv'
  <2>1. UNCHANGED <<objects, admin>>
    BY <1>2 DEF Crash, Restart
  <2>2. ASSUME NEW p, NEW t, Holds(p, t)
        PROVE  /\ p \in [addr : Addrs, inc : Nat] /\ p.inc <= srv'[p.addr].inc
               /\ p.inc = srv'[p.addr].inc => t = Layout(srv'[p.addr].cfg)
    BY <1>2, <2>2, HoldsOn
  <2> QED BY <2>1, <2>2 DEF AgreeInv, Holds, objects, admin
<1>3. CASE UNCHANGED vars
  BY <1>3 DEF vars, objects, admin, AgreeInv, Holds
<1> QED BY <1>1, <1>2, <1>3, AgreeAdmin DEF Next

\* The form in which the demo passes a frame, which it chose by one query before
\* it made its handles, is the one a handle sends on that asked the same server
\* incarnation: if the model has one version or is a TensorRT plan, and only then.
THEOREM Payloads == Spec => []PayloadFits
<1>1. AgreeInv /\ GotInv => PayloadFits
  <2> SUFFICES ASSUME AgreeInv, GotInv, NEW h \in Handles,
                      got.done, got.query = [cap |-> 1, version |-> AllVersions],
                      learnt[h] # NoPeer, got.peer = learnt[h]
               PROVE  m_isvrtype(got) = itype[h] <=>
                        Cardinality(got.cfg.listed) = 1 \/ Layout(got.cfg) = TRT
    BY DEF PayloadFits
  <2>1. PICK q \in Queries, peer \in Incarnations, cfg \in Models :
          got = Got(q, peer, cfg, state2st(cfg))
    BY DEF GotInv, NoGot
  <2> DEFINE list == state2st(cfg)
             c == CopyOut(list, q)
  <2>2. /\ got.query = q /\ got.cfg = cfg /\ got.written = c.written
        /\ q.version = AllVersions /\ q.cap = 1
    BY <2>1 DEF Got
  <2>3. /\ q.cap >= Len(list) => c.written = list
        /\ q.cap < Len(list) => c.written = <<>>
    BY <2>2, Copied
  <2> HIDE DEF c, list
  <2>4. /\ Len(list) = Cardinality(cfg.listed) /\ Len(list) \in Nat
        /\ \A i \in 1..Len(list) : list[i].type = Layout(cfg)
        /\ DOMAIN list = 1..Len(list)
    BY Listed DEF list
  <2>5. itype[h] = Layout(cfg)
    BY <2>2 DEF AgreeInv
  <2>6. CASE Len(list) = 1
    <3>1. c.written = list
      BY <2>2, <2>3, <2>6
    <3>2. list # <<>>
      <4>1. ASSUME list = <<>> PROVE Len(list) = 0
        BY <4>1
      <4> QED BY <2>6, <4>1
    <3> QED BY <2>2, <2>4, <2>5, <2>6, <3>1, <3>2 DEF m_isvrtype
  <2>7. CASE Len(list) # 1
    <3>1. c.written = <<>>
      BY <2>2, <2>3, <2>4, <2>7
    <3> QED BY <2>2, <2>4, <2>5, <2>7, <3>1 DEF m_isvrtype
  <2> QED BY <2>6, <2>7
<1>2. Init => AgreeInv
  BY DEF Init, AgreeInv, NoGot
<1> QED BY <1>1, <1>2, AgreeStep, Gots, Bodies, Learnt, OneExchange, PTL DEF Spec


-----------------------------------------------------------------------------
(* Every call ends                                                          *)

\* A stream leads to no server of the future, so one that is at its end stays
\* there when the server comes back
EndInv ==
  /\ \A a \in Addrs : srv[a].inc # 0
  /\ \A h \in Handles : sock[h] # NoPeer => sock[h].inc <= srv[sock[h].addr].inc

\* A call in http::read has its request or its response on the wire, or none to
\* come
Owed(h) == pc[h] = "reading" => reqs[h] # <<>> \/ resps[h] # <<>> \/ ~Alive(sock[h])

OwedInv == EndInv /\ \A h \in Handles : Owed(h)

\* What a connect leads to is not of the future.
LEMMA EndReconnect ==
  ASSUME Inv, EndInv, NEW h \in Handles, NEW a, Reconnect(h, a), srv' = srv
  PROVE  EndInv'
<1>1. sock'[h] # NoPeer => sock'[h].inc <= srv[sock'[h].addr].inc
  BY DEF Inv, PeerInv, Reconnect, Reachable, Peer
<1>2. \A k \in Handles \ {h} : sock'[k] = sock[k]
  BY DEF Reconnect, Inv, PeerInv
<1> QED BY <1>1, <1>2 DEF EndInv

\* The steps of the administering thread leave calls in progress alone.
LEMMA OwedAdmin == Inv /\ OwedInv /\ Admin => OwedInv'
<1> SUFFICES ASSUME Inv, OwedInv, Admin PROVE OwedInv'
  OBVIOUS
<1> USE DEF objects, worker, wire
<1>1. ASSUME NEW h \in Handles, NEW a, Reconnect(h, a), UNCHANGED <<srv, pc>>,
             pc[h] = "idle"
      PROVE  OwedInv'
  <2>1. EndInv'
    BY <1>1, EndReconnect DEF OwedInv
  <2>2. ASSUME NEW k \in Handles PROVE Owed(k)'
    <3>1. CASE k = h
      BY <1>1, <3>1 DEF Owed
    <3>2. CASE k # h
      <4>1. sock'[k] = sock[k] /\ reqs'[k] = reqs[k] /\ resps'[k] = resps[k]
        BY <1>1, <3>2 DEF Reconnect, Inv, PeerInv, WireInv
      <4> QED BY <1>1, <4>1 DEF OwedInv, Owed, Alive
    <3> QED BY <3>1, <3>2
  <2> QED BY <2>1, <2>2 DEF OwedInv
<1>2. ASSUME UNCHANGED <<srv, sock, reqs, resps, pc>> PROVE OwedInv'
  BY <1>2 DEF OwedInv, EndInv, Owed, Alive
<1>3. ASSUME NEW p \in live \cup {Null}, NEW a \in Addrs, DnnInit(p, a)
      PROVE  OwedInv'
  <2>1. CASE p # Null /\ cur[1] # a[1]
    <3>1. p \in Handles /\ Reconnect(p, a) /\ UNCHANGED <<srv, pc>> /\ pc[p] = "idle"
      BY <1>3, <2>1 DEF DnnInit, Inv, CallInv
    <3> QED BY <1>1, <3>1
  <2>2. CASE ~(p # Null /\ cur[1] # a[1])
    BY <1>2, <1>3, <2>2 DEF DnnInit
  <2> QED BY <2>1, <2>2
<1>4. ASSUME NEW who, NEW q, Ask(who, q) PROVE OwedInv'
  BY <1>2, <1>4 DEF Ask
<1>5. ASSUME Answered \/ AskThrows PROVE OwedInv'
  BY <1>2, <1>5 DEF Answered, AskThrows
<1>6. ASSUME Constructed PROVE OwedInv'
  <2>1. admFor \in Handles /\ pc[admFor] = "idle"
    BY <1>6 DEF Constructed, Inv, AdminInv, CallInv
  <2>2. Reconnect(admFor, cur) /\ UNCHANGED <<srv, pc>>
    BY <1>6 DEF Constructed
  <2> QED BY <1>1, <2>1, <2>2
<1>7. ASSUME NEW h \in Handles, DnnRmconn(h) PROVE OwedInv'
  BY <1>1, <1>7 DEF DnnRmconn
<1> QED BY <1>3, <1>4, <1>5, <1>6, <1>7 DEF Admin, DnnAddconn, DnnGetstate

\* The steps of a worker and of its server's end of the stream.
LEMMA OwedStream ==
  ASSUME Inv, OwedInv, NEW h \in Handles,
         (\E i \in Images : Call(h, i)) \/ Predict(h) \/ Serve(h) \/ Hangup(h)
  PROVE  OwedInv'
<1> USE DEF objects, wire, worker
<1>1. EndInv'
  <2>1. CASE Hangup(h)
    <3>1. sock'[h].inc = 0 /\ sock'[h].addr = sock[h].addr /\ sock[h].addr \in Addrs
      BY <2>1 DEF Hangup, Alive, Inv, PeerInv, Peers
    <3>2. srv' = srv /\ \A k \in Handles \ {h} : sock'[k] = sock[k]
      BY <2>1 DEF Hangup, Inv, PeerInv
    <3> QED BY <3>1, <3>2 DEF EndInv, OwedInv, Inv, PeerInv
  <2>2. CASE ~Hangup(h)
    <3>1. UNCHANGED <<srv, sock>>
      BY <2>2 DEF Call, Predict, Skip, Write, WriteThrows, Read, ReadThrows, Serve
    <3> QED BY <3>1 DEF EndInv, OwedInv
  <2> QED BY <2>1, <2>2
<1>2. ASSUME NEW k \in Handles, k # h PROVE Owed(k)'
  <2>1. srv' = srv /\ sock'[k] = sock[k]
    BY <1>2 DEF Call, Predict, Skip, Write, WriteThrows, Read, ReadThrows, Finish,
                Serve, Hangup, Inv, CallInv, WireInv, PeerInv
  <2>2. reqs'[k] = reqs[k] /\ resps'[k] = resps[k] /\ pc'[k] = pc[k]
    BY <1>2 DEF Call, Predict, Skip, Write, WriteThrows, Read, ReadThrows, Finish,
                Serve, Hangup, Inv, CallInv, WireInv, PeerInv
  <2> QED BY <2>1, <2>2 DEF OwedInv, Owed, Alive
<1>3. Owed(h)'
  <2>1. CASE \E i \in Images : Call(h, i)
    BY <2>1 DEF Call, Owed, Inv, CallInv
  <2>2. CASE Skip(h) \/ WriteThrows(h) \/ Read(h) \/ ReadThrows(h)
    <3>1. pc'[h] = "idle"
      BY <2>2 DEF Skip, WriteThrows, Read, ReadThrows, Finish, Inv, CallInv
    <3> QED BY <3>1 DEF Owed
  <2>3. CASE Write(h)
    <3>1. CASE Alive(sock[h])
      <4>1. reqs'[h] = Append(reqs[h], Request(h)) /\ reqs[h] = <<>>
        BY <2>3, <3>1 DEF Write, Inv, WireInv, Exchange
      <4>2. Append(<<>>, Request(h)) # <<>>
        OBVIOUS
      <4> QED BY <4>1, <4>2 DEF Owed
    <3>2. CASE ~Alive(sock[h])
      BY <2>3, <3>2 DEF Write, Owed, Alive
    <3> QED BY <3>1, <3>2
  <2>4. CASE Serve(h)
    <3>1. resps[h] = <<>>
      BY <2>4 DEF Serve, Inv, WireInv, Exchange
    <3>2. \E r : resps'[h] = Append(<<>>, r)
      BY <2>4, <3>1 DEF Serve, Inv, WireInv
    <3>3. \A r : Append(<<>>, r) # <<>>
      OBVIOUS
    <3> QED BY <3>2, <3>3 DEF Owed
  <2>5. CASE Hangup(h)
    <3>1. sock[h].addr \in Addrs /\ sock'[h].inc = 0 /\ sock'[h].addr = sock[h].addr
      BY <2>5 DEF Hangup, Alive, Inv, PeerInv, Peers
    <3>2. ~Alive(sock[h])'
      BY <2>5, <3>1 DEF Hangup, Alive, EndInv, OwedInv
    <3> QED BY <3>2 DEF Owed
  <2> QED BY <2>1, <2>2, <2>3, <2>4, <2>5 DEF Predict
<1> QED BY <1>1, <1>2, <1>3 DEF OwedInv

\* A stream at its end stays there, whatever happens to the servers; and what
\* is on a stream is lost only with its end.
LEMMA EndStays ==
  ASSUME Inv, EndInv, NEW a \in Addrs, Crash(a) \/ Restart(a), NEW h \in Handles
  PROVE  /\ ~Alive(sock[h]) => ~Alive(sock[h])'
         /\ (reqs'[h] = reqs[h] /\ resps'[h] = resps[h]) \/ ~Alive(sock[h])'
<1> USE DEF objects, wire
<1>1. sock' = sock /\ sock[h] \in Peers /\ srv[a].inc \in Nat
  BY DEF Crash, Restart, Inv, PeerInv
<1>2. \A b \in Addrs \ {a} : srv'[b] = srv[b]
  BY DEF Crash, Restart, Inv, PeerInv
<1>3. CASE Crash(a)
  <2>1. ~srv'[a].up
    BY <1>3 DEF Crash, Inv, PeerInv
  <2>2. ~Alive(sock[h]) => ~Alive(sock[h])'
    BY <1>1, <1>2, <2>1 DEF Alive, Peers
  <2>3. CASE sock[h] = Peer(a)
    <3>1. sock[h].addr = a
      BY <2>3 DEF Peer
    <3> QED BY <1>1, <2>1, <2>2, <3>1 DEF Alive
  <2>4. CASE sock[h] # Peer(a)
    BY <1>3, <2>2, <2>4 DEF Crash
  <2> QED BY <2>3, <2>4
<1>4. CASE Restart(a)
  <2>1. /\ srv'[a].inc = srv[a].inc + 1 /\ ~srv[a].up
        /\ reqs' = reqs /\ resps' = resps
    BY <1>4 DEF Restart, Inv, PeerInv
  <2>2. ~Alive(sock[h]) => ~Alive(sock[h])'
    BY <1>1, <1>2, <2>1 DEF Alive, Peers, EndInv
  <2> QED BY <2>1, <2>2
<1> QED BY <1>3, <1>4

\* The steps of the servers.
LEMMA OwedServer ==
  ASSUME Inv, OwedInv, NEW a \in Addrs, Crash(a) \/ Restart(a)
  PROVE  OwedInv'
<1> USE DEF objects, wire, worker
<1>1. EndInv'
  <2>1. sock' = sock /\ sock \in [Handles -> Peers]
    BY DEF Crash, Restart, Inv, PeerInv
  <2>2. ASSUME NEW b \in Addrs
        PROVE  srv[b].inc \in Nat /\ srv'[b].inc \in Nat /\ srv[b].inc <= srv'[b].inc
    <3>1. CASE Crash(a)
      BY <3>1 DEF Crash, Inv, PeerInv
    <3>2. CASE Restart(a)
      BY <3>2 DEF Restart, Inv, PeerInv
    <3> QED BY <3>1, <3>2
  <2>3. \A b \in Addrs : srv'[b].inc # 0
    BY <2>2 DEF OwedInv, EndInv
  <2>4. ASSUME NEW h \in Handles, sock[h] # NoPeer
        PROVE  sock[h].inc <= srv'[sock[h].addr].inc
    <3>1. sock[h].addr \in Addrs /\ sock[h].inc \in Nat
      BY <2>1, <2>4 DEF Peers
    <3>2. sock[h].inc <= srv[sock[h].addr].inc
      BY <2>4 DEF OwedInv, EndInv
    <3> QED BY <2>2, <3>1, <3>2
  <2> QED BY <2>1, <2>3, <2>4 DEF EndInv
<1>2. ASSUME NEW h \in Handles PROVE Owed(h)'
  <2>1. pc' = pc
    BY DEF Crash, Restart
  <2> QED BY <2>1, EndStays DEF OwedInv, Owed
<1> QED BY <1>1, <1>2 DEF OwedInv

LEMMA OwedStep == Inv /\ OwedInv /\ [Next]_vars => OwedInv'
<1> SUFFICES ASSUME Inv, OwedInv, [Next]_vars PROVE OwedInv'
  OBVIOUS
<1>1. CASE UNCHANGED vars
  BY <1>1 DEF vars, objects, wire, worker, OwedInv, EndInv, Owed, Alive
<1> QED BY <1>1, OwedAdmin, OwedStream, OwedServer DEF Next

LEMMA OwedAlways == Spec => []OwedInv
<1>1. ASSUME Init PROVE OwedInv
  <2>1. \A a \in Addrs : srv[a].inc = 1
    BY <1>1 DEF Init
  <2>2. \A h \in Handles : sock[h] = NoPeer /\ pc[h] = "idle"
    BY <1>1 DEF Init
  <2> QED BY <2>1, <2>2 DEF OwedInv, EndInv, Owed
<1> QED BY <1>1, OwedStep, OneExchange, PTL DEF Spec

\* A call in http::read has its answer on the way, or the end of its stream, for
\* any number of handles, servers, calls and restarts.
THEOREM AnswersOwed == Spec => []AnswerOwed
<1>1. OwedInv => AnswerOwed
  BY DEF OwedInv, Owed, AnswerOwed
<1> QED BY <1>1, OwedAlways, PTL

\* The worker of h has something to go on with, its server something to answer
CanGoOn(h)   == \/ pc[h] = "called"
                \/ pc[h] = "reading" /\ (resps[h] # <<>> \/ ~Alive(sock[h]))
CanAnswer(h) == reqs[h] # <<>> /\ Alive(sock[h])

\* What the guards of connection::predict's steps and of the server's say of
\* ENABLED.  tlapm does not reason about ENABLED, so the theorem below takes it
\* as a hypothesis.
WayOut ==
  \A h \in Handles :
    /\ CanGoOn(h) => ENABLED <<Predict(h)>>_vars
    /\ CanAnswer(h) => ENABLED <<Serve(h)>>_vars

\* The call of h waits for the server, or has something to go on with
Waits(h)  == pc[h] = "reading" /\ CanAnswer(h)
GoesOn(h) == pc[h] = "reading" /\ (resps[h] # <<>> \/ ~Alive(sock[h]))

\* All that is known of a state.
CallsInv == Inv /\ OwedInv /\ TypeOK

\* Where a call can be.
LEMMA Places ==
  ASSUME CallsInv, NEW h \in Handles
  PROVE  pc[h] = "idle" \/ pc[h] = "called" \/ Waits(h) \/ GoesOn(h)
<1>1. pc[h] \in {"idle", "called", "reading"}
  BY DEF CallsInv, TypeOK, ObjectsOK
<1> QED BY <1>1 DEF CallsInv, OwedInv, Owed, Waits, GoesOn, CanAnswer

\* A call that reads goes on reading until it ends.
LEMMA Reading ==
  ASSUME CallsInv, [Next]_vars, NEW h \in Handles, pc[h] = "reading"
  PROVE  pc'[h] = "reading" \/ pc'[h] = "idle"
<1> USE DEF CallsInv, Inv, CallInv, objects, worker
<1>1. CASE Admin
  BY <1>1 DEF Admin, DnnInit, DnnAddconn, DnnGetstate, Ask, Answered, AskThrows,
              Constructed, DnnRmconn
<1>2. ASSUME NEW k \in Handles,
             (\E i \in Images : Call(k, i)) \/ Predict(k) \/ Serve(k) \/ Hangup(k)
      PROVE  pc'[h] = "reading" \/ pc'[h] = "idle"
  BY <1>2 DEF Call, Predict, Skip, Write, WriteThrows, Read, ReadThrows, Finish,
              Serve, Hangup
<1>3. ASSUME NEW a \in Addrs, Crash(a) \/ Restart(a) PROVE pc'[h] = "reading"
  BY <1>3 DEF Crash, Restart
<1>4. CASE UNCHANGED vars
  BY <1>4 DEF vars
<1> QED BY <1>1, <1>2, <1>3, <1>4 DEF Next

\* What a call has to go on with it keeps.
LEMMA Going ==
  ASSUME CallsInv, [Next]_vars, NEW h \in Handles, GoesOn(h)
  PROVE  GoesOn(h)' \/ pc'[h] = "idle"
<1> USE DEF CallsInv, Inv, CallInv, WireInv, PeerInv, objects, wire, worker
<1>1. pc[h] = "reading" /\ (resps[h] # <<>> \/ ~Alive(sock[h]))
  BY DEF GoesOn
<1>2. pc'[h] = "reading" \/ pc'[h] = "idle"
  BY <1>1, Reading
<1>3. ASSUME srv' = srv, sock'[h] = sock[h], resps'[h] = resps[h]
      PROVE  GoesOn(h)' \/ pc'[h] = "idle"
  BY <1>1, <1>2, <1>3 DEF GoesOn, Alive
<1>4. CASE Admin
  <2>1. ASSUME NEW k \in Handles, NEW a, Reconnect(k, a), srv' = srv, pc[k] = "idle"
        PROVE  GoesOn(h)' \/ pc'[h] = "idle"
    BY <1>1, <1>3, <2>1 DEF Reconnect
  <2>2. ASSUME NEW p \in live \cup {Null}, NEW a \in Addrs, DnnInit(p, a)
        PROVE  GoesOn(h)' \/ pc'[h] = "idle"
    BY <1>3, <2>1, <2>2 DEF DnnInit
  <2>3. ASSUME NEW who, NEW q, Ask(who, q) PROVE GoesOn(h)' \/ pc'[h] = "idle"
    BY <1>3, <2>3 DEF Ask
  <2>4. ASSUME Answered \/ AskThrows PROVE GoesOn(h)' \/ pc'[h] = "idle"
    BY <1>3, <2>4 DEF Answered, AskThrows
  <2>5. ASSUME Constructed PROVE GoesOn(h)' \/ pc'[h] = "idle"
    <3>1. admFor \in Handles /\ pc[admFor] = "idle"
      BY <2>5 DEF Constructed, AdminInv
    <3> QED BY <2>1, <2>5, <3>1 DEF Constructed
  <2>6. ASSUME NEW k \in Handles, DnnRmconn(k) PROVE GoesOn(h)' \/ pc'[h] = "idle"
    BY <2>1, <2>6 DEF DnnRmconn
  <2> QED BY <1>4, <2>2, <2>3, <2>4, <2>5, <2>6 DEF Admin, DnnAddconn, DnnGetstate
<1>5. ASSUME NEW k \in Handles, (\E i \in Images : Call(k, i)) \/ Predict(k)
      PROVE  GoesOn(h)' \/ pc'[h] = "idle"
  <2>1. CASE k = h
    BY <1>1, <1>5, <2>1 DEF Call, Predict, Skip, Write, WriteThrows, Read, ReadThrows,
                            Finish
  <2>2. CASE k # h
    <3>1. srv' = srv /\ sock'[h] = sock[h] /\ resps'[h] = resps[h]
      BY <1>5, <2>2 DEF Call, Predict, Skip, Write, WriteThrows, Read, ReadThrows
    <3> QED BY <1>3, <3>1
  <2> QED BY <2>1, <2>2
<1>6. ASSUME NEW k \in Handles, Serve(k) PROVE GoesOn(h)' \/ pc'[h] = "idle"
  <2>1. CASE k = h
    <3>1. FALSE
      BY <1>1, <1>6, <2>1 DEF Serve, Exchange, Carries
    <3> QED BY <3>1
  <2>2. CASE k # h
    BY <1>3, <1>6, <2>2 DEF Serve
  <2> QED BY <2>1, <2>2
<1>7. ASSUME NEW k \in Handles, Hangup(k) PROVE GoesOn(h)' \/ pc'[h] = "idle"
  <2>1. CASE k = h
    <3>1. sock[h].addr \in Addrs /\ sock'[h].inc = 0 /\ sock'[h].addr = sock[h].addr
      BY <1>7, <2>1 DEF Hangup, Alive, Peers
    <3>2. ~Alive(sock[h])'
      BY <1>7, <3>1 DEF Hangup, Alive, EndInv, OwedInv
    <3> QED BY <1>2, <3>2 DEF GoesOn
  <2>2. CASE k # h
    BY <1>3, <1>7, <2>2 DEF Hangup
  <2> QED BY <2>1, <2>2
<1>8. ASSUME NEW a \in Addrs, Crash(a) \/ Restart(a)
      PROVE  GoesOn(h)' \/ pc'[h] = "idle"
  <2>1. /\ ~Alive(sock[h]) => ~Alive(sock[h])'
        /\ resps'[h] = resps[h] \/ ~Alive(sock[h])'
    BY <1>8, EndStays DEF OwedInv
  <2> QED BY <1>1, <1>2, <2>1 DEF GoesOn
<1>9. CASE UNCHANGED vars
  BY <1>3, <1>9 DEF vars
<1> QED BY <1>4, <1>5, <1>6, <1>7, <1>8, <1>9 DEF Next

\* A call that can go on, waits or has begun is taken on by one step of its worker
\* or its server.
LEMMA Progress ==
  ASSUME CallsInv, NEW h \in Handles
  PROVE  /\ pc[h] = "called" /\ Predict(h) => pc'[h] # "called"
         /\ Waits(h) /\ Serve(h) => GoesOn(h)'
         /\ GoesOn(h) /\ Predict(h) => pc'[h] = "idle"
<1> USE DEF CallsInv, Inv, CallInv, WireInv
<1>1. ASSUME pc[h] = "called", Predict(h) PROVE pc'[h] # "called"
  BY <1>1 DEF Predict, Skip, Write, WriteThrows, Read, ReadThrows, Finish
<1>2. ASSUME Waits(h), Serve(h) PROVE GoesOn(h)'
  <2>1. resps[h] = <<>>
    BY <1>2 DEF Serve, Exchange
  <2>2. \E r : resps'[h] = Append(<<>>, r)
    BY <1>2, <2>1 DEF Serve
  <2>3. \A r : Append(<<>>, r) # <<>>
    OBVIOUS
  <2> QED BY <1>2, <2>2, <2>3 DEF Serve, Waits, GoesOn, worker
<1>3. ASSUME GoesOn(h), Predict(h) PROVE pc'[h] = "idle"
  BY <1>3 DEF GoesOn, Predict, Skip, Write, WriteThrows, Read, ReadThrows, Finish
<1> QED BY <1>1, <1>2, <1>3

LEMMA CallsAlways == Spec => []CallsInv
  BY OneExchange, OwedAlways, Typing, PTL DEF CallsInv

\* Every dnn_predict call ends, for any number of handles, servers and restarts,
\* if only the steps whose guards hold can be taken.
THEOREM CallsEnd == Spec /\ []WayOut => EveryCallEnds
<1>1. ASSUME NEW h \in Handles
      PROVE  Spec /\ []WayOut => (pc[h] # "idle" ~> pc[h] = "idle")
  <2> DEFINE Called == pc[h] = "called"
             Ended  == pc[h] = "idle"
  <2>1. EveryCallFair => CallFair(h)
    BY DEF EveryCallFair
  <2>2. WayOut => /\ Called => ENABLED <<Predict(h)>>_vars
                  /\ Waits(h) => ENABLED <<Serve(h)>>_vars
                  /\ GoesOn(h) => ENABLED <<Predict(h)>>_vars
    BY DEF WayOut, CanGoOn, Waits, GoesOn
  <2>3. CallsInv => Ended \/ Called \/ Waits(h) \/ GoesOn(h)
    BY Places
  <2>4. CallsInv /\ Waits(h) /\ [Next]_vars => ~Called'
    BY Reading DEF Waits
  <2>5. CallsInv /\ GoesOn(h) /\ [Next]_vars => GoesOn(h)' \/ Ended'
    BY Going
  <2>6. CallsInv /\ Called /\ <<Predict(h)>>_vars => ~Called'
    BY Progress
  <2>7. CallsInv /\ Waits(h) /\ <<Serve(h)>>_vars => GoesOn(h)'
    BY Progress
  <2>8. CallsInv /\ GoesOn(h) /\ <<Predict(h)>>_vars => Ended'
    BY Progress
  <2>9. Called => ~Ended
    OBVIOUS
  <2> HIDE DEF Called, Ended
  <2>10. Spec /\ []WayOut => ((Called \/ Waits(h) \/ GoesOn(h) \/ Ended) ~> Ended)
    BY <2>1, <2>2, <2>3, <2>4, <2>5, <2>6, <2>7, <2>8, CallsAlways, PTL
    DEF Spec, Fairness, CallFair
  <2> QED BY <2>3, <2>10, CallsAlways, PTL DEF Called, Ended
<1> QED BY <1>1 DEF EveryCallEnds

================================================================================
