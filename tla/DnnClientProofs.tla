--------------------------- MODULE DnnClientProofs ---------------------------
(***************************************************************************)
(* Proofs about DnnClient for any number of handles, images, servers,       *)
(* models and restarts.  The argument for DnnApi is about the wire: a       *)
(* stream carries at most one exchange, the one of the call in progress, so *)
(* what http::read returns belongs to the image of this call.               *)
(***************************************************************************)
EXTENDS DnnClient, TLAPS

\* Workers and their handles
CallInv ==
  /\ live \subseteq Handles
  /\ arg \in [Handles -> Images \cup {NoImage}]
  /\ DOMAIN out = Handles /\ DOMAIN pc = Handles
  /\ \A h \in Handles : pc[h] = "idle" <=> arg[h] = NoImage
  /\ \A h \in Handles : pc[h] # "idle" => h \in live

\* One message about one of these images
Carries(s, imgs) == \E r : s = <<r>> /\ r.img \in imgs

\* The stream of h carries nothing, or the request of the call in progress, to
\* a server that is there to answer it, or the response to it
Exchange(h) ==
  \/ reqs[h] = <<>> /\ resps[h] = <<>>
  \/ /\ pc[h] = "reading" /\ resps[h] = <<>> /\ Carries(reqs[h], {arg[h]})
     /\ Alive(sock[h])
  \/ pc[h] = "reading" /\ reqs[h] = <<>> /\ Carries(resps[h], {arg[h], NoImage})

WireInv ==
  /\ DOMAIN reqs = Handles /\ DOMAIN resps = Handles
  /\ \A h \in Handles : Exchange(h)

\* A constructor works on a handle that does not exist yet
AdminInv ==
  /\ adm \in {"idle", "asked", "listed"}
  /\ adm = "asked" => admFor \in (Handles \ live) \cup {Query}
  /\ adm = "listed" => admFor \in Handles \ live

Peers == [addr : Addrs, inc : Nat] \cup {NoPeer}

\* Servers have incarnations, and streams lead to one of them
PeerInv ==
  /\ srv \in [Addrs -> [up : BOOLEAN, inc : Nat, cfg : Configs]]
  /\ sock \in [Handles -> Peers]

Inv == CallInv /\ WireInv /\ AdminInv /\ PeerInv

USE ClientAssumption

LEMMA InitInv == Init => Inv
<1> SUFFICES ASSUME Init PROVE Inv
  OBVIOUS
<1>1. CallInv /\ WireInv /\ AdminInv
  BY DEF Init, CallInv, WireInv, AdminInv, Exchange
<1>2. srv \in [Addrs -> [up : BOOLEAN, inc : Nat, cfg : Configs]]
  <2>1. [up : {TRUE}, inc : {1}, cfg : Configs]
          \subseteq [up : BOOLEAN, inc : Nat, cfg : Configs]
    <3> SUFFICES ASSUME NEW s \in [up : {TRUE}, inc : {1}, cfg : Configs]
                 PROVE  s \in [up : BOOLEAN, inc : Nat, cfg : Configs]
      OBVIOUS
    <3>1. s.up = TRUE /\ s.inc = 1 /\ s.cfg \in Configs
      OBVIOUS
    <3>2. s = [up |-> TRUE, inc |-> 1, cfg |-> s.cfg]
      BY <3>1
    <3>3. TRUE \in BOOLEAN /\ 1 \in Nat
      OBVIOUS
    <3> QED BY <3>1, <3>2, <3>3, Zenon
  <2> QED BY <2>1 DEF Init
<1>3. NoPeer \in Peers
  BY DEF NoPeer, Peers
<1> QED BY <1>1, <1>2, <1>3 DEF Init, Inv, PeerInv

\* What a stream carries stands as long as nothing about it changes.
LEMMA Frame ==
  ASSUME NEW h \in Handles, Exchange(h), srv' = srv, sock'[h] = sock[h],
         reqs'[h] = reqs[h], resps'[h] = resps[h],
         pc'[h] = pc[h], arg'[h] = arg[h]
  PROVE  Exchange(h)'
  BY DEF Exchange, Alive

\* A stream that carries nothing is fine whatever the rest is.
LEMMA Quiet ==
  ASSUME NEW h \in Handles, reqs'[h] = <<>>, resps'[h] = <<>>
  PROVE  Exchange(h)'
  BY DEF Exchange

\* A new stream leads to a server, or nowhere, and carries nothing; the other
\* streams are left alone.
LEMMA ReconnectStep ==
  ASSUME Inv, NEW h \in Handles, NEW a, Reconnect(h, a), srv' = srv,
         pc' = pc, arg' = arg
  PROVE  WireInv' /\ PeerInv'
<1>1. PeerInv'
  <2>1. (IF Reachable(a) THEN Peer(a) ELSE NoPeer) \in Peers
    BY DEF Inv, PeerInv, Reachable, Peer, Peers, NoPeer
  <2> QED BY <2>1 DEF Inv, PeerInv, Reconnect
<1>2. DOMAIN reqs' = Handles /\ DOMAIN resps' = Handles
  BY DEF Inv, WireInv, Reconnect
<1>3. ASSUME NEW k \in Handles PROVE Exchange(k)'
  <2>1. CASE k = h
    BY <2>1, Quiet DEF Inv, WireInv, Reconnect
  <2>2. CASE k # h
    <3>1. sock'[k] = sock[k] /\ reqs'[k] = reqs[k] /\ resps'[k] = resps[k]
      BY <2>2 DEF Inv, WireInv, PeerInv, Reconnect
    <3> QED BY <3>1, Frame DEF Inv, WireInv
  <2> QED BY <2>1, <2>2
<1> QED BY <1>1, <1>2, <1>3 DEF WireInv

\* What http::read takes off a stream that carries one message.
LEMMA TakeOne ==
  ASSUME NEW s, NEW imgs, Carries(s, imgs)
  PROVE  s # <<>> /\ Head(s).img \in imgs /\ Tail(s) = <<>>
  BY DEF Carries

\* What http::write and the server put on an empty stream.
LEMMA PutOne ==
  ASSUME NEW r, NEW imgs, r.img \in imgs
  PROVE  Carries(Append(<<>>, r), imgs)
<1>1. Append(<<>>, r) = <<r>>
  OBVIOUS
<1> QED BY <1>1 DEF Carries

\* The objects, the wire and the servers are left alone.
LEMMA SameWire ==
  ASSUME Inv, UNCHANGED <<srv, sock, wire, pc, arg>>
  PROVE  WireInv' /\ PeerInv'
<1>1. \A k \in Handles : Exchange(k)'
  BY Frame DEF Inv, WireInv, wire
<1> QED BY <1>1 DEF Inv, WireInv, PeerInv, wire

\* The steps of the administering thread.
LEMMA AdminStep == Inv /\ Admin => Inv'
<1> SUFFICES ASSUME Inv, Admin PROVE Inv'
  OBVIOUS
<1> USE DEF worker, objects
<1>1. ASSUME NEW p \in live \cup {Null}, NEW a \in Addrs, DnnInit(p, a)
      PROVE  Inv'
  <2>1. CallInv' /\ AdminInv'
    BY <1>1 DEF Inv, CallInv, AdminInv, DnnInit, admin
  <2>2. WireInv' /\ PeerInv'
    <3>1. CASE p # Null /\ cur[1] # a[1]
      <4>1. p \in Handles
        BY <3>1 DEF Inv, CallInv
      <4> QED BY <1>1, <3>1, <4>1, ReconnectStep DEF DnnInit
    <3>2. CASE ~(p # Null /\ cur[1] # a[1])
      BY <1>1, <3>2, SameWire DEF DnnInit
    <3> QED BY <3>1, <3>2
  <2> QED BY <2>1, <2>2 DEF Inv
<1>2. ASSUME NEW who \in Handles \cup {Query}, NEW q, Ask(who, q),
             who \in (Handles \ live) \cup {Query}
      PROVE  Inv'
  <2>1. CallInv' /\ AdminInv'
    BY <1>2 DEF Inv, CallInv, AdminInv, Ask
  <2> QED BY <1>2, <2>1, SameWire DEF Inv, Ask
<1>3. ASSUME NEW h \in Handles, DnnRmconn(h) PROVE Inv'
  <2>1. CallInv' /\ AdminInv'
    BY <1>3 DEF Inv, CallInv, AdminInv, DnnRmconn, admin
  <2> QED BY <1>3, <2>1, ReconnectStep DEF Inv, DnnRmconn
<1>4. CASE Answered
  <2>1. CallInv' /\ AdminInv'
    BY <1>4 DEF Inv, CallInv, AdminInv, Answered, Idle
  <2> QED BY <1>4, <2>1, SameWire DEF Inv, Answered
<1>5. CASE AskThrows
  <2>1. CallInv' /\ AdminInv'
    BY <1>5 DEF Inv, CallInv, AdminInv, AskThrows, Idle
  <2> QED BY <1>5, <2>1, SameWire DEF Inv, AskThrows
<1>6. CASE Constructed
  <2>1. CallInv' /\ AdminInv'
    BY <1>6 DEF Inv, CallInv, AdminInv, Constructed, Idle
  <2>2. admFor \in Handles
    BY <1>6 DEF Inv, AdminInv, Constructed
  <2> QED BY <1>6, <2>1, <2>2, ReconnectStep DEF Inv, Constructed
<1> QED BY <1>1, <1>2, <1>3, <1>4, <1>5, <1>6
        DEF Admin, DnnAddconn, DnnGetstate

\* A worker's step leaves the servers, the administering thread and the other
\* handles alone, so its own handle is all there is to look at.
LEMMA WorkerFrame ==
  ASSUME Inv, NEW h \in Handles, CallInv', Exchange(h)',
         UNCHANGED <<srv, live, sock, admin>>,
         DOMAIN reqs' = Handles, DOMAIN resps' = Handles,
         \A k \in Handles \ {h} :
           /\ reqs'[k] = reqs[k] /\ resps'[k] = resps[k]
           /\ pc'[k] = pc[k] /\ arg'[k] = arg[k]
  PROVE  Inv'
<1>1. \A k \in Handles : Exchange(k)'
  BY Frame DEF Inv, WireInv
<1>2. AdminInv' /\ PeerInv'
  BY DEF Inv, AdminInv, PeerInv, admin
<1> QED BY <1>1, <1>2 DEF Inv, WireInv

\* The steps of a worker.
LEMMA WorkerStep ==
  ASSUME Inv, NEW h \in Handles, Predict(h) \/ \E i \in Images : Call(h, i)
  PROVE  Inv'
<1> USE DEF objects, wire
<1>1. ASSUME NEW i \in Images, Call(h, i) PROVE Inv'
  <2>1. CallInv'
    BY <1>1 DEF Inv, CallInv, Call
  <2>2. Exchange(h)'
    BY <1>1 DEF Inv, WireInv, Exchange, Call
  <2> QED BY <1>1, <2>1, <2>2, WorkerFrame DEF Inv, CallInv, WireInv, Call
<1>2. CASE Skip(h) \/ WriteThrows(h)
  <2>1. CallInv'
    BY <1>2 DEF Inv, CallInv, Skip, WriteThrows, Finish
  <2>2. Exchange(h)'
    BY <1>2 DEF Inv, WireInv, Exchange, Skip, WriteThrows
  <2> QED BY <1>2, <2>1, <2>2, WorkerFrame
          DEF Inv, CallInv, WireInv, Skip, WriteThrows, Finish
<1>3. CASE Write(h)
  <2>1. CallInv'
    BY <1>3 DEF Inv, CallInv, Write
  <2>2. Exchange(h)'
    <3>1. reqs[h] = <<>> /\ resps[h] = <<>> /\ pc'[h] = "reading"
      BY <1>3 DEF Inv, CallInv, WireInv, Exchange, Write
    <3>2. CASE Alive(sock[h])
      <4>1. Carries(reqs'[h], {arg'[h]})
        BY <1>3, <3>1, <3>2, PutOne DEF Inv, WireInv, Write, Request
      <4> QED BY <1>3, <3>1, <3>2, <4>1 DEF Exchange, Alive, Write
    <3>3. CASE ~Alive(sock[h])
      BY <1>3, <3>1, <3>3, Quiet DEF Inv, WireInv, Write
    <3> QED BY <3>2, <3>3
  <2> QED BY <1>3, <2>1, <2>2, WorkerFrame DEF Inv, CallInv, WireInv, Write
<1>4. CASE Read(h)
  <2>1. CallInv'
    BY <1>4 DEF Inv, CallInv, Read, Finish
  <2>2. Exchange(h)'
    BY <1>4, TakeOne, Quiet DEF Inv, WireInv, Exchange, Read
  <2> QED BY <1>4, <2>1, <2>2, WorkerFrame DEF Inv, CallInv, WireInv, Read, Finish
<1>5. CASE ReadThrows(h)
  <2>1. CallInv'
    BY <1>5 DEF Inv, CallInv, ReadThrows, Finish
  <2>2. Exchange(h)'
    BY <1>5, Quiet DEF Inv, WireInv, Exchange, ReadThrows
  <2> QED BY <1>5, <2>1, <2>2, WorkerFrame
          DEF Inv, CallInv, WireInv, ReadThrows, Finish
<1> QED BY <1>1, <1>2, <1>3, <1>4, <1>5 DEF Predict

\* The steps of the servers.
LEMMA ServerStep ==
  ASSUME Inv,
         \/ \E h \in Handles : Serve(h) \/ Hangup(h)
         \/ \E a \in Addrs : Crash(a) \/ Restart(a)
  PROVE  Inv'
<1> USE DEF objects, wire, worker, admin
<1>1. ASSUME NEW h \in Handles, Serve(h) PROVE Inv'
  <2>1. CallInv'
    BY <1>1 DEF Inv, CallInv, Serve
  <2>2. /\ pc[h] = "reading" /\ resps[h] = <<>>
        /\ Carries(reqs[h], {arg[h]})
    BY <1>1 DEF Inv, WireInv, Exchange, Serve
  <2>3. Head(reqs[h]).img = arg[h] /\ Tail(reqs[h]) = <<>>
    BY <2>2, TakeOne
  <2>4. ASSUME NEW cfg PROVE Reply(cfg, Head(reqs[h])).img \in {arg[h], NoImage}
    BY <2>3 DEF Reply
  <2>5. Carries(resps'[h], {arg'[h], NoImage}) /\ reqs'[h] = <<>>
    BY <1>1, <2>2, <2>3, <2>4, PutOne DEF Inv, WireInv, Serve
  <2>6. Exchange(h)'
    BY <1>1, <2>2, <2>5 DEF Exchange, Serve
  <2> QED BY <1>1, <2>1, <2>6, WorkerFrame DEF Inv, WireInv, Serve
<1>2. ASSUME NEW a \in Addrs, Crash(a) \/ Restart(a) PROVE Inv'
  <2>1. CallInv' /\ AdminInv'
    BY <1>2 DEF Inv, CallInv, AdminInv, Crash, Restart
  <2>2. PeerInv'
    <3>1. srv' \in [Addrs -> [up : BOOLEAN, inc : Nat, cfg : Configs]]
      <4>1. CASE Crash(a)
        BY <4>1 DEF Inv, PeerInv, Crash
      <4>2. CASE Restart(a)
        BY <4>2 DEF Inv, PeerInv, Restart
      <4> QED BY <1>2, <4>1, <4>2
    <3> QED BY <1>2, <3>1 DEF Inv, PeerInv, Crash, Restart
  <2>3. ASSUME NEW k \in Handles PROVE Exchange(k)'
    <3>1. CASE sock[k] = Peer(a) /\ Crash(a)
      BY <1>2, <3>1 DEF Inv, WireInv, Exchange, Crash, Carries
    <3>2. CASE sock[k].addr = a /\ ~(sock[k] = Peer(a) /\ Crash(a))
      <4>1. ~Alive(sock[k])
        <5>1. sock[k] \in Peers /\ srv[a].inc \in Nat
          BY DEF Inv, PeerInv
        <5>2. CASE Restart(a)
          BY <5>2, <3>2 DEF Alive, Restart
        <5>3. CASE Crash(a)
          BY <5>1, <5>3, <3>2 DEF Peers, Peer, Alive
        <5> QED BY <1>2, <5>2, <5>3
      <4> QED BY <1>2, <3>2, <4>1 DEF Inv, WireInv, Exchange, Crash, Restart
    <3>3. CASE sock[k].addr # a
      <4>1. Alive(sock[k]) => Alive(sock[k])'
        <5>1. ASSUME Alive(sock[k]) PROVE sock[k].addr \in Addrs
          BY <5>1 DEF Inv, PeerInv, Peers, Alive
        <5>2. ASSUME NEW b \in Addrs, b # a PROVE srv'[b] = srv[b]
          BY <1>2, <5>2 DEF Inv, PeerInv, Crash, Restart
        <5> QED BY <1>2, <3>3, <5>1, <5>2 DEF Alive, Crash, Restart
      <4>2. sock[k] # Peer(a)
        BY <3>3 DEF Peer
      <4>3. /\ reqs'[k] = reqs[k] /\ pc'[k] = pc[k] /\ arg'[k] = arg[k]
            /\ sock' = sock /\ resps'[k] = resps[k]
        BY <1>2, <4>2 DEF Crash, Restart
      <4> QED BY <4>1, <4>3 DEF Inv, WireInv, Exchange
    <3> QED BY <3>1, <3>2, <3>3 DEF Peer
  <2>4. DOMAIN reqs' = Handles /\ DOMAIN resps' = Handles
    BY <1>2 DEF Inv, WireInv, Crash, Restart
  <2> QED BY <2>1, <2>2, <2>3, <2>4 DEF Inv, WireInv
<1>3. ASSUME NEW h \in Handles, Hangup(h) PROVE Inv'
  <2>1. CallInv' /\ AdminInv'
    BY <1>3 DEF Inv, CallInv, AdminInv, Hangup
  <2>2. PeerInv'
    <3>1. sock[h] \in [addr : Addrs, inc : Nat]
      BY <1>3 DEF Inv, PeerInv, Peers, Hangup, Alive
    <3>2. [sock[h] EXCEPT !.inc = 0] \in Peers
      BY <3>1 DEF Peers
    <3> QED BY <1>3, <3>2 DEF Inv, PeerInv, Hangup
  <2>3. Exchange(h)'
    <3>1. reqs'[h] = <<>> /\ (resps'[h] = <<>> \/ resps'[h] = resps[h])
      BY <1>3 DEF Inv, WireInv, Hangup
    <3> QED BY <1>3, <3>1 DEF Inv, WireInv, Exchange, Hangup
  <2>4. ASSUME NEW k \in Handles, k # h PROVE Exchange(k)'
    <3>1. /\ srv' = srv /\ sock'[k] = sock[k] /\ reqs'[k] = reqs[k]
          /\ resps'[k] = resps[k] /\ pc'[k] = pc[k] /\ arg'[k] = arg[k]
      BY <1>3, <2>4 DEF Hangup
    <3> QED BY <3>1, Frame DEF Inv, WireInv
  <2>5. DOMAIN reqs' = Handles /\ DOMAIN resps' = Handles
    BY <1>3 DEF Inv, WireInv, Hangup
  <2> QED BY <2>1, <2>2, <2>3, <2>4, <2>5 DEF Inv, WireInv
<1> QED BY <1>1, <1>2, <1>3

\* The invariant is inductive.
LEMMA Step == Inv /\ [Next]_vars => Inv'
<1> SUFFICES ASSUME Inv, [Next]_vars PROVE Inv'
  OBVIOUS
<1>1. CASE Next
  BY <1>1, AdminStep, WorkerStep, ServerStep DEF Next
<1>2. CASE UNCHANGED vars
  BY <1>2, SameWire
  DEF Inv, CallInv, AdminInv, vars, objects, worker, admin
<1> QED BY <1>1, <1>2

THEOREM OneExchange == Spec => []Inv
  BY InitInv, Step, PTL DEF Spec

-----------------------------------------------------------------------------
(* A stream leads where its handle says                                     *)

AddrInv ==
  /\ PeerIsAddress
  /\ DOMAIN connected = Handles /\ DOMAIN caddr = Handles

\* A connect leaves flag, stream and address in agreement, whether the server
\* is there or not.
LEMMA ReconnectAddr ==
  ASSUME AddrInv, PeerInv, NEW h \in Handles, NEW a, Reconnect(h, a),
         Reachable(a) => h \in live', live \ {h} \subseteq live'
  PROVE  AddrInv'
<1>1. Reachable(a) => Peer(a) # NoPeer /\ Peer(a).addr = a
  BY DEF Reachable, Addrs, Peer, NoPeer, NoAddr
<1>2. ASSUME NEW k \in Handles
      PROVE  /\ connected'[k] <=> sock'[k] # NoPeer
             /\ connected'[k] => k \in live' /\ sock'[k].addr = caddr'[k]
  <2>1. CASE k = h
    <3>1. /\ connected'[h] = Reachable(a) /\ caddr'[h] = a
          /\ sock'[h] = IF Reachable(a) THEN Peer(a) ELSE NoPeer
      BY DEF Reconnect, AddrInv, PeerInv
    <3> QED BY <1>1, <2>1, <3>1
  <2>2. CASE k # h
    <3>1. /\ connected'[k] = connected[k] /\ caddr'[k] = caddr[k]
          /\ sock'[k] = sock[k]
      BY <2>2 DEF Reconnect, AddrInv, PeerInv
    <3> QED BY <2>2, <3>1 DEF AddrInv, PeerIsAddress
  <2> QED BY <2>1, <2>2
<1> QED BY <1>2 DEF AddrInv, PeerIsAddress, Reconnect

LEMMA AddrStep == Inv /\ AddrInv /\ [Next]_vars => AddrInv'
<1> SUFFICES ASSUME Inv, AddrInv, [Next]_vars PROVE AddrInv'
  OBVIOUS
<1> USE DEF objects, wire, worker, admin
<1>0. ASSUME live' = live, caddr' = caddr, connected' = connected, sock' = sock
      PROVE  AddrInv'
  BY <1>0 DEF AddrInv, PeerIsAddress
<1>1. ASSUME NEW p \in live \cup {Null}, NEW a \in Addrs, DnnInit(p, a)
      PROVE  AddrInv'
  <2>1. CASE p # Null /\ cur[1] # a[1]
    <3>1. p \in Handles /\ p \in live /\ live' = live /\ Reconnect(p, a)
      BY <1>1, <2>1 DEF DnnInit, Inv, CallInv
    <3> QED BY <3>1, ReconnectAddr DEF Inv
  <2>2. CASE ~(p # Null /\ cur[1] # a[1])
    BY <1>0, <1>1, <2>2 DEF DnnInit
  <2> QED BY <2>1, <2>2
<1>2. ASSUME Constructed PROVE AddrInv'
  <2>1. PICK h \in Handles : h = admFor
    BY <1>2 DEF Inv, AdminInv, Constructed
  <2>2. live' = live \cup {h} /\ Reconnect(h, cur)
    BY <1>2, <2>1 DEF Constructed
  <2> QED BY <2>1, <2>2, ReconnectAddr DEF Inv
<1>3. ASSUME NEW h \in Handles, DnnRmconn(h) PROVE AddrInv'
  <2>1. live' = live \ {h} /\ Reconnect(h, NoAddr) /\ ~Reachable(NoAddr)
    BY <1>3 DEF DnnRmconn, Reachable, Addrs, NoAddr
  <2> QED BY <2>1, ReconnectAddr DEF Inv
<1>4. ASSUME NEW h \in Handles, Hangup(h) PROVE AddrInv'
  <2>1. sock[h] \in [addr : Addrs, inc : Nat]
    BY <1>4 DEF Inv, PeerInv, Peers, Hangup, Alive
  <2>2. /\ sock'[h].addr = sock[h].addr /\ sock'[h] # NoPeer /\ sock[h] # NoPeer
        /\ \A k \in Handles : k # h => sock'[k] = sock[k]
    BY <1>4, <2>1 DEF Hangup, Inv, PeerInv, NoPeer, NoAddr, Addrs
  <2> QED BY <1>4, <2>2 DEF Hangup, AddrInv, PeerIsAddress
<1>5. ASSUME \/ \E h \in Handles : DnnAddconn(h)
             \/ \E n \in Caps, v \in {AllVersions, 1, 2} : DnnGetstate(n, v)
             \/ Answered \/ AskThrows
      PROVE  AddrInv'
  BY <1>0, <1>5 DEF DnnAddconn, DnnGetstate, Ask, Answered, AskThrows
<1>6. ASSUME NEW h \in Handles,
             (\E i \in Images : Call(h, i)) \/ Predict(h) \/ Serve(h)
      PROVE  AddrInv'
  BY <1>0, <1>6 DEF Call, Predict, Skip, Write, WriteThrows, Read, ReadThrows,
                    Serve
<1>7. ASSUME NEW a \in Addrs, Crash(a) \/ Restart(a) PROVE AddrInv'
  BY <1>0, <1>7 DEF Crash, Restart
<1>8. CASE UNCHANGED vars
  BY <1>0, <1>8 DEF vars
<1> QED
  BY <1>1, <1>2, <1>3, <1>4, <1>5, <1>6, <1>7, <1>8 DEF Next, Admin

\* No request goes to one server under the name of another, even after a
\* dnn_init whose connect failed: connection::predict builds the URL from the
\* address and writes to the stream.
THEOREM StreamAddress == Spec => []PeerIsAddress
<1>1. Init => AddrInv
  BY DEF Init, AddrInv, PeerIsAddress
<1>2. AddrInv => PeerIsAddress
  BY DEF AddrInv
<1> QED BY <1>1, <1>2, AddrStep, OneExchange, PTL DEF Spec

-----------------------------------------------------------------------------
(* DnnClient implements DnnApi                                              *)

Answers == [h \in Handles |-> [kind |-> out[h].kind, img |-> out[h].img]]

\* What a worker's return means for the caller.
LEMMA ReturnStep ==
  ASSUME Inv, NEW h \in Handles, pc[h] # "idle", NEW r, Finish(h, r),
         \/ r = Untouched \/ r = Exception
         \/ r.kind = "detections" /\ r.img = arg[h],
         live' = live
  PROVE  Api!Return(h)
<1>1. arg[h] # NoImage
  BY DEF Inv, CallInv
<1>2. Answers' = [Answers EXCEPT ![h] = [kind |-> r.kind, img |-> r.img]]
  BY DEF Inv, CallInv, Finish, Answers
<1>3. [kind |-> r.kind, img |-> r.img]
        \in {Api!Nothing, Api!Threw, Api!Detections(arg[h])}
  BY DEF Untouched, Exception, Api!Nothing, Api!Threw, Api!Detections
<1> QED BY <1>1, <1>2, <1>3 DEF Api!Return, Finish, Answers

\* Every step is a step of the interface or leaves it alone.
LEMMA ApiStep == Inv /\ [Next]_vars => [Api!ApiNext]_(Api!apiVars)
<1> SUFFICES ASSUME Inv, [Next]_vars PROVE [Api!ApiNext]_(Api!apiVars)
  OBVIOUS
<1> DEFINE Silent == live' = live /\ arg' = arg /\ out' = out
<1>0. Silent => [Api!ApiNext]_(Api!apiVars)
  BY DEF Api!apiVars
<1> HIDE DEF Silent
<1>1. CASE Admin
  <2>1. ASSUME NEW h \in Handles, DnnRmconn(h) PROVE Api!Close(h)
    BY <2>1 DEF DnnRmconn, Api!Close, Inv, CallInv, worker
  <2>2. ASSUME Constructed PROVE \E h \in Handles : Api!Open(h)
    <3>1. PICK h \in Handles \ live : h = admFor
      BY <2>2 DEF Inv, AdminInv, Constructed
    <3>2. Answers' = [Answers EXCEPT ![h] = Api!Nothing]
      BY <2>2, <3>1
      DEF Inv, CallInv, Constructed, Untouched, Answers, Api!Nothing
    <3>3. Api!Open(h)
      BY <2>2, <3>1, <3>2 DEF Api!Open, Constructed, Answers
    <3> QED BY <3>3
  <2>3. ASSUME \/ \E p \in live \cup {Null}, a \in Addrs : DnnInit(p, a)
               \/ \E h \in Handles : DnnAddconn(h)
               \/ \E n \in Caps, v \in {AllVersions, 1, 2} : DnnGetstate(n, v)
               \/ Answered \/ AskThrows
        PROVE  Silent
    BY <2>3 DEF Silent, DnnInit, DnnAddconn, DnnGetstate, Ask, Answered,
                AskThrows, worker, objects
  <2>4. CASE Constructed
    BY <2>2, <2>4 DEF Api!ApiNext
  <2>5. CASE \E h \in Handles : DnnRmconn(h)
    BY <2>1, <2>5 DEF Api!ApiNext
  <2>6. CASE ~Constructed /\ ~(\E h \in Handles : DnnRmconn(h))
    <3>1. Silent
      BY <1>1, <2>3, <2>6 DEF Admin
    <3> QED BY <1>0, <3>1
  <2> QED BY <2>4, <2>5, <2>6
<1>2. ASSUME NEW h \in Handles, NEW i \in Images, Call(h, i)
      PROVE  Api!Invoke(h, i)
  <2>1. Answers' = [Answers EXCEPT ![h] = Api!Nothing]
    BY <1>2 DEF Inv, CallInv, Call, Untouched, Answers, Api!Nothing
  <2> QED BY <1>2, <2>1 DEF Inv, CallInv, Call, objects, Answers, Api!Invoke
<1>3. ASSUME NEW h \in Handles, Predict(h)
      PROVE  Api!Return(h) \/ Silent
  <2>1. CASE Write(h)
    BY <2>1 DEF Silent, Write, objects
  <2>2. CASE Skip(h)
    BY <2>2, ReturnStep DEF Skip, objects
  <2>3. CASE WriteThrows(h) \/ ReadThrows(h)
    BY <2>3, ReturnStep DEF WriteThrows, ReadThrows, objects
  <2>4. CASE Read(h)
    <3>1. Head(resps[h]).img \in {arg[h], NoImage}
      BY <2>4, TakeOne DEF Inv, WireInv, Exchange, Read
    <3> QED BY <2>4, <3>1, ReturnStep DEF Read, Detected, objects
  <2> QED BY <1>3, <2>1, <2>2, <2>3, <2>4 DEF Predict
<1>4. ASSUME \/ \E h \in Handles : Serve(h) \/ Hangup(h)
             \/ \E a \in Addrs : Crash(a) \/ Restart(a)
      PROVE  Silent
  BY <1>4 DEF Silent, Serve, Hangup, Crash, Restart, objects, worker
<1>5. CASE UNCHANGED vars
  BY <1>5, <1>0 DEF Silent, vars, objects, worker
<1> QED BY <1>0, <1>1, <1>2, <1>3, <1>4, <1>5 DEF Next, Api!ApiNext

\* Whatever the servers do, each dnn_predict call ends with the detections of
\* its own image, with nothing or with an exception.
THEOREM Refinement == Spec => ApiSpec
<1>1. Init => Api!ApiInit
  BY DEF Init, Api!ApiInit, Untouched, Api!Nothing
<1> QED BY <1>1, ApiStep, OneExchange, PTL DEF Spec, ApiSpec, Api!ApiSpec
=============================================================================
