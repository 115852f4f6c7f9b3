------------------------------ MODULE DnnClient ------------------------------
(***************************************************************************)
(* The DNN client library: the C functions of utdnn.cpp, the conlist        *)
(* singleton behind them and its connection objects, against inference      *)
(* servers that crash, restart and change the model they host.              *)
(*                                                                          *)
(* One administering thread calls dnn_init, dnn_addconn, dnn_getstate and   *)
(* dnn_rmconn, and each handle has one worker thread that calls             *)
(* dnn_predict; the administering thread leaves a handle alone while its    *)
(* worker is inside a call.  That is how the demo uses the library          *)
(* (pfclist::start, then one pfclist::predict thread per channel).          *)
(*                                                                          *)
(* A call that blocks on the network is split where it blocks, so servers   *)
(* may fail in the middle of it.  The end of a connection object (stop,     *)
(* wait, destruction) is the subject of module ConnLife.                    *)
(***************************************************************************)
EXTENDS Detections

CONSTANTS Ips, Ports,     \* the addresses callers may pass
          NoIp, NoPort,   \* the singleton's address before any dnn_init
          Handles,        \* connection objects
          Images, NoImage,
          Scene,          \* the objects on each image
          Configs,        \* what a server may host: [plat, listed, ready]
          Caps,           \* values of *ncnt callers pass to dnn_getstate
          MaxInc          \* bound: restarts of one server

Addrs  == Ips \X Ports
NoAddr == <<NoIp, NoPort>>

\* No peer: a stream that is not connected, a getstate that found no server
NoPeer == [addr |-> NoAddr, inc |-> 0]
\* The pseudo handle of a dnn_getstate call, and the NULL handle of dnn_init
Query == "query"
Null  == "null"
AllVersions == -1

ASSUME ClientAssumption ==
  /\ NoIp \notin Ips /\ NoPort \notin Ports
  /\ Query \notin Handles /\ Null \notin Handles
  /\ NoImage \notin Images
  /\ Scene \in [Images -> Scenes]
  /\ \A cfg \in Configs : IsFiniteSet(cfg.listed)
  /\ Caps \subseteq Nat
  /\ MaxInc \in Nat

VARIABLES
  srv,        \* server at each address: [up, inc, cfg]
  cur,        \* conlist::m_strip, m_iport
  live,       \* handles whose connection object exists
  caddr,      \* connection::m_strip, m_iport
  itype,      \* connection::m_itype
  connected,  \* connection::m_bisconnect
  sock,       \* peer of connection::stream_
  learnt,     \* history: the server incarnation m_itype was read from
  reqs, resps, \* what is on the wire of each stream
  pc, arg,    \* worker of each handle: where it is, the image it submitted
  out,        \* what its last dnn_predict gave
  adm, admFor, admPeer, admList, \* administering thread: where it is, for
              \* which handle, the getstate peer, the list it brought back
  query, got  \* arguments of dnn_getstate, and what its caller holds of it

wire    == <<reqs, resps>>
objects == <<live, caddr, itype, connected, sock, learnt>>
worker  == <<pc, arg, out>>
admin   == <<adm, admFor, admPeer, admList, query, got>>
vars    == <<srv, cur, objects, wire, worker, admin>>

-----------------------------------------------------------------------------
(* Servers                                                                  *)

Peer(a) == [addr |-> a, inc |-> srv[a].inc]

Reachable(a) == a \in Addrs /\ srv[a].up

\* The server a stream was connected to is still the one running there
Alive(p) == p # NoPeer /\ srv[p.addr].up /\ srv[p.addr].inc = p.inc

\* Mutant of Layout: an unknown platform gets no type
Layout_Unknown(cfg) == IF cfg.plat = "tensorflow_savedmodel" THEN TFS ELSE -1

\* The layout of the model's inputs and outputs, named by its platform
Layout(cfg) == IF cfg.plat = "tensorflow_savedmodel" THEN TFS ELSE TRT

\* The server answers a request for a version it has ready and whose inputs
\* are named as the model names them; any other request gets an empty body
Reply(cfg, r) ==
  IF r.ver \in cfg.ready /\ r.layout = Layout(cfg)
    THEN [img |-> r.img, body |-> Encode(Layout(cfg), Scene[r.img])]
    ELSE [img |-> NoImage, body |-> "empty"]

-----------------------------------------------------------------------------
(* Helpers of connection and conlist                                        *)

\* Mutant of state2st: the platform is compared with a name no server gives
state2st_OldName(cfg) ==
  [i \in 1..Cardinality(cfg.listed) |->
     [version |-> i, type |-> IF cfg.plat = "savedmodel" THEN TFS ELSE TRT,
      state |-> i \in cfg.ready]]

\* connection::state2st: the entries are numbered 1..size whatever the
\* version numbers are, and a number that is not listed reads as not ready
state2st(cfg) ==
  [i \in 1..Cardinality(cfg.listed) |->
     [version |-> i, type |-> Layout(cfg), state |-> i \in cfg.ready]]

\* Mutant of CopyOut: the array must be larger than the list
CopyOut_Strict(list, q) ==
  IF q.version = AllVersions /\ q.cap > Len(list)
    THEN [ncnt |-> Len(list), written |-> list]
    ELSE [ncnt |-> 0, written |-> <<>>]

\* conlist::getstate once the list is there: what becomes of *ncnt and of
\* the caller's array
CopyOut(list, q) ==
  LET hits  == {i \in DOMAIN list : list[i].version = q.version}
      first == CHOOSE i \in hits : \A j \in hits : i <= j
  IN IF q.version # AllVersions
       THEN IF hits # {} THEN [ncnt |-> 1, written |-> <<list[first]>>]
            ELSE [ncnt |-> q.cap, written |-> <<>>]
     ELSE IF q.cap >= Len(list) THEN [ncnt |-> Len(list), written |-> list]
     ELSE [ncnt |-> 0, written |-> <<>>]

NoConfig == [plat |-> "none", listed |-> {}, ready |-> {}]
NoQuery  == [cap |-> 0, version |-> 0]
NoGot    == [done |-> FALSE, query |-> NoQuery, peer |-> NoPeer,
             cfg |-> NoConfig, ncnt |-> 0, written |-> <<>>]

\* What the caller of dnn_getstate holds after it, and (history) which server
\* incarnation said so, with what it hosted
Got(q, peer, cfg, list) ==
  LET c == CopyOut(list, q) IN
  [done |-> TRUE, query |-> q, peer |-> peer, cfg |-> cfg,
   ncnt |-> c.ncnt, written |-> c.written]

\* The demo's m_isvrtype, from the first entry of its zeroed array: it decides
\* whether pfclist::run_one passes the floats of the frame (TRT) or a JPEG
m_isvrtype(g) == IF g.written = <<>> THEN TRT ELSE g.written[1].type

\* Mutant of Reconnect: the flag is not cleared when the connect throws
Reconnect_FlagStays(h, a) ==
  /\ caddr' = [caddr EXCEPT ![h] = a]
  /\ connected' = [connected EXCEPT ![h] = @ \/ Reachable(a)]
  /\ sock' = [sock EXCEPT ![h] = IF Reachable(a) THEN Peer(a) ELSE NoPeer]
  /\ reqs' = [reqs EXCEPT ![h] = <<>>]
  /\ resps' = [resps EXCEPT ![h] = <<>>]

\* resolver_ and stream_ are made anew and connected (ctor 20-31, update)
Reconnect(h, a) ==
  /\ caddr' = [caddr EXCEPT ![h] = a]
  /\ connected' = [connected EXCEPT ![h] = Reachable(a)]
  /\ sock' = [sock EXCEPT ![h] = IF Reachable(a) THEN Peer(a) ELSE NoPeer]
  /\ reqs' = [reqs EXCEPT ![h] = <<>>]
  /\ resps' = [resps EXCEPT ![h] = <<>>]

\* The worker of h returns from dnn_predict with outcome r
Finish(h, r) ==
  /\ pc' = [pc EXCEPT ![h] = "idle"]
  /\ arg' = [arg EXCEPT ![h] = NoImage]
  /\ out' = [out EXCEPT ![h] = r]

Untouched == [kind |-> "nothing", img |-> NoImage, objs |-> <<>>]
Exception == [kind |-> "threw", img |-> NoImage, objs |-> <<>>]
Detected(h, r) ==
  [kind |-> "detections", img |-> r.img, objs |-> Decode(itype[h], r.body)]

-----------------------------------------------------------------------------
Init ==
  /\ srv \in [Addrs -> [up : {TRUE}, inc : {1}, cfg : Configs]]
  /\ cur = NoAddr
  /\ live = {}
  /\ caddr = [h \in Handles |-> NoAddr]
  /\ itype = [h \in Handles |-> Other]
  /\ connected = [h \in Handles |-> FALSE]
  /\ sock = [h \in Handles |-> NoPeer]
  /\ learnt = [h \in Handles |-> NoPeer]
  /\ reqs = [h \in Handles |-> <<>>]
  /\ resps = [h \in Handles |-> <<>>]
  /\ pc = [h \in Handles |-> "idle"]
  /\ arg = [h \in Handles |-> NoImage]
  /\ out = [h \in Handles |-> Untouched]
  /\ adm = "idle" /\ admFor = Query /\ admPeer = NoPeer /\ admList = <<>>
  /\ query = NoQuery /\ got = NoGot

-----------------------------------------------------------------------------
(* The administering thread                                                 *)

\* dnn_init(p, a): conlist::init moves connection p only when the IP differs
\* from the singleton's, then records the address
DnnInit(p, a) ==
  /\ adm = "idle"
  /\ p # Null => p \in live /\ pc[p] = "idle"
  /\ IF p # Null /\ cur[1] # a[1]
       THEN Reconnect(p, a)
       ELSE UNCHANGED <<caddr, connected, sock, wire>>
  /\ cur' = a
  /\ UNCHANGED <<srv, live, itype, learnt, worker, admin>>

\* connection::getstate up to the request: connect to the singleton's address,
\* or come back at once with an empty list when nothing answers there.  What an
\* earlier dnn_getstate told its caller a constructor leaves to him.
Ask(who, q) ==
  /\ adm = "idle"
  /\ \/ /\ Reachable(cur)
        /\ adm' = "asked" /\ admFor' = who /\ admPeer' = Peer(cur)
        /\ query' = q /\ got' = IF who = Query THEN NoGot ELSE got
     \/ /\ ~Reachable(cur) /\ who = Query
        /\ got' = Got(q, NoPeer, NoConfig, <<>>)
        /\ UNCHANGED <<adm, admFor, admPeer, query>>
     \/ /\ ~Reachable(cur) /\ who # Query
        /\ adm' = "listed" /\ admFor' = who
        /\ UNCHANGED <<admPeer, query, got>>
  /\ UNCHANGED <<srv, cur, objects, wire, worker, admList>>

\* dnn_addconn: the constructor first asks for the model's state
DnnAddconn(h) == h \notin live /\ Ask(h, NoQuery)

DnnGetstate(n, v) == Ask(Query, [cap |-> n, version |-> v])

\* The administering thread is back in its caller
Idle ==
  /\ adm' = "idle" /\ admFor' = Query /\ admPeer' = NoPeer
  /\ admList' = <<>> /\ query' = NoQuery

\* The state request is answered: the constructor goes on with the list,
\* dnn_getstate copies it out and returns
Answered ==
  /\ adm = "asked" /\ Alive(admPeer)
  /\ LET cfg == srv[admPeer.addr].cfg IN
     \/ /\ admFor = Query
        /\ got' = Got(query, admPeer, cfg, state2st(cfg))
        /\ Idle
     \/ /\ admFor # Query
        /\ adm' = "listed" /\ admList' = state2st(cfg)
        /\ UNCHANGED <<admFor, admPeer, query, got>>
  /\ UNCHANGED <<srv, cur, objects, wire, worker>>

\* The server went away after the connect: http::write or http::read throws
\* through the constructor or through dnn_getstate
AskThrows ==
  /\ adm = "asked" /\ ~Alive(admPeer)
  /\ Idle
  /\ UNCHANGED <<srv, cur, objects, wire, worker, got>>

\* The rest of the constructor: m_itype from the first entry, if there is one
\* (else it keeps whatever the memory held), then the long-lived stream
Constructed ==
  /\ adm = "listed"
  /\ LET h == admFor IN
     /\ live' = live \cup {h}
     /\ IF admList # <<>>
          THEN itype' = [itype EXCEPT ![h] = admList[1].type]
          ELSE \E t \in Types : itype' = [itype EXCEPT ![h] = t]
     /\ learnt' = [learnt EXCEPT ![h] = IF admList # <<>> THEN admPeer ELSE NoPeer]
     /\ Reconnect(h, cur)
     /\ out' = [out EXCEPT ![h] = Untouched]
  /\ Idle
  /\ UNCHANGED <<srv, cur, pc, arg, got>>

\* dnn_rmconn: the object and its stream are gone
DnnRmconn(h) ==
  /\ adm = "idle" /\ h \in live /\ pc[h] = "idle"
  /\ live' = live \ {h}
  /\ Reconnect(h, NoAddr)
  /\ itype' = [itype EXCEPT ![h] = Other]
  /\ learnt' = [learnt EXCEPT ![h] = NoPeer]
  /\ UNCHANGED <<srv, cur, worker, admin>>

-----------------------------------------------------------------------------
(* The workers: connection::predict                                         *)

Call(h, i) ==
  /\ h \in live /\ pc[h] = "idle"
  /\ pc' = [pc EXCEPT ![h] = "called"]
  /\ arg' = [arg EXCEPT ![h] = i]
  /\ out' = [out EXCEPT ![h] = Untouched]
  /\ UNCHANGED <<srv, cur, objects, wire, admin>>

\* predict returns at once when the last connect failed
Skip(h) ==
  /\ pc[h] = "called" /\ ~connected[h]
  /\ Finish(h, Untouched)
  /\ UNCHANGED <<srv, cur, objects, wire, admin>>

\* The request: version 1 is part of the URL, the input layout follows m_itype
Request(h) ==
  [img |-> arg[h], ver |-> 1, layout |-> IF itype[h] = TRT THEN TRT ELSE TFS]

\* Mutant of Write: the request is prepared and never sent
Write_Unsent(h) ==
  /\ pc[h] = "called" /\ connected[h]
  /\ pc' = [pc EXCEPT ![h] = "reading"]
  /\ UNCHANGED <<srv, cur, objects, wire, arg, out, admin>>

\* http::write: to a peer that is gone the bytes are lost
Write(h) ==
  /\ pc[h] = "called" /\ connected[h]
  /\ reqs' = [reqs EXCEPT ![h] =
                IF Alive(sock[h]) THEN Append(@, Request(h)) ELSE @]
  /\ pc' = [pc EXCEPT ![h] = "reading"]
  /\ UNCHANGED <<srv, cur, objects, resps, arg, out, admin>>

\* ... or the write itself throws
WriteThrows(h) ==
  /\ pc[h] = "called" /\ connected[h] /\ ~Alive(sock[h])
  /\ Finish(h, Exception)
  /\ UNCHANGED <<srv, cur, objects, wire, admin>>

\* Mutant of Read: what was read stays in buffer_ for the next call
Read_KeepsBuffer(h) ==
  /\ pc[h] = "reading" /\ resps[h] # <<>>
  /\ LET r == Head(resps[h]) IN
     Finish(h, IF r.img = NoImage THEN Untouched ELSE Detected(h, r))
  /\ UNCHANGED <<srv, cur, objects, wire, admin>>

\* http::read returns a response; an empty body leaves *size alone
Read(h) ==
  /\ pc[h] = "reading" /\ resps[h] # <<>>
  /\ LET r == Head(resps[h]) IN
     Finish(h, IF r.img = NoImage THEN Untouched ELSE Detected(h, r))
  /\ resps' = [resps EXCEPT ![h] = Tail(@)]
  /\ UNCHANGED <<srv, cur, objects, reqs, admin>>

\* Mutant of ReadThrows: end of stream is swallowed and the read repeated
ReadThrows_Swallowed(h) ==
  /\ pc[h] = "reading" /\ resps[h] = <<>> /\ ~Alive(sock[h])
  /\ UNCHANGED vars

\* http::read throws: the peer closed and nothing is left to read
ReadThrows(h) ==
  /\ pc[h] = "reading" /\ resps[h] = <<>> /\ ~Alive(sock[h])
  /\ Finish(h, Exception)
  /\ UNCHANGED <<srv, cur, objects, wire, admin>>

-----------------------------------------------------------------------------
(* The servers                                                              *)

Serve(h) ==
  /\ reqs[h] # <<>> /\ Alive(sock[h])
  /\ resps' = [resps EXCEPT ![h] =
                 Append(@, Reply(srv[sock[h].addr].cfg, Head(reqs[h])))]
  /\ reqs' = [reqs EXCEPT ![h] = Tail(@)]
  /\ UNCHANGED <<srv, cur, objects, worker, admin>>

\* The server at a dies: requests it had not answered are lost, responses on
\* their way arrive or, after a reset, do not
Crash(a) ==
  /\ srv[a].up
  /\ srv' = [srv EXCEPT ![a].up = FALSE]
  /\ LET hit == {h \in Handles : sock[h] = Peer(a)} IN
     \E kept \in SUBSET hit :
       /\ reqs' = [h \in Handles |-> IF h \in hit THEN <<>> ELSE reqs[h]]
       /\ resps' = [h \in Handles |->
                      IF h \in hit \ kept THEN <<>> ELSE resps[h]]
  /\ UNCHANGED <<cur, objects, worker, admin>>

\* The server closes one keep-alive stream, as it does when the stream has been
\* idle for long or a request cannot be parsed, and goes on serving the others
Hangup(h) ==
  /\ Alive(sock[h])
  /\ sock' = [sock EXCEPT ![h].inc = 0]
  /\ reqs' = [reqs EXCEPT ![h] = <<>>]
  /\ \E kept \in BOOLEAN :
       resps' = [resps EXCEPT ![h] = IF kept THEN @ ELSE <<>>]
  /\ UNCHANGED <<srv, cur, live, caddr, itype, connected, learnt, worker, admin>>

\* It comes back, perhaps with another model
Restart(a) ==
  /\ ~srv[a].up /\ srv[a].inc <= MaxInc
  /\ \E c \in Configs :
       srv' = [srv EXCEPT ![a] = [up |-> TRUE, inc |-> @.inc + 1, cfg |-> c]]
  /\ UNCHANGED <<cur, objects, wire, worker, admin>>

-----------------------------------------------------------------------------
Admin ==
  \/ \E p \in live \cup {Null}, a \in Addrs : DnnInit(p, a)
  \/ \E h \in Handles : DnnAddconn(h) \/ DnnRmconn(h)
  \/ \E n \in Caps, v \in {AllVersions, 1, 2} : DnnGetstate(n, v)
  \/ Answered \/ AskThrows \/ Constructed

Predict(h) == Skip(h) \/ Write(h) \/ WriteThrows(h) \/ Read(h) \/ ReadThrows(h)

Next ==
  \/ Admin
  \/ \E h \in Handles :
       (\E i \in Images : Call(h, i)) \/ Predict(h) \/ Serve(h) \/ Hangup(h)
  \/ \E a \in Addrs : Crash(a) \/ Restart(a)

\* A thread inside a call keeps running, and a server that is up answers what
\* it has received.  Nothing makes a caller call, a server fail or return.
CallFair(h)   == WF_vars(Predict(h)) /\ WF_vars(Serve(h))
EveryCallFair == \A h \in Handles : CallFair(h)

Fairness == EveryCallFair /\ WF_vars(Answered \/ AskThrows \/ Constructed)

Spec == Init /\ [][Next]_vars /\ Fairness
-----------------------------------------------------------------------------
\* What may be on a stream, and what a caller may be left with
ServerTypes == {TRT, TFS}

IsRequest(r) == r \in [img : Images, ver : {1}, layout : ServerTypes]

IsResponse(r) ==
  \/ r = [img |-> NoImage, body |-> "empty"]
  \/ \E i \in Images, l \in ServerTypes :
       r.img = i /\ r = [img |-> i, body |-> Encode(l, Scene[i])]

IsOutcome(o) ==
  \/ o \in {Untouched, Exception}
  \/ \E i \in Images, l \in ServerTypes, t \in Types :
       o.img = i /\ o = [kind |-> "detections", img |-> i,
                        objs |-> Decode(t, Encode(l, Scene[i]))]

\* Servers and their incarnations, and none
Incarnations == [addr : Addrs \cup {NoAddr}, inc : Nat]
Queries   == [cap : Nat, version : Int]
Models    == Configs \cup {NoConfig}
Versions  == [version : Nat \ {0}, type : ServerTypes, state : BOOLEAN]
Reports   == [done : BOOLEAN, query : Queries,
              peer : Incarnations,
              cfg : Models, ncnt : Nat, written : Seq(Versions)]

ObjectsOK ==
  /\ \A a \in Addrs : /\ srv[a].up \in BOOLEAN
                      /\ srv[a].inc \in 1..(MaxInc + 1)
                      /\ srv[a].cfg \in Configs
  /\ cur \in Addrs \cup {NoAddr}
  /\ live \subseteq Handles
  /\ caddr \in [Handles -> Addrs \cup {NoAddr}]
  /\ itype \in [Handles -> Types]
  /\ connected \in [Handles -> BOOLEAN]
  /\ pc \in [Handles -> {"idle", "called", "reading"}]
  /\ arg \in [Handles -> Images \cup {NoImage}]
  /\ adm \in {"idle", "asked", "listed"}
  /\ admFor \in Handles \cup {Query}

MessagesOK(h) ==
  /\ \A i \in DOMAIN reqs[h] : IsRequest(reqs[h][i])
  /\ \A i \in DOMAIN resps[h] : IsResponse(resps[h][i])
  /\ IsOutcome(out[h])

ReportsOK ==
  /\ admList \in Seq(Versions)
  /\ query \in Queries
  /\ got \in Reports

\* Type invariant: the library and its threads stay in the ranges the code
\* gives them (an m_itype comes from state2st or from unassigned memory, a
\* request's layout from m_itype), requests ask for version 1 about an image of
\* the caller's, bodies are what a server writes, and what is told is read out of
\* one of them, or out of a list of versions.
TypeOK == ObjectsOK /\ (\A h \in Handles : MessagesOK(h)) /\ ReportsOK

\* The m_bisconnect flag of connection.cpp says whether there is a stream, and
\* a stream leads to the address the object holds: no request can go to one
\* server under the name of another (Host header and URL are built from
\* m_strip and m_iport), even after dnn_init failed to connect.
PeerIsAddress ==
  \A h \in Handles :
    /\ connected[h] <=> sock[h] # NoPeer
    /\ connected[h] => h \in live /\ sock[h].addr = caddr[h]

\* A request on its way to the very server incarnation the handle read
\* m_itype from is laid out as that server's model expects, whatever crashes
\* and restarts happened while the constructor was talking to it.
LayoutUnderstood ==
  \A h \in Handles :
    reqs[h] # <<>> /\ learnt[h] = sock[h] =>
      Head(reqs[h]).layout = Layout(srv[sock[h].addr].cfg)

\* What dnn_predict tells its caller are the objects on the image submitted,
\* those above the threshold of a SavedModel, each with its own class, score
\* and corners, in fractions of the picture's side: layouts of requests and
\* responses are never mixed, though m_itype was read from a server that may
\* have been replaced since.  A handle made while no server answered, whose
\* m_itype is unassigned memory, has no such promise.
DetectionsTrue ==
  \A h \in Handles :
    out[h].kind = "detections" /\ itype[h] # Other =>
      Told(itype[h], Scene[out[h].img], out[h].objs)

\* A dnn_getstate answer never claims a version usable that the server has not
\* ready, never exceeds the caller's array, and lists every version when the
\* server numbers them from 1 and the array is large enough (conlist::getstate
\* after connection::state2st).
StateListTrue ==
  got.done =>
    /\ got.written # <<>> => got.ncnt = Len(got.written)
    /\ got.query.version = AllVersions => got.ncnt <= got.query.cap
    /\ \A i \in DOMAIN got.written :
         got.written[i].state <=> got.written[i].version \in got.cfg.ready
    /\ got.query.version = AllVersions /\ got.cfg.listed # {} /\
       got.cfg.listed = 1..Cardinality(got.cfg.listed) /\
       got.query.cap >= Cardinality(got.cfg.listed) =>
         {got.written[i].version : i \in DOMAIN got.written} = got.cfg.listed

\* The demo chooses a frame's form by a dnn_getstate call with room for one
\* version, before it makes its handles; a handle chooses the layout of its
\* requests by a query of its own.  Where one server incarnation answered both,
\* whatever has been called and has failed since, they agree exactly if the model
\* has one version or is a TensorRT plan.  Of a SavedModel with two the demo
\* learns nothing, and passes floats with a jpgsize of 0.
PayloadFits ==
  \A h \in Handles :
    /\ got.done /\ got.query = [cap |-> 1, version |-> AllVersions]
    /\ learnt[h] # NoPeer /\ got.peer = learnt[h]
    => (m_isvrtype(got) = itype[h] <=>
          Cardinality(got.cfg.listed) = 1 \/ Layout(got.cfg) = TRT)

\* Every dnn_predict call ends, because a server that dies closes its side:
\* there is no timeout in connection::predict that would end it otherwise.
EveryCallEnds ==
  \A h \in Handles : pc[h] # "idle" ~> pc[h] = "idle"

\* A dnn_predict call never waits for nothing: while connection::predict is in
\* http::read, its request or the response is on the stream, or the stream is at
\* its end, whatever crashes, restarts, hangups and connects have come between.
AnswerOwed ==
  \A h \in Handles :
    pc[h] = "reading" =>
      reqs[h] # <<>> \/ resps[h] # <<>> \/ ~Alive(sock[h])

\* dnn_predict keeps the promises of the interface: each call ends with the
\* detections of its own image, with nothing, or with an exception.
Api == INSTANCE DnnApi WITH
  opened <- live,
  call <- arg,
  answer <- [h \in Handles |-> [kind |-> out[h].kind, img |-> out[h].img]]
ApiSpec == Api!ApiSpec

-----------------------------------------------------------------------------
\* utdnn.h:41-42: dnn_init "sets or changes the server address", and "if pdnn
\* is not null, the server address is changed": the handle passed to it holds
\* the new address when it returns (conlist::init compares the singleton's IP
\* only, so a second handle, or a new port, is left on the old server).
InitMovesHandle ==
  [][\A p \in live, a \in Addrs : DnnInit(p, a) => caddr'[p] = a]_vars

\* utdnn.h:52: *ncnt comes back 0 when the address is wrong or when the model
\* or the version asked for does not exist.
MissingCountsZero ==
  got.done /\ got.query.version \notin got.cfg.listed \cup {AllVersions} =>
    got.ncnt = 0
=============================================================================
