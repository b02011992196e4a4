---------------------------- MODULE NetPlayProofs ----------------------------
(***************************************************************************)
(* Proofs about NetPlay: types, equal inputs on both sides, a sync test    *)
(* that never fails, and a bound on the lead, for any numbers of sessions, *)
(* frames, inputs and faults.                                              *)
(*                                                                         *)
(* For each action a lemma ...Conn says which ghost (NetPlaySession) the   *)
(* connection of the acting peer has after it, and that the ghosts of the  *)
(* other connections stay; lemmas ...Ring do the same for the ring of      *)
(* lists.  The theorems are at the end.                                    *)
(***************************************************************************)
EXTENDS NetPlaySession

-----------------------------------------------------------------------------
(* The connections after each action: making one.                          *)

\* The acting peer keeps its connection.
LEMMA StaysPut ==
  ASSUME BaseInv, ConnInv, NEW p \in Peers, Step(p) \/ Environment(p),
         UNCHANGED <<network_socket, socket_pool, backlog, sessions>>,
         \A c \in Conns : c # Conn(p) => Weaker(c),
         \A c, h : c # 0 /\ Conn(p) = c /\ ConnOK(h, c) => \E g : ConnOK(g, c)'
  PROVE  ConnInv'
<1>1. PICK d : d = Conn(p)
  OBVIOUS
<1>2. Conn(p)' = d
  BY <1>1 DEF Conn
<1>3. Mine(Other(p))' = Mine(Other(p))
  BY ConnFacts, OtherPeer, Untouched
<1>4. d \in 1 .. sessions => \A h : ConnOK(h, d) => \E g : ConnOK(g, d)'
  BY <1>1
<1> QED BY <1>1, <1>2, <1>3, <1>4, ConnStep

\* A peer that has left its connection.
LEMMA Leaves ==
  ASSUME BaseInv, ConnInv, NEW p \in Peers, Step(p) \/ Environment(p),
         sessions' = sessions, Conn(p)' = 0, \A c \in Conns : Weaker(c),
         \A r \in Peers : Range(backlog'[r]) \subseteq Range(backlog[r])
  PROVE  ConnInv'
<1>1. Mine(Other(p))' = Mine(Other(p))
  BY ConnFacts, OtherPeer, Untouched
<1>2. 0 \notin 1 .. sessions
  OBVIOUS
<1> QED BY <1>1, <1>2, ConnStep

\* What a connection means for a peer that does not use it.
LEMMA IdleStanding ==
  ASSUME NEW h, NEW c, NEW p, Standing(h, c, p), Conn(p)' = c => Conn(p) = c,
         network_mode'[p] \notin {"SERVER_CONNECTED", "CLIENT"},
         trap'[p] \in {trap[p], "none"},
         pc'[p] = "run" \/ (pc'[p] = pc[p] /\ pc[p] \in {"snapshot", "settings"}),
         snapshotfilename'[p] = snapshotfilename[p]
  PROVE  Standing(h, c, p)'
<1> SUFFICES ASSUME Conn(p) = c
             PROVE  Serving(h, c, p)' /\ Calling(h, c, p)' /\ Playing(h, c, p)'
  BY DEF Standing
<1>1. Serving(h, c, p) /\ Calling(h, c, p)
  BY DEF Standing
<1>2. Serving(h, c, p)'
  BY <1>1 DEF Serving
<1>3. Calling(h, c, p)'
  BY <1>1 DEF Calling
<1>4. Playing(h, c, p)'
  BY DEF Playing, InSession, connected
<1> QED BY <1>2, <1>3, <1>4

\* network_start_server() keeps the ghosts.
LEMMA StartServerConn ==
  ASSUME BaseInv, ConnInv, NEW p \in Peers, network_start_server(p)
  PROVE  ConnInv'
<1>0. TypeInv /\ PeerInv /\ EndsInv /\ ControlInv(p) /\ Pool(p) /\ TcpInv
  BY ConnFacts
<1>1. UNCHANGED <<network_socket, snapshotfilename, trap, pc, backlog, chan, end,
                  sessions>>
      /\ pc[p] = "run"
  BY DEF network_start_server, tcp, counters
<1>2. network_mode'[p] \in {"IDLE", "SERVER"}
  BY <1>0 DEF network_start_server, TypeInv
<1>3. Conn(p)' = Conn(p)
  <2>1. CASE socket_pool' = socket_pool
    BY <1>1, <2>1 DEF Conn
  <2>2. CASE socket_pool' = [socket_pool EXCEPT ![p][FreeEntry(p)] = LISTEN]
    <3>1. \A e \in Entries : socket_pool[p][e] # LISTEN
      BY <1>0 DEF Pool, Entry, network_start_server
    <3>2. LISTEN \in Entries
      BY Bounds DEF LISTEN, Entries
    <3>3. FreeEntry(p) \in Entries /\ socket_pool[p][FreeEntry(p)] = FREE
      BY <1>0, <3>1, <3>2, RoomFor
    <3>4. \A e \in Entries : socket_pool'[p][e] =
             IF e = FreeEntry(p) THEN LISTEN ELSE socket_pool[p][e]
      BY <1>0, <2>2, <3>3 DEF TypeInv
    <3>5. network_socket[p] \in Entries \cup {NULL}
      BY <1>0 DEF TypeInv
    <3> QED BY <1>1, <3>3, <3>4, <3>5 DEF Conn, LISTEN, FREE
  <2> QED BY <2>1, <2>2 DEF network_start_server
<1>4. \A c \in Conns : Weaker(c)
  BY <1>0, <1>1, SameTcp DEF TcpInv
<1>5. PICK d : d = Conn(p)
  OBVIOUS
<1>6. Mine(Other(p))' = Mine(Other(p))
  BY <1>0, OtherPeer, Untouched DEF Environment
<1>7. ASSUME NEW h, d \in 1 .. sessions, ConnOK(h, d) PROVE ConnOK(h, d)'
  <2>1. Standing(h, d, p)'
    <3>1. Standing(h, d, p)
      BY <1>7 DEF ConnOK
    <3>2. /\ Conn(p)' = d => Conn(p) = d
          /\ network_mode'[p] \notin {"SERVER_CONNECTED", "CLIENT"}
          /\ trap'[p] \in {trap[p], "none"}
          /\ pc'[p] = "run" \/ (pc'[p] = pc[p] /\ pc[p] \in {"snapshot", "settings"})
          /\ snapshotfilename'[p] = snapshotfilename[p]
      BY <1>1, <1>2, <1>3
    <3> QED BY <3>1, <3>2, IdleStanding, Zenon
  <2>2. Own(Other(p))' = Own(Other(p)) /\ packets[Other(p)] \in 0 .. N
    BY <1>6, ConnFacts, OtherPeer, MineOwn DEF N
  <2>3. Weaker(d)
    <3>1. sessions \in Nat /\ sessions <= MaxSessions /\ MaxSessions \in Nat
      BY ConnFacts, Bounds
    <3>2. d \in Conns
      BY <1>7, <3>1 DEF Conns
    <3> QED BY <1>4, <3>2
  <2> QED BY <1>1, <1>3, <1>7, <2>1, <2>2, <2>3, Keep
<1> QED BY <1>1, <1>3, <1>4, <1>5, <1>6, <1>7, ConnStep

\* network_client_connect_trap() keeps them.
LEMMA ClientTrapConn ==
  ASSUME BaseInv, ConnInv, NEW p \in Peers, network_client_connect_trap(p)
  PROVE  ConnInv'
<1>0. TypeInv /\ ControlInv(p) /\ TcpInv
  BY ConnFacts
<1>1. /\ UNCHANGED <<network_mode, network_socket, socket_pool, snapshotfilename,
                     backlog, chan, end, sessions>>
      /\ pc[p] = "run" /\ pc'[p] = "settings"
      /\ trap[p] = "client_connect" /\ trap'[p] = "none"
  BY <1>0 DEF network_client_connect_trap, Goto, sockets, tcp, counters, TypeInv
<1>2. network_mode[p] \in {"SERVER", "IDLE"}
  BY <1>0, <1>1 DEF ControlInv
<1>3. \A c \in Conns : Weaker(c)
  BY <1>0, <1>1, SameTcp DEF TcpInv
<1>6. Mine(Other(p))' = Mine(Other(p))
  BY <1>0, OtherPeer, Untouched DEF Step
<1>4. ASSUME NEW c, NEW h, c # 0, Conn(p) = c, ConnOK(h, c) PROVE ConnOK(h, c)'
  <2>1. Serving(h, c, p) /\ Calling(h, c, p)
    BY <1>4, OnConn
  <2>2. Standing(h, c, p)'
    <3>1. Serving(h, c, p)'
      BY <1>1, <1>2, <2>1 DEF Serving
    <3>2. Calling(h, c, p)'
      BY <1>1, <1>2, <2>1 DEF Calling
    <3>3. Playing(h, c, p)'
      BY <1>1, <1>2 DEF Playing, InSession, connected
    <3> QED BY <3>1, <3>2, <3>3 DEF Standing
  <2>3. Own(Other(p))' = Own(Other(p)) /\ packets[Other(p)] \in 0 .. N
    BY <1>6, ConnFacts, OtherPeer, MineOwn DEF N
  <2>4. c \in Conns
    BY <1>4, OnConn
  <2> QED BY <1>1, <1>3, <1>4, <2>2, <2>3, <2>4, Keep
<1> QED BY <1>1, <1>3, <1>4, StaysPut DEF Step

\* The accept in network_hook() keeps them: the server is the peer that the
\* connection waited at.
LEMMA AcceptConn ==
  ASSUME BaseInv, ConnInv, NEW p \in Peers, network_hook_accept(p)
  PROVE  ConnInv'
<1>0. /\ TypeInv /\ PeerInv /\ EndsInv /\ TcpInv /\ ControlInv(p) /\ Pool(p)
      /\ sessions \in Nat /\ sessions <= MaxSessions
  BY ConnFacts
<1> DEFINE s == backlog[p]
<1>d. PICK d : d = Head(s)
  OBVIOUS
<1>1. /\ pc[p] = "run" /\ trap[p] = "none" /\ network_mode[p] = "SERVER"
      /\ s # << >>
      /\ network_socket' = [network_socket EXCEPT ![p] = FreeEntry(p)]
      /\ socket_pool' = [socket_pool EXCEPT ![p][FreeEntry(p)] = d]
      /\ backlog' = [backlog EXCEPT ![p] = Tail(@)]
      /\ trap' = [trap EXCEPT ![p] = "server_connect"]
      /\ UNCHANGED <<network_mode, listen_socket, packets, pc, chan, end, sessions>>
  BY <1>d DEF network_hook_accept, counters
<1>2. /\ s \in Seq(1 .. sessions) /\ Tail(s) \in Seq(1 .. sessions)
      /\ Len(s) \in Nat /\ Len(s) >= 1 /\ Len(Tail(s)) = Len(s) - 1
      /\ d = s[1] /\ d \in 1 .. sessions
      /\ \A i \in 1 .. Len(s) - 1 : Tail(s)[i] = s[i + 1]
      /\ DOMAIN s = 1 .. Len(s) /\ DOMAIN Tail(s) = 1 .. Len(s) - 1
  BY <1>0, <1>1, <1>d DEF TypeInv
<1>3. /\ backlog'[p] = Tail(s) /\ backlog'[Other(p)] = backlog[Other(p)]
      /\ trap'[p] = "server_connect"
  BY <1>0, <1>1, OtherPeer DEF TypeInv
<1> HIDE DEF s
<1>4. d \in Conns /\ d \in Entries /\ d \in Range(s)
  <2>1. d \in Conns /\ d \in Entries
    BY <1>0, <1>2, Bounds DEF Conns, Entries
  <2>2. 1 \in DOMAIN s
    BY <1>2
  <2> QED BY <1>2, <2>1, <2>2 DEF Range
<1>5. \A r \in Peers : Range(backlog'[r]) \subseteq Range(backlog[r])
  <2>1. ASSUME NEW i \in 1 .. Len(s) - 1
        PROVE  i + 1 \in 1 .. Len(s) /\ Tail(s)[i] = s[i + 1]
    BY <1>2
  <2>2. Range(Tail(s)) \subseteq Range(s)
    BY <1>2, <2>1 DEF Range
  <2> QED BY <1>3, <2>2, OtherPeer DEF s
<1>6. \A e \in Entries : socket_pool[p][e] # d
  <2> SUFFICES ASSUME NEW e \in Entries PROVE socket_pool[p][e] # d
    OBVIOUS
  <2>1. Entry(p, e)
    BY <1>0 DEF Pool
  <2> QED BY <1>4, <2>1 DEF Entry, s
<1>7. FreeEntry(p) \in Entries /\ socket_pool[p][FreeEntry(p)] = FREE
  BY <1>0, <1>4, <1>6, RoomFor
<1>8. Conn(p)' = d
  <2>1. network_socket'[p] = FreeEntry(p) /\ socket_pool'[p][FreeEntry(p)] = d
    BY <1>0, <1>1, <1>7 DEF TypeInv
  <2>2. FreeEntry(p) # NULL /\ d # FREE
    BY <1>4, <1>7, Bounds DEF Entries, NULL, FREE, Conns
  <2> QED BY <2>1, <2>2 DEF Conn
<1>9. \A c \in Conns : Weaker(c)
  BY <1>0, <1>1, SameTcp DEF TcpInv
<1>10. Mine(Other(p))' = Mine(Other(p))
  BY <1>0, OtherPeer, Untouched DEF Step
<1>11. ASSUME NEW h, ConnOK(h, d) PROVE ConnOK(h, d)'
  <2>1. /\ Queued(h, d, p)
        /\ h.server = p /\ h.read[p] = 0 /\ h.written[p] = 0 /\ h.lists[p] = << >>
    BY <1>4, <1>11 DEF ConnOK, Queued, s
  <2>2. /\ network_mode'[p] = "SERVER" /\ pc'[p] = "run"
    BY <1>1
  <2>3. Standing(h, d, p)'
    <3>1. Serving(h, d, p)'
      BY <1>3, <2>1, <2>2 DEF Serving
    <3>2. Calling(h, d, p)'
      BY <1>3, <2>1, <2>2 DEF Calling
    <3>3. Playing(h, d, p)'
      BY <2>2 DEF Playing, InSession, connected
    <3> QED BY <3>1, <3>2, <3>3 DEF Standing
  <2>4. Own(Other(p))' = Own(Other(p)) /\ packets[Other(p)] \in 0 .. N
    BY <1>10, ConnFacts, OtherPeer, MineOwn DEF N
  <2> QED BY <1>4, <1>5, <1>9, <1>11, <2>2, <2>3, <2>4, Keep
<1> QED BY <1>1, <1>5, <1>8, <1>9, <1>10, <1>11, ConnStep

\* The ghost of a connection to a server q.
NewGhost(q) ==
  [server |-> q, base |-> [origin |-> "A", inputs |-> << >>],
   delta |-> DEFAULT_DELTA,
   lists |-> [r \in Peers |-> << >>], read |-> [r \in Peers |-> 0],
   written |-> [r \in Peers |-> 0], idx |-> [r \in Peers |-> [m \in Nat |-> 0]]]

\* The ghost of a new connection: nothing has been sent on it.
LEMMA NewGhostOK ==
  ASSUME NEW q \in Peers, NEW g, g = NewGhost(q)
  PROVE  /\ GhostOK(g) /\ g.server = q
         /\ \A r \in Peers : g.read[r] = 0 /\ g.written[r] = 0 /\ g.lists[r] = << >>
<1>1. /\ g.server = q /\ g.base = [origin |-> "A", inputs |-> << >>]
      /\ g.delta = DEFAULT_DELTA
      /\ \A r \in Peers : g.read[r] = 0 /\ g.written[r] = 0 /\ g.lists[r] = << >>
                          /\ g.idx[r] = [m \in Nat |-> 0]
  BY DEF NewGhost
<1>2. IsMachine(g.base)
  BY <1>1, ASeqEmpty DEF IsMachine
<1>3. ASSUME NEW r \in Peers PROVE GhostPeer(g, r)
  <2>1. ASeq(g.lists[r]) /\ Len(g.lists[r]) = 0 /\ Len(g.lists[Other(r)]) = 0
    BY <1>1, OtherPeer, ASeqEmpty
  <2>2. g.idx[r] \in [Nat -> Nat] /\ g.idx[r][Preamble(g, r)] = 0
    <3>1. g.idx[r] = [m \in Nat |-> 0] /\ Preamble(g, r) \in Nat
      BY <1>1, Bounds DEF Preamble, N
    <3> QED BY <3>1
  <2>3. g.read[r] = 0 /\ g.written[r] = 0 /\ g.written[Other(r)] = 0
    BY <1>1, OtherPeer
  <2>4. g.delta \in Nat
    BY <1>1, Bounds
  <2>5. Len(g.lists[r]) <= Len(g.lists[Other(r)]) + g.delta
    BY <2>1, <2>4
  <2>6. \A k \in 1 .. Len(g.lists[r]) : ListOK(g, g.lists[r][k], k)
    BY <2>1
  <2> QED BY <1>1, <2>1, <2>2, <2>3, <2>5, <2>6 DEF GhostPeer
<1> QED BY <1>1, <1>2, <1>3 DEF GhostOK

\* network_connect_client() keeps the ghosts and adds one.
LEMMA ConnectClientConn ==
  ASSUME BaseInv, ConnInv, NEW p \in Peers, network_connect_client(p)
  PROVE  ConnInv'
<1>0. TypeInv /\ PeerInv /\ EndsInv /\ ControlInv(p) /\ Pool(p) /\ sessions \in Nat
      /\ (\A r \in Peers : backlog[r] \in Seq(1 .. sessions)) /\ TcpInv
  BY ConnFacts DEF TypeInv
<1> DEFINE q == Other(p)
<1>q. q \in Peers /\ q # p /\ Other(q) = p /\ \A r \in Peers : r = p \/ r = q
  BY OtherPeer
<1>m. Mine(q)' = Mine(q)
  BY <1>0, OtherPeer, Untouched DEF Environment
<1>1. CASE Listening(q)
  <2>c. PICK c : c = sessions + 1
    OBVIOUS
  <2>1. /\ network_socket' = [network_socket EXCEPT ![p] = FreeEntry(p)]
        /\ socket_pool' = [socket_pool EXCEPT ![p][FreeEntry(p)] = c]
        /\ backlog' = [backlog EXCEPT ![q] = Append(@, c)]
        /\ end' = [end EXCEPT ![c] = [r \in Peers |-> "up"]]
        /\ sessions' = c /\ chan' = chan
        /\ pc' = [pc EXCEPT ![p] = "snapshot"]
        /\ c \in Conns /\ c \in Entries /\ c \in Nat /\ c > sessions /\ c # 0
        /\ network_mode[p] = "IDLE" /\ trap[p] = "none"
        /\ UNCHANGED <<network_mode, trap, listen_socket, packets>>
    BY <1>0, <1>1, <2>c, Bounds DEF network_connect_client, Conns, Entries
  <2>2. ASSUME NEW e \in Entries PROVE socket_pool[p][e] # c
    <3>1. Entry(p, e)
      BY <1>0 DEF Pool
    <3> QED BY <1>0, <2>1, <3>1 DEF Entry
  <2>3. FreeEntry(p) \in Entries /\ socket_pool[p][FreeEntry(p)] = FREE
    BY <1>0, <2>1, <2>2, RoomFor
  <2>4. Conn(p)' = c
    <3>1. network_socket'[p] = FreeEntry(p) /\ socket_pool'[p][FreeEntry(p)] = c
      BY <1>0, <2>1, <2>3 DEF TypeInv
    <3>2. FreeEntry(p) # NULL /\ c # FREE
      BY <2>1, <2>3, Bounds DEF Entries, NULL, FREE, Conns
    <3> QED BY <3>1, <3>2 DEF Conn
  <2>5. Conn(q)' # c
    <3>1. Conn(q)' = Conn(q)
      BY <1>m, MineOwn, OwnSame
    <3>2. Conn(q) # 0 => Conn(q) \in 1 .. sessions
      BY <1>0, <1>q, ConnMade
    <3> QED BY <1>0, <2>1, <3>1, <3>2
  <2>6. \A d \in Conns : end'[d] = IF d = c THEN [r \in Peers |-> "up"] ELSE end[d]
    BY <1>0, <2>1 DEF TypeInv
  <2>7. /\ backlog'[q] = Append(backlog[q], c) /\ backlog'[p] = backlog[p]
        /\ Range(backlog'[q]) = Range(backlog[q]) \cup {c}
        /\ c \notin Range(backlog[p])
    <3>1. backlog'[q] = Append(backlog[q], c) /\ backlog'[p] = backlog[p]
      BY <1>0, <1>q, <2>1 DEF TypeInv
    <3>2. Range(Append(backlog[q], c)) = Range(backlog[q]) \cup {c}
      <4>1. backlog[q] \in Seq(Nat) /\ c \in Nat
        <5>1. 1 .. sessions \subseteq Nat
          BY <1>0
        <5> QED BY <1>0, <1>q, <2>1, <5>1, SeqMonotonic
      <4>2. Append(backlog[q], c) \in Seq(Nat)
            /\ Len(Append(backlog[q], c)) = Len(backlog[q]) + 1
            /\ Len(backlog[q]) \in Nat
            /\ \A i \in 1 .. Len(backlog[q]) : Append(backlog[q], c)[i] = backlog[q][i]
            /\ Append(backlog[q], c)[Len(backlog[q]) + 1] = c
        BY <4>1
      <4>3. DOMAIN backlog[q] = 1 .. Len(backlog[q])
            /\ DOMAIN Append(backlog[q], c) = 1 .. Len(backlog[q]) + 1
        BY <4>1, <4>2
      <4> DEFINE n == Len(backlog[q])
      <4>4. n \in Nat /\ \A i : i \in 1 .. n + 1 <=> i \in 1 .. n \/ i = n + 1
        BY <4>2
      <4> QED BY <4>2, <4>3, <4>4 DEF Range
    <3>3. c \notin Range(backlog[p])
      BY <1>0, <2>1 DEF Range
    <3> QED BY <3>1, <3>2, <3>3
  <2>8. ASSUME NEW d \in 1 .. sessions PROVE \E h : ConnOK(h, d)'
    <3>1. d \in Conns /\ d # c
      BY <1>0, <2>1, Bounds DEF Conns, TypeInv
    <3>2. Weaker(d)
      BY <2>1, <2>6, <3>1 DEF Weaker
    <3>3. \A r \in Peers : d \in Range(backlog'[r]) => d \in Range(backlog[r])
      <4>1. d \in Range(backlog'[p]) => d \in Range(backlog[p])
        BY <2>7
      <4>2. d \in Range(backlog'[q]) => d \in Range(backlog[q])
        BY <2>7, <3>1
      <4> HIDE DEF q
      <4> QED BY <1>q, <4>1, <4>2
    <3> QED BY <1>m, <2>4, <3>1, <3>2, <3>3, KeepOthers
  <2>9. \E h : ConnOK(h, c)'
    <3>1. PICK g : g = NewGhost(q)
      OBVIOUS
    <3>2. /\ GhostOK(g) /\ g.server = q
          /\ \A r \in Peers : g.read[r] = 0 /\ g.written[r] = 0 /\ g.lists[r] = << >>
      BY <1>q, <3>1, NewGhostOK
    <3>3. \A r \in Peers : chan'[c][r] = << >>
      BY <1>0, <2>1 DEF EndsInv
    <3>4. ASSUME NEW r \in Peers PROVE Wire(g, c, r)'
      <4>1. g.read[r] = 0 /\ g.written[Other(r)] = 0
        BY <1>q, <3>2
      <4>2. chan'[c][r] = << >> /\ ASeq(chan'[c][r]) /\ Len(chan'[c][r]) = 0
        BY <3>3, ASeqEmpty
      <4> QED BY <4>1, <4>2 DEF Wire
    <3>5. Standing(g, c, q)' /\ ListNext(c, q)'
      BY <2>5 DEF Standing, ListNext
    <3>6. /\ pc'[p] = "snapshot" /\ network_mode'[p] = "IDLE" /\ trap'[p] = "none"
      BY <1>0, <2>1 DEF TypeInv
    <3>7. Standing(g, c, p)'
      <4>1. Serving(g, c, p)'
        BY <3>6 DEF Serving
      <4>2. Calling(g, c, p)'
        BY <3>2, <3>6 DEF Calling
      <4>3. Playing(g, c, p)'
        BY <3>6 DEF Playing, InSession, connected
      <4> QED BY <4>1, <4>2, <4>3 DEF Standing
    <3>8. ListNext(c, p)'
      BY <3>6 DEF ListNext
    <3>9. Queued(g, c, p)' /\ Queued(g, c, q)'
      BY <1>q, <2>7, <3>2 DEF Queued
    <3> QED BY <1>q, <3>2, <3>4, <3>5, <3>7, <3>8, <3>9 DEF ConnOK
  <2>10. ASSUME NEW d \in 1 .. sessions' PROVE d \in 1 .. sessions \/ d = c
    BY <1>0, <2>1, <2>c
  <2> QED BY <2>8, <2>9, <2>10 DEF ConnInv
<1>2. CASE ~Listening(q)
  <2>1. /\ network_socket' = [network_socket EXCEPT ![p] = NULL]
        /\ UNCHANGED <<backlog, end, sessions, chan>>
    BY <1>2 DEF network_connect_client
  <2>2. \A c \in Conns : Weaker(c)
    BY <1>0, <2>1, SameTcp DEF TcpInv
  <2>3. Conn(p)' = 0
    BY <1>0, <2>1 DEF TypeInv, Conn
  <2> QED BY <2>1, <2>2, <2>3, Leaves DEF Environment
<1> QED BY <1>1, <1>2

-----------------------------------------------------------------------------
(* The connections after each action: snapshot and settings.               *)

\* The receive of the snapshot keeps them: the file holds the ghost's base.
LEMMA ReceiveSnapshotConn ==
  ASSUME BaseInv, ConnInv, NEW p \in Peers, ReceiveSnapshot(p)
  PROVE  ConnInv'
<1>0. /\ TypeInv /\ PeerInv /\ EndsInv /\ TcpInv /\ ControlInv(p) /\ Pool(p)
      /\ Conn(p) # 0 => Conn(p) \in Conns
  BY ConnFacts
<1>1. /\ pc[p] = "snapshot" /\ pc'[p] = "run"
      /\ UNCHANGED <<network_mode, network_socket, packets, backlog, sessions>>
      /\ trap[p] = "none" /\ network_mode[p] = "IDLE"
  BY <1>0 DEF ReceiveSnapshot, Goto, ControlInv, counters, TypeInv
<1>m. Mine(Other(p))' = Mine(Other(p))
  BY <1>0, OtherPeer, Untouched DEF Step
<1>2. CASE /\ Arrived(p) /\ Take(p)
           /\ snapshotfilename' = [snapshotfilename EXCEPT ![p] = Message(p).machine]
           /\ trap' = [trap EXCEPT ![p] = "client_connect"]
           /\ UNCHANGED socket_pool
  <2>1. trap'[p] = "client_connect" /\ snapshotfilename'[p] = Message(p).machine
    BY <1>0, <1>2 DEF TypeInv, IsMap
  <2>2. \A c \in Conns : c # Conn(p) => Weaker(c)
    BY <1>1, <1>2, CallTcp
  <2>3. ASSUME NEW c, NEW h, c # 0, Conn(p) = c, ConnOK(h, c)
        PROVE  \E g : ConnOK(g, c)'
    <3>1. PICK g : g = Read(h, p)
      OBVIOUS
    <3>2. GhostOK(h) /\ Wire(h, c, p) /\ Calling(h, c, p) /\ Other(p) \in Peers
          /\ Other(p) # p
      BY <2>3, OnConn, OtherPeer
    <3>3. /\ h.server = Other(p) /\ h.read[p] = 0 /\ h.written[p] = 0
          /\ h.lists[p] = << >>
      BY <1>1, <3>2 DEF Calling
    <3>4. chan[c][p] # << >> /\ Head(chan[c][p]) = Message(p)
      BY <1>2, <2>3 DEF Arrived, Message
    <3>5. /\ g.server = h.server /\ g.base = h.base /\ g.lists[p] = << >>
          /\ g.written[p] = 0 /\ g.read[p] = 1
          /\ MsgOK(h, Other(p), g.read[p], Head(chan[c][p]))
      BY <3>1, <3>2, <3>3, <3>4, ReadFields
    <3>6. Message(p).machine = g.base
      BY <3>3, <3>4, <3>5 DEF MsgOK
    <3>7. Standing(g, c, p)'
      <4>1. Serving(g, c, p)'
        BY <1>1, <2>1 DEF Serving
      <4>2. Calling(g, c, p)'
        BY <1>1, <2>1, <3>3, <3>5, <3>6 DEF Calling
      <4>3. Playing(g, c, p)'
        BY <1>1 DEF Playing, InSession, connected
      <4> QED BY <4>1, <4>2, <4>3 DEF Standing
    <3>8. ConnOK(g, c)'
      BY <1>1, <1>2, <1>m, <2>3, <3>1, <3>7, ReadGhost
    <3> QED BY <3>8
  <2> QED BY <1>1, <1>2, <2>2, <2>3, StaysPut DEF Step
<1>3. CASE /\ HangUp({Conn(p)} \ {0}, p)
           /\ socket_pool' = [socket_pool EXCEPT ![p][network_socket[p]] = FREE]
  <2>1. \A c \in Conns : Weaker(c)
    BY <1>0, <1>1, <1>3, HangUpTcp
  <2>2. Conn(p)' = 0
    <3>1. network_socket[p] \in Entries \cup {NULL}
      BY <1>0 DEF TypeInv
    <3>2. network_socket[p] \in Entries => socket_pool'[p][network_socket[p]] = FREE
      BY <1>0, <1>3 DEF TypeInv
    <3> QED BY <1>1, <3>1, <3>2 DEF Conn
  <2> QED BY <1>1, <2>1, <2>2, Leaves DEF Step
<1> QED BY <1>2, <1>3 DEF ReceiveSnapshot

\* The receive of the settings keeps them: the client's machine is the base.
LEMMA ReceiveSettingsConn ==
  ASSUME BaseInv, ConnInv, NEW p \in Peers, ReceiveSettings(p)
  PROVE  ConnInv'
<1>0. TypeInv /\ EndsInv /\ TcpInv /\ ControlInv(p) /\ NUM_OF_TESTPACKETS \in Nat \ {0}
  BY ConnFacts
<1>1. /\ pc[p] = "settings" /\ trap' = trap /\ trap[p] = "none"
      /\ network_mode[p] \in {"SERVER", "IDLE"}
      /\ snapshotfilename' = snapshotfilename
      /\ UNCHANGED <<network_socket, socket_pool, backlog, sessions>>
  BY <1>0 DEF ReceiveSettings, counters, ControlInv, sockets
<1>m. Mine(Other(p))' = Mine(Other(p))
  BY <1>0, OtherPeer, Untouched DEF Step
<1>2. CASE Arrived(p) /\ Take(p)
  <2>1. \/ /\ network_mode'[p] = "CLIENT" /\ packets'[p] = N
           /\ pc'[p] = "test_echo" /\ machine'[p] = snapshotfilename[p]
        \/ pc'[p] = "run" /\ network_mode' = network_mode
    <3>1. CASE /\ machine' = [machine EXCEPT ![p] = SnapshotRead(p)]
               /\ network_mode' = [network_mode EXCEPT ![p] = "CLIENT"]
               /\ packets' = [packets EXCEPT ![p] = NUM_OF_TESTPACKETS]
               /\ pc' = [pc EXCEPT ![p] = "test_echo"]
      BY <1>0, <3>1 DEF TypeInv, IsMap, SnapshotRead, N
    <3>2. CASE pc' = [pc EXCEPT ![p] = "run"] /\ network_mode' = network_mode
      BY <1>0, <3>2 DEF TypeInv
    <3>3. ASSUME Fail(p), pc' = [pc EXCEPT ![p] = "run"], network_mode' = network_mode
          PROVE  pc'[p] = "run"
      BY <1>0, <3>3 DEF TypeInv
    <3> QED BY <3>1, <3>2, <3>3 DEF ReceiveSettings
  <2>2. \A c \in Conns : c # Conn(p) => Weaker(c)
    BY <1>1, <1>2, CallTcp
  <2>3. ASSUME NEW c, NEW h, c # 0, Conn(p) = c, ConnOK(h, c)
        PROVE  \E g : ConnOK(g, c)'
    <3>1. PICK g : g = Read(h, p)
      OBVIOUS
    <3>2. GhostOK(h) /\ Wire(h, c, p) /\ Calling(h, c, p) /\ Other(p) \in Peers
          /\ Other(p) # p
      BY <2>3, OnConn, OtherPeer
    <3>3. /\ h.server = Other(p) /\ h.read[p] = 1 /\ h.written[p] = 0
          /\ h.lists[p] = << >> /\ snapshotfilename[p] = h.base
      BY <1>1, <3>2 DEF Calling
    <3>4. chan[c][p] # << >>
      BY <1>2, <2>3 DEF Arrived
    <3>5. /\ g.server = h.server /\ g.base = h.base /\ g.lists[p] = << >>
          /\ g.written[p] = 0 /\ g.read[p] = 2
      BY <3>1, <3>2, <3>3, <3>4, ReadFields
    <3>6. CASE /\ network_mode'[p] = "CLIENT" /\ packets'[p] = N
               /\ pc'[p] = "test_echo" /\ machine'[p] = snapshotfilename[p]
      <4>1. Serving(g, c, p)'
        BY <1>1, <3>6 DEF Serving
      <4>2. N + 2 - N = 2 /\ N - N = 0
        BY <1>0 DEF N
      <4>3. Wrote(g, c, p, 0)'
        BY <3>5 DEF Wrote
      <4>4. Calling(g, c, p)'
        BY <1>1, <3>3, <3>5, <3>6, <4>2, <4>3 DEF Calling
      <4>5. Playing(g, c, p)'
        BY <3>6 DEF Playing, InSession
      <4>6. Standing(g, c, p)' /\ pc'[p] # "list"
        BY <3>6, <4>1, <4>4, <4>5 DEF Standing
      <4>7. ConnOK(g, c)'
        BY <1>1, <1>2, <1>m, <2>3, <3>1, <4>6, ReadGhost
      <4> QED BY <4>7
    <3>7. CASE pc'[p] = "run" /\ network_mode' = network_mode
      <4>1. Serving(g, c, p)'
        BY <1>1, <3>7 DEF Serving
      <4>2. Calling(g, c, p)'
        BY <1>1, <3>7 DEF Calling
      <4>3. Playing(g, c, p)'
        BY <1>1, <3>7 DEF Playing, InSession, connected
      <4>4. Standing(g, c, p)' /\ pc'[p] # "list"
        BY <3>7, <4>1, <4>2, <4>3 DEF Standing
      <4>5. ConnOK(g, c)'
        BY <1>1, <1>2, <1>m, <2>3, <3>1, <4>4, ReadGhost
      <4> QED BY <4>5
    <3> QED BY <2>1, <3>6, <3>7
  <2> QED BY <1>1, <2>2, <2>3, StaysPut DEF Step
<1>3. CASE /\ Fail(p) /\ pc' = [pc EXCEPT ![p] = "run"]
           /\ network_mode' = network_mode
  <2>1. \A c \in Conns : Weaker(c)
    BY <1>0, <1>1, <1>3, FailTcp DEF Fail
  <2>2. ASSUME NEW c, NEW h, c # 0, Conn(p) = c, ConnOK(h, c)
        PROVE  ConnOK(h, c)'
    <3>1. pc'[p] = "run" /\ network_mode'[p] \notin {"SERVER_CONNECTED", "CLIENT"}
          /\ trap'[p] \in {trap[p], "none"} /\ snapshotfilename'[p] = snapshotfilename[p]
          /\ Standing(h, c, p)
      BY <1>0, <1>1, <1>3, <2>2 DEF TypeInv, ConnOK
    <3>2. Standing(h, c, p)'
      BY <2>2, <3>1, IdleStanding
    <3>3. Own(Other(p))' = Own(Other(p)) /\ packets[Other(p)] \in 0 .. N
      BY <1>m, ConnFacts, OtherPeer, MineOwn DEF N
    <3>4. c \in Conns
      BY <2>2, OnConn
    <3> QED BY <1>1, <2>1, <2>2, <3>1, <3>2, <3>3, <3>4, Keep
  <2> QED BY <1>1, <2>1, <2>2, StaysPut DEF Step
<1> QED BY <1>2, <1>3 DEF ReceiveSettings

\* network_server_connect_trap() keeps them: what it sends becomes the base.
LEMMA ServerTrapConn ==
  ASSUME BaseInv, RingInv, ConnInv, NEW p \in Peers, network_server_connect_trap(p)
  PROVE  ConnInv'
<1>0. TypeInv /\ EndsInv /\ TcpInv /\ ControlInv(p) /\ N \in Nat /\ N >= 1
  BY ConnFacts DEF N
<1>1. /\ pc[p] = "run" /\ trap[p] = "server_connect" /\ trap'[p] = "none"
      /\ network_mode[p] \in {"SERVER", "IDLE"}
      /\ snapshotfilename' = snapshotfilename /\ machine' = machine
      /\ UNCHANGED <<network_socket, socket_pool, backlog, sessions>>
  BY <1>0 DEF network_server_connect_trap, counters, ControlInv, sockets, TypeInv
<1> DEFINE Unsent == UNCHANGED <<chan, end>> \/ ((Failing(p) \/ Dies(p)) /\ BreakEnd(p))
           msgs == <<[type |-> "snapshot", machine |-> machine[p]],
                     [type |-> "settings"]>>
<1>2. \/ Unsent /\ network_mode'[p] = network_mode[p] /\ pc'[p] = "run"
      \/ /\ Sends(p, msgs) \/ (Dies(p) /\ BreakEnd(p))
         /\ network_mode'[p] = "SERVER_CONNECTED"
         /\ packets'[p] = N /\ pc'[p] = "test_send"
      \/ Dies(p) /\ BreakEnd(p) /\ network_mode'[p] = "SERVER_CONNECTED"
         /\ pc'[p] = "run"
  <2>1. CASE UNCHANGED <<chan, end, network_mode, packets, pc>>
    BY <1>1, <2>1
  <2>2. CASE Fail(p) /\ UNCHANGED <<network_mode, packets, pc>>
    BY <1>1, <2>2 DEF Fail
  <2>3. CASE /\ Sends(p, msgs) \/ (Dies(p) /\ BreakEnd(p))
             /\ network_mode' = [network_mode EXCEPT ![p] = "SERVER_CONNECTED"]
             /\ packets' = [packets EXCEPT ![p] = NUM_OF_TESTPACKETS]
             /\ pc' = [pc EXCEPT ![p] = "test_send"]
    <3>1. network_mode'[p] = "SERVER_CONNECTED" /\ packets'[p] = N
          /\ pc'[p] = "test_send"
      BY <1>0, <2>3 DEF TypeInv, N
    <3> QED BY <2>3, <3>1
  <2>4. CASE /\ Dies(p) /\ BreakEnd(p)
             /\ network_mode' = [network_mode EXCEPT ![p] = "SERVER_CONNECTED"]
             /\ UNCHANGED <<packets, pc>>
    <3>1. network_mode'[p] = "SERVER_CONNECTED" /\ pc'[p] = "run"
      BY <1>0, <1>1, <2>4 DEF TypeInv
    <3> QED BY <2>4, <3>1
  <2> QED BY <2>1, <2>2, <2>3, <2>4 DEF network_server_connect_trap
<1>3. ASSUME Unsent PROVE \A c \in Conns : Weaker(c)
  <2>1. CASE UNCHANGED <<chan, end>>
    BY <1>0, <1>1, <2>1, SameTcp DEF TcpInv
  <2>2. CASE (Failing(p) \/ Dies(p)) /\ BreakEnd(p)
    BY <1>0, <1>1, <2>2, FailTcp
  <2> QED BY <1>3, <2>1, <2>2
<1>m. Mine(Other(p))' = Mine(Other(p))
  BY <1>0, OtherPeer, Untouched DEF Step
<1>c. \A c \in Conns : c # Conn(p) => Weaker(c)
  <2>1. CASE Unsent
    BY <1>3, <2>1
  <2>2. CASE Sends(p, msgs)
    <3>1. \E m : Sends(p, m)
      BY <2>2
    <3> QED BY <1>1, <3>1, CallTcp
  <2> QED BY <1>2, <2>1, <2>2
<1>4. ASSUME NEW c, NEW h, c # 0, Conn(p) = c, ConnOK(h, c)
      PROVE  \E g : ConnOK(g, c)'
  <2>1. /\ GhostOK(h) /\ Serving(h, c, p) /\ Calling(h, c, p) /\ c \in Conns
        /\ c \in 1 .. sessions /\ (Up(c) <=> end[c][p] = "up")
        /\ packets[Other(p)] \in 0 .. N /\ Standing(h, c, p)
    BY <1>4, OnConn DEF ConnOK
  <2>2. /\ h.server = p /\ h.read[p] = 0 /\ h.written[p] = 0 /\ h.lists[p] = << >>
    BY <1>1, <2>1 DEF Serving
  <2>3. Own(Other(p))' = Own(Other(p)) /\ packets[Other(p)] \in 0 .. N
    BY <1>m, <2>1, MineOwn
  <2>4. CASE Unsent /\ network_mode'[p] = network_mode[p] /\ pc'[p] = "run"
    <3>1. Standing(h, c, p)'
      BY <1>1, <1>4, <2>1, <2>4, IdleStanding
    <3>2. ConnOK(h, c)'
      BY <1>1, <1>3, <1>4, <2>1, <2>3, <2>4, <3>1, Keep
    <3> QED BY <3>2
  <2>5. CASE Dies(p) /\ BreakEnd(p) /\ network_mode'[p] = "SERVER_CONNECTED"
             /\ pc'[p] = "run"
    <3>1. end[c] \in [Peers -> Ends] /\ end'[c][p] = "dead"
      BY <1>0, <1>4, <2>1, <2>5 DEF BreakEnd, TypeInv
    <3>2. Hollow(h, p)'
      BY <1>1, <1>4, <2>2, <3>1 DEF Hollow, Open, OpenEnds, Conn
    <3>3. Serving(h, c, p)'
      BY <1>1, <2>2, <2>5 DEF Serving
    <3>4. Calling(h, c, p)'
      BY <1>1, <2>5 DEF Calling
    <3>5. Standing(h, c, p)'
      BY <3>2, <3>3, <3>4 DEF Standing, Playing
    <3>6. Unsent
      BY <2>5
    <3>7. ConnOK(h, c)'
      BY <1>1, <1>3, <1>4, <2>1, <2>3, <2>5, <3>5, <3>6, Keep
    <3> QED BY <3>7
  <2>6. CASE /\ Sends(p, msgs) \/ (Dies(p) /\ BreakEnd(p))
             /\ network_mode'[p] = "SERVER_CONNECTED"
             /\ packets'[p] = N /\ pc'[p] = "test_send"
    <3>w. PICK w : w = IF Sends(p, msgs) /\ Up(c) THEN 2 ELSE 0
      OBVIOUS
    <3>g. PICK g : g = Then(h, p, machine[p], h.delta, h.lists[p], h.read[p], w, h.idx[p])
      OBVIOUS
    <3>1. /\ g.server = h.server /\ g.base = machine[p] /\ g.delta = h.delta
          /\ g.lists[p] = << >> /\ g.lists[Other(p)] = h.lists[Other(p)]
          /\ g.read[p] = 0 /\ g.read[Other(p)] = h.read[Other(p)]
          /\ g.written[p] = w /\ g.written[Other(p)] = h.written[Other(p)]
          /\ g.idx[p] = h.idx[p] /\ g.idx[Other(p)] = h.idx[Other(p)]
          /\ w \in {0, 2}
      BY <2>2, <3>w, <3>g, ThenFields
    <3>2. Extends(h, g, p)
      <4>1. ASeq(<< >>) /\ Len(<< >>) = 0
        BY ASeqEmpty
      <4> QED BY <2>2, <3>1, <4>1 DEF Extends
    <3>3. Sound(h, g, p)
      <4>1. Sound(h, h, p)
        BY <2>1, SoundItself
      <4>2. IsMachine(machine[p])
        BY DEF RingInv
      <4>3. Len(g.lists[p]) = 0 /\ \A k \in 1 .. Len(g.lists[p]) : FALSE
        BY <3>1, ASeqEmpty
      <4>4. g.written[p] \in Nat
        BY <3>1
      <4> QED BY <2>2, <3>1, <4>1, <4>2, <4>3, <4>4 DEF Sound
    <3>4. Up(c)' => Sends(p, msgs) /\ Up(c)
      <4>1. CASE Dies(p) /\ BreakEnd(p)
        <5>1. ~Up(c)
          BY <1>4, <2>1, <4>1 DEF Dies
        <5>2. Weaker(c)
          BY <1>3, <2>1, <4>1
        <5> QED BY <5>1, <5>2 DEF Weaker, Up
      <4>2. CASE Sends(p, msgs) /\ ~Up(c)
        <5>1. Weaker(c)
          <6>1. sessions' = sessions /\ Conn(p) \in Conns /\ Conn(p) <= sessions
            BY <1>1, <1>4, <2>1, ConnFacts
          <6> QED BY <1>0, <1>4, <2>1, <4>2, <6>1, SendsTcp
        <5> QED BY <4>2, <5>1 DEF Weaker, Up
      <4> QED BY <2>6, <4>1, <4>2
    <3>5. Standing(g, c, p)' /\ pc'[p] # "list"
      <4>1. N - N = 0 /\ N - N + 2 = 2
        BY <1>0
      <4>2. Wrote(g, c, p, 2)'
        BY <3>1, <3>4, <3>w DEF Wrote
      <4>3. Serving(g, c, p)'
        BY <1>1, <2>2, <2>6, <3>1, <4>1, <4>2 DEF Serving
      <4>4. Calling(g, c, p)'
        BY <1>1, <2>6 DEF Calling
      <4>5. Playing(g, c, p)'
        BY <2>6 DEF Playing, InSession
      <4> QED BY <2>6, <4>3, <4>4, <4>5 DEF Standing
    <3>6. CASE Sends(p, msgs) /\ Up(c)
      <4>1. ASeq(msgs) /\ Len(msgs) = 2
            /\ msgs[1] = [type |-> "snapshot", machine |-> machine[p]]
        BY ASeqTwo
      <4>2. g.written[p] = h.written[p] + Len(msgs)
        BY <2>2, <3>1, <3>w, <3>6, <4>1
      <4>3. Preamble(g, p) = N + 3
        BY <2>2, <3>1 DEF Preamble
      <4>4. ASSUME NEW i \in 1 .. Len(msgs)
            PROVE  MsgOK(g, p, h.written[p] + i, msgs[i])
        <5>1. h.written[p] + i = i /\ i \in {1, 2} /\ i # N + 3 /\ ~ (i > N + 3)
          BY <1>0, <2>2, <4>1
        <5>2. i = 1 => msgs[i].machine = g.base
          BY <3>1, <4>1
        <5> HIDE DEF msgs
        <5> QED BY <4>3, <5>1, <5>2 DEF MsgOK
      <4>5. g.read[p] = h.read[p]
        BY <2>2, <3>1
      <4> HIDE DEF msgs
      <4>6. ConnOK(g, c)'
        BY <1>1, <1>4, <1>m, <3>2, <3>3, <3>5, <3>6, <4>1, <4>2, <4>4, <4>5,
           WriteGhost
      <4> QED BY <4>6
    <3>7. CASE ~ (Sends(p, msgs) /\ Up(c))
      <4>1. Weaker(c)
        <5>1. CASE Dies(p) /\ BreakEnd(p)
          BY <1>3, <2>1, <5>1
        <5>2. CASE Sends(p, msgs) /\ ~Up(c)
          <6>1. sessions' = sessions /\ Conn(p) \in Conns /\ Conn(p) <= sessions
            BY <1>1, <1>4, <2>1, ConnFacts
          <6> QED BY <1>0, <1>4, <2>1, <5>2, <6>1, SendsTcp
        <5> QED BY <2>6, <3>7, <5>1, <5>2
      <4>2. g.read[p] = h.read[p] /\ g.written[p] = h.written[p]
        BY <2>2, <3>1, <3>w, <3>7
      <4>3. ConnOK(g, c)'
        BY <1>1, <1>4, <1>m, <3>2, <3>3, <3>5, <4>1, <4>2, WeakGhost
      <4> QED BY <4>3
    <3> QED BY <3>6, <3>7
  <2> QED BY <1>2, <2>4, <2>5, <2>6
<1> QED BY <1>1, <1>c, <1>4, StaysPut DEF Step

-----------------------------------------------------------------------------
(* The connections after each action: the measurement.                     *)

\* What network_init_frame_event_list() sets.
LEMMA InitFields ==
  ASSUME TypeInv, NEW p \in Peers, NEW delta, InitFrameEventList(p, delta)
  PROVE  /\ frame_delta'[p] = delta
         /\ frame_event_list'[p] = [i \in 0 .. delta - 1 |-> << >>]
         /\ current_frame'[p] = 0 /\ frame_buffer_full'[p] = FALSE
         /\ trap'[p] = "sync_test" /\ pc'[p] = "run"
         /\ recorded'[p] = << >> /\ start'[p] = Len(machine[p].inputs)
BY DEF InitFrameEventList, TypeInv, IsMap

\* A peer that begins to play.
LEMMA StartInStep ==
  ASSUME TypeInv, NEW g, GhostOK(g), NEW p \in Peers, NEW c,
         InitFrameEventList(p, g.delta), machine' = machine, machine[p] = g.base,
         g.lists[p] = << >>, g.read[p] = Preamble(g, Other(p)),
         Up(c)' => g.written[p] = Preamble(g, p)
  PROVE  InStep(g, c, p)'
<1>0. Other(p) \in Peers /\ Other(p) # p /\ \A r \in Peers : r = p \/ r = Other(p)
  BY OtherPeer
<1>1. /\ frame_delta'[p] = g.delta
      /\ frame_event_list'[p] = [i \in 0 .. g.delta - 1 |-> << >>]
      /\ current_frame'[p] = 0 /\ frame_buffer_full'[p] = FALSE
      /\ pc'[p] = "run" /\ machine'[p] = g.base
      /\ recorded'[p] = << >> /\ start'[p] = Len(g.base.inputs)
  BY InitFields
<1>2. /\ g.delta \in Nat /\ g.delta >= 2 /\ Len(g.lists[p]) = 0
      /\ Len(g.lists[Other(p)]) \in Nat /\ N \in Nat
      /\ IsMachine(g.base) /\ Len(g.base.inputs) \in Nat
      /\ g.idx[Other(p)][g.read[p]] = 0 /\ g.idx[p][Preamble(g, p)] = 0
      /\ g.server \in Peers /\ g.read[p] \in Nat
      /\ Preamble(g, p) \in Nat
  <2>1. /\ g.delta \in Nat /\ g.delta >= 2 /\ Len(g.lists[Other(p)]) \in Nat
        /\ N \in Nat /\ g.server \in Peers /\ g.read[p] \in Nat
    BY <1>0, GhostTypes
  <2>2. Len(g.lists[p]) = 0
    BY ASeqEmpty
  <2>3. IsMachine(g.base) /\ Len(g.base.inputs) \in Nat
    BY ASeqFacts DEF GhostOK, IsMachine
  <2>4. GhostPeer(g, p) /\ GhostPeer(g, Other(p))
    BY <1>0 DEF GhostOK
  <2>5. g.idx[Other(p)][g.read[p]] = 0 /\ g.idx[p][Preamble(g, p)] = 0
    BY <2>4 DEF GhostPeer
  <2>6. Preamble(g, p) \in Nat
    BY <2>1 DEF Preamble
  <2> QED BY <2>1, <2>2, <2>3, <2>5, <2>6
<1>3. Frames(p)' = 0
  BY <1>1, <1>2 DEF Frames
<1>4. AtFrame(g, machine'[p], 0)
  <2>1. \A i \in 1 .. 0 : FALSE
    OBVIOUS
  <2> QED BY <1>1, <1>2, <2>1 DEF AtFrame
<1>5. Ring(g, p)'
  <2>1. frame_event_list'[p][0] = << >>
    BY <1>1, <1>2
  <2>2. Recording(p)'
    <3>1. frame_event_list'[p][current_frame'[p]] = << >>
      BY <1>1, <2>1
    <3>2. \A j \in 1 .. Len(<< >>) : FALSE
      BY ASeqEmpty
    <3> QED BY <3>1, <3>2, ASeqEmpty DEF Recording
  <2>3. \A i \in 1 .. g.delta - 1 : ~ (i <= 0)
    BY <1>2
  <2>4. 0 <= g.delta - 1
    BY <1>2
  <2> QED BY <1>1, <1>2, <1>3, <2>2, <2>3, <2>4 DEF Ring
<1>6. Reads(g, c, p)'
  <2>1. g.read[p] >= Preamble(g, Other(p)) /\ 0 < g.delta
        /\ Preamble(g, p) >= Preamble(g, p)
    BY <1>2
  <2> QED BY <1>1, <1>2, <1>3, <2>1 DEF Reads
<1>7. ASeq(recorded'[p]) /\ Len(recorded'[p]) = Len(g.lists[p])
      /\ \A k \in 1 .. Len(g.lists[p]) : recorded'[p][k] = Played(g.lists[p][k])
  BY <1>1, <1>2, ASeqEmpty
<1>8. 0 <= Len(g.lists[p]) /\ Len(g.lists[p]) <= 0 + 1
      /\ 0 <= Len(g.lists[Other(p)]) + g.delta - 1
  BY <1>2
<1>9. p # g.server => g.read[p] >= N + 3
  BY <1>0, <1>2 DEF Preamble
<1> QED BY <1>1, <1>2, <1>3, <1>4, <1>5, <1>6, <1>7, <1>8, <1>9 DEF InStep

Testing == {"test_send", "test_wait", "test_delta", "test_echo", "test_receive"}

\* A peer in network_test_delay().
LEMMA TestingPeer ==
  ASSUME BaseInv, NEW p \in Peers, pc[p] \in Testing
  PROVE  /\ trap[p] = "none" /\ TypeInv /\ EndsInv /\ TcpInv /\ N \in Nat /\ N >= 1
         /\ packets[p] \in 0 .. N
         /\ network_mode[p] = IF pc[p] \in {"test_echo", "test_receive"}
                              THEN "CLIENT" ELSE "SERVER_CONNECTED"
         /\ pc[p] \in {"test_send", "test_wait", "test_echo"} => packets[p] >= 1
         /\ pc[p] \in {"test_delta", "test_receive"} => packets[p] = 0
BY ConnFacts DEF ControlInv, Testing, N

\* The measurement ends and the peer begins to play.
LEMMA BeginStanding ==
  ASSUME BaseInv, NEW g, NEW p \in Peers, NEW c, pc[p] \in Testing,
         trap'[p] = "sync_test", pc'[p] = "run", network_mode' = network_mode,
         network_mode[p] = "SERVER_CONNECTED" => g.server = p,
         network_mode[p] = "CLIENT" => g.server = Other(p),
         InStep(g, c, p)' \/ Failed(g, p)'
  PROVE  Standing(g, c, p)' /\ pc'[p] # "list"
<1>1. Serving(g, c, p)'
  BY DEF Serving
<1>2. Calling(g, c, p)'
  BY DEF Calling
<1>3. Playing(g, c, p)'
  BY DEF Playing
<1> QED BY <1>1, <1>2, <1>3 DEF Standing

\* What the ghost says of it.
LEMMA TestingGhost ==
  ASSUME BaseInv, NEW p \in Peers, pc[p] \in Testing, NEW c, c # 0, Conn(p) = c,
         NEW h, ConnOK(h, c)
  PROVE  /\ network_mode[p] = "SERVER_CONNECTED" => h.server = p
         /\ network_mode[p] = "CLIENT" => h.server = Other(p)
         /\ h.lists[p] = << >> /\ machine[p] = h.base
         /\ pc[p] \in {"test_send", "test_wait", "test_delta"} =>
              /\ h.server = p /\ h.read[p] = N - packets[p]
              /\ Wrote(h, c, p, N - packets[p] + (IF pc[p] = "test_wait" THEN 3 ELSE 2))
         /\ pc[p] \in {"test_echo", "test_receive"} =>
              /\ h.server = Other(p) /\ h.read[p] = N + 2 - packets[p]
              /\ Wrote(h, c, p, N - packets[p])
BY OnConn, TestingPeer DEF Serving, Calling, Testing

\* A failure during the measurement: p goes on alone with DEFAULT_DELTA.
LEMMA TestFails ==
  ASSUME BaseInv, RingInv, ConnInv, NEW p \in Peers, Step(p), pc[p] \in Testing,
         NEW delta, Fail(p), InitFrameEventList(p, delta),
         TestUnchanged
  PROVE  ConnInv'
<1>0. TypeInv /\ EndsInv /\ TcpInv /\ N \in Nat
  BY TestingPeer
<1>1. UNCHANGED <<network_mode, network_socket, socket_pool, machine, backlog, sessions>>
  BY DEF TestUnchanged, sockets, counters
<1>2. /\ trap'[p] = "sync_test" /\ pc'[p] = "run"
      /\ recorded'[p] = << >> /\ start'[p] = Len(machine[p].inputs)
  BY <1>0, InitFields
<1>m. Mine(Other(p))' = Mine(Other(p))
  BY <1>0, OtherPeer, Untouched DEF Step
<1>3. \A c \in Conns : Weaker(c)
  BY <1>0, <1>1, FailTcp DEF Fail
<1>4. ASSUME NEW c, NEW h, c # 0, Conn(p) = c, ConnOK(h, c)
      PROVE  ConnOK(h, c)'
  <2>1. c \in Conns /\ GhostOK(h) /\ packets[Other(p)] \in 0 .. N
    BY <1>4, OnConn
  <2>2. /\ network_mode[p] = "SERVER_CONNECTED" => h.server = p
        /\ network_mode[p] = "CLIENT" => h.server = Other(p)
        /\ h.lists[p] = << >>
        /\ pc[p] \in {"test_echo", "test_receive"} => h.read[p] = N + 2 - packets[p]
    BY <1>4, TestingGhost
  <2>3. p # h.server => h.read[p] >= 2
    <3>1. p # h.server => pc[p] \in {"test_echo", "test_receive"}
      BY <2>2, TestingPeer
    <3>2. packets[p] \in 0 .. N
      BY TestingPeer
    <3> QED BY <1>0, <2>2, <3>1, <3>2
  <2>4. Failed(h, p)'
    <3>1. Conn(p)' = c
      BY <1>1, <1>4 DEF Conn
    <3>2. end'[c][p] = "dead"
      BY <1>0, <1>4, <2>1 DEF Fail, BreakEnd, TypeInv
    <3>3. Frames(p)' = 0
      <4>1. Len(machine[p].inputs) \in Nat
        BY ASeqFacts DEF RingInv, IsMachine
      <4> QED BY <1>1, <1>2, <4>1 DEF Frames
    <3> QED BY <1>2, <2>2, <2>3, <3>1, <3>2, <3>3 DEF Failed, Open, OpenEnds
  <2>5. Standing(h, c, p)' /\ pc'[p] # "list"
    BY <1>1, <1>2, <2>2, <2>4, BeginStanding
  <2>6. Own(Other(p))' = Own(Other(p))
    BY <1>m, MineOwn
  <2> QED BY <1>1, <1>3, <1>4, <2>1, <2>5, <2>6, Keep
<1> QED BY <1>1, <1>3, <1>4, StaysPut

\* What is sent on a connection that is not up is lost.
LEMMA SendsLost ==
  ASSUME BaseInv, NEW p \in Peers, NEW c, c # 0, Conn(p) = c, sessions' = sessions,
         NEW msgs, Sends(p, msgs), ~Up(c)
  PROVE  Weaker(c) /\ ~Up(c)'
<1>1. /\ TypeInv /\ EndsInv /\ TcpInv /\ c \in Conns /\ c <= sessions
      /\ ((end[c]["A"] = "up") <=> (end[c]["B"] = "up"))
  BY ConnFacts DEF EndsInv
<1>2. end[c][p] # "up"
  BY <1>1 DEF Up, Peers
<1>3. Weaker(c)
  BY <1>1, <1>2, SendsTcp
<1> QED BY <1>3 DEF Weaker, Up

\* h after p has delivered a message before its first list.
Wrote1(h, p) == Then(h, p, h.base, h.delta, h.lists[p], h.read[p],
                     h.written[p] + 1, h.idx[p])

\* The ghost after messages before the first list.
LEMMA WroteFields ==
  ASSUME NEW h, GhostOK(h), NEW p \in Peers, NEW g, g = Wrote1(h, p)
  PROVE  /\ g.server = h.server /\ g.base = h.base /\ g.delta = h.delta
         /\ \A r \in Peers : g.lists[r] = h.lists[r] /\ g.idx[r] = h.idx[r]
                             /\ g.read[r] = h.read[r]
         /\ g.written[p] = h.written[p] + 1 /\ h.written[p] \in Nat
         /\ g.written[Other(p)] = h.written[Other(p)]
         /\ Extends(h, g, p) /\ Sound(h, g, p)
<1>0. Other(p) \in Peers /\ Other(p) # p /\ \A r \in Peers : r = p \/ r = Other(p)
  BY OtherPeer
<1>1. /\ g.server = h.server /\ g.base = h.base /\ g.delta = h.delta
      /\ \A r \in Peers : g.lists[r] = h.lists[r] /\ g.idx[r] = h.idx[r]
                          /\ g.read[r] = h.read[r]
      /\ g.written[p] = h.written[p] + 1
      /\ g.written[Other(p)] = h.written[Other(p)]
  BY <1>0, ThenFields DEF Wrote1
<1>2. /\ h.written[p] \in Nat /\ ASeq(h.lists[p]) /\ Len(h.lists[p]) \in Nat
  BY GhostTypes
<1>3. h.written[p] <= h.written[p] + 1 /\ h.written[p] + 1 \in Nat
      /\ Len(h.lists[p]) <= Len(h.lists[p])
  BY <1>2
<1>4. Extends(h, g, p)
  BY <1>0, <1>1, <1>2, <1>3 DEF Extends
<1>5. Sound(h, g, p)
  <2>1. Sound(h, h, p)
    BY SoundItself
  <2>2. \A k \in 1 .. Len(h.lists[p]) : ~ (k > Len(h.lists[p]))
    BY <1>2
  <2> QED BY <1>1, <1>3, <2>1, <2>2 DEF Sound
<1> QED BY <1>1, <1>2, <1>4, <1>5

\* The measurement keeps the ghosts: a test packet is sent,
LEMMA TestSendConn ==
  ASSUME BaseInv, RingInv, ConnInv, NEW p \in Peers, TestSend(p)
  PROVE  ConnInv'
<1>0. TypeInv /\ EndsInv /\ TcpInv /\ N \in Nat /\ packets[p] \in 0 .. N
      /\ packets[p] >= 1 /\ network_mode[p] = "SERVER_CONNECTED" /\ trap[p] = "none"
      /\ pc[p] = "test_send" /\ pc[p] \in Testing
  BY TestingPeer DEF TestSend, Testing
<1>1. UNCHANGED <<network_mode, network_socket, socket_pool, machine, backlog, sessions,
                  packets>>
  BY DEF TestSend, TestUnchanged, sockets, counters
<1>m. Mine(Other(p))' = Mine(Other(p))
  BY <1>0, OtherPeer, Untouched DEF Step
<1> DEFINE msgs == <<[type |-> "packet"]>>
<1>2. CASE Sends(p, msgs) /\ pc' = [pc EXCEPT ![p] = "test_wait"] /\ trap' = trap
  <2>1. pc'[p] = "test_wait" /\ trap'[p] = "none"
    BY <1>0, <1>2 DEF TypeInv
  <2>2. \A c \in Conns : c # Conn(p) => Weaker(c)
    <3>1. \E m : Sends(p, m)
      BY <1>2
    <3> QED BY <1>1, <3>1, CallTcp
  <2>3. ASSUME NEW c, NEW h, c # 0, Conn(p) = c, ConnOK(h, c)
        PROVE  \E g : ConnOK(g, c)'
    <3>1. /\ h.server = p /\ h.read[p] = N - packets[p] /\ h.lists[p] = << >>
          /\ machine[p] = h.base /\ Wrote(h, c, p, N - packets[p] + 2)
      BY <1>0, <2>3, TestingGhost
    <3>2. GhostOK(h) /\ packets[Other(p)] \in 0 .. N /\ c \in Conns /\ h.written[p] \in Nat
      BY <2>3, OnConn, GhostTypes
    <3>3. ASSUME NEW g, g.server = h.server, g.base = h.base, g.lists[p] = << >>,
                 g.read[p] = h.read[p], Wrote(g, c, p, N - packets[p] + 3)'
          PROVE  Standing(g, c, p)' /\ pc'[p] # "list"
      <4>1. Serving(g, c, p)'
        BY <1>1, <2>1, <3>1, <3>3 DEF Serving
      <4>2. Calling(g, c, p)'
        BY <1>0, <1>1, <2>1 DEF Calling
      <4>3. Playing(g, c, p)'
        BY <2>1 DEF Playing, InSession
      <4> QED BY <2>1, <4>1, <4>2, <4>3 DEF Standing
    <3>4. CASE Up(c)
      <4>1. PICK g : g = Wrote1(h, p)
        OBVIOUS
      <4>2. /\ g.server = h.server /\ g.base = h.base /\ g.delta = h.delta
            /\ g.lists[p] = h.lists[p] /\ g.read[p] = h.read[p]
            /\ g.written[p] = h.written[p] + 1
            /\ Extends(h, g, p) /\ Sound(h, g, p)
        BY <3>2, <4>1, WroteFields
      <4>3. h.written[p] = N - packets[p] + 2
        BY <3>1, <3>4 DEF Wrote
      <4>4. g.written[p] = N - packets[p] + 3 /\ g.written[p] <= N + 2
            /\ g.written[p] >= 3 /\ g.written[p] \in Nat
        BY <1>0, <4>2, <4>3
      <4>5. Wrote(g, c, p, N - packets[p] + 3)'
        BY <1>1, <4>4 DEF Wrote
      <4>6. Standing(g, c, p)' /\ pc'[p] # "list"
        BY <3>1, <3>3, <4>2, <4>5
      <4>7. ASeq(msgs) /\ Len(msgs) = 1
        BY ASeqOne
      <4>8. ASSUME NEW i \in 1 .. Len(msgs) PROVE MsgOK(g, p, h.written[p] + i, msgs[i])
        <5>1. i = 1
          BY <4>7
        <5>2. h.written[p] + i = g.written[p]
          BY <4>2, <5>1
        <5>3. Preamble(g, p) = N + 3
          BY <3>1, <4>2 DEF Preamble
        <5>4. g.written[p] # 1 /\ g.written[p] # N + 3 /\ ~ (g.written[p] > N + 3)
          BY <1>0, <4>4
        <5> QED BY <5>2, <5>3, <5>4 DEF MsgOK
      <4> HIDE DEF msgs
      <4>9. ConnOK(g, c)'
        BY <1>1, <1>2, <1>m, <2>3, <3>4, <4>2, <4>6, <4>7, <4>8, WriteGhost
      <4> QED BY <4>9
    <3>5. CASE ~Up(c)
      <4>1. Weaker(c) /\ ~Up(c)'
        BY <1>1, <1>2, <2>3, <3>5, SendsLost
      <4>2. Wrote(h, c, p, N - packets[p] + 3)'
        <5>1. h.written[p] <= N - packets[p] + 2
          BY <3>1 DEF Wrote
        <5>2. h.written[p] <= N - packets[p] + 3
          BY <1>0, <3>2, <5>1
        <5> QED BY <1>1, <4>1, <5>2 DEF Wrote
      <4>3. Standing(h, c, p)' /\ pc'[p] # "list"
        BY <3>1, <3>3, <4>2
      <4>4. Own(Other(p))' = Own(Other(p))
        BY <1>m, MineOwn
      <4>5. ConnOK(h, c)'
        BY <1>1, <2>3, <3>2, <4>1, <4>3, <4>4, Keep
      <4> QED BY <4>5
    <3> QED BY <3>4, <3>5
  <2> QED BY <1>1, <2>2, <2>3, StaysPut DEF Step
<1>3. CASE Fail(p) /\ InitFrameEventList(p, DEFAULT_DELTA)
  <2>1. TestUnchanged /\ Step(p)
    BY DEF TestSend, Step
  <2> QED BY <1>0, <1>3, <2>1, TestFails
<1> QED BY <1>2, <1>3 DEF TestSend

\* ... it comes back,
LEMMA TestWaitConn ==
  ASSUME BaseInv, RingInv, ConnInv, NEW p \in Peers, TestWait(p)
  PROVE  ConnInv'
<1>0. TypeInv /\ EndsInv /\ TcpInv /\ N \in Nat /\ packets[p] \in 0 .. N
      /\ packets[p] >= 1 /\ network_mode[p] = "SERVER_CONNECTED" /\ trap[p] = "none"
      /\ pc[p] = "test_wait" /\ pc[p] \in Testing
  BY TestingPeer DEF TestWait, Testing
<1>1. UNCHANGED <<network_mode, network_socket, socket_pool, machine, backlog, sessions>>
  BY DEF TestWait, TestUnchanged, sockets, counters
<1>m. Mine(Other(p))' = Mine(Other(p))
  BY <1>0, OtherPeer, Untouched DEF Step
<1>2. CASE /\ Arrived(p) /\ Take(p) /\ trap' = trap
           /\ pc' = [pc EXCEPT ![p] = IF packets[p] = 1 THEN "test_delta"
                                      ELSE "test_send"]
           /\ packets' = [packets EXCEPT ![p] = @ - 1]
  <2>1. pc'[p] \in {"test_send", "test_delta"} /\ trap'[p] = "none"
        /\ packets'[p] = packets[p] - 1
    BY <1>0, <1>2 DEF TypeInv
  <2>2. \A c \in Conns : c # Conn(p) => Weaker(c)
    BY <1>1, <1>2, CallTcp
  <2>3. ASSUME NEW c, NEW h, c # 0, Conn(p) = c, ConnOK(h, c)
        PROVE  \E g : ConnOK(g, c)'
    <3>1. /\ h.server = p /\ h.read[p] = N - packets[p] /\ h.lists[p] = << >>
          /\ machine[p] = h.base /\ Wrote(h, c, p, N - packets[p] + 3)
      BY <1>0, <2>3, TestingGhost
    <3>2. GhostOK(h) /\ Wire(h, c, p) /\ chan[c][p] # << >> /\ h.written[p] \in Nat
          /\ c \in Conns
      BY <1>2, <2>3, OnConn, GhostTypes DEF Arrived
    <3>3. PICK g : g = Read(h, p)
      OBVIOUS
    <3>4. /\ g.server = h.server /\ g.base = h.base /\ g.lists[p] = h.lists[p]
          /\ g.written[p] = h.written[p] /\ g.read[p] = h.read[p] + 1
      BY <3>2, <3>3, ReadFields
    <3>5. /\ g.read[p] = N - packets'[p]
          /\ N - packets'[p] + 2 = N - packets[p] + 3
      BY <1>0, <2>1, <3>1, <3>4
    <3>6. Up(c)' => Up(c)
      <4>1. Conn(p) \in Conns /\ Conn(p) <= sessions /\ sessions' = sessions
        BY <1>1, <2>3, ConnFacts
      <4>2. end' = end
        BY <1>0, <1>2, <4>1, TakeTcp
      <4> QED BY <4>2 DEF Up
    <3>8. g.written[p] <= N - packets'[p] + 2
          /\ (Up(c)' => g.written[p] = N - packets'[p] + 2)
      BY <3>1, <3>4, <3>5, <3>6 DEF Wrote
    <3>9. Standing(g, c, p)' /\ pc'[p] # "list"
      <4>1. Serving(g, c, p)'
        BY <1>1, <2>1, <3>1, <3>4, <3>5, <3>8 DEF Serving, Wrote
      <4>2. Calling(g, c, p)'
        BY <1>0, <1>1, <2>1 DEF Calling
      <4>3. Playing(g, c, p)'
        BY <2>1 DEF Playing, InSession
      <4> QED BY <2>1, <4>1, <4>2, <4>3 DEF Standing
    <3>10. ConnOK(g, c)'
      BY <1>1, <1>2, <1>m, <2>3, <3>3, <3>9, ReadGhost
    <3> QED BY <3>10
  <2> QED BY <1>1, <1>2, <2>2, <2>3, StaysPut DEF Step
<1>3. CASE Fail(p) /\ InitFrameEventList(p, DEFAULT_DELTA)
  <2>1. TestUnchanged /\ Step(p)
    BY DEF TestWait, Step
  <2> QED BY <1>0, <1>3, <2>1, TestFails
<1> QED BY <1>2, <1>3 DEF TestWait

\* ... frame_delta is sent, and the server starts to play,
LEMMA TestDeltaConn ==
  ASSUME BaseInv, RingInv, ConnInv, NEW p \in Peers, TestDelta(p)
  PROVE  ConnInv'
<1>0. TypeInv /\ EndsInv /\ TcpInv /\ N \in Nat /\ N >= 1 /\ packets[p] = 0
      /\ network_mode[p] = "SERVER_CONNECTED" /\ trap[p] = "none"
      /\ pc[p] = "test_delta" /\ pc[p] \in Testing
  BY TestingPeer DEF TestDelta, Testing
<1>1. UNCHANGED <<network_mode, network_socket, socket_pool, machine, backlog, sessions>>
      /\ machine' = machine
  BY DEF TestDelta, TestUnchanged, sockets, counters
<1>m. Mine(Other(p))' = Mine(Other(p))
  BY <1>0, OtherPeer, Untouched DEF Step
<1>2. PICK delta \in Deltas :
        /\ Sends(p, <<[type |-> "delta", delta |-> delta]>>) \/ Fail(p)
        /\ InitFrameEventList(p, delta)
  BY DEF TestDelta
<1> DEFINE msgs == <<[type |-> "delta", delta |-> delta]>>
<1>3. CASE Sends(p, msgs)
  <2>2. \A c \in Conns : c # Conn(p) => Weaker(c)
    <3>1. \E m : Sends(p, m)
      BY <1>3
    <3> QED BY <1>1, <3>1, CallTcp
  <2>3. ASSUME NEW c, NEW h, c # 0, Conn(p) = c, ConnOK(h, c)
        PROVE  \E g : ConnOK(g, c)'
    <3>1. /\ h.server = p /\ h.read[p] = N /\ h.lists[p] = << >>
          /\ machine[p] = h.base /\ Wrote(h, c, p, N + 2)
      <4>1. N - packets[p] = N
        BY <1>0
      <4> QED BY <1>0, <2>3, <4>1, TestingGhost
    <3>2. GhostOK(h) /\ c \in Conns /\ h.written[p] \in Nat
          /\ Other(p) \in Peers /\ Other(p) # p
      BY <2>3, OnConn, GhostTypes, OtherPeer
    <3>w. PICK w : w = IF Up(c) THEN N + 3 ELSE h.written[p]
      OBVIOUS
    <3>g. PICK g : g = Then(h, p, h.base, delta, h.lists[p], h.read[p], w, h.idx[p])
      OBVIOUS
    <3>3. /\ g.server = h.server /\ g.base = h.base /\ g.delta = delta
          /\ g.lists[p] = h.lists[p] /\ g.lists[Other(p)] = h.lists[Other(p)]
          /\ g.read[p] = h.read[p] /\ g.read[Other(p)] = h.read[Other(p)]
          /\ g.written[p] = w /\ g.written[Other(p)] = h.written[Other(p)]
          /\ g.idx[p] = h.idx[p] /\ g.idx[Other(p)] = h.idx[Other(p)]
      BY <3>g, ThenFields
    <3>4. /\ h.written[p] <= N + 2 /\ h.written[p] < N + 3
          /\ (Up(c) => h.written[p] = N + 2)
          /\ w \in Nat /\ h.written[p] <= w /\ (Up(c) => w = h.written[p] + 1)
      <4>1. h.written[p] <= N + 2 /\ (Up(c) => h.written[p] = N + 2)
        BY <3>1 DEF Wrote
      <4> QED BY <1>0, <3>2, <3>w, <4>1
    <3>5. Extends(h, g, p)
      <4>1. ASeq(h.lists[p]) /\ Len(h.lists[p]) <= Len(h.lists[p])
        BY <3>2, GhostTypes
      <4> QED BY <3>1, <3>3, <3>4, <4>1 DEF Extends
    <3>6. Sound(h, g, p)
      <4>1. Sound(h, h, p)
        BY <3>2, SoundItself
      <4>2. Len(g.lists[p]) = 0 /\ \A k \in 1 .. Len(g.lists[p]) : FALSE
        BY <3>1, <3>3, ASeqEmpty
      <4>3. delta \in Nat /\ Len(h.lists[Other(p)]) \in Nat
        BY <3>2, Bounds, GhostTypes
      <4>4. Len(g.lists[p]) <= Len(h.lists[Other(p)]) + g.delta
        BY <3>3, <4>2, <4>3
      <4> QED BY <3>3, <3>4, <4>1, <4>2, <4>4 DEF Sound
    <3>7. GhostOK(g)
      BY <3>2, <3>5, <3>6, GhostStays
    <3>8. Up(c)' => Up(c)
      BY <1>1, <1>3, <2>3, SendsLost
    <3>9. InStep(g, c, p)'
      <4>1. g.read[p] = Preamble(g, Other(p))
        BY <3>1, <3>2, <3>3 DEF Preamble
      <4>2. Up(c)' => g.written[p] = Preamble(g, p)
        BY <3>1, <3>3, <3>8, <3>w DEF Preamble
      <4> QED BY <1>0, <1>1, <1>2, <3>1, <3>3, <3>7, <4>1, <4>2, StartInStep
    <3>10. Standing(g, c, p)' /\ pc'[p] # "list"
      <4>1. trap'[p] = "sync_test" /\ pc'[p] = "run"
        BY <1>0, <1>2, InitFields
      <4> QED BY <1>0, <1>1, <3>1, <3>3, <3>9, <4>1, BeginStanding
    <3>11. CASE Up(c)
      <4>1. ASeq(msgs) /\ Len(msgs) = 1 /\ msgs[1] = [type |-> "delta", delta |-> delta]
        BY ASeqOne
      <4>2. ASSUME NEW i \in 1 .. Len(msgs) PROVE MsgOK(g, p, h.written[p] + i, msgs[i])
        <5>1. i = 1 /\ msgs[i].delta = g.delta
          BY <3>3, <4>1
        <5>2. h.written[p] + i = N + 3
          BY <1>0, <3>4, <3>11, <5>1
        <5>3. Preamble(g, p) = N + 3
          BY <3>1, <3>3 DEF Preamble
        <5>4. N + 3 # 1 /\ ~ (N + 3 > N + 3)
          BY <1>0
        <5> HIDE DEF msgs
        <5> QED BY <5>1, <5>2, <5>3, <5>4 DEF MsgOK
      <4>3. g.written[p] = h.written[p] + Len(msgs)
        BY <3>3, <3>4, <3>11, <4>1
      <4> HIDE DEF msgs
      <4>4. ConnOK(g, c)'
        BY <1>1, <1>3, <1>m, <2>3, <3>3, <3>5, <3>6, <3>10, <3>11, <4>1, <4>2, <4>3,
           WriteGhost
      <4> QED BY <4>4
    <3>12. CASE ~Up(c)
      <4>1. Weaker(c)
        BY <1>1, <1>3, <2>3, <3>12, SendsLost
      <4>2. g.written[p] = h.written[p]
        BY <3>3, <3>12, <3>w
      <4>3. ConnOK(g, c)'
        BY <1>1, <1>m, <2>3, <3>3, <3>5, <3>6, <3>10, <4>1, <4>2, WeakGhost
      <4> QED BY <4>3
    <3> QED BY <3>11, <3>12
  <2> QED BY <1>1, <2>2, <2>3, StaysPut DEF Step
<1>4. CASE Fail(p)
  <2>1. TestUnchanged /\ Step(p)
    BY DEF TestDelta, Step
  <2> QED BY <1>0, <1>2, <1>4, <2>1, TestFails
<1> QED BY <1>2, <1>3, <1>4

\* ... it is received, and the client starts to play,
LEMMA TestReceiveConn ==
  ASSUME BaseInv, RingInv, ConnInv, NEW p \in Peers, TestReceive(p)
  PROVE  ConnInv'
<1>0. TypeInv /\ EndsInv /\ TcpInv /\ N \in Nat /\ N >= 1 /\ packets[p] = 0
      /\ network_mode[p] = "CLIENT" /\ trap[p] = "none"
      /\ pc[p] = "test_receive" /\ pc[p] \in Testing
  BY TestingPeer DEF TestReceive, Testing
<1>1. UNCHANGED <<network_mode, network_socket, socket_pool, machine, backlog, sessions>>
      /\ machine' = machine
  BY DEF TestReceive, TestUnchanged, sockets, counters
<1>m. Mine(Other(p))' = Mine(Other(p))
  BY <1>0, OtherPeer, Untouched DEF Step
<1>2. CASE Arrived(p) /\ Take(p) /\ InitFrameEventList(p, Message(p).delta)
  <2>2. \A c \in Conns : c # Conn(p) => Weaker(c)
    BY <1>1, <1>2, CallTcp
  <2>3. ASSUME NEW c, NEW h, c # 0, Conn(p) = c, ConnOK(h, c)
        PROVE  \E g : ConnOK(g, c)'
    <3>1. /\ h.server = Other(p) /\ h.read[p] = N + 2 /\ h.lists[p] = << >>
          /\ machine[p] = h.base /\ Wrote(h, c, p, N)
      <4>1. N - packets[p] = N /\ N + 2 - packets[p] = N + 2
        BY <1>0
      <4> QED BY <1>0, <2>3, <4>1, TestingGhost
    <3>2. GhostOK(h) /\ Wire(h, c, p) /\ chan[c][p] # << >>
          /\ Other(p) \in Peers /\ Other(p) # p /\ Head(chan[c][p]) = Message(p)
      BY <1>2, <2>3, OnConn, OtherPeer DEF Arrived, Message
    <3>3. PICK g : g = Read(h, p)
      OBVIOUS
    <3>4. /\ g.server = h.server /\ g.base = h.base /\ g.lists[p] = h.lists[p]
          /\ g.written[p] = h.written[p] /\ g.read[p] = h.read[p] + 1
          /\ g.delta = h.delta /\ Extends(h, g, p) /\ Sound(h, g, p)
          /\ MsgOK(h, Other(p), g.read[p], Message(p))
      <4>1. \A r \in Peers : g.lists[r] = h.lists[r] /\ g.written[r] = h.written[r]
        BY <3>2, <3>3, ReadFields
      <4> QED BY <3>2, <3>3, <4>1, ReadFields
    <3>5. g.read[p] = N + 3
      BY <1>0, <3>1, <3>4
    <3>6. Message(p).delta = g.delta
      BY <3>1, <3>4, <3>5 DEF MsgOK
    <3>7. Up(c)' => Up(c)
      <4>1. Conn(p) \in Conns /\ Conn(p) <= sessions /\ sessions' = sessions
        BY <1>1, <2>3, ConnFacts
      <4>2. end' = end
        BY <1>0, <1>2, <4>1, TakeTcp
      <4> QED BY <4>2 DEF Up
    <3>8. GhostOK(g)
      BY <3>2, <3>4, GhostStays
    <3>9. InStep(g, c, p)'
      <4>1. g.read[p] = Preamble(g, Other(p))
        BY <3>1, <3>4, <3>5 DEF Preamble
      <4>2. Up(c)' => g.written[p] = Preamble(g, p)
        BY <3>1, <3>2, <3>4, <3>7 DEF Preamble, Wrote
      <4>3. InitFrameEventList(p, g.delta) /\ g.lists[p] = << >> /\ machine[p] = g.base
        BY <1>2, <3>1, <3>4, <3>6
      <4> QED BY <1>0, <1>1, <3>8, <4>1, <4>2, <4>3, StartInStep
    <3>10. Standing(g, c, p)' /\ pc'[p] # "list"
      <4>1. trap'[p] = "sync_test" /\ pc'[p] = "run"
        BY <1>0, <1>2, InitFields
      <4> QED BY <1>0, <1>1, <3>1, <3>4, <3>9, <4>1, BeginStanding
    <3>11. ConnOK(g, c)'
      BY <1>1, <1>2, <1>m, <2>3, <3>3, <3>10, ReadGhost
    <3> QED BY <3>11
  <2> QED BY <1>1, <2>2, <2>3, StaysPut DEF Step
<1>3. CASE Fail(p) /\ InitFrameEventList(p, DEFAULT_DELTA)
  <2>1. TestUnchanged /\ Step(p)
    BY DEF TestReceive, Step
  <2> QED BY <1>0, <1>3, <2>1, TestFails
<1> QED BY <1>2, <1>3 DEF TestReceive

\* ... and a test packet is sent back.
LEMMA TestEchoConn ==
  ASSUME BaseInv, RingInv, ConnInv, NEW p \in Peers, TestEcho(p)
  PROVE  ConnInv'
<1>0. TypeInv /\ EndsInv /\ TcpInv /\ N \in Nat /\ packets[p] \in 0 .. N
      /\ packets[p] >= 1 /\ network_mode[p] = "CLIENT" /\ trap[p] = "none"
      /\ pc[p] = "test_echo" /\ pc[p] \in Testing
  BY TestingPeer DEF TestEcho, Testing
<1>1. UNCHANGED <<network_mode, network_socket, socket_pool, machine, backlog, sessions>>
  BY DEF TestEcho, TestUnchanged, sockets, counters
<1>m. Mine(Other(p))' = Mine(Other(p))
  BY <1>0, OtherPeer, Untouched DEF Step
<1>2. CASE /\ Arrived(p) /\ trap' = trap
           /\ IF end[Conn(p)][p] = "up"
              THEN /\ chan' = [chan EXCEPT ![Conn(p)] =
                         [r \in Peers |-> IF r = p THEN Tail(@[r]) ELSE @[r] \o Echo(p)]]
                   /\ UNCHANGED end
              ELSE /\ chan' = [chan EXCEPT ![Conn(p)][p] = Tail(@)]
                   /\ end' = [end EXCEPT ![Conn(p)][p] = "dying"]
           /\ pc' = [pc EXCEPT ![p] = IF packets[p] = 1 THEN "test_receive"
                                      ELSE "test_echo"]
           /\ packets' = [packets EXCEPT ![p] = @ - 1]
  <2>1. pc'[p] \in {"test_echo", "test_receive"} /\ trap'[p] = "none"
        /\ packets'[p] = packets[p] - 1
    BY <1>0, <1>2 DEF TypeInv
  <2>2. /\ \A c \in Conns : c # Conn(p) => Weaker(c)
        /\ chan'[Conn(p)][p] = Tail(chan[Conn(p)][p])
        /\ end[Conn(p)][p] = "up" =>
             /\ chan'[Conn(p)][Other(p)] = chan[Conn(p)][Other(p)] \o Echo(p)
             /\ end' = end
        /\ end[Conn(p)][p] # "up" =>
             chan'[Conn(p)][Other(p)] = chan[Conn(p)][Other(p)]
    BY <1>1, <1>2, EchoTcp
  <2>3. ASSUME NEW c, NEW h, c # 0, Conn(p) = c, ConnOK(h, c)
        PROVE  \E g : ConnOK(g, c)'
    <3> DEFINE q == Other(p)
               msgs == Echo(p)
    <3>1. /\ h.server = q /\ h.read[p] = N + 2 - packets[p] /\ h.lists[p] = << >>
          /\ machine[p] = h.base /\ Wrote(h, c, p, N - packets[p])
      BY <1>0, <2>3, TestingGhost
    <3>2. /\ GhostOK(h) /\ Wire(h, c, p) /\ Wire(h, c, q) /\ ListNext(c, q)
          /\ packets[q] \in 0 .. N /\ c \in Conns /\ c \notin Range(backlog[p])
          /\ q \in Peers /\ Other(q) = p /\ q # p
          /\ (Up(c) <=> end[c][p] = "up")
          /\ h.read[p] \in Nat /\ h.written[p] \in Nat
      BY <2>3, OnConn, OtherPeer, GhostTypes
    <3>3. chan[c][p] # << >>
      BY <1>2, <2>3 DEF Arrived
    <3>w. PICK w : w = IF Up(c) THEN h.written[p] + 1 ELSE h.written[p]
      OBVIOUS
    <3>g. PICK g : g = Then(h, p, h.base, h.delta, h.lists[p], h.read[p] + 1, w, h.idx[p])
      OBVIOUS
    <3>4. /\ g.server = h.server /\ g.base = h.base /\ g.delta = h.delta
          /\ g.lists[p] = h.lists[p] /\ g.lists[q] = h.lists[q]
          /\ g.read[p] = h.read[p] + 1 /\ g.read[q] = h.read[q]
          /\ g.written[p] = w /\ g.written[q] = h.written[q]
          /\ g.idx[p] = h.idx[p] /\ g.idx[q] = h.idx[q]
      BY <3>g, ThenFields
    <3>5. /\ h.read[p] + 1 <= h.written[q] /\ h.read[p] + 1 \in Nat
          /\ w \in Nat /\ h.written[p] <= w
      <4>1. PICK e : e = Read(h, p)
        OBVIOUS
      <4>2. h.read[p] + 1 <= h.written[q]
        BY <3>2, <3>3, <4>1, ReadFields
      <4> QED BY <3>2, <3>w, <4>2
    <3>6. Extends(h, g, p)
      <4>1. ASeq(h.lists[p]) /\ Len(h.lists[p]) <= Len(h.lists[p])
        BY <3>2, GhostTypes
      <4> QED BY <3>4, <3>5, <4>1 DEF Extends
    <3>7. Sound(h, g, p)
      <4>1. Sound(h, h, p)
        BY <3>2, SoundItself
      <4>2. \A k \in 1 .. Len(h.lists[p]) : ~ (k > Len(h.lists[p]))
        BY <3>2, GhostTypes
      <4> QED BY <3>4, <3>5, <4>1, <4>2 DEF Sound
    <3>8. EndsKept(c) /\ (Up(c)' => Up(c))
      <4>1. CASE Up(c)
        <5>1. end' = end
          BY <2>2, <2>3, <3>2, <4>1
        <5> QED BY <5>1 DEF EndsKept, Up
      <4>2. CASE ~Up(c)
        <5>1. end' = [end EXCEPT ![c][p] = "dying"] /\ end[c] \in [Peers -> Ends]
          BY <1>0, <1>2, <2>3, <3>2, <4>2 DEF TypeInv
        <5>2. end'[c][p] = "dying" /\ end'[c][q] = end[c][q]
          BY <1>0, <3>2, <5>1 DEF TypeInv
        <5>3. end[c][p] \in OpenEnds
          BY <1>2, <2>3 DEF Arrived, OpenEnds
        <5>4. \A r \in Peers : r = p \/ r = q
          BY OtherPeer
        <5>5. end'[c]["A"] # "up"
          BY <1>0, <3>2, <4>2, <5>2, <5>4 DEF Peers, EndsInv
        <5>6. \A r \in Peers : end'[c][r] \in OpenEnds => end[c][r] \in OpenEnds
          BY <5>2, <5>3, <5>4
        <5> QED BY <5>5, <5>6 DEF EndsKept, Up
      <4> QED BY <4>1, <4>2
    <3>9. Own(q)' = Own(q)
      BY <1>m, MineOwn
    <3>10. Wire(g, c, p)'
      BY <2>2, <2>3, <3>2, <3>3, <3>4, <3>6, <3>8, WireRead
    <3>11. Wire(g, c, q)' /\ ListNext(c, q)'
      <4>1. CASE Up(c)
        <5>1. chan'[c][q] = chan[c][q] \o msgs
          BY <2>2, <2>3, <3>2, <4>1
        <5>2. ASeq(msgs) /\ Len(msgs) = 1
          BY ASeqOne DEF Echo
        <5>3. g.written[p] = h.written[p] + Len(msgs)
          BY <3>4, <3>w, <4>1, <5>2
        <5>4. ASSUME NEW i \in 1 .. Len(msgs)
              PROVE  MsgOK(g, p, h.written[p] + i, msgs[i])
          <6>1. h.written[p] = N - packets[p]
            BY <3>1, <4>1 DEF Wrote
          <6>2. i = 1
            BY <5>2
          <6>3. ~ (h.written[p] + i > N)
            BY <1>0, <6>1, <6>2
          <6>4. g.server # p /\ Preamble(g, p) = N
            BY <3>1, <3>2, <3>4 DEF Preamble
          <6> HIDE DEF msgs
          <6> QED BY <6>3, <6>4 DEF MsgOK
        <5> HIDE DEF msgs
        <5>5. Wire(g, c, q)'
          BY <3>2, <3>6, <4>1, <5>1, <5>2, <5>3, <5>4, WireWrite
        <5>6. ListNext(c, q)'
          BY <3>2, <3>9, <4>1, <5>1, <5>2, ListNextMore DEF Wire
        <5> QED BY <5>5, <5>6
      <4>2. CASE ~Up(c)
        <5>1. chan'[c][q] = chan[c][q]
          BY <2>2, <2>3, <3>2, <4>2
        <5>2. Shorter(c, q)
          BY <3>8, <5>1 DEF Shorter, Up
        <5>3. g.written[p] = h.written[p]
          BY <3>4, <3>w, <4>2
        <5>4. Wire(g, c, q)'
          BY <3>2, <3>4, <3>6, <5>2, <5>3, WireKeep
        <5>5. ListNext(c, q)'
          BY <3>2, <3>9, <5>2, OwnSame, ListNextKeep DEF Wire
        <5> QED BY <5>4, <5>5
      <4> QED BY <4>1, <4>2
    <3>12. Standing(g, c, p)' /\ ListNext(c, p)'
      <4>1. /\ N + 2 - packets'[p] = g.read[p]
            /\ N - packets'[p] = N - packets[p] + 1
        BY <1>0, <2>1, <3>1, <3>4
      <4>3. Serving(g, c, p)'
        BY <1>0, <1>1, <2>1 DEF Serving
      <4>4. Calling(g, c, p)'
        <5>1. g.written[p] <= N - packets'[p]
              /\ (Up(c)' => g.written[p] = N - packets'[p])
          <6>1. h.written[p] <= N - packets[p] /\ (Up(c) => h.written[p] = N - packets[p])
            BY <3>1 DEF Wrote
          <6>2. g.written[p] <= N - packets[p] + 1
                /\ (Up(c) => g.written[p] = N - packets[p] + 1)
            BY <1>0, <3>2, <3>4, <3>w, <6>1
          <6> QED BY <3>8, <4>1, <6>2
        <5> QED BY <1>1, <2>1, <3>1, <3>4, <4>1, <5>1 DEF Calling, Wrote
      <4>5. Playing(g, c, p)'
        BY <2>1 DEF Playing, InSession
      <4>6. ListNext(c, p)'
        BY <2>1 DEF ListNext
      <4> QED BY <4>3, <4>4, <4>5, <4>6 DEF Standing
    <3>13. ConnOK(g, c)'
      BY <1>1, <2>3, <3>2, <3>6, <3>7, <3>8, <3>9, <3>10, <3>11, <3>12, Advance
    <3> QED BY <3>13
  <2> QED BY <1>1, <2>2, <2>3, StaysPut DEF Step
<1>3. CASE Fail(p) /\ InitFrameEventList(p, DEFAULT_DELTA)
  <2>1. TestUnchanged /\ Step(p)
    BY DEF TestEcho, Step
  <2> QED BY <1>0, <1>3, <2>1, TestFails
<1> QED BY <1>2, <1>3 DEF TestEcho

-----------------------------------------------------------------------------
(* The connections after each action: leaving one.                        *)

\* A backlog that is dropped or kept has no new connection in it.
LEMMA SubRange ==
  ASSUME NEW p \in Peers, backlog'[p] = << >> \/ backlog'[p] = backlog[p],
         backlog'[Other(p)] = backlog[Other(p)]
  PROVE  \A r \in Peers : Range(backlog'[r]) \subseteq Range(backlog[r])
<1>1. Range(backlog'[p]) \subseteq Range(backlog[p])
  BY DEF Range
<1> QED BY <1>1, OtherPeer

\* The end of a process keeps the ghosts.
LEMMA GoneConn ==
  ASSUME BaseInv, ConnInv, NEW p \in Peers, Step(p) \/ Environment(p), Gone(p),
         sessions' = sessions, packets' = packets
  PROVE  ConnInv'
<1>1. /\ \A c \in Conns : Weaker(c)
      /\ Conn(p)' = 0 /\ backlog'[p] = << >>
      /\ backlog'[Other(p)] = backlog[Other(p)]
  BY ConnFacts, GoneStep
<1> QED BY <1>1, SubRange, Leaves

\* network_disconnect() keeps them: p has no connection any more.
LEMMA DisconnectConn ==
  ASSUME BaseInv, ConnInv, NEW p \in Peers, Step(p) \/ Environment(p),
         NEW next \in {"run", "length"}, NEW then \in Traps,
         network_disconnect(p, next, then), pc[p] # "gone",
         then # "none" => next = "run",
         then \in {"none", "sync_test"} \/ then = trap[p],
         sessions' = sessions, packets' = packets
  PROVE  ConnInv'
<1>0. next \in Places /\ next # "gone"
  BY DEF Places
<1>1. /\ \A c \in Conns : Weaker(c)
      /\ Conn(p)' = 0
      /\ backlog'[p] = << >> \/ backlog'[p] = backlog[p]
      /\ backlog'[Other(p)] = backlog[Other(p)]
  BY <1>0, ConnFacts, DisconnectStep
<1> QED BY <1>1, SubRange, Leaves

\* So does the crash of a server without lists,
LEMMA CrashInHookConn ==
  ASSUME BaseInv, ConnInv, NEW p \in Peers, CrashInHook(p)
  PROVE  ConnInv'
BY GoneConn DEF CrashInHook, Step, counters

\* ... an exit,
LEMMA ExitConn ==
  ASSUME BaseInv, ConnInv, NEW p \in Peers, Exit(p)
  PROVE  ConnInv'
BY GoneConn DEF Exit, Environment

\* ... and a user who disconnects.
LEMMA UserDisconnectConn ==
  ASSUME BaseInv, ConnInv, NEW p \in Peers, UserDisconnect(p)
  PROVE  ConnInv'
<1>0. trap[p] \in Traps
  BY ConnFacts
<1>1. /\ network_disconnect(p, "run", trap[p]) /\ pc[p] = "run"
      /\ packets' = packets /\ sessions' = sessions
  BY DEF UserDisconnect
<1> QED BY <1>0, <1>1, DisconnectConn DEF Environment

-----------------------------------------------------------------------------
(* A peer that plays.                                                      *)

\* A peer in a session whose end is open is in step.
LEMMA Active ==
  ASSUME BaseInv, RingInv, NEW p \in Peers, NEW c, c # 0, Conn(p) = c, NEW h,
         ConnOK(h, c), InSession(p), Open(p)
  PROVE  /\ InStep(h, c, p) /\ Ring(h, p) /\ Reads(h, c, p) /\ GhostOK(h)
         /\ frame_delta[p] = h.delta /\ h.delta \in Nat /\ h.delta >= 2
         /\ Frames(p) \in Nat
         /\ current_frame[p] \in 0 .. h.delta - 1
         /\ frame_event_list[p] = [i \in 0 .. h.delta - 1 |-> frame_event_list[p][i]]
<1>1. GhostOK(h) /\ Playing(h, c, p) /\ p \in Peers
  BY OnConn
<1>2. InStep(h, c, p) /\ Ring(h, p) /\ Reads(h, c, p)
  BY <1>1 DEF Playing, Failed, Hollow, InStep
<1>3. frame_delta[p] = h.delta /\ h.delta \in Nat /\ h.delta >= 2 /\ Frames(p) \in Nat
  BY <1>1, <1>2, GhostTypes DEF InStep
<1> QED BY <1>1, <1>2, <1>3 DEF RingInv

\* The slots of the ring further back are others than the current one.
LEMMA BackSlots ==
  ASSUME NEW p, NEW d \in Nat, frame_delta[p] = d,
         current_frame[p] \in 0 .. d - 1, NEW i \in 1 .. d - 1
  PROVE  Back(p, i) \in 0 .. d - 1 /\ Back(p, i) # current_frame[p]
<1> DEFINE n == current_frame[p]
<1>1. n \in 0 .. d - 1 /\ Back(p, i) = IF n >= i THEN n - i ELSE n - i + d
  BY DEF Back
<1> HIDE DEF n
<1>2. Back(p, i) \in 0 .. d - 1 /\ Back(p, i) # n
  BY <1>1
<1> QED BY <1>2 DEF n

\* An event is added to the list of the current frame, or none.
LEMMA RecordConn ==
  ASSUME BaseInv, RingInv, ConnInv, NEW p \in Peers, Step(p) \/ Environment(p),
         NEW e, e # LIST_END, e.type = "SYNC_TEST" => e.regs = machine[p],
         frame_event_list' = frame_event_list \/ RecordInList(p, e),
         UNCHANGED <<network_mode, sockets, frame_delta, ring, snapshotfilename,
                     packets, pc, machine, tcp, sessions, history>>,
         pc[p] = "run", trap'[p] \in {trap[p], "none"}
  PROVE  ConnInv'
<1>0. TypeInv /\ TcpInv
  BY ConnFacts
<1>1. UNCHANGED <<network_mode, network_socket, socket_pool, frame_delta,
                  frame_buffer_full, current_frame, frame_to_play, snapshotfilename,
                  packets, pc, machine, backlog, chan, end, sessions, recorded,
                  start>>
  BY DEF sockets, ring, tcp, history
<1>2. \A c \in Conns : Weaker(c)
  BY <1>0, <1>1, SameTcp DEF TcpInv
<1>m. Mine(Other(p))' = Mine(Other(p))
  BY <1>0, OtherPeer, Untouched
<1>3. /\ Conn(p)' = Conn(p) /\ Frames(p)' = Frames(p) /\ InSession(p)' = InSession(p)
      /\ Open(p)' = Open(p) /\ \A i : Back(p, i)' = Back(p, i)
      /\ \A c : Up(c)' = Up(c)
  BY <1>1 DEF Conn, Frames, InSession, connected, Open, Back, Up
<1>4. ASSUME NEW c, NEW h, c # 0, Conn(p) = c, ConnOK(h, c) PROVE ConnOK(h, c)'
  <2>1. Serving(h, c, p) /\ Calling(h, c, p) /\ Playing(h, c, p) /\ c \in Conns
        /\ packets[Other(p)] \in 0 .. N
    BY <1>4, OnConn
  <2>2. Serving(h, c, p)'
    BY <1>1, <2>1 DEF Serving, Wrote, Up
  <2>3. Calling(h, c, p)'
    BY <1>1, <2>1 DEF Calling, Wrote, Up
  <2>4. ASSUME InSession(p), Open(p) PROVE Ring(h, p)'
    <3> DEFINE d == h.delta
               slots == frame_event_list[p]
               new == frame_event_list'[p]
               k == current_frame[p]
    <3>1. /\ Ring(h, p) /\ frame_delta[p] = d /\ d \in Nat /\ d >= 2
          /\ k \in 0 .. d - 1 /\ slots = [i \in 0 .. d - 1 |-> slots[i]]
      BY <1>4, <2>4, Active
    <3>2. \/ new = slots
          \/ new = [slots EXCEPT ![k] = Append(@, e)]
      BY <1>0 DEF RecordInList, TypeInv, IsMap
    <3> HIDE DEF slots, new, k, d
    <3>3. \A i \in 0 .. d - 1 : i # k => new[i] = slots[i]
      BY <3>1, <3>2
    <3>4. new[k] = slots[k] \/ new[k] = Append(slots[k], e)
      BY <3>1, <3>2
    <3>5. Recording(p)
      BY <3>1 DEF Ring
    <3>6. Recording(p)'
      <4>1. CASE new[k] = slots[k]
        BY <1>1, <3>5, <4>1 DEF Recording, k, slots, new
      <4>2. CASE new[k] = Append(slots[k], e)
        <5>1. /\ ASeq(slots[k]) /\ \A j \in 1 .. Len(slots[k]) : slots[k][j] # LIST_END
              /\ slots[k] # << >> /\ slots[k][1].type = "SYNC_TEST" =>
                   slots[k][1].regs = machine[p]
          BY <3>5 DEF Recording, k, slots
        <5>2. /\ ASeq(new[k]) /\ Len(new[k]) = Len(slots[k]) + 1
              /\ \A i \in 1 .. Len(slots[k]) : new[k][i] = slots[k][i]
              /\ new[k][Len(slots[k]) + 1] = e
          BY <4>2, <5>1, ASeqAppend
        <5>3. Len(slots[k]) \in Nat /\ (slots[k] = << >> <=> Len(slots[k]) = 0)
          BY <5>1, ASeqFacts
        <5>4. \A j \in 1 .. Len(new[k]) : new[k][j] # LIST_END
          BY <5>1, <5>2, <5>3
        <5>5. new[k][1] = IF slots[k] = << >> THEN e ELSE slots[k][1]
          BY <5>2, <5>3
        <5>6. new[k][1].type = "SYNC_TEST" => new[k][1].regs = machine[p]
          BY <5>1, <5>5
        <5>7. frame_event_list'[p][current_frame'[p]] = new[k] /\ machine' = machine
          BY <1>1 DEF new, k
        <5> HIDE DEF Recording
        <5> QED BY <5>2, <5>4, <5>6, <5>7 DEF Recording
      <4> QED BY <3>4, <4>1, <4>2
    <3>7. ASSUME NEW i \in 1 .. d - 1 PROVE new[Back(p, i)] = slots[Back(p, i)]
      <4>1. Back(p, i) \in 0 .. d - 1 /\ Back(p, i) # k
        BY <3>1, <3>7, BackSlots DEF k
      <4> QED BY <3>3, <4>1
    <3>8. /\ frame_delta'[p] = d /\ frame_delta[p] = d
          /\ frame_buffer_full'[p] = frame_buffer_full[p]
          /\ current_frame'[p] = current_frame[p]
          /\ frame_event_list'[p] = new /\ frame_event_list[p] = slots
          /\ pc'[p] = "run" /\ pc[p] = "run" /\ Frames(p)' = Frames(p)
          /\ \A i : Back(p, i)' = Back(p, i)
      BY <1>1, <1>3, <3>1 DEF slots, new
    <3>9. Ring(h, p)
      BY <3>1
    <3> HIDE DEF Recording, Back, Frames
    <3> QED BY <3>6, <3>7, <3>8, <3>9 DEF Ring
  <2>5. ASSUME InSession(p), InStep(h, c, p) PROVE InStep(h, c, p)'
    <3>1. Open(p) => Reads(h, c, p)'
      BY <1>1, <1>3, <2>5 DEF InStep, Reads
    <3>2. Open(p)' => Ring(h, p)' /\ Reads(h, c, p)'
      BY <1>3, <2>4, <2>5, <3>1
    <3> HIDE DEF Ring, Reads
    <3> QED BY <1>1, <1>3, <2>5, <3>2 DEF InStep
  <2>6. (Failed(h, p) => Failed(h, p)') /\ (Hollow(h, p) => Hollow(h, p)')
    BY <1>1, <1>3 DEF Failed, Hollow
  <2>7. Playing(h, c, p)'
    BY <1>3, <2>1, <2>5, <2>6 DEF Playing
  <2>8. Standing(h, c, p)'
    BY <2>2, <2>3, <2>7 DEF Standing
  <2>9. Own(Other(p))' = Own(Other(p))
    BY <1>m, MineOwn
  <2> QED BY <1>1, <1>2, <1>4, <2>1, <2>8, <2>9, Keep
<1> QED BY <1>1, <1>2, <1>4, StaysPut

\* network_event_record() keeps the ghosts.
LEMMA EventRecordConn ==
  ASSUME BaseInv, RingInv, ConnInv, NEW p \in Peers, NEW type \in Types,
         network_event_record(p, type)
  PROVE  ConnInv'
<1>1. type # "LIST_END" /\ type # "SYNC_TEST"
  BY NetPlayAssumption DEF Types
<1>2. Event(type).type = type /\ LIST_END.type = "LIST_END"
  BY DEF Event, LIST_END
<1>3. Event(type) # LIST_END /\ Event(type).type # "SYNC_TEST"
  BY <1>1, <1>2
<1>4. pc[p] = "run" /\ trap' = trap
      /\ (frame_event_list' = frame_event_list \/ RecordInList(p, Event(type)))
      /\ UNCHANGED <<network_mode, sockets, frame_delta, ring, snapshotfilename,
                     packets, pc, machine, tcp, sessions, history>>
  BY DEF network_event_record
<1>5. Environment(p)
  BY DEF Environment
<1> HIDE DEF Event, LIST_END
<1> QED BY <1>3, <1>4, <1>5, RecordConn

\* The sync test trap keeps them: it records the registers of the frame.
LEMMA SyncTestConn ==
  ASSUME BaseInv, RingInv, ConnInv, NEW p \in Peers, network_event_record_sync_test(p)
  PROVE  ConnInv'
<1>0. TypeInv
  BY ConnFacts
<1> DEFINE e == [type |-> "SYNC_TEST", regs |-> machine[p]]
<1>1. e # LIST_END /\ e.regs = machine[p]
  BY DEF Event, LIST_END
<1>2. pc[p] = "run" /\ trap'[p] = "none" /\ RecordInList(p, e)
      /\ UNCHANGED <<network_mode, sockets, frame_delta, ring, snapshotfilename,
                     packets, pc, machine, tcp, sessions, history>>
  BY <1>0 DEF network_event_record_sync_test, TypeInv, counters
<1>3. Step(p)
  BY DEF Step
<1> HIDE DEF e
<1> QED BY <1>1, <1>2, <1>3, RecordConn

-----------------------------------------------------------------------------
(* The connections after each action: suspending.                         *)

\* The frames of a session depend on these fields of its ghost only.
SameFrames(h, g) ==
  /\ g.server = h.server /\ g.base = h.base /\ g.delta = h.delta
  /\ \A r \in Peers : g.lists[r] = h.lists[r]

\* Ghosts with the same lists have the same frames.
LEMMA SameFramesAt ==
  ASSUME NEW h, NEW g, SameFrames(h, g), h.server \in Peers, NEW m, NEW n,
         AtFrame(h, m, n)
  PROVE  AtFrame(g, m, n)
<1>1. \A i : FrameInput(g, i) = FrameInput(h, i)
  BY OtherPeer DEF SameFrames, FrameInput
<1> QED BY <1>1 DEF AtFrame, SameFrames

\* A peer in step that reads a message that is no list, or stops at its length.
LEMMA InStepReads ==
  ASSUME NEW p \in Peers, NEW c, NEW h, GhostOK(h), InStep(h, c, p), Ring(h, p),
         NEW g, SameFrames(h, g), g.read[p] \in Nat, g.read[p] >= h.read[p],
         machine'[p] = machine[p], start'[p] = start[p], recorded'[p] = recorded[p],
         frame_delta'[p] = frame_delta[p], current_frame'[p] = current_frame[p],
         frame_buffer_full'[p] = frame_buffer_full[p],
         frame_event_list'[p] = frame_event_list[p],
         pc'[p] = pc[p] \/ (pc[p] # "run" /\ pc'[p] # "run"),
         Reads(g, c, p)'
  PROVE  InStep(g, c, p)'
<1>1. /\ Frames(p)' = Frames(p) /\ \A i : Back(p, i)' = Back(p, i)
      /\ Recording(p)' = Recording(p)
  BY DEF Frames, Back, Recording
<1>2. /\ g.server = h.server /\ g.base = h.base /\ g.delta = h.delta
      /\ g.lists[p] = h.lists[p] /\ g.lists[Other(p)] = h.lists[Other(p)]
      /\ h.server \in Peers /\ h.read[p] \in Nat /\ N \in Nat
  BY OtherPeer, GhostTypes DEF SameFrames
<1>3. Ring(g, p)'
  <2> HIDE DEF Frames, Back, Recording
  <2> QED BY <1>1, <1>2 DEF Ring
<1>4. AtFrame(g, machine[p], Frames(p))
  <2>1. AtFrame(h, machine[p], Frames(p))
    BY DEF InStep
  <2> QED BY <1>2, <2>1, SameFramesAt
<1>5. p # h.server => g.read[p] >= N + 3
  <2>1. p # h.server => h.read[p] >= N + 3
    BY DEF InStep
  <2> QED BY <1>2, <2>1
<1> HIDE DEF Frames, Ring, Reads
<1> QED BY <1>1, <1>2, <1>3, <1>4, <1>5 DEF InStep

\* How many messages come before the first list.
LEMMA PreambleNat ==
  ASSUME NEW h, GhostOK(h), NEW r \in Peers
  PROVE  Preamble(h, r) \in Nat
<1>1. N \in Nat
  BY GhostTypes
<1>2. N + 3 \in Nat
  BY <1>1
<1> QED BY <1>1, <1>2 DEF Preamble

\* A peer goes on playing.
LEMMA PlayStanding ==
  ASSUME NEW h, NEW c, NEW p, Serving(h, c, p), Calling(h, c, p),
         NEW g, g.server = h.server, network_mode'[p] = network_mode[p],
         trap'[p] \in {"none", "sync_test"}, pc'[p] \in {"run", "length", "list"},
         InStep(g, c, p)'
  PROVE  Standing(g, c, p)'
<1>1. Serving(g, c, p)'
  BY DEF Serving
<1>2. Calling(g, c, p)'
  BY DEF Calling
<1>3. Playing(g, c, p)'
  BY DEF Playing
<1> QED BY <1>1, <1>2, <1>3 DEF Standing

\* What has happened to a peer that has done nothing of its own.
LEMMA OwnStanding ==
  ASSUME BaseInv, NEW p \in Peers, NEW h, NEW c, ConnOK(h, c),
         Own(p)' = Own(p), EndsKept(c)
  PROVE  Standing(h, c, p)'
<1>1. Other(p) \in Peers /\ Other(Other(p)) = p
  BY OtherPeer
<1>2. GhostOK(h) /\ Standing(h, c, p)
  BY DEF ConnOK
<1>3. Extends(h, h, Other(p))
  BY <1>1, <1>2, ExtendsItself
<1>4. packets[p] \in 0 .. N
  BY ConnFacts DEF N
<1> QED BY <1>1, <1>2, <1>3, <1>4, OtherStanding

\* A peer that sends while it plays.
LEMMA Sender ==
  ASSUME BaseInv, RingInv, NEW p \in Peers, NEW c, c # 0, Conn(p) = c, NEW h,
         ConnOK(h, c), pc[p] = "run", connected(p), Up(c)
  PROVE  /\ InSession(p) /\ Open(p) /\ trap[p] \in {"none", "sync_test"}
         /\ h.written[p] \in Nat /\ h.written[p] >= Preamble(h, p)
         /\ h.idx[p][h.written[p]] = Len(h.lists[p])
         /\ p = h.server => h.written[p] >= N + 3
<1>1. InSession(p)
  BY DEF InSession
<1>2. Open(p)
  BY OnConn DEF Open, OpenEnds
<1>3. Reads(h, c, p) /\ GhostOK(h)
  BY <1>1, <1>2, Active
<1>4. trap[p] \in {"none", "sync_test"}
  BY ConnFacts DEF ControlInv, connected, Traps
<1>5. h.written[p] >= Preamble(h, p) /\ h.idx[p][h.written[p]] = Len(h.lists[p])
  BY <1>3 DEF Reads
<1> QED BY <1>1, <1>2, <1>3, <1>4, <1>5, GhostTypes DEF Preamble

\* network_suspend() keeps the ghosts: a length of 0 is a message, but no list.
LEMMA SuspendConn ==
  ASSUME BaseInv, RingInv, ConnInv, NEW p \in Peers, network_suspend(p)
  PROVE  ConnInv'
<1>0. TypeInv /\ TcpInv /\ pc[p] = "run" /\ connected(p)
  BY ConnFacts DEF network_suspend
<1>1. UNCHANGED <<network_mode, network_socket, socket_pool, frame_delta,
                  frame_buffer_full, current_frame, frame_to_play, frame_event_list,
                  snapshotfilename, packets, trap, pc, machine, backlog, sessions,
                  recorded, start>>
  BY DEF network_suspend, sockets, config, ring, history
<1>m. Mine(Other(p))' = Mine(Other(p))
  BY <1>0, OtherPeer, Untouched DEF Environment
<1>o. Own(p)' = Own(p)
  BY <1>1 DEF Own
<1> DEFINE msgs == <<[type |-> "suspend"]>>
<1>2. Sends(p, msgs) \/ Fail(p)
  BY DEF network_suspend
<1>3. \A c \in Conns : c # Conn(p) => Weaker(c)
  <2>1. (\E m : Sends(p, m)) \/ Fail(p)
    BY <1>2
  <2> QED BY <1>1, <2>1, CallTcp
<1>4. ASSUME NEW c, NEW h, c # 0, Conn(p) = c, ConnOK(h, c)
      PROVE  \E g : ConnOK(g, c)'
  <2>1. GhostOK(h) /\ packets[Other(p)] \in 0 .. N /\ c \in Conns
        /\ Serving(h, c, p) /\ Calling(h, c, p)
    BY <1>4, OnConn
  <2>2. CASE Weaker(c)
    <3>1. EndsKept(c)
      BY <2>2, WeakerShorter
    <3>2. Standing(h, c, p)'
      BY <1>4, <1>o, <3>1, OwnStanding
    <3>3. Own(Other(p))' = Own(Other(p))
      BY <1>m, MineOwn
    <3>4. ConnOK(h, c)'
      BY <1>0, <1>1, <1>4, <2>1, <2>2, <3>2, <3>3, Keep
    <3> QED BY <3>4
  <2>3. CASE Up(c) /\ Sends(p, msgs)
    <3>1. /\ InSession(p) /\ Open(p) /\ trap[p] \in {"none", "sync_test"}
          /\ h.written[p] \in Nat /\ h.written[p] >= Preamble(h, p)
          /\ h.idx[p][h.written[p]] = Len(h.lists[p])
          /\ p = h.server => h.written[p] >= N + 3
      BY <1>0, <1>4, <2>3, Sender
    <3>2. InStep(h, c, p) /\ Ring(h, p) /\ Reads(h, c, p)
      BY <1>4, <3>1, Active
    <3>w. PICK w : w = h.written[p]
      OBVIOUS
    <3> DEFINE idx == [h.idx[p] EXCEPT ![w + 1] = h.idx[p][w]]
    <3>g. PICK g : g = Then(h, p, h.base, h.delta, h.lists[p], h.read[p], w + 1, idx)
      OBVIOUS
    <3>3. /\ g.server = h.server /\ g.base = h.base /\ g.delta = h.delta
          /\ g.lists[p] = h.lists[p] /\ g.lists[Other(p)] = h.lists[Other(p)]
          /\ g.read[p] = h.read[p] /\ g.read[Other(p)] = h.read[Other(p)]
          /\ g.written[p] = w + 1 /\ g.written[Other(p)] = h.written[Other(p)]
          /\ g.idx[p] = idx /\ g.idx[Other(p)] = h.idx[Other(p)]
      BY <3>g, ThenFields
    <3>4. /\ w \in Nat /\ h.idx[p] \in [Nat -> Nat] /\ Preamble(h, p) \in Nat
          /\ N \in Nat /\ N >= 1 /\ Preamble(h, p) \in {N, N + 3} /\ h.read[p] \in Nat
          /\ ASeq(h.lists[p]) /\ Len(h.lists[p]) \in Nat /\ w >= Preamble(h, p)
      <4>1. /\ N \in Nat /\ N >= 1 /\ Preamble(h, p) \in {N, N + 3}
            /\ h.read[p] \in Nat /\ h.idx[p] \in [Nat -> Nat]
            /\ ASeq(h.lists[p]) /\ Len(h.lists[p]) \in Nat
        BY <2>1, GhostTypes
      <4>2. Preamble(h, p) \in Nat
        BY <2>1, PreambleNat
      <4> QED BY <3>1, <3>w, <4>1, <4>2
    <3>5. /\ idx \in [Nat -> Nat] /\ idx[w + 1] = idx[w] /\ idx[w] = h.idx[p][w]
          /\ (\A m \in 0 .. w : idx[m] = h.idx[p][m])
          /\ idx[Preamble(h, p)] = h.idx[p][Preamble(h, p)]
      <4>0. w \in Nat /\ Preamble(h, p) \in Nat /\ w >= Preamble(h, p)
        BY <3>4
      <4>1. w + 1 \in Nat /\ w # w + 1 /\ (\A m \in 0 .. w : m # w + 1 /\ m \in Nat)
            /\ Preamble(h, p) # w + 1
        BY <4>0
      <4> QED BY <3>4, <3>w, <4>1
    <3> HIDE DEF idx
    <3>6. SameFrames(h, g)
      BY <3>3, OtherPeer DEF SameFrames
    <3>7. Extends(h, g, p)
      <4>1. w <= w + 1 /\ Len(h.lists[p]) <= Len(h.lists[p])
        BY <3>4
      <4> QED BY <3>3, <3>4, <3>5, <3>w, <4>1 DEF Extends
    <3>8. Sound(h, g, p)
      <4>1. Sound(h, h, p)
        BY <2>1, SoundItself
      <4>2. \A k \in 1 .. Len(h.lists[p]) : ~ (k > Len(h.lists[p]))
        BY <3>4
      <4>3. w + 1 \in Nat
        BY <3>4
      <4> QED BY <3>3, <3>5, <4>1, <4>2, <4>3 DEF Sound
    <3>9. Up(c)' => Up(c)
      BY <2>3
    <3>10. Reads(g, c, p)'
      <4>1. /\ h.read[p] >= Preamble(h, Other(p))
            /\ h.idx[Other(p)][h.read[p]] = IF Frames(p) < frame_delta[p] THEN 0
                                           ELSE Frames(p) - frame_delta[p] + 1
        BY <3>2 DEF Reads
      <4>2. \A r : Preamble(g, r) = Preamble(h, r)
        BY <3>3 DEF Preamble
      <4>3. w + 1 >= Preamble(h, p) /\ idx[w + 1] = Len(h.lists[p])
        <5>1. w + 1 >= Preamble(h, p)
          BY <3>4
        <5> QED BY <3>1, <3>5, <3>w, <5>1
      <4>4. Frames(p)' = Frames(p)
        BY <1>1 DEF Frames
      <4> HIDE DEF Frames
      <4> QED BY <1>1, <3>3, <4>1, <4>2, <4>3, <4>4 DEF Reads
    <3>11. InStep(g, c, p)'
      <4>0. g.read[p] = h.read[p] /\ h.read[p] \in Nat
        BY <3>3, <3>4
      <4>1. g.read[p] \in Nat /\ g.read[p] >= h.read[p]
        BY <4>0
      <4> QED BY <1>1, <2>1, <3>2, <3>6, <3>10, <4>1, InStepReads
    <3>12. Standing(g, c, p)' /\ pc'[p] # "list"
      BY <1>0, <1>1, <2>1, <3>1, <3>3, <3>11, PlayStanding
    <3>13. ASeq(msgs) /\ Len(msgs) = 1 /\ msgs[1] = [type |-> "suspend"]
      BY ASeqOne
    <3>14. ASSUME NEW i \in 1 .. Len(msgs) PROVE MsgOK(g, p, h.written[p] + i, msgs[i])
      <4>1. i = 1 /\ msgs[i].type = "suspend"
        BY <3>13
      <4>2. h.written[p] + i = w + 1
        BY <3>w, <4>1
      <4>3. w + 1 > Preamble(g, p) /\ w + 1 # 1 /\ (w + 1) - 1 = w
            /\ (p = g.server => w + 1 # N + 3)
        <5>1. Preamble(g, p) = Preamble(h, p)
          BY <3>3 DEF Preamble
        <5>2. p = g.server => w >= N + 3
          BY <3>1, <3>3, <3>w
        <5>3. /\ w \in Nat /\ N \in Nat /\ N >= 1 /\ Preamble(h, p) \in {N, N + 3}
              /\ w >= Preamble(h, p)
          BY <3>4
        <5>4. w > 0 /\ w + 1 > Preamble(h, p)
          BY <5>3
        <5>5. w + 1 # 1 /\ (w + 1) - 1 = w /\ (w >= N + 3 => w + 1 # N + 3)
          BY <5>3, <5>4
        <5> QED BY <5>1, <5>2, <5>4, <5>5
      <4>4. g.idx[p][w + 1] = g.idx[p][(w + 1) - 1]
        BY <3>3, <3>5, <4>3
      <4> HIDE DEF msgs
      <4> QED BY <4>1, <4>2, <4>3, <4>4 DEF MsgOK
    <3>15. g.written[p] = h.written[p] + Len(msgs)
      BY <3>3, <3>13, <3>w
    <3> HIDE DEF msgs
    <3>16. ConnOK(g, c)'
      BY <1>1, <1>m, <1>4, <2>3, <3>3, <3>7, <3>8, <3>12, <3>13, <3>14, <3>15,
         WriteGhost
    <3> QED BY <3>16
  <2>4. Weaker(c) \/ (Up(c) /\ Sends(p, msgs))
    <3>1. Fail(p) => Weaker(c)
      BY <1>0, <1>1, <2>1, ConnFacts, FailTcp DEF Fail
    <3>2. Sends(p, msgs) /\ ~Up(c) => Weaker(c)
      BY <1>1, <1>4, SendsLost
    <3> QED BY <1>2, <3>1, <3>2
  <2> QED BY <2>2, <2>3, <2>4
<1> QED BY <1>1, <1>3, <1>4, StaysPut DEF Environment

-----------------------------------------------------------------------------
(* The connections after each action: receiving a length.                 *)

\* A peer that has received something while it waits for a list.
LEMMA Receiver ==
  ASSUME BaseInv, RingInv, NEW p \in Peers, NEW c, c # 0, Conn(p) = c, NEW h,
         ConnOK(h, c), pc[p] \in {"length", "list"}, Arrived(p)
  PROVE  /\ InSession(p) /\ Open(p) /\ connected(p)
         /\ trap[p] = "none" /\ chan[c][p] # << >> /\ Message(p) = Head(chan[c][p])
         /\ h.read[p] \in Nat /\ h.read[p] >= Preamble(h, Other(p))
<1>1. connected(p) /\ trap[p] = "none"
  BY ConnFacts DEF ControlInv
<1>2. InSession(p)
  BY <1>1 DEF InSession
<1>3. Open(p)
  BY DEF Arrived, Open, OpenEnds
<1>4. Reads(h, c, p) /\ GhostOK(h)
  BY <1>2, <1>3, Active
<1> QED BY <1>1, <1>2, <1>3, <1>4, GhostTypes DEF Reads, Arrived, Message

\* A length of 0 arrives.
LEMMA PeerSuspendedConn ==
  ASSUME BaseInv, RingInv, ConnInv, NEW p \in Peers, ReceiveLength(p),
         Arrived(p), Message(p).type = "suspend", Take(p),
         UNCHANGED <<network_mode, sockets, backlog, trap, pc>>
  PROVE  ConnInv'
<1>0. TypeInv /\ TcpInv /\ pc[p] = "length"
  BY ConnFacts DEF ReceiveLength
<1>1. UNCHANGED <<network_mode, network_socket, socket_pool, frame_delta,
                  frame_buffer_full, current_frame, frame_to_play, frame_event_list,
                  snapshotfilename, packets, trap, pc, machine, backlog, sessions,
                  recorded, start>>
  BY DEF ReceiveLength, sockets, config, ring, history, counters
<1>m. Mine(Other(p))' = Mine(Other(p))
  BY <1>0, OtherPeer, Untouched DEF Step
<1>3. \A c \in Conns : c # Conn(p) => Weaker(c)
  BY <1>1, CallTcp
<1>4. ASSUME NEW c, NEW h, c # 0, Conn(p) = c, ConnOK(h, c)
      PROVE  \E g : ConnOK(g, c)'
  <2>1. GhostOK(h) /\ Wire(h, c, p) /\ Serving(h, c, p) /\ Calling(h, c, p)
        /\ Other(p) \in Peers
    BY <1>4, OnConn
  <2>2. /\ InSession(p) /\ Open(p) /\ trap[p] = "none" /\ chan[c][p] # << >>
        /\ Message(p) = Head(chan[c][p])
        /\ h.read[p] \in Nat /\ h.read[p] >= Preamble(h, Other(p))
    BY <1>0, <1>4, Receiver
  <2>3. InStep(h, c, p) /\ Ring(h, p) /\ Reads(h, c, p)
    BY <1>4, <2>2, Active
  <2>g. PICK g : g = Read(h, p)
    OBVIOUS
  <2>4. /\ g.server = h.server /\ g.base = h.base /\ g.delta = h.delta
        /\ \A r \in Peers : g.lists[r] = h.lists[r] /\ g.idx[r] = h.idx[r]
                            /\ g.written[r] = h.written[r]
        /\ g.read[p] = h.read[p] + 1
        /\ MsgOK(h, Other(p), g.read[p], Message(p))
    BY <2>1, <2>2, <2>g, ReadFields
  <2>5. SameFrames(h, g)
    BY <2>4 DEF SameFrames
  <2>6. \A r : Preamble(g, r) = Preamble(h, r)
    BY <2>4 DEF Preamble
  <2>7. /\ Preamble(h, Other(p)) \in Nat
        /\ g.read[p] \in Nat /\ g.read[p] >= h.read[p] /\ g.read[p] - 1 = h.read[p]
        /\ g.read[p] > Preamble(h, Other(p)) /\ g.read[p] >= Preamble(h, Other(p))
    <3>1. Preamble(h, Other(p)) \in Nat
      BY <2>1, PreambleNat
    <3> QED BY <2>2, <2>4, <3>1
  <2>8. h.idx[Other(p)][g.read[p]] = h.idx[Other(p)][h.read[p]]
    BY <2>4, <2>7 DEF MsgOK
  <2>9. Up(c)' => Up(c)
    <3>1. Conn(p) \in Conns /\ Conn(p) <= sessions /\ sessions' = sessions
      BY <1>1, <1>4, ConnFacts
    <3>2. end' = end
      BY <1>0, <3>1, TakeTcp
    <3> QED BY <3>2 DEF Up
  <2>10. Reads(g, c, p)'
    <3>1. /\ h.idx[Other(p)][h.read[p]] = IF Frames(p) < frame_delta[p] THEN 0
                                         ELSE Frames(p) - frame_delta[p] + 1
          /\ Up(c) => /\ h.written[p] >= Preamble(h, p)
                      /\ h.idx[p][h.written[p]] = Len(h.lists[p])
      BY <2>3 DEF Reads
    <3>2. Frames(p)' = Frames(p)
      BY <1>1 DEF Frames
    <3> HIDE DEF Frames
    <3> QED BY <1>1, <2>1, <2>4, <2>6, <2>7, <2>8, <2>9, <3>1, <3>2 DEF Reads
  <2>11. InStep(g, c, p)'
    BY <1>1, <2>1, <2>3, <2>5, <2>7, <2>10, InStepReads
  <2>12. Standing(g, c, p)' /\ pc'[p] # "list"
    BY <1>0, <1>1, <2>1, <2>2, <2>4, <2>11, PlayStanding
  <2>13. ConnOK(g, c)'
    BY <1>1, <1>m, <1>4, <2>g, <2>12, ReadGhost
  <2> QED BY <2>13
<1> QED BY <1>1, <1>3, <1>4, StaysPut DEF Step

\* The length of a list arrives.
LEMMA LengthArrivedConn ==
  ASSUME BaseInv, RingInv, ConnInv, NEW p \in Peers, ReceiveLength(p),
         Arrived(p), Message(p).type = "list", pc' = [pc EXCEPT ![p] = "list"],
         UNCHANGED <<network_mode, sockets, tcp, trap>>
  PROVE  ConnInv'
<1>0. TypeInv /\ TcpInv /\ pc[p] = "length" /\ pc'[p] = "list"
  BY ConnFacts DEF ReceiveLength, TypeInv
<1>1. UNCHANGED <<network_mode, network_socket, socket_pool, frame_delta,
                  frame_buffer_full, current_frame, frame_to_play, frame_event_list,
                  snapshotfilename, packets, trap, machine, backlog, chan, end,
                  sessions, recorded, start>>
  BY DEF ReceiveLength, sockets, config, ring, history, counters, tcp
<1>m. Mine(Other(p))' = Mine(Other(p))
  BY <1>0, OtherPeer, Untouched DEF Step
<1>3. \A c \in Conns : Weaker(c)
  BY <1>0, <1>1, SameTcp DEF TcpInv
<1>4. ASSUME NEW c, NEW h, c # 0, Conn(p) = c, ConnOK(h, c)
      PROVE  ConnOK(h, c)'
  <2>1. /\ GhostOK(h) /\ Wire(h, c, p) /\ Wire(h, c, Other(p))
        /\ ListNext(c, Other(p)) /\ Serving(h, c, p) /\ Calling(h, c, p)
        /\ Other(p) \in Peers /\ packets[Other(p)] \in 0 .. N
        /\ c \notin Range(backlog[p])
    BY <1>4, OnConn
  <2>2. /\ InSession(p) /\ Open(p) /\ trap[p] = "none" /\ chan[c][p] # << >>
        /\ Message(p) = Head(chan[c][p]) /\ h.read[p] \in Nat
    BY <1>0, <1>4, Receiver
  <2>3. InStep(h, c, p) /\ Ring(h, p) /\ Reads(h, c, p)
    BY <1>4, <2>2, Active
  <2>4. EndsKept(c) /\ \A r \in Peers : Shorter(c, r)
    BY <1>1 DEF EndsKept, Shorter
  <2>5. Own(Other(p))' = Own(Other(p))
    BY <1>m, MineOwn
  <2>6. Extends(h, h, p) /\ Sound(h, h, p)
    BY <2>1, ExtendsItself, SoundItself
  <2>7. Wire(h, c, p)' /\ Wire(h, c, Other(p))'
    BY <2>1, <2>4, <2>6, WireKeep
  <2>8. Reads(h, c, p)'
    <3>1. Frames(p)' = Frames(p) /\ Up(c)' = Up(c)
      BY <1>1 DEF Frames, Up
    <3> HIDE DEF Frames, Up
    <3> QED BY <1>1, <2>3, <3>1 DEF Reads
  <2>9. InStep(h, c, p)'
    <3>1. SameFrames(h, h) /\ h.read[p] >= h.read[p]
      BY <2>2 DEF SameFrames
    <3> QED BY <1>0, <1>1, <2>1, <2>2, <2>3, <2>8, <3>1, InStepReads
  <2>10. Standing(h, c, p)'
    BY <1>0, <1>1, <2>1, <2>2, <2>9, PlayStanding
  <2>11. ListNext(c, p)'
    <3>1. ASeq(chan[c][p])
      BY <2>1 DEF Wire
    <3>2. Head(chan[c][p]) = chan[c][p][1]
      BY <2>2, <3>1, ASeqTail
    <3>3. chan[c][p] # << >> /\ chan[c][p][1].type = "list"
      BY <2>2, <3>2
    <3> QED BY <1>1, <3>3 DEF ListNext
  <2>12. ListNext(c, Other(p))'
    BY <2>1, <2>4, <2>5, OwnSame, ListNextKeep DEF Wire
  <2> QED BY <1>1, <1>4, <2>1, <2>4, <2>5, <2>6, <2>7, <2>10, <2>11, <2>12, Advance
<1> QED BY <1>1, <1>3, <1>4, StaysPut DEF Step

\* The receive of a length keeps the ghosts.
LEMMA ReceiveLengthConn ==
  ASSUME BaseInv, RingInv, ConnInv, NEW p \in Peers, ReceiveLength(p)
  PROVE  ConnInv'
<1>1. CASE /\ Arrived(p) /\ Message(p).type = "suspend" /\ Take(p)
           /\ UNCHANGED <<network_mode, sockets, backlog, trap, pc>>
  BY <1>1, PeerSuspendedConn
<1>2. CASE /\ Arrived(p) /\ Message(p).type = "list" /\ pc' = [pc EXCEPT ![p] = "list"]
           /\ UNCHANGED <<network_mode, sockets, tcp, trap>>
  BY <1>2, LengthArrivedConn
<1>3. CASE network_disconnect(p, "run", "none")
  <2>1. pc[p] = "length" /\ packets' = packets /\ sessions' = sessions /\ Step(p)
    BY DEF ReceiveLength, counters, Step
  <2> QED BY <1>3, <2>1, DisconnectConn DEF Traps
<1> QED BY <1>1, <1>2, <1>3 DEF ReceiveLength

\* The link breaks.
LEMMA LinkBreaksConn ==
  ASSUME BaseInv, ConnInv, NEW d \in Conns, LinkBreaks(d)
  PROVE  ConnInv'
<1>1. TcpInv /\ sessions' = sessions /\ backlog' = backlog
  BY TypesOfTcp DEF BaseInv, LinkBreaks
<1>2. \A c \in Conns : Weaker(c)
  BY <1>1, LinkBreaksTcp
<1>3. UNCHANGED <<network_mode, sockets, config, ring, snapshotfilename, packets,
                  trap, pc, machine, history>>
  BY DEF LinkBreaks
<1>4. ASSUME NEW r \in Peers PROVE Own(r)' = Own(r)
  BY <1>3 DEF Own, sockets, config, ring, history
<1>5. ASSUME NEW c \in 1 .. sessions PROVE \E h : ConnOK(h, c)'
  <2>1. PICK h : ConnOK(h, c)
    BY <1>5 DEF ConnInv
  <2>2. c \in Conns
    <3>1. sessions \in 0 .. MaxSessions /\ MaxSessions \in Nat
      BY Bounds DEF BaseInv, TypeInv
    <3> QED BY <1>5, <3>1 DEF Conns
  <2>3. PICK p \in Peers : TRUE
    BY DEF Peers
  <2>4. Other(p) \in Peers
    BY OtherPeer
  <2>5. EndsKept(c)
    BY <1>2, <2>2, WeakerShorter
  <2>6. Standing(h, c, p)'
    BY <1>4, <2>1, <2>5, OwnStanding
  <2>7. Conn(p)' = Conn(p) /\ pc' = pc
    BY <1>3 DEF Conn, sockets
  <2>8. packets[Other(p)] \in 0 .. N
    BY <2>4, ConnFacts DEF N
  <2> QED BY <1>1, <1>2, <1>4, <2>1, <2>2, <2>4, <2>6, <2>7, <2>8, Keep
<1> QED BY <1>1, <1>5 DEF ConnInv

\* A step that changes nothing keeps the ghosts.
LEMMA StutterConn ==
  ASSUME BaseInv, ConnInv, UNCHANGED vars
  PROVE  ConnInv'
<1>1. TcpInv /\ sessions' = sessions /\ backlog' = backlog /\ sessions \in Nat
  BY TypesOfTcp DEF BaseInv, vars, tcp, counters, TcpInv
<1>2. \A c \in Conns : Weaker(c)
  <2>1. sessions <= sessions'
    BY <1>1
  <2> QED BY <1>1, <2>1, SameTcp DEF vars, tcp
<1>4. ASSUME NEW r \in Peers PROVE Own(r)' = Own(r)
  BY DEF Own, sockets, config, ring, history, vars
<1>5. ASSUME NEW c \in 1 .. sessions PROVE \E h : ConnOK(h, c)'
  <2>1. PICK h : ConnOK(h, c)
    BY <1>5 DEF ConnInv
  <2>2. c \in Conns
    <3>1. sessions \in 0 .. MaxSessions /\ MaxSessions \in Nat
      BY Bounds DEF BaseInv, TypeInv
    <3> QED BY <1>5, <3>1 DEF Conns
  <2>3. PICK p \in Peers : TRUE
    BY DEF Peers
  <2>4. Other(p) \in Peers
    BY OtherPeer
  <2>5. EndsKept(c)
    BY <1>2, <2>2, WeakerShorter
  <2>6. Standing(h, c, p)'
    BY <1>4, <2>1, <2>5, OwnStanding
  <2>7. Conn(p)' = Conn(p) /\ pc' = pc
    BY DEF Conn, sockets, vars
  <2>8. packets[Other(p)] \in 0 .. N
    BY <2>4, ConnFacts DEF N
  <2> QED BY <1>1, <1>2, <1>4, <2>1, <2>2, <2>4, <2>6, <2>7, <2>8, Keep
<1> QED BY <1>1, <1>5 DEF ConnInv

-----------------------------------------------------------------------------
(* The ring moves on.                                                      *)

NextSlot(n, d) == IF n = d - 1 THEN 0 ELSE n + 1

\* What the modulo of network_prepare_next_frame() does to an index.
LEMMA NextSlotIs ==
  ASSUME NEW d \in Nat, d >= 2, NEW n \in 0 .. d - 1
  PROVE  (n + 1) % d = NextSlot(n, d)
<1>1. CASE n = d - 1
  <2>1. n + 1 = d /\ d % d = 0
    BY <1>1
  <2> QED BY <1>1, <2>1 DEF NextSlot
<1>2. CASE n # d - 1
  <2>1. n + 1 \in 0 .. d - 1
    BY <1>2
  <2>2. \A x \in 0 .. d - 1 : x % d = x
    OBVIOUS
  <2> QED BY <1>2, <2>1, <2>2 DEF NextSlot
<1> QED BY <1>1, <1>2

\* One slot on, what was i - 1 frames back is i frames back.
LEMMA BackMoves ==
  ASSUME NEW p, NEW d \in Nat, d >= 2, frame_delta[p] = d, frame_delta'[p] = d,
         NEW n \in 0 .. d - 1, current_frame[p] = n,
         current_frame'[p] = NextSlot(n, d), NEW i \in 1 .. d - 1
  PROVE  /\ Back(p, i)' \in 0 .. d - 1
         /\ Back(p, i)' # NextSlot(n, d)
         /\ i = 1 => Back(p, i)' = n
         /\ i > 1 => Back(p, i)' = Back(p, i - 1) /\ i - 1 \in 1 .. d - 1
<1>1. /\ Back(p, i)' = IF NextSlot(n, d) >= i THEN NextSlot(n, d) - i
                       ELSE NextSlot(n, d) - i + d
      /\ Back(p, i - 1) = IF n >= i - 1 THEN n - (i - 1) ELSE n - (i - 1) + d
  BY DEF Back
<1>2. CASE n = d - 1
  <2>1. NextSlot(n, d) = 0
    BY <1>2 DEF NextSlot
  <2> QED BY <1>1, <1>2, <2>1
<1>3. CASE n # d - 1
  <2>1. NextSlot(n, d) = n + 1
    BY <1>3 DEF NextSlot
  <2> QED BY <1>1, <1>3, <2>1
<1> QED BY <1>2, <1>3

\* The slot after the current one is the oldest.
LEMMA OldestSlot ==
  ASSUME NEW p, NEW d \in Nat, d >= 2, frame_delta[p] = d,
         current_frame[p] \in 0 .. d - 1
  PROVE  (current_frame[p] + 1) % d = Back(p, d - 1)
<1> DEFINE n == current_frame[p]
<1>1. n \in 0 .. d - 1 /\ Back(p, d - 1) = IF n >= d - 1 THEN n - (d - 1)
                                          ELSE n - (d - 1) + d
  BY DEF Back
<1> HIDE DEF n
<1>2. (n + 1) % d = NextSlot(n, d)
  BY <1>1, NextSlotIs
<1>3. NextSlot(n, d) = Back(p, d - 1)
  BY <1>1 DEF NextSlot
<1> QED BY <1>2, <1>3 DEF n

\* The ring of p, with slots for its lists, holds the last lists of L and
\* moves on to its next slot.
RingMoving(p, d, n, slots, f, L) ==
  /\ d \in Nat /\ d >= 2 /\ frame_delta[p] = d /\ frame_delta'[p] = d
  /\ n \in 0 .. d - 1 /\ current_frame[p] = n /\ current_frame'[p] = (n + 1) % d
  /\ slots = [i \in 0 .. d - 1 |-> slots[i]]
  /\ frame_event_list'[p] = [slots EXCEPT ![(n + 1) % d] = << >>]
  /\ f \in Nat /\ slots[n] = L[f + 1]
  /\ \A i \in 1 .. d - 1 : i <= f => slots[Back(p, i)] = L[f + 1 - i]

\* In the next slot the ring holds the last lists again, and one more.
LEMMA RingMoves ==
  ASSUME NEW p, NEW d, NEW n, NEW slots, NEW f, NEW L,
         RingMoving(p, d, n, slots, f, L)
  PROVE  /\ Recording(p)'
         /\ \A i \in 1 .. d - 1 : i <= f + 1 =>
              frame_event_list'[p][Back(p, i)'] = L[(f + 1) + 1 - i]
<1>0. /\ d \in Nat /\ d >= 2 /\ frame_delta[p] = d /\ frame_delta'[p] = d
      /\ n \in 0 .. d - 1 /\ current_frame[p] = n /\ current_frame'[p] = (n + 1) % d
      /\ slots = [i \in 0 .. d - 1 |-> slots[i]]
      /\ frame_event_list'[p] = [slots EXCEPT ![(n + 1) % d] = << >>]
      /\ f \in Nat /\ slots[n] = L[f + 1]
      /\ \A i \in 1 .. d - 1 : i <= f => slots[Back(p, i)] = L[f + 1 - i]
  BY DEF RingMoving
<1>1. (n + 1) % d = NextSlot(n, d)
  BY <1>0, NextSlotIs
<1> DEFINE next == NextSlot(n, d)
           new == frame_event_list'[p]
<1>2. next \in 0 .. d - 1
  BY <1>0 DEF NextSlot
<1>3. new = [slots EXCEPT ![next] = << >>] /\ current_frame'[p] = next
  BY <1>0, <1>1
<1> HIDE DEF next, new
<1>4. new[next] = << >> /\ \A i \in 0 .. d - 1 : i # next => new[i] = slots[i]
  BY <1>0, <1>2, <1>3
<1>5. Recording(p)'
  <2>1. frame_event_list'[p][current_frame'[p]] = << >>
    BY <1>3, <1>4 DEF new
  <2>2. \A j \in 1 .. Len(<< >>) : FALSE
    BY ASeqEmpty
  <2> QED BY <2>1, <2>2, ASeqEmpty DEF Recording
<1>6. ASSUME NEW i \in 1 .. d - 1, i <= f + 1
      PROVE  new[Back(p, i)'] = L[(f + 1) + 1 - i]
  <2>1. current_frame'[p] = NextSlot(n, d)
    BY <1>3 DEF next
  <2>2. /\ Back(p, i)' \in 0 .. d - 1 /\ Back(p, i)' # next
        /\ i = 1 => Back(p, i)' = n
        /\ i > 1 => Back(p, i)' = Back(p, i - 1) /\ i - 1 \in 1 .. d - 1
    BY <1>0, <2>1, BackMoves DEF next
  <2>3. new[Back(p, i)'] = slots[Back(p, i)']
    BY <1>4, <2>2
  <2>4. CASE i = 1
    <3>1. (f + 1) + 1 - i = f + 1
      BY <1>0, <2>4
    <3>2. Back(p, i)' = n
      BY <2>2, <2>4
    <3> HIDE DEF Back
    <3> QED BY <1>0, <2>3, <3>1, <3>2
  <2>5. CASE i # 1
    <3>1. i > 1 /\ i - 1 <= f /\ f + 1 - (i - 1) = (f + 1) + 1 - i
      BY <1>0, <1>6, <2>5
    <3>2. i - 1 \in 1 .. d - 1 /\ Back(p, i)' = Back(p, i - 1)
      BY <2>2, <3>1
    <3>3. slots[Back(p, i - 1)] = L[f + 1 - (i - 1)]
      BY <1>0, <3>1, <3>2
    <3> HIDE DEF Back
    <3> QED BY <2>3, <3>1, <3>2, <3>3
  <2> QED BY <2>4, <2>5
<1> QED BY <1>5, <1>6 DEF new

\* The machine runs one frame.
LEMMA FrameMoves ==
  ASSUME NEW h, IsMachine(h.base), NEW n \in Nat, NEW m, AtFrame(h, m, n), NEW x,
         x = FrameInput(h, n + 1), NEW new,
         new = [m EXCEPT !.inputs = Append(@, x)]
  PROVE  /\ AtFrame(h, new, n + 1)
         /\ Len(new.inputs) = Len(m.inputs) + 1 /\ Len(m.inputs) \in Nat
<1> DEFINE b == Len(h.base.inputs)
<1>1. b \in Nat
  BY ASeqFacts DEF IsMachine
<1>2. /\ ASeq(m.inputs) /\ Len(m.inputs) = b + n /\ m.origin = h.base.origin
      /\ m = [origin |-> m.origin, inputs |-> m.inputs]
      /\ \A i \in 1 .. b : m.inputs[i] = h.base.inputs[i]
      /\ \A i \in 1 .. n : m.inputs[b + i] = FrameInput(h, i)
  BY DEF AtFrame, IsMachine
<1> HIDE DEF b
<1>3. new.inputs = Append(m.inputs, x) /\ new.origin = m.origin
      /\ new = [origin |-> new.origin, inputs |-> new.inputs]
  BY <1>2
<1>4. /\ ASeq(new.inputs) /\ Len(new.inputs) = Len(m.inputs) + 1
      /\ \A i \in 1 .. Len(m.inputs) : new.inputs[i] = m.inputs[i]
      /\ new.inputs[Len(m.inputs) + 1] = x
  BY <1>2, <1>3, ASeqAppend
<1>5. Len(m.inputs) + 1 = b + (n + 1) /\ Len(m.inputs) \in Nat
  BY <1>1, <1>2
<1>6. \A i \in 1 .. b : new.inputs[i] = h.base.inputs[i]
  <2> SUFFICES ASSUME NEW i \in 1 .. b PROVE new.inputs[i] = h.base.inputs[i]
    OBVIOUS
  <2>1. i \in 1 .. Len(m.inputs)
    BY <1>1, <1>2
  <2> QED BY <1>2, <1>4, <2>1
<1>7. ASSUME NEW i \in 1 .. n + 1 PROVE new.inputs[b + i] = FrameInput(h, i)
  <2>1. CASE i = n + 1
    <3>1. b + i = Len(m.inputs) + 1
      BY <1>1, <1>5, <2>1
    <3> QED BY <1>4, <2>1, <3>1
  <2>2. CASE i # n + 1
    <3>1. i \in 1 .. n /\ b + i \in 1 .. b + n
      BY <1>1, <2>2
    <3> QED BY <1>2, <1>4, <3>1
  <2> QED BY <2>1, <2>2
<1> QED BY <1>2, <1>3, <1>4, <1>5, <1>6, <1>7 DEF AtFrame, IsMachine, b

-----------------------------------------------------------------------------
(* The connections after each action: receiving a list.                   *)

\* The lists played next: those both peers made frame_delta - 1 frames ago.
LEMMA NextLists ==
  ASSUME BaseInv, RingInv, NEW p \in Peers, NEW c, c # 0, Conn(p) = c, NEW h,
         ConnOK(h, c), pc[p] = "list", Arrived(p),
         NEW q, q = Other(p), NEW f, f = Frames(p), NEW k, k = f - h.delta + 2,
         NEW local, local = frame_event_list[p][frame_to_play[p]]
  PROVE  /\ f \in Nat /\ f + 1 >= h.delta /\ k \in Nat /\ k >= 1
         /\ Len(h.lists[p]) = f + 1 /\ k <= Len(h.lists[p]) /\ k <= Len(h.lists[q])
         /\ local = h.lists[p][k] /\ Message(p).list = h.lists[q][k]
         /\ h.idx[q][h.read[p] + 1] = k
<1>1. /\ GhostOK(h) /\ Wire(h, c, p) /\ ListNext(c, p) /\ q \in Peers
  BY OnConn DEF ConnOK
<1>2. /\ InSession(p) /\ Open(p) /\ chan[c][p] # << >>
      /\ Message(p) = Head(chan[c][p])
      /\ h.read[p] \in Nat /\ h.read[p] >= Preamble(h, q)
  BY Receiver
<1>3. /\ InStep(h, c, p) /\ Ring(h, p) /\ Reads(h, c, p)
      /\ frame_delta[p] = h.delta /\ h.delta \in Nat /\ h.delta >= 2
      /\ Frames(p) \in Nat /\ current_frame[p] \in 0 .. h.delta - 1
  BY <1>2, Active
<1> DEFINE d == h.delta
<1>4. /\ f \in Nat /\ d \in Nat /\ d >= 2 /\ f >= d - 1
      /\ frame_buffer_full[p] /\ Len(h.lists[p]) = f + 1
      /\ \A i \in 1 .. d - 1 :
           i <= f => frame_event_list[p][Back(p, i)] = h.lists[p][f + 1 - i]
  <2> HIDE DEF Frames, Back
  <2> QED BY <1>3 DEF Ring
<1>5. f + 1 >= d /\ k \in Nat /\ k >= 1 /\ k <= f + 1 /\ f + 1 - (d - 1) = k
      /\ d - 1 \in 1 .. d - 1 /\ d - 1 <= f
  <2> HIDE DEF d
  <2>1. k = f - d + 2
    BY DEF d
  <2> QED BY <1>4, <2>1
<1>6. local = h.lists[p][k]
  <2>1. frame_to_play[p] = (current_frame[p] + 1) % d
    <3>1. frame_delta[p] = d /\ d > 0
      BY <1>3
    <3>2. frame_buffer_full[p]
      BY <1>4
    <3> HIDE DEF d
    <3> QED BY <3>1, <3>2 DEF RingInv
  <2>2. frame_to_play[p] = Back(p, d - 1)
    BY <1>3, <2>1, OldestSlot
  <2> HIDE DEF Back, d
  <2> QED BY <1>4, <1>5, <2>2
<1>7. /\ Message(p).type = "list"
      /\ MsgOK(h, q, h.read[p] + 1, Message(p))
  <2>1. PICK g : g = Read(h, p)
    OBVIOUS
  <2>2. g.read[p] = h.read[p] + 1 /\ MsgOK(h, q, g.read[p], Head(chan[c][p]))
    BY <1>1, <1>2, <2>1, ReadFields
  <2>3. ASeq(chan[c][p])
    BY <1>1 DEF Wire
  <2>4. Head(chan[c][p]) = chan[c][p][1]
    BY <1>2, <2>3, ASeqTail
  <2> QED BY <1>1, <1>2, <2>2, <2>4 DEF ListNext
<1>8. /\ h.idx[q][h.read[p] + 1] = h.idx[q][(h.read[p] + 1) - 1] + 1
      /\ h.idx[q][h.read[p] + 1] <= Len(h.lists[q])
      /\ Message(p).list = h.lists[q][h.idx[q][h.read[p] + 1]]
  <2>1. Preamble(h, q) \in Nat
    BY <1>1, PreambleNat
  <2>2. h.read[p] + 1 > Preamble(h, q)
    BY <1>2, <2>1
  <2> QED BY <1>7, <2>2 DEF MsgOK
<1>9. h.idx[q][h.read[p] + 1] = k
  <2>1. (h.read[p] + 1) - 1 = h.read[p]
    BY <1>2
  <2>2. h.idx[q][h.read[p]] = IF f < d THEN 0 ELSE f - d + 1
    <3> HIDE DEF Frames
    <3> QED BY <1>3 DEF Reads
  <2> DEFINE a == h.idx[q][h.read[p]]
             b == h.idx[q][h.read[p] + 1]
  <2>3. b = a + 1 /\ a = IF f < d THEN 0 ELSE f - d + 1
    BY <1>8, <2>1, <2>2
  <2>4. f \in Nat /\ d \in Nat /\ d >= 2 /\ f >= d - 1 /\ k = f - d + 2
    BY <1>4
  <2> HIDE DEF a, b, d
  <2>5. b = k
    BY <2>3, <2>4
  <2> QED BY <2>5 DEF b
<1>10. k <= Len(h.lists[q]) /\ Message(p).list = h.lists[q][k]
  BY <1>8, <1>9
<1> HIDE DEF d
<1>11. f + 1 >= h.delta
  BY <1>5 DEF d
<1> QED BY <1>4, <1>5, <1>6, <1>9, <1>10, <1>11

\* Where both begin with the registers, these are the same.
LEMMA SameRegisters ==
  ASSUME NEW h, GhostOK(h), NEW p \in Peers, NEW q \in Peers, NEW k \in Nat, k >= 1,
         k <= Len(h.lists[p]), k <= Len(h.lists[q]),
         NEW a, a = h.lists[p][k], NEW b, b = h.lists[q][k],
         Head(a).type = "SYNC_TEST", Head(b).type = "SYNC_TEST"
  PROVE  Head(a).regs = Head(b).regs
<1>1. k \in 1 .. Len(h.lists[p]) /\ k \in 1 .. Len(h.lists[q]) /\ k - 1 \in Nat
  BY GhostTypes
<1>2. ListOK(h, a, k) /\ ListOK(h, b, k)
  BY <1>1 DEF GhostOK, GhostPeer
<1>3. Head(a) = a[1] /\ Head(b) = b[1]
  BY <1>2, ASeqTail DEF ListOK
<1>4. AtFrame(h, Head(a).regs, k - 1) /\ AtFrame(h, Head(b).regs, k - 1)
  BY <1>2, <1>3 DEF ListOK
<1>5. IsMachine(h.base)
  BY DEF GhostOK
<1> QED BY <1>1, <1>4, <1>5, FrameUnique

\* The comparison of ReceiveList().
Differ(lists) ==
  /\ \A i \in 1 .. 2 : Head(lists[i]).type = "SYNC_TEST"
  /\ Head(lists[1]).regs # Head(lists[2]).regs

PlayedLists(p, local, remote) ==
  IF network_mode[p] = "SERVER_CONNECTED" THEN <<local, remote>> ELSE <<remote, local>>

\* The sync test compares the registers of one frame, which are the same.
LEMMA NeverDiffer ==
  ASSUME BaseInv, RingInv, NEW p \in Peers, NEW c, c # 0, Conn(p) = c, NEW h,
         ConnOK(h, c), pc[p] = "list", Arrived(p),
         NEW local, local = frame_event_list[p][frame_to_play[p]]
  PROVE  ~Differ(PlayedLists(p, local, Message(p).list))
<1>1. PICK q : q = Other(p)
  OBVIOUS
<1>2. PICK f : f = Frames(p)
  OBVIOUS
<1>3. PICK k : k = f - h.delta + 2
  OBVIOUS
<1>4. /\ k \in Nat /\ k >= 1 /\ k <= Len(h.lists[p]) /\ k <= Len(h.lists[q])
      /\ local = h.lists[p][k] /\ Message(p).list = h.lists[q][k]
  BY <1>1, <1>2, <1>3, NextLists
<1>5. GhostOK(h) /\ q \in Peers
  BY <1>1, OnConn
<1>6. PICK remote : remote = Message(p).list
  OBVIOUS
<1>7. Head(local).type = "SYNC_TEST" /\ Head(remote).type = "SYNC_TEST" =>
        Head(local).regs = Head(remote).regs
  BY <1>4, <1>5, <1>6, SameRegisters
<1>8. \/ PlayedLists(p, local, remote) = <<local, remote>>
      \/ PlayedLists(p, local, remote) = <<remote, local>>
  BY DEF PlayedLists
<1>9. 1 \in 1 .. 2 /\ 2 \in 1 .. 2
  OBVIOUS
<1>10. ASSUME NEW a, NEW b, Differ(<<a, b>>)
       PROVE  Head(a).type = "SYNC_TEST" /\ Head(b).type = "SYNC_TEST"
              /\ Head(a).regs # Head(b).regs
  BY <1>9, <1>10, ASeqTwo DEF Differ
<1> QED BY <1>6, <1>7, <1>8, <1>10

\* The receive of a list fails.
ListFails(p) ==
  /\ Fail(p)
  /\ pc' = [pc EXCEPT ![p] = "run"]
  /\ UNCHANGED <<network_mode, sockets, backlog, trap, current_frame,
                 frame_to_play, frame_event_list, machine, out_of_sync>>

\* What ReceiveList() does when no difference is found.
LEMMA ListReceived ==
  ASSUME NEW p \in Peers, ReceiveList(p),
         NEW local, local = frame_event_list[p][frame_to_play[p]],
         NEW lists, lists = PlayedLists(p, local, Message(p).list),
         Arrived(p) => ~Differ(lists)
  PROVE  \/ ListFails(p)
         \/ /\ Arrived(p) /\ Take(p)
            /\ pc' = [pc EXCEPT ![p] = "run"]
            /\ trap' = [trap EXCEPT ![p] = "sync_test"]
            /\ UNCHANGED <<network_mode, sockets, backlog, out_of_sync>>
            /\ PrepareNextFrame(p, frame_event_list[p],
                                <<Played(lists[1]), Played(lists[2])>>)
BY DEF ReceiveList, PlayedLists, Differ, ListFails

\* A list arrives: with the slot frame_to_play it is the input of the next
\* frame, and the ring moves on.
LEMMA ListPlayedConn ==
  ASSUME BaseInv, RingInv, ConnInv, NEW p \in Peers, ReceiveList(p), Arrived(p),
         NEW lists,
         lists = PlayedLists(p, frame_event_list[p][frame_to_play[p]],
                             Message(p).list),
         Take(p), pc' = [pc EXCEPT ![p] = "run"],
         trap' = [trap EXCEPT ![p] = "sync_test"],
         UNCHANGED <<network_mode, sockets, backlog>>,
         PrepareNextFrame(p, frame_event_list[p],
                          <<Played(lists[1]), Played(lists[2])>>)
  PROVE  ConnInv'
<1>0. TypeInv /\ TcpInv /\ pc[p] = "list" /\ pc'[p] = "run" /\ trap'[p] = "sync_test"
  BY ConnFacts DEF ReceiveList, TypeInv
<1>1. UNCHANGED <<network_mode, network_socket, socket_pool, frame_delta,
                  frame_buffer_full, snapshotfilename, packets, backlog,
                  sessions, recorded, start>>
  BY DEF ReceiveList, sockets, history, counters
<1>m. Mine(Other(p))' = Mine(Other(p))
  BY <1>0, OtherPeer, Untouched DEF Step
<1>3. \A c \in Conns : c # Conn(p) => Weaker(c)
  BY <1>1, CallTcp
<1>4. ASSUME NEW c, NEW h, c # 0, Conn(p) = c, ConnOK(h, c)
      PROVE  \E g : ConnOK(g, c)'
  <2>q. PICK q : q = Other(p)
    OBVIOUS
  <2>f. PICK f : f = Frames(p)
    OBVIOUS
  <2>k. PICK k : k = f - h.delta + 2
    OBVIOUS
  <2>l. PICK local : local = frame_event_list[p][frame_to_play[p]]
    OBVIOUS
  <2>1. /\ GhostOK(h) /\ Wire(h, c, p) /\ Serving(h, c, p) /\ Calling(h, c, p)
        /\ q \in Peers /\ Other(q) = p /\ h.server \in Peers
    BY <1>4, <2>q, OnConn, GhostTypes
  <2>2. /\ InSession(p) /\ Open(p) /\ connected(p) /\ chan[c][p] # << >>
        /\ h.read[p] \in Nat /\ h.read[p] >= Preamble(h, q)
    BY <1>0, <1>4, <2>q, Receiver
  <2>3. /\ InStep(h, c, p) /\ Ring(h, p) /\ Reads(h, c, p)
        /\ frame_delta[p] = h.delta /\ h.delta \in Nat /\ h.delta >= 2
        /\ current_frame[p] \in 0 .. h.delta - 1
        /\ frame_event_list[p] = [i \in 0 .. h.delta - 1 |-> frame_event_list[p][i]]
    BY <1>4, <2>2, Active
  <2>4. /\ f \in Nat /\ f + 1 >= h.delta /\ k \in Nat /\ k >= 1
        /\ Len(h.lists[p]) = f + 1 /\ k <= Len(h.lists[p]) /\ k <= Len(h.lists[q])
        /\ local = h.lists[p][k] /\ Message(p).list = h.lists[q][k]
        /\ h.idx[q][h.read[p] + 1] = k
    BY <1>0, <1>4, <2>q, <2>f, <2>k, <2>l, NextLists
  <2>g. PICK g : g = Read(h, p)
    OBVIOUS
  <2>5. /\ g.server = h.server /\ g.base = h.base /\ g.delta = h.delta
        /\ \A r \in Peers : g.lists[r] = h.lists[r] /\ g.idx[r] = h.idx[r]
                            /\ g.written[r] = h.written[r]
        /\ g.read[p] = h.read[p] + 1
    BY <2>1, <2>2, <2>g, ReadFields
  <2>6. SameFrames(h, g)
    BY <2>5 DEF SameFrames
  <2>x. PICK x : x = <<Played(lists[1]), Played(lists[2])>>
    OBVIOUS
  <2>7. x = FrameInput(h, f + 1)
    <3>1. ~ (f + 1 < h.delta) /\ (f + 1) - h.delta + 1 = k
      BY <2>3, <2>4, <2>k
    <3>2. FrameInput(h, f + 1) =
            <<Played(h.lists[h.server][k]), Played(h.lists[Other(h.server)][k])>>
      BY <3>1 DEF FrameInput
    <3>3. CASE network_mode[p] = "SERVER_CONNECTED"
      <4>1. h.server = p
        BY <2>1, <3>3 DEF Serving
      <4>2. lists[1] = local /\ lists[2] = Message(p).list
        BY <2>l, <3>3, ASeqTwo DEF PlayedLists
      <4> QED BY <2>4, <2>q, <2>x, <3>2, <4>1, <4>2
    <3>4. CASE network_mode[p] # "SERVER_CONNECTED"
      <4>1. h.server = q /\ Other(h.server) = p
        BY <2>1, <2>2, <2>q, <3>4 DEF Calling, connected
      <4>2. lists[2] = local /\ lists[1] = Message(p).list
        BY <2>l, <3>4, ASeqTwo DEF PlayedLists
      <4> QED BY <2>4, <2>x, <3>2, <4>1, <4>2
    <3> QED BY <3>3, <3>4
  <2>n. PICK n : n = current_frame[p]
    OBVIOUS
  <2>d. PICK d : d = h.delta
    OBVIOUS
  <2>8. /\ current_frame'[p] = (n + 1) % d
        /\ frame_event_list'[p] = [frame_event_list[p] EXCEPT ![(n + 1) % d] = << >>]
        /\ machine'[p] = [machine[p] EXCEPT !.inputs = Append(@, x)]
    <3>1. d = frame_delta[p] /\ p \in Peers /\ TypeInv
      BY <1>0, <2>3, <2>d
    <3>2. PrepareNextFrame(p, frame_event_list[p], x)
      BY <2>x
    <3> QED BY <2>n, <3>1, <3>2 DEF PrepareNextFrame, TypeInv, IsMap
  <2>9. /\ AtFrame(h, machine'[p], f + 1)
        /\ Len(machine'[p].inputs) = Len(machine[p].inputs) + 1
        /\ Len(machine[p].inputs) \in Nat
    <3>1. AtFrame(h, machine[p], f) /\ IsMachine(h.base)
      BY <2>1, <2>3, <2>f DEF InStep, GhostOK
    <3> QED BY <2>4, <2>7, <2>8, <3>1, FrameMoves
  <2>10. Frames(p)' = f + 1
    <3>1. start[p] = Len(h.base.inputs) /\ Len(h.base.inputs) \in Nat
      BY <2>1, <2>3, ASeqFacts DEF InStep, GhostOK, IsMachine
    <3>2. f = Len(machine[p].inputs) - start[p]
      BY <2>f DEF Frames
    <3>3. Frames(p)' = Len(machine'[p].inputs) - start[p]
      BY <1>1 DEF Frames
    <3> QED BY <2>9, <3>1, <3>2, <3>3
  <2>11. /\ Recording(p)'
         /\ \A i \in 1 .. d - 1 : i <= f + 1 =>
              frame_event_list'[p][Back(p, i)'] = h.lists[p][(f + 1) + 1 - i]
    <3>1. /\ d \in Nat /\ d >= 2 /\ frame_delta[p] = d /\ frame_delta'[p] = d
          /\ n \in 0 .. d - 1
          /\ frame_event_list[p] = [i \in 0 .. d - 1 |-> frame_event_list[p][i]]
      BY <1>1, <2>3, <2>d, <2>n
    <3>2. /\ frame_event_list[p][n] = h.lists[p][f + 1]
          /\ \A i \in 1 .. d - 1 : i <= f =>
               frame_event_list[p][Back(p, i)] = h.lists[p][f + 1 - i]
      <4> HIDE DEF Frames, Back
      <4> QED BY <1>0, <2>3, <2>d, <2>f, <2>n DEF Ring
    <3>s. PICK slots : slots = frame_event_list[p]
      OBVIOUS
    <3>L. PICK L : L = h.lists[p]
      OBVIOUS
    <3>3. /\ slots = [i \in 0 .. d - 1 |-> slots[i]] /\ slots[n] = L[f + 1]
          /\ \A i \in 1 .. d - 1 : i <= f => slots[Back(p, i)] = L[f + 1 - i]
      BY <3>1, <3>2, <3>s, <3>L
    <3>4. /\ current_frame[p] = n /\ current_frame'[p] = (n + 1) % d
          /\ frame_event_list'[p] = [slots EXCEPT ![(n + 1) % d] = << >>]
      BY <2>8, <2>n, <3>s
    <3>5. f \in Nat
      BY <2>4
    <3> HIDE DEF Back, Recording
    <3>6. /\ Recording(p)'
          /\ \A i \in 1 .. d - 1 : i <= f + 1 =>
               frame_event_list'[p][Back(p, i)'] = L[(f + 1) + 1 - i]
      <4>1. RingMoving(p, d, n, slots, f, L)
        BY <3>1, <3>3, <3>4, <3>5 DEF RingMoving
      <4> QED BY <4>1, RingMoves
    <3> QED BY <3>6, <3>L
  <2>12. Ring(g, p)'
    <3>1. frame_buffer_full[p]
      BY <1>0, <2>3 DEF Ring
    <3>2. f + 1 >= d - 1
      BY <2>3, <2>4, <2>d
    <3>3. Len(g.lists[p]) = f + 1 /\ g.lists[p] = h.lists[p]
      BY <2>4, <2>5
    <3>4. frame_delta'[p] = d /\ frame_buffer_full'[p]
      BY <1>1, <2>3, <2>d, <3>1
    <3> HIDE DEF Frames, Back, Recording
    <3> QED BY <1>0, <2>10, <2>11, <3>2, <3>3, <3>4 DEF Ring
  <2>13. Up(c)' => Up(c)
    <3>1. Conn(p) \in Conns /\ Conn(p) <= sessions /\ sessions' = sessions
      BY <1>1, <1>4, ConnFacts
    <3>2. end' = end
      BY <1>0, <3>1, TakeTcp
    <3> QED BY <3>2 DEF Up
  <2>14. Reads(g, c, p)'
    <3>1. Up(c) => /\ h.written[p] >= Preamble(h, p)
                   /\ h.idx[p][h.written[p]] = Len(h.lists[p])
      BY <2>3 DEF Reads
    <3>2. \A r : Preamble(g, r) = Preamble(h, r)
      BY <2>5 DEF Preamble
    <3>3. g.read[p] >= Preamble(g, q)
      <4>1. Preamble(h, q) \in Nat
        BY <2>1, PreambleNat
      <4> QED BY <2>2, <2>5, <3>2, <4>1
    <3>4. g.idx[q][g.read[p]] = k
      BY <2>1, <2>4, <2>5
    <3>5. k = IF f + 1 < frame_delta'[p] THEN 0 ELSE (f + 1) - frame_delta'[p] + 1
      <4>1. frame_delta'[p] = h.delta
        BY <1>1, <2>3
      <4> QED BY <2>3, <2>4, <2>k, <4>1
    <3>6. /\ g.written[p] = h.written[p] /\ g.idx[p] = h.idx[p]
          /\ g.lists[p] = h.lists[p]
      BY <2>5
    <3> HIDE DEF Frames, Up
    <3> QED BY <2>q, <2>10, <2>13, <3>1, <3>2, <3>3, <3>4, <3>5, <3>6 DEF Reads
  <2>15. InStep(g, c, p)'
    <3>1. AtFrame(g, machine'[p], f + 1)
      BY <2>1, <2>6, <2>9, SameFramesAt
    <3>2. /\ f + 1 <= Len(g.lists[p]) /\ Len(g.lists[p]) <= (f + 1) + 1
          /\ g.lists[p] = h.lists[p] /\ g.lists[q] = h.lists[q]
      BY <2>1, <2>4, <2>5
    <3>3. f + 1 <= Len(g.lists[q]) + g.delta - 1
      <4>1. k <= Len(h.lists[q]) /\ Len(h.lists[q]) \in Nat
        BY <2>1, <2>4, GhostTypes
      <4>2. f + 1 <= Len(h.lists[q]) + h.delta - 1
        <5> DEFINE a == Len(h.lists[q])
                   e == h.delta
        <5>1. a \in Nat /\ e \in Nat /\ f \in Nat /\ k = f - e + 2 /\ k <= a
          BY <2>3, <2>4, <2>k, <4>1
        <5> HIDE DEF a, e
        <5>2. f + 1 <= a + e - 1
          BY <5>1
        <5> QED BY <5>2 DEF a, e
      <4> QED BY <2>5, <3>2, <4>2
    <3>4. p # g.server => g.read[p] >= N + 3
      <4>1. p # h.server => h.read[p] >= N + 3
        BY <2>3 DEF InStep
      <4>2. N \in Nat
        BY <2>1, GhostTypes
      <4> QED BY <2>2, <2>5, <4>1, <4>2
    <3>5. /\ start[p] = Len(h.base.inputs) /\ ASeq(recorded[p])
          /\ Len(recorded[p]) = Len(h.lists[p])
          /\ \A j \in 1 .. Len(h.lists[p]) : recorded[p][j] = Played(h.lists[p][j])
      BY <2>3 DEF InStep
    <3>6. f + 1 \in Nat
      BY <2>4
    <3> HIDE DEF Frames, Ring, Reads, AtFrame
    <3> QED BY <1>1, <2>q, <2>3, <2>5, <2>10, <2>12, <2>14, <3>1, <3>2, <3>3, <3>4,
               <3>5, <3>6 DEF InStep
  <2>16. Standing(g, c, p)' /\ pc'[p] # "list"
    BY <1>0, <1>1, <2>1, <2>5, <2>15, PlayStanding
  <2>17. ConnOK(g, c)'
    BY <1>1, <1>m, <1>4, <2>g, <2>16, ReadGhost
  <2> QED BY <2>17
<1> QED BY <1>1, <1>3, <1>4, StaysPut DEF Step

\* The receive of a list fails: p goes on without an open end.
LEMMA ListFailsConn ==
  ASSUME BaseInv, ConnInv, NEW p \in Peers, ReceiveList(p), ListFails(p)
  PROVE  ConnInv'
<1>0. TypeInv /\ EndsInv /\ TcpInv /\ pc[p] = "list" /\ pc'[p] = "run"
      /\ trap[p] = "none" /\ ControlInv(p)
  BY ConnFacts DEF ReceiveList, ListFails, TypeInv, ControlInv
<1>1. UNCHANGED <<network_mode, network_socket, socket_pool, frame_delta, trap,
                  snapshotfilename, packets, machine, backlog, sessions, recorded,
                  start>>
  BY DEF ReceiveList, ListFails, sockets, history, counters
<1>m. Mine(Other(p))' = Mine(Other(p))
  BY <1>0, OtherPeer, Untouched DEF Step
<1>2. Fail(p)
  BY DEF ListFails
<1>3. \A c \in Conns : Weaker(c)
  BY <1>0, <1>1, <1>2, FailTcp DEF Fail
<1>4. ASSUME NEW c, NEW h, c # 0, Conn(p) = c, ConnOK(h, c)
      PROVE  ConnOK(h, c)'
  <2>1. /\ Serving(h, c, p) /\ Calling(h, c, p) /\ Playing(h, c, p) /\ c \in Conns
        /\ packets[Other(p)] \in 0 .. N
    BY <1>4, OnConn
  <2>2. /\ Conn(p)' = Conn(p) /\ Frames(p)' = Frames(p)
        /\ InSession(p)' /\ InSession(p)
    <3>1. Conn(p)' = Conn(p) /\ Frames(p)' = Frames(p)
          /\ connected(p)' = connected(p)
      BY <1>1 DEF Conn, Frames, connected
    <3>2. connected(p)
      BY <1>0, <1>4 DEF ControlInv
    <3> QED BY <1>0, <1>4, <3>1, <3>2 DEF InSession
  <2>3. ~Open(p)'
    <3>1. end' = [end EXCEPT ![c][p] = "dead"] /\ end[c] \in [Peers -> Ends]
          /\ c \in Conns /\ end \in [Conns -> [Peers -> Ends]]
      BY <1>0, <1>2, <1>4, <2>1 DEF Fail, BreakEnd, TypeInv
    <3>2. end'[c][p] = "dead"
      BY <3>1
    <3> QED BY <1>4, <2>2, <3>2 DEF Open, OpenEnds
  <2>4. Serving(h, c, p)' /\ Calling(h, c, p)'
    BY <1>0, <1>1, <2>1 DEF Serving, Calling
  <2>5. InStep(h, c, p) => InStep(h, c, p)'
    <3> HIDE DEF Frames, Ring, Reads, Open
    <3> QED BY <1>1, <2>2, <2>3 DEF InStep
  <2>6. (Failed(h, p) => Failed(h, p)') /\ (Hollow(h, p) => Hollow(h, p)')
    BY <1>1, <2>2, <2>3 DEF Failed, Hollow
  <2>7. Playing(h, c, p)'
    BY <2>1, <2>2, <2>5, <2>6 DEF Playing
  <2>8. Standing(h, c, p)'
    BY <2>4, <2>7 DEF Standing
  <2>9. Own(Other(p))' = Own(Other(p))
    BY <1>m, MineOwn
  <2> QED BY <1>0, <1>1, <1>3, <1>4, <2>1, <2>8, <2>9, Keep
<1> QED BY <1>1, <1>3, <1>4, StaysPut DEF Step

\* The receive of a list keeps the ghosts and finds no difference.
LEMMA ReceiveListConn ==
  ASSUME BaseInv, RingInv, ConnInv, NEW p \in Peers, ReceiveList(p)
  PROVE  ConnInv' /\ (~out_of_sync => ~out_of_sync')
<1>l. PICK local : local = frame_event_list[p][frame_to_play[p]]
  OBVIOUS
<1>r. PICK lists : lists = PlayedLists(p, local, Message(p).list)
  OBVIOUS
<1>0. pc[p] = "list"
  BY DEF ReceiveList
<1>1. Arrived(p) => ~Differ(lists)
  <2> SUFFICES ASSUME Arrived(p) PROVE ~Differ(lists)
    OBVIOUS
  <2>1. PICK c : c = Conn(p)
    OBVIOUS
  <2>2. c # 0 /\ c \in 1 .. sessions
    <3>1. c # 0
      BY <2>1 DEF Arrived
    <3> QED BY <2>1, <3>1, ConnFacts, ConnMade
  <2>3. PICK h : ConnOK(h, c)
    BY <2>2 DEF ConnInv
  <2> QED BY <1>0, <1>l, <1>r, <2>1, <2>2, <2>3, NeverDiffer
<1>2. \/ ListFails(p)
      \/ /\ Arrived(p) /\ Take(p)
         /\ pc' = [pc EXCEPT ![p] = "run"]
         /\ trap' = [trap EXCEPT ![p] = "sync_test"]
         /\ UNCHANGED <<network_mode, sockets, backlog, out_of_sync>>
         /\ PrepareNextFrame(p, frame_event_list[p],
                             <<Played(lists[1]), Played(lists[2])>>)
  BY <1>1, <1>l, <1>r, ListReceived
<1>3. out_of_sync' = out_of_sync
  BY <1>2 DEF ListFails
<1>4. ASSUME /\ Arrived(p) /\ Take(p)
             /\ pc' = [pc EXCEPT ![p] = "run"]
             /\ trap' = [trap EXCEPT ![p] = "sync_test"]
             /\ UNCHANGED <<network_mode, sockets, backlog, out_of_sync>>
             /\ PrepareNextFrame(p, frame_event_list[p],
                                 <<Played(lists[1]), Played(lists[2])>>)
      PROVE  ConnInv'
  BY <1>4, <1>l, <1>r, ListPlayedConn
<1> QED BY <1>2, <1>3, <1>4, ListFailsConn

-----------------------------------------------------------------------------
(* The connections after each action: the hook of a frame.                *)

\* What has been delivered once p has sent its next list.
Delivered(h, c, p) == IF Up(c) THEN h.written[p] + 1 ELSE h.written[p]

Index(h, c, p) ==
  IF Up(c) THEN [h.idx[p] EXCEPT ![h.written[p] + 1] = Len(h.lists[p]) + 1]
  ELSE h.idx[p]

\* h after p has made and sent the list X.
Hooked(h, c, p, X) ==
  Then(h, p, h.base, h.delta, Append(h.lists[p], X), h.read[p],
       Delivered(h, c, p), Index(h, c, p))

\* The fields of the ghost after a hook.
LEMMA HookedFields ==
  ASSUME NEW h, GhostOK(h), NEW p \in Peers, NEW c, NEW X,
         Up(c) => h.written[p] >= Preamble(h, p), NEW g, g = Hooked(h, c, p, X)
  PROVE  /\ g.server = h.server /\ g.base = h.base /\ g.delta = h.delta
         /\ g.lists[Other(p)] = h.lists[Other(p)]
         /\ g.idx[Other(p)] = h.idx[Other(p)]
         /\ g.written[Other(p)] = h.written[Other(p)]
         /\ g.read[Other(p)] = h.read[Other(p)]
         /\ g.lists[p] = Append(h.lists[p], X) /\ g.read[p] = h.read[p]
         /\ g.written[p] = Delivered(h, c, p) /\ g.written[p] \in Nat
         /\ g.idx[p] \in [Nat -> Nat]
         /\ Up(c) => /\ g.idx[p][h.written[p]] = h.idx[p][h.written[p]]
                     /\ g.idx[p][h.written[p] + 1] = Len(h.lists[p]) + 1
         /\ Extends(h, g, p)
<1>q. PICK q : q = Other(p)
  OBVIOUS
<1>1. /\ g.server = h.server /\ g.base = h.base /\ g.delta = h.delta
      /\ g.lists[q] = h.lists[q] /\ g.idx[q] = h.idx[q]
      /\ g.written[q] = h.written[q] /\ g.read[q] = h.read[q]
      /\ g.lists[p] = Append(h.lists[p], X) /\ g.read[p] = h.read[p]
      /\ g.written[p] = Delivered(h, c, p) /\ g.idx[p] = Index(h, c, p)
  <2>1. PICK L : L = Append(h.lists[p], X)
    OBVIOUS
  <2>2. PICK w : w = Delivered(h, c, p)
    OBVIOUS
  <2>3. PICK i : i = Index(h, c, p)
    OBVIOUS
  <2>4. g = Then(h, p, h.base, h.delta, L, h.read[p], w, i)
    BY <2>1, <2>2, <2>3 DEF Hooked
  <2>5. /\ g.server = h.server /\ g.base = h.base /\ g.delta = h.delta
        /\ g.lists[q] = h.lists[q] /\ g.idx[q] = h.idx[q]
        /\ g.written[q] = h.written[q] /\ g.read[q] = h.read[q]
        /\ g.lists[p] = L /\ g.read[p] = h.read[p]
        /\ g.written[p] = w /\ g.idx[p] = i
    BY <1>q, <2>4, ThenFields
  <2> QED BY <2>1, <2>2, <2>3, <2>5
<1>w. PICK w : w = h.written[p]
  OBVIOUS
<1>l. PICK l : l = Len(h.lists[p])
  OBVIOUS
<1>2. /\ w \in Nat /\ l \in Nat /\ h.idx[p] \in [Nat -> Nat] /\ Preamble(h, p) \in Nat
      /\ ASeq(h.lists[p])
  BY <1>w, <1>l, GhostTypes, PreambleNat
<1>3. /\ ASeq(g.lists[p]) /\ l <= Len(g.lists[p])
      /\ \A k \in 1 .. l : g.lists[p][k] = h.lists[p][k]
  <2>1. PICK s : s = h.lists[p]
    OBVIOUS
  <2>2. PICK t : t = g.lists[p]
    OBVIOUS
  <2>3. ASeq(s) /\ t = Append(s, X) /\ l = Len(s) /\ l \in Nat
    BY <1>1, <1>2, <1>l, <2>1, <2>2
  <2>4. ASeq(t) /\ Len(t) = l + 1 /\ \A k \in 1 .. l : t[k] = s[k]
    BY <2>3, ASeqAppend
  <2>5. l <= Len(t)
    BY <2>3, <2>4
  <2> QED BY <2>1, <2>2, <2>4, <2>5
<1>4. CASE Up(c)
  <2>1. g.written[p] = w + 1 /\ g.idx[p] = [h.idx[p] EXCEPT ![w + 1] = l + 1]
    BY <1>1, <1>4, <1>w, <1>l DEF Delivered, Index
  <2>2. w + 1 \in Nat /\ l + 1 \in Nat /\ w # w + 1 /\ w <= w + 1
        /\ (\A m \in 0 .. w : m # w + 1 /\ m \in Nat)
        /\ Preamble(h, p) # w + 1
    <3>1. w >= Preamble(h, p)
      BY <1>4, <1>w
    <3> QED BY <1>2, <3>1
  <2>3. /\ g.idx[p] \in [Nat -> Nat] /\ g.idx[p][w] = h.idx[p][w]
        /\ g.idx[p][w + 1] = l + 1
        /\ (\A m \in 0 .. w : g.idx[p][m] = h.idx[p][m])
        /\ g.idx[p][Preamble(h, p)] = h.idx[p][Preamble(h, p)]
    BY <1>2, <2>1, <2>2
  <2>4. Extends(h, g, p)
    BY <1>1, <1>3, <1>q, <1>w, <1>l, <2>1, <2>2, <2>3 DEF Extends
  <2> QED BY <1>1, <1>q, <1>w, <1>l, <2>1, <2>2, <2>3, <2>4
<1>5. CASE ~Up(c)
  <2>1. g.written[p] = w /\ g.idx[p] = h.idx[p]
    BY <1>1, <1>5, <1>w DEF Delivered, Index
  <2>2. w <= w
    BY <1>2
  <2>4. Extends(h, g, p)
    BY <1>1, <1>3, <1>q, <1>w, <1>l, <2>1, <2>2 DEF Extends
  <2> QED BY <1>1, <1>2, <1>5, <1>q, <1>w, <2>1, <2>4
<1> QED BY <1>4, <1>5

\* The list of the current frame, complete.
Complete(p) == Append(frame_event_list[p][current_frame[p]], LIST_END)

\* The list of the current frame, completed, goes out as a whole.
LEMMA CompleteList ==
  ASSUME NEW p, Recording(p), NEW X, X = Complete(p)
  PROVE  /\ ASeq(X) /\ X # << >> /\ ToListEnd(X) = X
         /\ X[1].type = "SYNC_TEST" => X[1].regs = machine[p]
<1> DEFINE list == frame_event_list[p][current_frame[p]]
<1>1. /\ ASeq(list)
      /\ \A j \in 1 .. Len(list) : list[j] # LIST_END
      /\ list # << >> /\ list[1].type = "SYNC_TEST" => list[1].regs = machine[p]
  BY DEF Recording
<1>2. X = Append(list, LIST_END)
  BY DEF Complete
<1> HIDE DEF list
<1>3. /\ ASeq(X) /\ X # << >>
      /\ \A i \in 1 .. Len(list) : X[i] = list[i]
      /\ X[Len(list) + 1] = LIST_END
      /\ Len(list) \in Nat /\ (list = << >> <=> Len(list) = 0)
  BY <1>1, <1>2, ASeqAppend, ASeqFacts
<1>4. ToListEnd(X) = X
  BY <1>1, <1>2, WholeList
<1>5. X[1] = IF list = << >> THEN LIST_END ELSE list[1]
  BY <1>3
<1>6. LIST_END.type # "SYNC_TEST"
  BY DEF LIST_END, Event
<1> QED BY <1>1, <1>3, <1>4, <1>5, <1>6

\* What a peer in step sends at the end of a frame.
LEMMA HookedSound ==
  ASSUME NEW h, GhostOK(h), NEW p \in Peers, NEW c, InStep(h, c, p), Ring(h, p),
         pc[p] = "run", NEW X, X = Complete(p),
         Up(c) => h.written[p] >= Preamble(h, p), NEW g, g = Hooked(h, c, p, X)
  PROVE  /\ Sound(h, g, p) /\ AtFrame(g, machine[p], Frames(p))
         /\ Len(h.lists[p]) = Frames(p) /\ Frames(p) \in Nat
         /\ ASeq(g.lists[p]) /\ Len(g.lists[p]) = Frames(p) + 1
         /\ g.lists[p][Frames(p) + 1] = X
         /\ \A k \in 1 .. Frames(p) : g.lists[p][k] = h.lists[p][k]
<1>q. PICK q : q = Other(p)
  OBVIOUS
<1>f. PICK f : f = Frames(p)
  OBVIOUS
<1>1. /\ g.server = h.server /\ g.base = h.base /\ g.delta = h.delta
      /\ g.lists[p] = Append(h.lists[p], X) /\ g.read[p] = h.read[p]
      /\ g.written[p] \in Nat /\ g.idx[p] \in [Nat -> Nat] /\ Extends(h, g, p)
  <2>1. Extends(h, g, p)
    BY HookedFields
  <2>2. g.server = h.server
    BY HookedFields
  <2>3. g.base = h.base /\ g.delta = h.delta
    BY HookedFields
  <2>4. /\ g.lists[p] = Append(h.lists[p], X) /\ g.read[p] = h.read[p]
    BY HookedFields
  <2>5. g.written[p] \in Nat /\ g.idx[p] \in [Nat -> Nat]
    BY HookedFields
  <2> QED BY <2>1, <2>2, <2>3, <2>4, <2>5
<1>2. Len(h.lists[p]) = f /\ f \in Nat /\ ASeq(h.lists[p]) /\ Recording(p)
      /\ AtFrame(h, machine[p], f) /\ f <= Len(h.lists[q]) + h.delta - 1
      /\ (p # h.server => h.read[p] >= N + 3)
  <2> HIDE DEF Frames
  <2> QED BY <1>f, <1>q, GhostTypes DEF InStep, Ring
<1>3. /\ ASeq(g.lists[p]) /\ Len(g.lists[p]) = f + 1
      /\ g.lists[p][f + 1] = X
      /\ \A k \in 1 .. f : g.lists[p][k] = h.lists[p][k]
  <2>1. PICK s : s = h.lists[p]
    OBVIOUS
  <2>2. PICK t : t = g.lists[p]
    OBVIOUS
  <2>3. ASeq(s) /\ t = Append(s, X) /\ f = Len(s)
    BY <1>1, <1>2, <2>1, <2>2
  <2>4. /\ ASeq(t) /\ Len(t) = f + 1 /\ t[f + 1] = X
        /\ \A k \in 1 .. f : t[k] = s[k]
    BY <2>3, ASeqAppend
  <2> QED BY <2>1, <2>2, <2>4
<1>4. /\ q \in Peers /\ Other(q) = p /\ Len(h.lists[q]) \in Nat
      /\ h.delta \in Nat /\ h.delta >= 2 /\ N \in Nat
      /\ h.read[p] \in Nat /\ h.read[p] <= h.written[q] /\ h.written[q] \in Nat
      /\ (p # h.server => h.server = q)
  BY <1>q, OtherPeer, GhostTypes
<1>5. AtFrame(g, machine[p], f)
  <2>1. f <= Len(h.lists[p]) + h.delta - 1
    BY <1>2, <1>4
  <2>2. \A r \in Peers : f <= Len(h.lists[r]) + h.delta - 1
    BY <1>2, <1>q, <2>1, OtherPeer
  <2> QED BY <1>1, <1>2, <2>2, FrameStays
<1>6. ListOK(g, X, f + 1)
  <2>1. /\ ASeq(X) /\ X # << >> /\ ToListEnd(X) = X
        /\ X[1].type = "SYNC_TEST" => X[1].regs = machine[p]
    BY <1>2, CompleteList
  <2>2. (f + 1) - 1 = f
    BY <1>2
  <2> QED BY <1>5, <2>1, <2>2 DEF ListOK
<1>7. Sound(h, g, p)
  <2>1. ASSUME NEW k \in 1 .. Len(g.lists[p]), k > Len(h.lists[p])
        PROVE  ListOK(g, g.lists[p][k], k)
    <3>1. k = f + 1
      BY <1>2, <1>3, <2>1
    <3> QED BY <1>3, <1>6, <3>1
  <2>2. Len(g.lists[p]) <= Len(h.lists[q]) + g.delta
    <3> DEFINE a == Len(h.lists[q])
               d == h.delta
    <3>1. a \in Nat /\ d \in Nat /\ f \in Nat /\ f <= a + d - 1
      BY <1>2, <1>4
    <3> HIDE DEF a, d
    <3>2. f + 1 <= a + d
      BY <3>1
    <3> QED BY <1>1, <1>3, <3>2 DEF a, d
  <2>3. p = h.server \/ ~ (h.written[h.server] < N + 3)
    <3> SUFFICES ASSUME p # h.server PROVE ~ (h.written[h.server] < N + 3)
      OBVIOUS
    <3>1. h.server = q /\ h.read[p] >= N + 3
      BY <1>2, <1>4
    <3>2. ~ (h.written[q] < N + 3)
      BY <1>4, <3>1
    <3> QED BY <3>1, <3>2
  <2>4. IsMachine(h.base) /\ h.delta \in Deltas \cup {DEFAULT_DELTA}
    BY DEF GhostOK
  <2> QED BY <1>1, <1>4, <1>q, <2>1, <2>2, <2>3, <2>4 DEF Sound
<1> QED BY <1>2, <1>3, <1>5, <1>7, <1>f

\* The hook of p on its open connection c, with the list X, while the buffer
\* fills (full is FALSE) or when a list is to be received.
HookSent(p, c, X, full) ==
  /\ c # 0 /\ Conn(p) = c /\ pc[p] = "run" /\ connected(p)
  /\ X = Complete(p) /\ full = BufferFull(p)
  /\ sessions' = sessions /\ backlog' = backlog
  /\ Conn(p)' = c /\ network_mode'[p] = network_mode[p] /\ start'[p] = start[p]
  /\ frame_delta'[p] = frame_delta[p] /\ frame_buffer_full'[p] = full
  /\ recorded'[p] = Append(recorded[p], Played(X))
  /\ pc'[p] = (IF full THEN "length" ELSE "run")
  /\ trap'[p] = (IF full THEN "none" ELSE "sync_test")
  /\ LET n == current_frame[p]
         d == frame_delta[p]
         list == [frame_event_list[p] EXCEPT ![n] = X]
     IN  IF full
         THEN /\ frame_event_list'[p] = list
              /\ current_frame'[p] = n /\ machine'[p] = machine[p]
         ELSE /\ frame_event_list'[p] = [list EXCEPT ![(n + 1) % d] = << >>]
              /\ current_frame'[p] = (n + 1) % d
              /\ machine'[p] = [machine[p] EXCEPT !.inputs = Append(@, << >>)]

\* What network_hook() does when its send succeeds.
LEMMA HookSends ==
  ASSUME BaseInv, NEW p \in Peers, network_hook(p), NEW c, c # 0, Conn(p) = c,
         NEW X, X = Complete(p), NEW full, full = BufferFull(p),
         current_frame[p] \in DOMAIN frame_event_list[p],
         pc' = [pc EXCEPT ![p] = IF full THEN "length" ELSE "run"],
         UNCHANGED <<network_mode, sockets, backlog>>,
         trap' = IF full THEN trap ELSE [trap EXCEPT ![p] = "sync_test"]
  PROVE  HookSent(p, c, X, full)
<1>0. TypeInv
  BY ConnFacts
<1> DEFINE list == [frame_event_list[p] EXCEPT ![current_frame[p]] = X]
           d == frame_delta[p]
           n == current_frame[p]
<1>x. [frame_event_list[p] EXCEPT ![current_frame[p]] = Append(@, LIST_END)] = list
  BY DEF Complete
<1>1. /\ pc[p] = "run" /\ connected(p) /\ trap[p] = "none"
      /\ sessions' = sessions /\ backlog' = backlog
      /\ frame_delta' = frame_delta /\ start' = start /\ network_mode' = network_mode
      /\ Conn(p)' = Conn(p)
  BY DEF network_hook, counters, sockets, Conn
<1>2. /\ frame_buffer_full' = [frame_buffer_full EXCEPT ![p] = full]
      /\ IF full
         THEN /\ frame_event_list' = [frame_event_list EXCEPT ![p] = list]
              /\ UNCHANGED <<current_frame, frame_to_play, machine>>
         ELSE PrepareNextFrame(p, list, <<>>)
  BY <1>x DEF network_hook
<1>3. /\ pc'[p] = (IF full THEN "length" ELSE "run")
      /\ trap'[p] = (IF full THEN "none" ELSE "sync_test")
      /\ frame_buffer_full'[p] = full
  <2>1. full \in BOOLEAN
    BY <1>0 DEF BufferFull, TypeInv
  <2> QED BY <1>0, <1>1, <1>2, <2>1 DEF TypeInv
<1>4. recorded'[p] = Append(recorded[p], Played(X))
  <2>1. recorded' = [recorded EXCEPT ![p] = Append(@, Played(
           [frame_event_list[p] EXCEPT ![current_frame[p]] = X][current_frame[p]]))]
    BY <1>x DEF network_hook
  <2> QED BY <1>0, <2>1 DEF TypeInv, IsMap
<1>5. IF full
      THEN /\ frame_event_list'[p] = list
           /\ current_frame'[p] = n /\ machine'[p] = machine[p]
      ELSE /\ frame_event_list'[p] = [list EXCEPT ![(n + 1) % d] = << >>]
           /\ current_frame'[p] = (n + 1) % d
           /\ machine'[p] = [machine[p] EXCEPT !.inputs = Append(@, << >>)]
  <2> HIDE DEF list
  <2>1. CASE full
    BY <1>0, <1>2, <2>1 DEF TypeInv, IsMap
  <2>2. CASE ~full
    BY <1>0, <1>2, <2>2 DEF PrepareNextFrame, TypeInv, IsMap
  <2> QED BY <2>1, <2>2
<1> QED BY <1>1, <1>3, <1>4, <1>5 DEF HookSent

\* p has made one list for every frame, and now the next one, X.
Longer(h, g, p, X) ==
  /\ Len(h.lists[p]) = Frames(p)
  /\ Len(g.lists[p]) = Frames(p) + 1
  /\ g.lists[p][Frames(p) + 1] = X
  /\ \A k \in 1 .. Frames(p) : g.lists[p][k] = h.lists[p][k]

\* The hook of a full buffer: the ring has its last list and stays.
LEMMA HookWaits ==
  ASSUME NEW h, GhostOK(h), NEW p \in Peers, NEW c, InStep(h, c, p), Ring(h, p),
         NEW X, HookSent(p, c, X, TRUE), NEW g, g = Hooked(h, c, p, X),
         current_frame[p] \in 0 .. h.delta - 1,
         frame_event_list[p] = [i \in 0 .. h.delta - 1 |-> frame_event_list[p][i]],
         Longer(h, g, p, X)
  PROVE  Ring(g, p)' /\ Frames(p)' = Frames(p) /\ machine'[p] = machine[p]
<1>f. PICK f : f = Frames(p)
  OBVIOUS
<1>l. /\ Len(h.lists[p]) = f /\ Len(g.lists[p]) = f + 1 /\ g.lists[p][f + 1] = X
      /\ \A k \in 1 .. f : g.lists[p][k] = h.lists[p][k]
  BY <1>f DEF Longer
<1>d. PICK d : d = h.delta
  OBVIOUS
<1>n. PICK n : n = current_frame[p]
  OBVIOUS
<1>s. PICK slots : slots = frame_event_list[p]
  OBVIOUS
<1>t. PICK new : new = frame_event_list'[p]
  OBVIOUS
<1>L. PICK L : L = g.lists[p]
  OBVIOUS
<1>1. /\ pc[p] = "run" /\ pc'[p] = "length" /\ frame_buffer_full'[p]
      /\ current_frame'[p] = n /\ machine'[p] = machine[p] /\ start'[p] = start[p]
      /\ new = [slots EXCEPT ![n] = X] /\ frame_delta'[p] = frame_delta[p]
      /\ BufferFull(p)
  BY <1>n, <1>s, <1>t DEF HookSent
<1>2. /\ d \in Nat /\ d >= 2 /\ frame_delta[p] = d /\ f \in Nat
      /\ n \in 0 .. d - 1 /\ slots = [i \in 0 .. d - 1 |-> slots[i]]
  BY <1>d, <1>f, <1>n, <1>s, GhostTypes DEF InStep
<1>3. Frames(p)' = f
  BY <1>1, <1>f DEF Frames
<1>4. /\ ~frame_buffer_full[p] => n = f
      /\ frame_buffer_full[p] => f >= d - 1
      /\ \A i \in 1 .. d - 1 : i <= f => slots[Back(p, i)] = h.lists[p][f + 1 - i]
  <2> HIDE DEF Frames, Back, Recording
  <2> QED BY <1>2, <1>f, <1>n, <1>s DEF Ring
<1>5. f >= d - 1
  <2>1. CASE frame_buffer_full[p]
    BY <1>4, <2>1
  <2>2. CASE ~frame_buffer_full[p]
    <3>1. n = d - 1
      BY <1>1, <1>2, <1>n, <2>2 DEF BufferFull
    <3>2. f = d - 1
      BY <1>4, <2>2, <3>1
    <3> QED BY <1>2, <3>2
  <2> QED BY <2>1, <2>2
<1>6. new[n] = L[f + 1] /\ Len(L) = f + 1
  BY <1>1, <1>2, <1>L, <1>l
<1>7. ASSUME NEW i \in 1 .. d - 1, i <= f
      PROVE  new[Back(p, i)] = L[f + 1 - i]
  <2>1. Back(p, i) \in 0 .. d - 1 /\ Back(p, i) # n
    BY <1>2, <1>n, <1>7, BackSlots
  <2>2. slots[Back(p, i)] = h.lists[p][f + 1 - i]
    BY <1>4, <1>7
  <2>3. f + 1 - i \in 1 .. f
    BY <1>2, <1>7
  <2>4. L[f + 1 - i] = h.lists[p][f + 1 - i]
    BY <1>L, <1>l, <2>3
  <2> HIDE DEF Back
  <2>5. new[Back(p, i)] = slots[Back(p, i)]
    BY <1>1, <1>2, <2>1
  <2> QED BY <2>2, <2>4, <2>5
<1>8. \A i : Back(p, i)' = Back(p, i)
  BY <1>1, <1>n DEF Back
<1>9. Ring(g, p)'
  <2> HIDE DEF Frames, Back, Recording
  <2>1. \A i \in 1 .. d - 1 : i <= f =>
          frame_event_list'[p][Back(p, i)'] = L[f + 1 - i]
    BY <1>7, <1>8, <1>t
  <2>2. frame_delta'[p] = d /\ "length" # "run" /\ f >= d - 1 /\ Len(L) = f + 1
    BY <1>1, <1>2, <1>5, <1>6
  <2>3. frame_event_list'[p][current_frame'[p]] = L[f + 1]
    BY <1>1, <1>6, <1>t
  <2> QED BY <1>1, <1>3, <1>L, <2>1, <2>2, <2>3 DEF Ring
<1> QED BY <1>1, <1>3, <1>9, <1>f

\* The hook while the buffer fills: the ring and the machine move on without
\* input.
LEMMA HookMovesOn ==
  ASSUME NEW h, GhostOK(h), NEW p \in Peers, NEW c, InStep(h, c, p), Ring(h, p),
         NEW X, HookSent(p, c, X, FALSE), NEW g, g = Hooked(h, c, p, X),
         current_frame[p] \in 0 .. h.delta - 1,
         frame_event_list[p] = [i \in 0 .. h.delta - 1 |-> frame_event_list[p][i]],
         Longer(h, g, p, X), g.delta = h.delta, g.base = h.base,
         IsMachine(g.base), AtFrame(g, machine[p], Frames(p))
  PROVE  /\ Ring(g, p)' /\ Frames(p)' = Frames(p) + 1
         /\ AtFrame(g, machine'[p], Frames(p) + 1)
         /\ Frames(p) + 1 <= h.delta - 1
<1>f. PICK f : f = Frames(p)
  OBVIOUS
<1>l. /\ Len(h.lists[p]) = f /\ Len(g.lists[p]) = f + 1 /\ g.lists[p][f + 1] = X
      /\ \A k \in 1 .. f : g.lists[p][k] = h.lists[p][k]
  BY <1>f DEF Longer
<1>d. PICK d : d = h.delta
  OBVIOUS
<1>n. PICK n : n = current_frame[p]
  OBVIOUS
<1>s. PICK slots : slots = frame_event_list[p]
  OBVIOUS
<1>t. PICK list : list = [slots EXCEPT ![n] = X]
  OBVIOUS
<1>L. PICK L : L = g.lists[p]
  OBVIOUS
<1>2. /\ d \in Nat /\ d >= 2 /\ frame_delta[p] = d /\ f \in Nat
      /\ n \in 0 .. d - 1 /\ slots = [i \in 0 .. d - 1 |-> slots[i]]
      /\ start[p] = Len(g.base.inputs)
  BY <1>d, <1>f, <1>n, <1>s, GhostTypes DEF InStep
<1>1. /\ pc[p] = "run" /\ pc'[p] = "run" /\ ~frame_buffer_full'[p]
      /\ current_frame'[p] = (n + 1) % d /\ start'[p] = start[p]
      /\ frame_event_list'[p] = [list EXCEPT ![(n + 1) % d] = << >>]
      /\ frame_delta'[p] = d
      /\ machine'[p] = [machine[p] EXCEPT !.inputs = Append(@, << >>)]
      /\ ~BufferFull(p)
  BY <1>2, <1>n, <1>s, <1>t DEF HookSent
<1>3. ~frame_buffer_full[p] /\ n # d - 1
  BY <1>1, <1>2, <1>n DEF BufferFull
<1>4. /\ n = f
      /\ \A i \in 1 .. d - 1 : i <= f => slots[Back(p, i)] = h.lists[p][f + 1 - i]
  <2> HIDE DEF Frames, Back, Recording
  <2> QED BY <1>2, <1>3, <1>f, <1>n, <1>s DEF Ring
<1>5. f + 1 <= d - 1 /\ (n + 1) % d = f + 1
  <2>1. f + 1 <= d - 1
    BY <1>2, <1>3, <1>4
  <2>2. NextSlot(n, d) = f + 1
    BY <1>3, <1>4 DEF NextSlot
  <2> QED BY <1>2, <2>1, <2>2, NextSlotIs
<1>6. list[n] = L[f + 1] /\ list = [i \in 0 .. d - 1 |-> list[i]] /\ Len(L) = f + 1
  BY <1>2, <1>L, <1>l, <1>t
<1>7. ASSUME NEW i \in 1 .. d - 1, i <= f
      PROVE  list[Back(p, i)] = L[f + 1 - i]
  <2>1. Back(p, i) \in 0 .. d - 1 /\ Back(p, i) # n
    BY <1>2, <1>n, <1>7, BackSlots
  <2>2. slots[Back(p, i)] = h.lists[p][f + 1 - i]
    BY <1>4, <1>7
  <2>3. f + 1 - i \in 1 .. f
    BY <1>2, <1>7
  <2>4. L[f + 1 - i] = h.lists[p][f + 1 - i]
    BY <1>L, <1>l, <2>3
  <2> HIDE DEF Back
  <2>5. list[Back(p, i)] = slots[Back(p, i)]
    BY <1>2, <1>t, <2>1
  <2> QED BY <2>2, <2>4, <2>5
<1>8. /\ Recording(p)'
      /\ \A i \in 1 .. d - 1 : i <= f + 1 =>
           frame_event_list'[p][Back(p, i)'] = L[(f + 1) + 1 - i]
  <2> HIDE DEF Back, Recording
  <2>1. RingMoving(p, d, n, list, f, L)
    BY <1>1, <1>2, <1>6, <1>7, <1>n DEF RingMoving
  <2> QED BY <2>1, RingMoves
<1>9. FrameInput(g, f + 1) = << >>
  <2>1. g.delta = d
    BY <1>d
  <2>2. f + 1 < d
    BY <1>2, <1>5
  <2> QED BY <2>1, <2>2 DEF FrameInput
<1>10. /\ AtFrame(g, machine'[p], f + 1)
       /\ Len(machine'[p].inputs) = Len(machine[p].inputs) + 1
       /\ Len(machine[p].inputs) \in Nat
  <2>1. PICK x : x = FrameInput(g, f + 1)
    OBVIOUS
  <2>m. PICK m : m = machine[p]
    OBVIOUS
  <2>n. PICK new : new = machine'[p]
    OBVIOUS
  <2>2. new = [m EXCEPT !.inputs = Append(@, x)]
    BY <1>1, <1>9, <2>1, <2>m, <2>n
  <2>3. AtFrame(g, m, f) /\ f \in Nat /\ IsMachine(g.base)
    BY <1>2, <1>f, <2>m
  <2>4. AtFrame(g, new, f + 1)
    BY <2>1, <2>2, <2>3, FrameMoves
  <2>5. Len(new.inputs) = Len(m.inputs) + 1 /\ Len(m.inputs) \in Nat
    BY <2>1, <2>2, <2>3, FrameMoves
  <2> QED BY <2>4, <2>5, <2>m, <2>n
<1>11. Frames(p)' = f + 1
  <2>1. start[p] \in Nat
    BY <1>2, ASeqFacts DEF IsMachine
  <2>2. f = Len(machine[p].inputs) - start[p]
    BY <1>f DEF Frames
  <2>3. Frames(p)' = Len(machine'[p].inputs) - start[p]
    BY <1>1 DEF Frames
  <2> QED BY <1>10, <2>1, <2>2, <2>3
<1>12. Ring(g, p)'
  <2> HIDE DEF Frames, Back, Recording
  <2> QED BY <1>1, <1>5, <1>6, <1>8, <1>11, <1>L DEF Ring
<1> QED BY <1>5, <1>10, <1>11, <1>12, <1>f, <1>d

\* A peer in step is in step after its hook.
LEMMA HookInStep ==
  ASSUME BaseInv, RingInv, NEW p \in Peers, NEW c, NEW h, ConnOK(h, c), NEW X,
         NEW full \in BOOLEAN, HookSent(p, c, X, full), Open(p),
         Up(c)' => Up(c), NEW g, g = Hooked(h, c, p, X)
  PROVE  InStep(g, c, p)' /\ Extends(h, g, p) /\ Sound(h, g, p)
<1>q. PICK q : q = Other(p)
  OBVIOUS
<1>f. PICK f : f = Frames(p)
  OBVIOUS
<1>w. PICK w : w = h.written[p]
  OBVIOUS
<1>1. /\ c # 0 /\ Conn(p) = c /\ pc[p] = "run" /\ connected(p) /\ X = Complete(p)
      /\ start'[p] = start[p] /\ frame_delta'[p] = frame_delta[p]
      /\ recorded'[p] = Append(recorded[p], Played(X))
  BY DEF HookSent
<1>2. InSession(p)
  BY <1>1 DEF InSession
<1>3. /\ InStep(h, c, p) /\ Ring(h, p) /\ Reads(h, c, p) /\ GhostOK(h)
      /\ frame_delta[p] = h.delta /\ h.delta \in Nat /\ h.delta >= 2
      /\ current_frame[p] \in 0 .. h.delta - 1
      /\ frame_event_list[p] = [i \in 0 .. h.delta - 1 |-> frame_event_list[p][i]]
  BY <1>1, <1>2, Active
<1>4. Up(c) => /\ w \in Nat /\ w >= Preamble(h, p) /\ h.idx[p][w] = Len(h.lists[p])
  BY <1>1, <1>w, Sender
<1>5. Extends(h, g, p)
  BY <1>3, <1>4, <1>w, HookedFields
<1>6. g.server = h.server /\ g.base = h.base /\ g.delta = h.delta
  BY <1>3, <1>4, <1>w, HookedFields
<1>7. g.written[p] = Delivered(h, c, p) /\ g.read[p] = h.read[p]
  <2>1. g.written[p] = Delivered(h, c, p)
    BY <1>3, <1>4, <1>w, HookedFields
  <2>2. g.read[p] = h.read[p]
    BY <1>3, <1>4, <1>w, HookedFields
  <2> QED BY <2>1, <2>2
<1>8. Up(c) => g.idx[p][w + 1] = Len(h.lists[p]) + 1
  <2>1. Up(c) => g.idx[p][h.written[p] + 1] = Len(h.lists[p]) + 1
    <3>1. g.idx[p] = Index(h, c, p)
      <4>1. PICK L : L = Append(h.lists[p], X)
        OBVIOUS
      <4>2. PICK v : v = Delivered(h, c, p)
        OBVIOUS
      <4>3. PICK i : i = Index(h, c, p)
        OBVIOUS
      <4>4. g = Then(h, p, h.base, h.delta, L, h.read[p], v, i)
        BY <4>1, <4>2, <4>3 DEF Hooked
      <4>5. g.idx[p] = i
        BY <4>4, ThenFields
      <4> QED BY <4>3, <4>5
    <3>2. h.idx[p] \in [Nat -> Nat] /\ (Up(c) => w + 1 \in Nat)
      <4>1. h.idx[p] \in [Nat -> Nat]
        BY <1>3, GhostTypes
      <4>2. ASSUME Up(c) PROVE w + 1 \in Nat
        <5>1. w \in Nat
          BY <1>4, <4>2
        <5> QED BY <5>1
      <4> QED BY <4>1, <4>2
    <3> QED BY <1>w, <3>1, <3>2 DEF Index
  <2> QED BY <1>w, <2>1
<1>9. /\ Sound(h, g, p) /\ AtFrame(g, machine[p], f)
      /\ Len(h.lists[p]) = f /\ f \in Nat
  BY <1>1, <1>3, <1>4, <1>w, <1>f, HookedSound
<1>10. /\ ASeq(g.lists[p]) /\ Len(g.lists[p]) = f + 1 /\ g.lists[p][f + 1] = X
       /\ \A k \in 1 .. f : g.lists[p][k] = h.lists[p][k]
  BY <1>1, <1>3, <1>4, <1>w, <1>f, HookedSound
<1>l. Longer(h, g, p, X)
  BY <1>9, <1>10, <1>f DEF Longer
<1>11. /\ g.lists[q] = h.lists[q] /\ g.idx[q] = h.idx[q] /\ q \in Peers
       /\ Len(h.lists[q]) \in Nat
  <2>1. q \in Peers
    BY <1>q, OtherPeer
  <2> QED BY <1>3, <1>5, <1>q, <2>1, GhostTypes DEF Extends
<1>12. IsMachine(g.base)
  BY <1>3, <1>6 DEF GhostOK
<1>13. /\ Ring(g, p)'
       /\ \/ Frames(p)' = f /\ machine'[p] = machine[p]
          \/ /\ Frames(p)' = f + 1 /\ AtFrame(g, machine'[p], f + 1)
             /\ f + 1 <= h.delta - 1
  <2>1. CASE full
    <3>1. HookSent(p, c, X, TRUE)
      BY <2>1
    <3>2. Ring(g, p)' /\ Frames(p)' = Frames(p) /\ machine'[p] = machine[p]
      <4>1. Ring(g, p)'
        BY <1>3, <1>l, <3>1, HookWaits
      <4>2. Frames(p)' = Frames(p) /\ machine'[p] = machine[p]
        BY <1>3, <1>l, <3>1, HookWaits
      <4> QED BY <4>1, <4>2
    <3> QED BY <1>f, <3>2
  <2>2. CASE ~full
    <3>1. HookSent(p, c, X, FALSE)
      BY <2>2
    <3>2. /\ Ring(g, p)' /\ Frames(p)' = Frames(p) + 1
          /\ AtFrame(g, machine'[p], Frames(p) + 1)
          /\ Frames(p) + 1 <= h.delta - 1
      <4>0. AtFrame(g, machine[p], Frames(p))
        BY <1>9, <1>f
      <4>1. Ring(g, p)'
        BY <1>3, <1>6, <1>l, <1>12, <3>1, <4>0, HookMovesOn
      <4>2. Frames(p)' = Frames(p) + 1 /\ Frames(p) + 1 <= h.delta - 1
        BY <1>3, <1>6, <1>l, <1>12, <3>1, <4>0, HookMovesOn
      <4>3. AtFrame(g, machine'[p], Frames(p) + 1)
        BY <1>3, <1>6, <1>l, <1>12, <3>1, <4>0, HookMovesOn
      <4> QED BY <4>1, <4>2, <4>3
    <3> QED BY <1>f, <3>2
  <2> QED BY <2>1, <2>2
<1>14. PICK f1 : f1 = Frames(p)'
  OBVIOUS
<1>15. /\ f1 \in Nat /\ f1 <= f + 1 /\ f <= f1 /\ AtFrame(g, machine'[p], f1)
       /\ f1 = f \/ f1 <= h.delta - 1
  <2>1. CASE f1 = f
    BY <1>9, <1>13, <1>14, <2>1
  <2>2. CASE f1 # f
    <3>1. f1 = f + 1 /\ AtFrame(g, machine'[p], f + 1) /\ f + 1 <= h.delta - 1
      BY <1>13, <1>14, <2>2
    <3> QED BY <1>9, <3>1
  <2> QED BY <2>1, <2>2
<1>16. Reads(g, c, p)'
  <2>1. \A r : Preamble(g, r) = Preamble(h, r)
    BY <1>6 DEF Preamble
  <2>2. /\ h.read[p] >= Preamble(h, q)
        /\ h.idx[q][h.read[p]] = IF f < h.delta THEN 0 ELSE f - h.delta + 1
    <3> HIDE DEF Frames
    <3> QED BY <1>3, <1>q, <1>f DEF Reads
  <2>3. (IF f < h.delta THEN 0 ELSE f - h.delta + 1) =
          IF f1 < h.delta THEN 0 ELSE f1 - h.delta + 1
    <3>1. CASE f1 = f
      BY <3>1
    <3>2. CASE f1 # f
      <4>1. f1 < h.delta /\ f < h.delta
        BY <1>3, <1>9, <1>15, <3>2
      <4> QED BY <4>1
    <3> QED BY <3>1, <3>2
  <2>4. ASSUME Up(c)'
        PROVE  g.written[p] >= Preamble(g, p) /\ g.idx[p][g.written[p]] = Len(g.lists[p])
    <3>1. Up(c) /\ g.written[p] = w + 1
      BY <1>7, <1>w, <2>4 DEF Delivered
    <3>2. w + 1 >= Preamble(h, p)
      <4>1. w \in Nat /\ w >= Preamble(h, p) /\ Preamble(h, p) \in Nat
        BY <1>3, <1>4, <3>1, PreambleNat
      <4> QED BY <4>1
    <3> QED BY <1>8, <1>9, <1>10, <2>1, <3>1, <3>2
  <2> HIDE DEF Frames, Up
  <2> QED BY <1>1, <1>3, <1>7, <1>11, <1>14, <1>q, <2>1, <2>2, <2>3, <2>4 DEF Reads
<1>17. /\ ASeq(recorded'[p]) /\ Len(recorded'[p]) = f + 1
       /\ \A k \in 1 .. f + 1 : recorded'[p][k] = Played(g.lists[p][k])
  <2>s. PICK s : s = recorded[p]
    OBVIOUS
  <2>t. PICK t : t = recorded'[p]
    OBVIOUS
  <2>x. PICK x : x = Played(X)
    OBVIOUS
  <2>1. /\ ASeq(s) /\ Len(s) = f /\ t = Append(s, x)
        /\ \A k \in 1 .. f : s[k] = Played(h.lists[p][k])
    BY <1>1, <1>3, <1>9, <2>s, <2>t, <2>x DEF InStep
  <2>2. /\ ASeq(t) /\ Len(t) = f + 1 /\ t[f + 1] = x
        /\ \A k \in 1 .. f : t[k] = s[k]
    BY <2>1, ASeqAppend
  <2>3. ASSUME NEW k \in 1 .. f + 1 PROVE t[k] = Played(g.lists[p][k])
    <3>1. CASE k = f + 1
      BY <1>10, <2>2, <2>x, <3>1
    <3>2. CASE k # f + 1
      <4>1. k \in 1 .. f
        BY <1>9, <3>2
      <4> QED BY <1>10, <2>1, <2>2, <4>1
    <3> QED BY <3>1, <3>2
  <2> QED BY <2>2, <2>3, <2>t
<1>18. f1 <= Len(g.lists[q]) + g.delta - 1
  <2>1. f <= Len(h.lists[q]) + h.delta - 1
    BY <1>3, <1>f, <1>q DEF InStep
  <2>a. PICK a : a = Len(h.lists[q])
    OBVIOUS
  <2>d. PICK d : d = h.delta
    OBVIOUS
  <2>2. a \in Nat /\ d \in Nat /\ f1 \in Nat /\ f <= a + d - 1
        /\ (f1 = f \/ f1 <= d - 1)
    BY <1>3, <1>11, <1>15, <2>1, <2>a, <2>d
  <2>3. f1 <= a + d - 1
    BY <2>2
  <2> QED BY <1>6, <1>11, <2>3, <2>a, <2>d
<1>19. f1 <= f + 1 /\ f + 1 <= f1 + 1
  BY <1>9, <1>15
<1>20. /\ start[p] = Len(h.base.inputs)
       /\ p # h.server => h.read[p] >= N + 3
  BY <1>3 DEF InStep
<1>21. InStep(g, c, p)'
  <2> HIDE DEF Frames, Ring, Reads, AtFrame
  <2> QED BY <1>1, <1>3, <1>6, <1>7, <1>10, <1>13, <1>14, <1>15, <1>16, <1>17, <1>18,
             <1>19, <1>20, <1>q DEF InStep
<1> QED BY <1>5, <1>9, <1>21

\* The hook of a peer completes its slot and hands it to the connection.
HookSending(p, X, full, msgs) ==
  /\ network_hook(p)
  /\ X = Complete(p) /\ full = BufferFull(p) /\ msgs = ListMessage(X)
  /\ Sends(p, msgs)
  /\ pc' = [pc EXCEPT ![p] = IF full THEN "length" ELSE "run"]
  /\ UNCHANGED <<network_mode, sockets, backlog>>
  /\ trap' = IF full THEN trap ELSE [trap EXCEPT ![p] = "sync_test"]

\* It keeps the ghosts: one list more.
LEMMA HookSendsConn ==
  ASSUME BaseInv, RingInv, ConnInv, NEW p \in Peers, NEW X, NEW full, NEW msgs,
         HookSending(p, X, full, msgs)
  PROVE  ConnInv'
<1>h. /\ network_hook(p)
      /\ X = Complete(p) /\ full = BufferFull(p) /\ msgs = ListMessage(X)
      /\ Sends(p, msgs)
      /\ pc' = [pc EXCEPT ![p] = IF full THEN "length" ELSE "run"]
      /\ UNCHANGED <<network_mode, sockets, backlog>>
      /\ trap' = IF full THEN trap ELSE [trap EXCEPT ![p] = "sync_test"]
  BY DEF HookSending
<1>0. /\ TypeInv /\ TcpInv /\ pc[p] = "run" /\ connected(p) /\ trap[p] = "none"
      /\ full \in BOOLEAN
  BY <1>h, ConnFacts DEF network_hook, BufferFull, TypeInv
<1>1. UNCHANGED <<network_mode, network_socket, socket_pool, backlog, sessions>>
  BY <1>h DEF network_hook, sockets, counters
<1>m. Mine(Other(p))' = Mine(Other(p))
  BY <1>0, <1>h, OtherPeer, Untouched DEF Step
<1>3. \A c \in Conns : c # Conn(p) => Weaker(c)
  <2>1. \E m : Sends(p, m)
    BY <1>h
  <2> QED BY <1>1, <2>1, CallTcp
<1>4. ASSUME NEW c, NEW h, c # 0, Conn(p) = c, ConnOK(h, c)
      PROVE  \E g : ConnOK(g, c)'
  <2>1. GhostOK(h) /\ Serving(h, c, p) /\ Calling(h, c, p) /\ c \in 1 .. sessions
    BY <1>4, OnConn
  <2>2. InSession(p) /\ Open(p)
    <3>1. InSession(p)
      BY <1>0, <1>4 DEF InSession
    <3>2. end[c][p] \in {"up", "fin", "dying"}
      BY <1>h, <1>4 DEF Sends
    <3> QED BY <1>4, <3>1, <3>2 DEF Open, OpenEnds
  <2>3. /\ Ring(h, p) /\ frame_delta[p] = h.delta
        /\ current_frame[p] \in DOMAIN frame_event_list[p]
    <3>1. /\ Ring(h, p) /\ frame_delta[p] = h.delta
          /\ current_frame[p] \in 0 .. h.delta - 1
          /\ frame_event_list[p] = [i \in 0 .. h.delta - 1 |-> frame_event_list[p][i]]
      BY <1>4, <2>2, Active
    <3> QED BY <3>1
  <2>4. HookSent(p, c, X, full)
    BY <1>h, <1>4, <2>3, HookSends
  <2>5. (Up(c)' => Up(c)) /\ (~Up(c) => Weaker(c)) /\ (Up(c) => end' = end)
    <3>1. CASE Up(c)
      <4>1. end[Conn(p)][p] = "up"
        BY <1>4, <3>1, OnConn
      <4>2. end' = end
        BY <1>h, <4>1 DEF Sends
      <4> QED BY <3>1, <4>2
    <3>2. CASE ~Up(c)
      <4>1. Weaker(c) /\ ~Up(c)'
        BY <1>h, <1>1, <1>4, <3>2, SendsLost
      <4> QED BY <3>2, <4>1
    <3> QED BY <3>1, <3>2
  <2>g. PICK g : g = Hooked(h, c, p, X)
    OBVIOUS
  <2>6. InStep(g, c, p)' /\ Extends(h, g, p) /\ Sound(h, g, p)
    BY <1>0, <1>4, <2>2, <2>4, <2>5, <2>g, HookInStep
  <2>w. PICK w : w = h.written[p]
    OBVIOUS
  <2>7. Up(c) => /\ w \in Nat /\ w >= Preamble(h, p) /\ h.idx[p][w] = Len(h.lists[p])
                 /\ p = h.server => w >= N + 3
    BY <1>0, <1>4, <2>w, Sender
  <2>8. /\ g.server = h.server /\ g.read[p] = h.read[p]
        /\ g.written[p] = Delivered(h, c, p)
        /\ g.lists[p] = Append(h.lists[p], X) /\ g.idx[p] = Index(h, c, p)
    <3>1. PICK L : L = Append(h.lists[p], X)
      OBVIOUS
    <3>2. PICK v : v = Delivered(h, c, p)
      OBVIOUS
    <3>3. PICK i : i = Index(h, c, p)
      OBVIOUS
    <3>4. g = Then(h, p, h.base, h.delta, L, h.read[p], v, i)
      BY <2>g, <3>1, <3>2, <3>3 DEF Hooked
    <3>5. /\ g.server = h.server /\ g.read[p] = h.read[p] /\ g.written[p] = v
          /\ g.lists[p] = L /\ g.idx[p] = i
      BY <3>4, ThenFields
    <3> QED BY <3>1, <3>2, <3>3, <3>5
  <2>9. Standing(g, c, p)' /\ pc'[p] # "list"
    <3>1. /\ pc'[p] \in {"run", "length", "list"} /\ pc'[p] # "list"
          /\ trap'[p] \in {"none", "sync_test"} /\ network_mode'[p] = network_mode[p]
      BY <2>4 DEF HookSent
    <3> QED BY <2>1, <2>6, <2>8, <3>1, PlayStanding
  <2>10. CASE ~Up(c)
    <3>1. g.written[p] = h.written[p] /\ Weaker(c)
      BY <2>5, <2>8, <2>10 DEF Delivered
    <3> QED BY <1>1, <1>4, <1>m, <2>6, <2>8, <2>9, <3>1, WeakGhost
  <2>11. CASE Up(c)
    <3>x. PICK msg : msg = [type |-> "list", list |-> X]
      OBVIOUS
    <3>1. msgs = <<msg>>
      <4>1. Recording(p)
        BY <1>0, <2>3 DEF Ring
      <4>2. ToListEnd(X) = X
        BY <1>h, <4>1, CompleteList
      <4> QED BY <1>h, <3>x, <4>2 DEF ListMessage
    <3>2. ASeq(msgs) /\ Len(msgs) = 1 /\ msgs[1] = msg
      BY <3>1, ASeqOne
    <3>3. g.written[p] = h.written[p] + Len(msgs)
      BY <2>8, <2>11, <3>2 DEF Delivered
    <3>l. PICK l : l = Len(h.lists[p])
      OBVIOUS
    <3>4. l \in Nat /\ ASeq(h.lists[p]) /\ h.idx[p] \in [Nat -> Nat] /\ N \in Nat
          /\ N >= 1 /\ Preamble(h, p) \in {N, N + 3}
      BY <2>1, <3>l, GhostTypes
    <3>5. w \in Nat /\ w >= Preamble(h, p) /\ h.idx[p][w] = l
      BY <2>7, <2>11, <3>l
    <3>6. w + 1 > Preamble(g, p) /\ w + 1 # 1 /\ (w + 1) - 1 = w /\ w + 1 \in Nat
          /\ (p = g.server => w + 1 # N + 3) /\ w # w + 1
      <4>1. Preamble(g, p) = Preamble(h, p)
        BY <2>8 DEF Preamble
      <4>2. p = g.server => w >= N + 3
        BY <2>7, <2>8, <2>11
      <4>3. w > 0 /\ w + 1 > Preamble(h, p)
        BY <3>4, <3>5
      <4>4. w + 1 # 1 /\ (w + 1) - 1 = w /\ (w >= N + 3 => w + 1 # N + 3)
            /\ w + 1 \in Nat /\ w # w + 1
        BY <3>4, <3>5, <4>3
      <4> QED BY <4>1, <4>2, <4>3, <4>4
    <3>7. g.idx[p][w + 1] = l + 1 /\ g.idx[p][w] = l
      <4>1. g.idx[p] = [h.idx[p] EXCEPT ![w + 1] = l + 1]
        BY <2>8, <2>11, <2>w, <3>l DEF Index
      <4> QED BY <3>4, <3>5, <3>6, <4>1
    <3>8. Len(g.lists[p]) = l + 1 /\ g.lists[p][l + 1] = X
      <4>s. PICK s : s = h.lists[p]
        OBVIOUS
      <4>t. PICK t : t = g.lists[p]
        OBVIOUS
      <4>1. ASeq(s) /\ l = Len(s) /\ t = Append(s, X)
        BY <2>8, <3>4, <3>l, <4>s, <4>t
      <4>2. ASeq(t) /\ Len(t) = Len(s) + 1 /\ t[Len(s) + 1] = X
        BY <4>1, ASeqAppend
      <4> QED BY <4>1, <4>2, <4>t
    <3>9. MsgOK(g, p, w + 1, msg)
      <4>1. msg.type = "list" /\ msg.list = X
        BY <3>x
      <4>2. /\ g.idx[p][w + 1] = g.idx[p][(w + 1) - 1] + 1
            /\ g.idx[p][w + 1] <= Len(g.lists[p])
            /\ msg.list = g.lists[p][g.idx[p][w + 1]]
        <5>i. PICK i : i = g.idx[p]
          OBVIOUS
        <5>t. PICK t : t = g.lists[p]
          OBVIOUS
        <5>1. i[w + 1] = i[(w + 1) - 1] + 1 /\ i[w + 1] = l + 1
          BY <3>6, <3>7, <5>i
        <5>2. Len(t) = l + 1 /\ t[l + 1] = X
          BY <3>8, <5>t
        <5>3. i[w + 1] <= Len(t)
          BY <3>4, <5>1, <5>2
        <5>4. msg.list = t[i[w + 1]]
          BY <4>1, <5>1, <5>2
        <5> QED BY <5>1, <5>3, <5>4, <5>i, <5>t
      <4> QED BY <3>6, <4>1, <4>2 DEF MsgOK
    <3>10. ASSUME NEW i \in 1 .. Len(msgs) PROVE MsgOK(g, p, h.written[p] + i, msgs[i])
      <4>1. i = 1 /\ msgs[i] = msg /\ h.written[p] + i = w + 1
        BY <2>w, <3>2
      <4> QED BY <3>9, <4>1
    <3>11. ConnOK(g, c)'
      BY <1>1, <1>4, <1>m, <2>6, <2>8, <2>9, <2>11, <3>2, <3>3, <3>10, <1>h, WriteGhost
    <3> QED BY <3>11
  <2> QED BY <2>10, <2>11
<1> QED BY <1>0, <1>h, <1>1, <1>3, <1>4, StaysPut DEF Step

\* network_hook() of a connected peer keeps the ghosts.
LEMMA HookConn ==
  ASSUME BaseInv, RingInv, ConnInv, NEW p \in Peers, network_hook(p)
  PROVE  ConnInv'
<1>X. PICK X : X = Complete(p)
  OBVIOUS
<1>f. PICK full : full = BufferFull(p)
  OBVIOUS
<1>m. PICK msgs : msgs = ListMessage(X)
  OBVIOUS
<1>1. pc[p] = "run" /\ trap[p] = "none" /\ connected(p) /\ packets' = packets
      /\ sessions' = sessions
  BY DEF network_hook, counters
<1>2. \/ /\ Sends(p, ListMessage([frame_event_list[p] EXCEPT ![current_frame[p]] =
                                    X][current_frame[p]]))
         /\ pc' = [pc EXCEPT ![p] = IF full THEN "length" ELSE "run"]
         /\ UNCHANGED <<network_mode, sockets, backlog>>
         /\ trap' = IF full THEN trap ELSE [trap EXCEPT ![p] = "sync_test"]
      \/ network_disconnect(p, IF full THEN "length" ELSE "run",
                            IF full THEN "none" ELSE "sync_test")
  BY <1>X, <1>f DEF network_hook, Complete
<1>3. CASE /\ Sends(p, ListMessage([frame_event_list[p] EXCEPT ![current_frame[p]] =
                                    X][current_frame[p]]))
           /\ pc' = [pc EXCEPT ![p] = IF full THEN "length" ELSE "run"]
           /\ UNCHANGED <<network_mode, sockets, backlog>>
           /\ trap' = IF full THEN trap ELSE [trap EXCEPT ![p] = "sync_test"]
  <2>1. PICK c : c = Conn(p)
    OBVIOUS
  <2>2. c # 0 /\ InSession(p) /\ Open(p)
    <3>1. c # 0 /\ end[c][p] \in {"up", "fin", "dying"}
      BY <1>3, <2>1 DEF Sends
    <3> QED BY <1>1, <2>1, <3>1 DEF InSession, Open, OpenEnds
  <2>3. PICK h : ConnOK(h, c)
    <3>1. c \in 1 .. sessions
      BY <2>1, <2>2, ConnFacts, ConnMade
    <3> QED BY <3>1 DEF ConnInv
  <2>4. /\ current_frame[p] \in 0 .. h.delta - 1
        /\ frame_event_list[p] = [i \in 0 .. h.delta - 1 |-> frame_event_list[p][i]]
    BY <2>1, <2>2, <2>3, Active
  <2>5. [frame_event_list[p] EXCEPT ![current_frame[p]] = X][current_frame[p]] = X
    BY <2>4
  <2>6. Sends(p, msgs)
    BY <1>3, <1>m, <2>5
  <2>7. HookSending(p, X, full, msgs)
    BY <1>3, <1>X, <1>f, <1>m, <2>6 DEF HookSending
  <2> QED BY <2>7, HookSendsConn
<1>4. CASE network_disconnect(p, IF full THEN "length" ELSE "run",
                              IF full THEN "none" ELSE "sync_test")
  <2> DEFINE next == IF full THEN "length" ELSE "run"
             then == IF full THEN "none" ELSE "sync_test"
  <2>1. /\ next \in {"run", "length"} /\ then \in Traps
        /\ then # "none" => next = "run"
        /\ then \in {"none", "sync_test"}
    BY DEF Traps
  <2>2. network_disconnect(p, next, then)
    BY <1>4
  <2>3. pc[p] # "gone" /\ Step(p)
    BY <1>1 DEF Step
  <2> HIDE DEF next, then
  <2> QED BY <1>1, <2>1, <2>2, <2>3, DisconnectConn
<1> QED BY <1>2, <1>3, <1>4

-----------------------------------------------------------------------------
(* The ring of lists, whatever the connection.                             *)

RingOK(p) ==
  /\ frame_delta[p] \in Deltas \cup {0, DEFAULT_DELTA}
  /\ frame_event_list[p] = [i \in 0 .. frame_delta[p] - 1 |-> frame_event_list[p][i]]
  /\ frame_delta[p] > 0 =>
       /\ current_frame[p] \in 0 .. frame_delta[p] - 1
       /\ frame_buffer_full[p] \/ current_frame[p] > 0 =>
            frame_to_play[p] = (current_frame[p] + 1) % frame_delta[p]
  /\ frame_delta[p] = 0 => ~frame_buffer_full[p]
  /\ IsMachine(machine[p])

RingOf(p) == <<frame_delta[p], frame_event_list[p], frame_buffer_full[p],
               current_frame[p], frame_to_play[p], machine[p]>>

\* A ring that is left alone.
LEMMA RingKept ==
  ASSUME NEW p, RingOK(p), RingOf(p)' = RingOf(p)
  PROVE  RingOK(p)'
BY DEF RingOK, RingOf, IsMachine

\* frame_delta is 0 or at least 2.
LEMMA DeltaNat ==
  ASSUME NEW d, d \in Deltas \cup {0, DEFAULT_DELTA}
  PROVE  d \in Nat /\ (d > 0 => d >= 2) /\ (d # 0 => d > 0)
<1>1. d = 0 \/ (d \in Nat /\ d # 0 /\ d # 1)
  BY NetPlayAssumption
<1> QED BY <1>1

\* A step of p keeps the rings when it keeps that of p.
LEMMA RingOfPeer ==
  ASSUME BaseInv, RingInv, NEW p \in Peers, Step(p) \/ Environment(p), RingOK(p)'
  PROVE  RingInv'
<1>1. \A r \in Peers : RingOK(r)
  BY DEF RingInv, RingOK
<1>2. ASSUME NEW r \in Peers, r # p PROVE RingOK(r)'
  <2>1. Mine(r)' = Mine(r)
    BY <1>2, Untouched DEF BaseInv
  <2>2. RingOf(r)' = RingOf(r)
    BY <2>1 DEF Mine, RingOf
  <2> QED BY <1>1, <2>2, RingKept
<1>3. \A r \in Peers : RingOK(r)'
  BY <1>2
<1> QED BY <1>3 DEF RingInv, RingOK

\* Steps that leave the ring alone.
LEMMA RingSame ==
  ASSUME BaseInv, RingInv, NEW p \in Peers, Step(p) \/ Environment(p),
         UNCHANGED <<config, ring, machine>>
  PROVE  RingInv'
<1>1. RingOK(p)
  BY DEF RingInv, RingOK
<1>2. RingOf(p)' = RingOf(p)
  BY DEF RingOf, config, ring
<1> QED BY <1>1, <1>2, RingKept, RingOfPeer

\* network_init_frame_event_list() makes a ring of delta lists.
LEMMA RingStarts ==
  ASSUME BaseInv, RingInv, NEW p \in Peers, Step(p) \/ Environment(p),
         NEW delta \in Deltas \cup {DEFAULT_DELTA}, InitFrameEventList(p, delta),
         machine' = machine
  PROVE  RingInv'
<1>0. /\ IsMap(frame_delta) /\ IsMap(frame_event_list) /\ IsMap(current_frame)
      /\ frame_buffer_full \in [Peers -> BOOLEAN]
  BY DEF BaseInv, TypeInv
<1>1. /\ frame_delta'[p] = delta /\ current_frame'[p] = 0
      /\ frame_event_list'[p] = [i \in 0 .. delta - 1 |-> << >>]
      /\ frame_buffer_full'[p] = FALSE
  BY <1>0 DEF InitFrameEventList, IsMap
<1>2. delta \in Nat /\ delta >= 2 /\ delta > 0 /\ 0 \in 0 .. delta - 1
  BY NetPlayAssumption
<1>3. IsMachine(machine[p])'
  BY DEF RingInv, IsMachine
<1>4. frame_event_list'[p] = [i \in 0 .. delta - 1 |-> frame_event_list'[p][i]]
  BY <1>1
<1>5. RingOK(p)'
  BY <1>1, <1>2, <1>3, <1>4 DEF RingOK
<1> QED BY <1>5, RingOfPeer

\* event_record_in_list() keeps the slots.
LEMMA RingRecords ==
  ASSUME BaseInv, RingInv, NEW p \in Peers, Step(p) \/ Environment(p),
         NEW e, RecordInList(p, e) \/ frame_event_list' = frame_event_list,
         UNCHANGED <<frame_delta, ring, machine>>
  PROVE  RingInv'
<1>0. IsMap(frame_event_list)
  BY DEF BaseInv, TypeInv
<1>1. RingOK(p)
  BY DEF RingInv, RingOK
<1>2. frame_event_list'[p] = [i \in 0 .. frame_delta[p] - 1 |-> frame_event_list'[p][i]]
  <2>1. CASE frame_event_list' = frame_event_list
    BY <1>1, <2>1 DEF RingOK
  <2>2. CASE RecordInList(p, e)
    <3>1. PICK s : s = frame_event_list[p]
      OBVIOUS
    <3>2. PICK x : x = Append(s[current_frame[p]], e)
      OBVIOUS
    <3>3. frame_event_list'[p] = [s EXCEPT ![current_frame[p]] = x]
      BY <1>0, <2>2, <3>1, <3>2 DEF RecordInList, IsMap
    <3>4. s = [i \in 0 .. frame_delta[p] - 1 |-> s[i]]
      BY <1>1, <3>1 DEF RingOK
    <3> QED BY <3>3, <3>4
  <2> QED BY <2>1, <2>2
<1>3. RingOK(p)'
  <2>1. /\ frame_delta'[p] = frame_delta[p]
        /\ frame_buffer_full'[p] = frame_buffer_full[p]
        /\ current_frame'[p] = current_frame[p] /\ frame_to_play'[p] = frame_to_play[p]
        /\ machine'[p] = machine[p]
    BY DEF ring
  <2> QED BY <1>1, <1>2, <2>1 DEF RingOK, IsMachine
<1> QED BY <1>3, RingOfPeer

\* The ring moves to its next slot.
LEMMA RingAdvances ==
  ASSUME BaseInv, RingInv, NEW p \in Peers, Step(p) \/ Environment(p),
         frame_delta[p] > 0, NEW list, NEW x, PrepareNextFrame(p, list, x),
         list = [i \in 0 .. frame_delta[p] - 1 |-> list[i]],
         frame_delta' = frame_delta
  PROVE  RingInv'
<1>0. /\ IsMap(frame_event_list) /\ IsMap(current_frame) /\ IsMap(frame_to_play)
      /\ IsMap(machine)
  BY DEF BaseInv, TypeInv
<1>d. PICK d : d = frame_delta[p]
  OBVIOUS
<1>n. PICK n : n = current_frame[p]
  OBVIOUS
<1>1. RingOK(p)
  BY DEF RingInv, RingOK
<1>2. d \in Nat /\ d >= 2 /\ n \in 0 .. d - 1
  BY <1>1, <1>d, <1>n, DeltaNat DEF RingOK
<1>3. PICK m : m = (n + 1) % d
  OBVIOUS
<1>4. m \in 0 .. d - 1
  <2>1. m = NextSlot(n, d)
    BY <1>2, <1>3, NextSlotIs
  <2> QED BY <1>2, <2>1 DEF NextSlot
<1>5. /\ current_frame'[p] = m /\ frame_to_play'[p] = (m + 1) % d
      /\ frame_event_list'[p] = [list EXCEPT ![m] = << >>]
      /\ machine'[p] = [machine[p] EXCEPT !.inputs = Append(@, x)]
  BY <1>0, <1>d, <1>n, <1>3 DEF PrepareNextFrame, PlaySlot, IsMap
<1>6. frame_event_list'[p] = [i \in 0 .. d - 1 |-> frame_event_list'[p][i]]
  BY <1>5, <1>d
<1>7. IsMachine(machine'[p])
  <2>1. /\ machine[p] = [origin |-> machine[p].origin, inputs |-> machine[p].inputs]
        /\ ASeq(machine[p].inputs)
    BY <1>1 DEF RingOK, IsMachine
  <2>2. /\ machine'[p].origin = machine[p].origin
        /\ machine'[p].inputs = Append(machine[p].inputs, x)
        /\ machine'[p] = [origin |-> machine'[p].origin, inputs |-> machine'[p].inputs]
    BY <1>5, <2>1
  <2>3. ASeq(Append(machine[p].inputs, x))
    BY <2>1, ASeqAppend
  <2> QED BY <2>2, <2>3 DEF IsMachine
<1>8. RingOK(p)'
  <2>1. frame_delta'[p] = d /\ d # 0
    BY <1>2, <1>d
  <2>2. IsMachine(machine[p])'
    BY <1>7
  <2>3. d \in Deltas \cup {0, DEFAULT_DELTA}
    BY <1>1, <1>d DEF RingOK
  <2> QED BY <1>4, <1>5, <1>6, <2>1, <2>2, <2>3 DEF RingOK
<1> QED BY <1>8, RingOfPeer

\* The settings come after the snapshot: the file holds a machine.
LEMMA ReceiveSettingsRing ==
  ASSUME BaseInv, RingInv, ConnInv, NEW p \in Peers, ReceiveSettings(p)
  PROVE  RingInv'
<1>0. TypeInv /\ ControlInv(p) /\ pc[p] = "settings"
  BY ConnFacts DEF ReceiveSettings
<1>1. UNCHANGED <<config, ring>>
  BY DEF ReceiveSettings
<1>2. CASE machine' = machine
  BY <1>1, <1>2, RingSame DEF Step
<1>3. CASE Arrived(p) /\ machine' = [machine EXCEPT ![p] = SnapshotRead(p)]
  <2>c. PICK c : c = Conn(p)
    OBVIOUS
  <2>1. c # 0 /\ c \in 1 .. sessions
    BY <1>0, <1>3, <2>c, ConnMade DEF Arrived, BaseInv
  <2>2. PICK h : ConnOK(h, c)
    BY <2>1 DEF ConnInv
  <2>3. GhostOK(h) /\ Calling(h, c, p)
    BY <2>c, <2>1, <2>2, OnConn
  <2>4. snapshotfilename[p] = h.base /\ IsMachine(h.base)
    BY <1>0, <2>3 DEF Calling, GhostOK
  <2>5. machine'[p] = snapshotfilename[p]
    BY <1>0, <1>3 DEF TypeInv, IsMap, SnapshotRead
  <2>6. IsMachine(machine[p])'
    BY <2>4, <2>5 DEF IsMachine
  <2>7. RingOK(p)
    BY DEF RingInv, RingOK
  <2>8. RingOK(p)'
    BY <1>1, <2>6, <2>7 DEF RingOK, config, ring
  <2> QED BY <2>8, RingOfPeer DEF Step
<1> QED BY <1>2, <1>3 DEF ReceiveSettings

\* The client's frame_delta is the server's: the message it has received holds it.
LEMMA TestReceiveRing ==
  ASSUME BaseInv, RingInv, ConnInv, NEW p \in Peers, TestReceive(p)
  PROVE  RingInv'
<1>0. TypeInv /\ N \in Nat /\ N >= 1 /\ packets[p] = 0
      /\ pc[p] = "test_receive" /\ pc[p] \in Testing
  BY TestingPeer DEF TestReceive, Testing
<1>1. machine' = machine
  BY DEF TestReceive, TestUnchanged
<1>2. CASE Arrived(p) /\ InitFrameEventList(p, Message(p).delta)
  <2>c. PICK c : c = Conn(p)
    OBVIOUS
  <2>1. c # 0 /\ c \in 1 .. sessions
    BY <1>0, <1>2, <2>c, ConnMade DEF Arrived, BaseInv
  <2>2. PICK h : ConnOK(h, c)
    BY <2>1 DEF ConnInv
  <2>3. h.server = Other(p) /\ h.read[p] = N + 2
    <3>1. N - packets[p] = N /\ N + 2 - packets[p] = N + 2
      BY <1>0
    <3> QED BY <1>0, <2>c, <2>1, <2>2, <3>1, TestingGhost
  <2>4. GhostOK(h) /\ Wire(h, c, p) /\ chan[c][p] # << >>
        /\ Head(chan[c][p]) = Message(p)
    BY <1>2, <2>c, <2>1, <2>2, OnConn DEF Arrived, Message
  <2>5. PICK g : g = Read(h, p)
    OBVIOUS
  <2>6. g.read[p] = h.read[p] + 1 /\ g.server = h.server /\ g.delta = h.delta
        /\ MsgOK(h, Other(p), g.read[p], Message(p))
    BY <2>4, <2>5, ReadFields
  <2>7. Message(p).delta = h.delta
    <3>1. g.read[p] = N + 3
      BY <1>0, <2>3, <2>6
    <3> QED BY <2>3, <2>6, <3>1 DEF MsgOK
  <2>8. h.delta \in Deltas \cup {DEFAULT_DELTA}
    BY <2>4 DEF GhostOK
  <2> QED BY <1>1, <1>2, <2>7, <2>8, RingStarts DEF Step
<1>3. CASE InitFrameEventList(p, DEFAULT_DELTA)
  BY <1>1, <1>3, RingStarts DEF Step
<1> QED BY <1>2, <1>3 DEF TestReceive

\* The other steps of the measurement.
LEMMA TestRing ==
  ASSUME BaseInv, RingInv, NEW p \in Peers,
         TestSend(p) \/ TestWait(p) \/ TestDelta(p) \/ TestEcho(p)
  PROVE  RingInv'
<1>1. machine' = machine /\ Step(p)
  BY DEF TestSend, TestWait, TestDelta, TestEcho, TestUnchanged, Step
<1>2. \/ UNCHANGED <<config, ring>>
      \/ InitFrameEventList(p, DEFAULT_DELTA)
      \/ \E d \in Deltas : InitFrameEventList(p, d)
  BY DEF TestSend, TestWait, TestDelta, TestEcho
<1>3. CASE UNCHANGED <<config, ring>>
  BY <1>1, <1>3, RingSame
<1>4. CASE InitFrameEventList(p, DEFAULT_DELTA)
  BY <1>1, <1>4, RingStarts
<1>5. ASSUME NEW d \in Deltas, InitFrameEventList(p, d) PROVE RingInv'
  BY <1>1, <1>5, RingStarts
<1> QED BY <1>2, <1>3, <1>4, <1>5

\* Without slots, there are no lists.
LEMMA NoSlots ==
  ASSUME NEW slots, slots = [i \in 0 .. 0 - 1 |-> slots[i]]
  PROVE  slots = NoLists
<1>1. 0 .. 0 - 1 = {} /\ DOMAIN NoLists = {}
  BY DEF NoLists
<1> QED BY <1>1 DEF NoLists

\* network_hook() keeps the slots: the buffer is full in the last one.
LEMMA HookRing ==
  ASSUME BaseInv, RingInv, NEW p \in Peers, network_hook(p)
  PROVE  RingInv'
<1>0. TypeInv /\ frame_event_list[p] # NoLists /\ frame_delta' = frame_delta
  BY DEF network_hook, BaseInv
<1>1. RingOK(p)
  BY DEF RingInv, RingOK
<1>d. PICK d : d = frame_delta[p]
  OBVIOUS
<1>n. PICK n : n = current_frame[p]
  OBVIOUS
<1>s. PICK slots : slots = frame_event_list[p]
  OBVIOUS
<1>2. slots = [i \in 0 .. d - 1 |-> slots[i]] /\ d \in Nat
  BY <1>1, <1>d, <1>s, DeltaNat DEF RingOK
<1>3. d > 0 /\ d >= 2 /\ n \in 0 .. d - 1
  <2>1. d # 0
    BY <1>0, <1>2, <1>s, NoSlots
  <2> QED BY <1>1, <1>d, <1>n, <2>1, DeltaNat DEF RingOK
<1>X. PICK X : X = Complete(p)
  OBVIOUS
<1>l. PICK list : list = [slots EXCEPT ![n] = X]
  OBVIOUS
<1>4. list = [frame_event_list[p] EXCEPT ![current_frame[p]] = Append(@, LIST_END)]
  BY <1>l, <1>s, <1>n, <1>X DEF Complete
<1>5. list = [i \in 0 .. d - 1 |-> list[i]]
  BY <1>2, <1>l
<1>6. /\ frame_buffer_full' = [frame_buffer_full EXCEPT ![p] = BufferFull(p)]
      /\ IF BufferFull(p)
         THEN /\ frame_event_list' = [frame_event_list EXCEPT ![p] = list]
              /\ UNCHANGED <<current_frame, frame_to_play, machine>>
         ELSE PrepareNextFrame(p, list, <<>>)
  BY <1>4 DEF network_hook
<1>7. CASE BufferFull(p)
  <2>1. /\ frame_event_list'[p] = list /\ frame_buffer_full'[p]
        /\ current_frame' = current_frame /\ frame_to_play' = frame_to_play
        /\ machine' = machine
    BY <1>0, <1>6, <1>7 DEF TypeInv, IsMap
  <2>2. frame_to_play[p] = (n + 1) % d
    <3>1. frame_buffer_full[p] \/ n = d - 1
      BY <1>7, <1>d, <1>n DEF BufferFull
    <3>2. frame_buffer_full[p] \/ n > 0
      <4>1. ASSUME n = d - 1 PROVE n > 0
        BY <1>2, <1>3, <4>1
      <4> QED BY <3>1, <4>1
    <3> QED BY <1>1, <1>3, <1>d, <1>n, <3>2 DEF RingOK
  <2>3. IsMachine(machine[p])'
    BY <1>1, <2>1 DEF RingOK, IsMachine
  <2>4. frame_delta'[p] = d /\ d # 0 /\ d \in Deltas \cup {0, DEFAULT_DELTA}
    BY <1>0, <1>1, <1>3, <1>d DEF RingOK
  <2>5. RingOK(p)'
    BY <1>3, <1>5, <1>n, <2>1, <2>2, <2>3, <2>4 DEF RingOK
  <2> QED BY <2>5, RingOfPeer DEF Step
<1>8. CASE ~BufferFull(p)
  BY <1>0, <1>3, <1>5, <1>6, <1>8, <1>d, RingAdvances DEF Step
<1> QED BY <1>7, <1>8

\* The receive of a list moves the ring on.
LEMMA ReceiveListRing ==
  ASSUME BaseInv, RingInv, ConnInv, NEW p \in Peers, ReceiveList(p)
  PROVE  RingInv'
<1>1. /\ pc[p] = "list" /\ frame_delta' = frame_delta
      /\ frame_buffer_full' = frame_buffer_full
      /\ \/ /\ Arrived(p)
            /\ \E x : PrepareNextFrame(p, frame_event_list[p], x)
         \/ UNCHANGED <<current_frame, frame_to_play, frame_event_list, machine>>
  BY DEF ReceiveList
<1>2. CASE UNCHANGED <<current_frame, frame_to_play, frame_event_list, machine>>
  BY <1>1, <1>2, RingSame DEF Step, config, ring
<1>3. CASE Arrived(p) /\ \E x : PrepareNextFrame(p, frame_event_list[p], x)
  <2>c. PICK c : c = Conn(p)
    OBVIOUS
  <2>1. c # 0 /\ c \in 1 .. sessions
    BY <1>3, <2>c, ConnMade DEF Arrived, BaseInv
  <2>2. PICK h : ConnOK(h, c)
    BY <2>1 DEF ConnInv
  <2>3. InSession(p) /\ Open(p)
    BY <1>1, <1>3, <2>c, <2>1, <2>2, Receiver
  <2>4. frame_delta[p] = h.delta /\ h.delta \in Nat /\ h.delta >= 2
        /\ frame_event_list[p] = [i \in 0 .. h.delta - 1 |-> frame_event_list[p][i]]
    BY <2>c, <2>1, <2>2, <2>3, Active
  <2>5. frame_delta[p] > 0
    BY <2>4
  <2>6. frame_event_list[p] =
          [i \in 0 .. frame_delta[p] - 1 |-> frame_event_list[p][i]]
    BY <2>4
  <2>7. PICK x : PrepareNextFrame(p, frame_event_list[p], x)
    BY <1>3
  <2>8. Step(p)
    BY DEF Step
  <2> QED BY <1>1, <2>5, <2>6, <2>7, <2>8, RingAdvances
<1> QED BY <1>1, <1>2, <1>3

\* network_event_record() and the sync test trap record in the current slot.
LEMMA RecordRing ==
  ASSUME BaseInv, RingInv, NEW p \in Peers,
         \/ \E type \in Types : network_event_record(p, type)
         \/ network_event_record_sync_test(p)
  PROVE  RingInv'
<1>1. ASSUME NEW type \in Types, network_event_record(p, type) PROVE RingInv'
  <2>1. PICK e : e = Event(type)
    OBVIOUS
  <2>2. /\ RecordInList(p, e) \/ frame_event_list' = frame_event_list
        /\ UNCHANGED <<frame_delta, ring, machine>>
    BY <1>1, <2>1 DEF network_event_record
  <2>3. Environment(p)
    BY <1>1 DEF Environment
  <2> QED BY <2>2, <2>3, RingRecords
<1>2. CASE network_event_record_sync_test(p)
  <2>1. PICK e : e = [type |-> "SYNC_TEST", regs |-> machine[p]]
    OBVIOUS
  <2>2. RecordInList(p, e) /\ UNCHANGED <<frame_delta, ring, machine>> /\ Step(p)
    BY <1>2, <2>1 DEF network_event_record_sync_test, Step
  <2> QED BY <2>2, RingRecords
<1> QED BY <1>1, <1>2

\* The other steps leave the ring and the machine alone.
LEMMA QuietRing ==
  ASSUME BaseInv, RingInv, NEW p \in Peers,
         \/ network_hook_accept(p) \/ CrashInHook(p)
         \/ network_server_connect_trap(p) \/ network_client_connect_trap(p)
         \/ ReceiveSnapshot(p) \/ ReceiveLength(p)
         \/ network_start_server(p) \/ network_connect_client(p)
         \/ network_suspend(p) \/ UserDisconnect(p) \/ Exit(p)
  PROVE  RingInv' /\ out_of_sync' = out_of_sync
<1>1. Step(p) \/ Environment(p)
  BY DEF Step, Environment
<1>2. UNCHANGED <<config, ring, machine>> /\ out_of_sync' = out_of_sync
  <2>1. CASE network_hook_accept(p)
    BY <2>1 DEF network_hook_accept
  <2>2. CASE CrashInHook(p)
    BY <2>2 DEF CrashInHook
  <2>3. CASE network_server_connect_trap(p)
    BY <2>3 DEF network_server_connect_trap
  <2>4. CASE network_client_connect_trap(p)
    BY <2>4 DEF network_client_connect_trap
  <2>5. CASE ReceiveSnapshot(p)
    BY <2>5 DEF ReceiveSnapshot
  <2>6. CASE ReceiveLength(p)
    BY <2>6 DEF ReceiveLength
  <2>7. CASE network_start_server(p)
    BY <2>7 DEF network_start_server
  <2>8. CASE network_connect_client(p)
    BY <2>8 DEF network_connect_client
  <2>9. CASE network_suspend(p)
    BY <2>9 DEF network_suspend
  <2>10. CASE UserDisconnect(p)
    BY <2>10 DEF UserDisconnect
  <2>11. CASE Exit(p)
    BY <2>11 DEF Exit
  <2> QED BY <2>1, <2>2, <2>3, <2>4, <2>5, <2>6, <2>7, <2>8, <2>9, <2>10, <2>11
<1> QED BY <1>1, <1>2, RingSame

\* What the emulation of a peer does by itself keeps the invariant.
LEMMA StepInv ==
  ASSUME BaseInv, RingInv, ConnInv, ~out_of_sync, NEW p \in Peers, Step(p)
  PROVE  RingInv' /\ ConnInv' /\ ~out_of_sync'
<1>1. CASE network_hook_accept(p)
  BY <1>1, QuietRing, AcceptConn
<1>2. CASE network_hook(p)
  BY <1>2, HookRing, HookConn DEF network_hook
<1>3. CASE CrashInHook(p)
  BY <1>3, QuietRing, CrashInHookConn
<1>4. CASE network_server_connect_trap(p)
  BY <1>4, QuietRing, ServerTrapConn
<1>5. CASE network_client_connect_trap(p)
  BY <1>5, QuietRing, ClientTrapConn
<1>6. CASE network_event_record_sync_test(p)
  BY <1>6, RecordRing, SyncTestConn DEF network_event_record_sync_test
<1>7. CASE ReceiveSnapshot(p)
  BY <1>7, QuietRing, ReceiveSnapshotConn
<1>8. CASE ReceiveSettings(p)
  BY <1>8, ReceiveSettingsRing, ReceiveSettingsConn DEF ReceiveSettings
<1>9. CASE TestSend(p)
  BY <1>9, TestRing, TestSendConn DEF TestSend, TestUnchanged
<1>10. CASE TestWait(p)
  BY <1>10, TestRing, TestWaitConn DEF TestWait, TestUnchanged
<1>11. CASE TestDelta(p)
  BY <1>11, TestRing, TestDeltaConn DEF TestDelta, TestUnchanged
<1>12. CASE TestEcho(p)
  BY <1>12, TestRing, TestEchoConn DEF TestEcho, TestUnchanged
<1>13. CASE TestReceive(p)
  BY <1>13, TestReceiveRing, TestReceiveConn DEF TestReceive, TestUnchanged
<1>14. CASE ReceiveLength(p)
  BY <1>14, QuietRing, ReceiveLengthConn
<1>15. CASE ReceiveList(p)
  BY <1>15, ReceiveListRing, ReceiveListConn
<1> QED BY <1>1, <1>2, <1>3, <1>4, <1>5, <1>6, <1>7, <1>8, <1>9, <1>10, <1>11,
           <1>12, <1>13, <1>14, <1>15 DEF Step

\* What users and the network do to it keeps the invariant.
LEMMA EnvironmentInv ==
  ASSUME BaseInv, RingInv, ConnInv, ~out_of_sync, NEW p \in Peers, Environment(p)
  PROVE  RingInv' /\ ConnInv' /\ ~out_of_sync'
<1>1. CASE network_start_server(p)
  BY <1>1, QuietRing, StartServerConn
<1>2. CASE network_connect_client(p)
  BY <1>2, QuietRing, ConnectClientConn
<1>3. ASSUME NEW type \in Types, network_event_record(p, type)
      PROVE  RingInv' /\ ConnInv' /\ ~out_of_sync'
  BY <1>3, RecordRing, EventRecordConn DEF network_event_record
<1>4. CASE network_suspend(p)
  BY <1>4, QuietRing, SuspendConn
<1>5. CASE UserDisconnect(p)
  BY <1>5, QuietRing, UserDisconnectConn
<1>6. CASE Exit(p)
  BY <1>6, QuietRing, ExitConn
<1> QED BY <1>1, <1>2, <1>3, <1>4, <1>5, <1>6 DEF Environment

\* The invariant holds in the initial states,
LEMMA InitInv ==
  Init => IInv
<1> SUFFICES ASSUME Init PROVE IInv
  OBVIOUS
<1>1. BaseInv
  BY BaseInit
<1>2. ConnInv
  <2>1. sessions = 0
    BY DEF Init
  <2> QED BY <2>1 DEF ConnInv
<1>3. RingInv
  <2> SUFFICES ASSUME NEW p \in Peers PROVE RingOK(p)
    BY DEF RingInv, RingOK
  <2>1. /\ frame_delta[p] = 0 /\ frame_event_list[p] = NoLists
        /\ ~frame_buffer_full[p]
        /\ machine[p] = [origin |-> p, inputs |-> << >>]
    BY DEF Init
  <2>2. IsMachine(machine[p])
    BY <2>1, ASeqEmpty DEF IsMachine
  <2>3. NoLists = [i \in 0 .. 0 - 1 |-> NoLists[i]]
    <3>1. 0 .. 0 - 1 = {} /\ DOMAIN NoLists = {}
      BY DEF NoLists
    <3> QED BY <3>1 DEF NoLists
  <2> QED BY <2>1, <2>2, <2>3 DEF RingOK
<1> QED BY <1>1, <1>2, <1>3 DEF IInv, Init

\* ... and every step keeps it.
LEMMA NextInv ==
  IInv /\ [Next]_vars => IInv'
<1> SUFFICES ASSUME IInv, [Next]_vars PROVE IInv'
  OBVIOUS
<1>0. BaseInv /\ RingInv /\ ConnInv /\ ~out_of_sync /\ BaseInv'
  BY BaseStep DEF IInv
<1>1. ASSUME NEW p \in Peers, Step(p) PROVE RingInv' /\ ConnInv' /\ ~out_of_sync'
  BY <1>0, <1>1, StepInv
<1>2. ASSUME NEW p \in Peers, Environment(p)
      PROVE  RingInv' /\ ConnInv' /\ ~out_of_sync'
  BY <1>0, <1>2, EnvironmentInv
<1>3. ASSUME UNCHANGED <<config, ring, machine>> PROVE RingInv'
  <2>1. \A r \in Peers : RingOK(r) /\ RingOf(r)' = RingOf(r)
    BY <1>0, <1>3 DEF RingInv, RingOK, RingOf, config, ring
  <2>2. \A r \in Peers : RingOK(r)'
    BY <2>1, RingKept
  <2> QED BY <2>2 DEF RingInv, RingOK
<1>4. ASSUME NEW c \in Conns, LinkBreaks(c)
      PROVE  RingInv' /\ ConnInv' /\ ~out_of_sync'
  BY <1>0, <1>3, <1>4, LinkBreaksConn DEF LinkBreaks
<1>5. CASE UNCHANGED vars
  <2>1. UNCHANGED <<config, ring, machine>> /\ out_of_sync' = out_of_sync
    BY <1>5 DEF vars
  <2>2. ConnInv'
    BY <1>0, <1>5, StutterConn
  <2>3. RingInv'
    BY <1>3, <2>1
  <2> QED BY <1>0, <2>1, <2>2, <2>3 DEF IInv
<1> QED BY <1>0, <1>1, <1>2, <1>4, <1>5 DEF IInv, Next

-----------------------------------------------------------------------------
(* The properties.                                                         *)

\* Both peers on one connection share its ghost, and neither is a server
\* whose settings did not get out.
LEMMA TogetherGhost ==
  ASSUME IInv, Together
  PROVE  \E h : /\ GhostOK(h)
                /\ Server = h.server /\ Client = Other(h.server)
                /\ \A p \in Peers : InStep(h, Conn(p), p) \/ Failed(h, p)
<1>0. BaseInv /\ RingInv /\ ConnInv
  BY DEF IInv
<1>c. PICK c : c = Conn("A")
  OBVIOUS
<1>1. ASSUME NEW p \in Peers PROVE Conn(p) = c /\ c # 0 /\ InSession(p)
  BY <1>c DEF Together, InSession, Peers
<1>2. c \in 1 .. sessions
  BY <1>0, <1>1, ConnMade, OtherPeer DEF BaseInv, Peers
<1>3. PICK h : ConnOK(h, c)
  BY <1>0, <1>2 DEF ConnInv
<1>4. ASSUME NEW p \in Peers
      PROVE  /\ GhostOK(h) /\ Serving(h, c, p) /\ Calling(h, c, p)
             /\ InStep(h, c, p) \/ Failed(h, p) \/ Hollow(h, p)
  <2>1. GhostOK(h) /\ Serving(h, c, p) /\ Calling(h, c, p) /\ Playing(h, c, p)
    BY <1>0, <1>1, <1>3, OnConn
  <2> QED BY <1>1, <2>1 DEF Playing
<1>5. GhostOK(h) /\ h.server \in Peers
  BY <1>3 DEF ConnOK, GhostOK
<1>6. ASSUME NEW p \in Peers
      PROVE  /\ network_mode[p] = "SERVER_CONNECTED" => h.server = p
             /\ network_mode[p] = "CLIENT" => h.server = Other(p)
             /\ network_mode[p] \in {"SERVER_CONNECTED", "CLIENT"}
  BY <1>1, <1>4 DEF Serving, Calling, InSession, connected
<1>7. network_mode[h.server] = "SERVER_CONNECTED"
  BY <1>5, <1>6, OtherPeer
<1>8. Server = h.server /\ Client = Other(h.server)
  BY <1>5, <1>6, <1>7 DEF Server, Client
<1>9. ASSUME NEW p \in Peers, Hollow(h, p) PROVE FALSE
  <2>q. PICK q : q = Other(p)
    OBVIOUS
  <2>1. q \in Peers /\ p = Other(q) /\ p = h.server /\ h.written[p] = 0 /\ q # h.server
    BY <1>9, <2>q, OtherPeer DEF Hollow
  <2>2. h.read[q] \in Nat /\ h.read[q] <= h.written[p] /\ N \in Nat
    BY <1>5, <2>1, GhostTypes
  <2>3. h.read[q] = 0
    BY <2>1, <2>2
  <2>4. InStep(h, c, q) \/ Failed(h, q)
    BY <1>4, <2>1 DEF Hollow
  <2>5. CASE InStep(h, c, q)
    <3>1. h.read[q] >= N + 3
      BY <2>1, <2>5 DEF InStep
    <3> QED BY <2>2, <2>3, <3>1
  <2>6. CASE Failed(h, q)
    <3>1. h.read[q] >= 2
      BY <2>1, <2>6 DEF Failed
    <3> QED BY <2>3, <3>1
  <2> QED BY <2>4, <2>5, <2>6
<1> QED BY <1>1, <1>4, <1>5, <1>8, <1>9

\* What a peer of the session has played and sent.
LEMMA TogetherFrames ==
  ASSUME IInv, Together, NEW h, GhostOK(h), NEW p \in Peers,
         InStep(h, Conn(p), p) \/ Failed(h, p)
  PROVE  /\ Frames(p) \in Nat /\ Len(h.lists[p]) \in Nat
         /\ frame_delta[p] \in Nat /\ h.delta \in Nat /\ h.delta >= 2
         /\ Frames(p) <= Len(h.lists[p]) /\ Len(h.lists[p]) <= Frames(p) + 1
         /\ Frames(p) = 0 \/ (/\ frame_delta[p] = h.delta
                              /\ Frames(p) <= Len(h.lists[Other(p)]) + h.delta - 1)
         /\ \A k \in 1 .. Len(h.lists[p]) : recorded[p][k] = Played(h.lists[p][k])
<1>1. Len(h.lists[p]) \in Nat /\ h.delta \in Nat /\ h.delta >= 2
  <2>1. h.delta \in Deltas \cup {DEFAULT_DELTA}
    BY DEF GhostOK
  <2>2. h.delta \in Nat /\ h.delta >= 2
    BY <2>1, NetPlayAssumption
  <2> QED BY <2>2, GhostTypes
<1>2. frame_delta[p] \in Nat
  <2>1. frame_delta[p] \in Deltas \cup {0, DEFAULT_DELTA}
    BY DEF IInv, RingInv
  <2> QED BY <2>1, DeltaNat
<1>3. CASE InStep(h, Conn(p), p)
  <2>f. PICK f : f = Frames(p)
    OBVIOUS
  <2>1. /\ f \in Nat /\ f <= Len(h.lists[p]) /\ Len(h.lists[p]) <= f + 1
        /\ frame_delta[p] = h.delta
        /\ f <= Len(h.lists[Other(p)]) + h.delta - 1
        /\ \A k \in 1 .. Len(h.lists[p]) : recorded[p][k] = Played(h.lists[p][k])
    BY <1>3, <2>f DEF InStep
  <2> QED BY <1>1, <1>2, <2>1, <2>f
<1>4. CASE Failed(h, p)
  <2>1. Frames(p) = 0 /\ Len(h.lists[p]) = 0
    BY <1>4, ASeqEmpty DEF Failed
  <2> HIDE DEF Frames
  <2> QED BY <1>1, <1>2, <2>1
<1> QED BY <1>3, <1>4

\* The invariant bounds the lead: a peer plays its n-th frame with the other's
\* list n - frame_delta + 1, which has been sent.
LEMMA LeadInv ==
  IInv => LeadBounded
<1> SUFFICES ASSUME IInv, Together, NEW p \in Peers, NEW q \in Peers
             PROVE  Frames(p) - Frames(q) <= frame_delta[p]
  BY DEF LeadBounded, Frames
<1>1. PICK h : /\ GhostOK(h)
               /\ \A r \in Peers : InStep(h, Conn(r), r) \/ Failed(h, r)
  BY TogetherGhost
<1>a. PICK a : a = Frames(p)
  OBVIOUS
<1>b. PICK b : b = Frames(q)
  OBVIOUS
<1>l. PICK l : l = Len(h.lists[q])
  OBVIOUS
<1>d. PICK d : d = frame_delta[p]
  OBVIOUS
<1>2. a \in Nat /\ d \in Nat /\ (a = 0 \/ a <= Len(h.lists[Other(p)]) + d - 1)
  <2>1. /\ Frames(p) \in Nat /\ frame_delta[p] \in Nat
        /\ Frames(p) = 0 \/ (/\ frame_delta[p] = h.delta
                             /\ Frames(p) <= Len(h.lists[Other(p)]) + h.delta - 1)
    BY <1>1, TogetherFrames
  <2> HIDE DEF Frames
  <2> QED BY <1>a, <1>d, <2>1
<1>3. b \in Nat /\ l \in Nat /\ l <= b + 1
  <2>1. Frames(q) \in Nat /\ Len(h.lists[q]) \in Nat
        /\ Len(h.lists[q]) <= Frames(q) + 1
    BY <1>1, TogetherFrames
  <2> QED BY <1>b, <1>l, <2>1
<1>4. CASE p = q
  BY <1>2, <1>3, <1>4, <1>a, <1>b, <1>d
<1>5. CASE p # q
  <2>1. a = 0 \/ a <= l + d - 1
    BY <1>2, <1>5, <1>l, OtherPeer
  <2>2. a - b <= d
    BY <1>2, <1>3, <2>1
  <2> QED BY <2>2, <1>a, <1>b, <1>d
<1> QED BY <1>4, <1>5

\* The invariant gives the inputs: the frames of a machine in step have the
\* input of the ghost's lists, and what was recorded is what those lists play.
LEMMA InputsInv ==
  IInv => SameInputs
<1> SUFFICES ASSUME IInv, Together, NEW p \in Peers, NEW n \in 1 .. Frames(p)
             PROVE  machine[p].inputs[start[p] + n] =
                      IF n < frame_delta[p] THEN << >>
                      ELSE << recorded[Server][n - frame_delta[p] + 1],
                              recorded[Client][n - frame_delta[p] + 1] >>
  BY DEF SameInputs, Frames
<1>1. PICK h : /\ GhostOK(h)
               /\ Server = h.server /\ Client = Other(h.server)
               /\ \A r \in Peers : InStep(h, Conn(r), r) \/ Failed(h, r)
  BY TogetherGhost
<1>q. PICK q : q = Other(p)
  OBVIOUS
<1>f. PICK f : f = Frames(p)
  OBVIOUS
<1>d. PICK d : d = h.delta
  OBVIOUS
<1>2. f \in Nat /\ f >= 1 /\ d \in Nat /\ d >= 2 /\ frame_delta[p] = d
      /\ f <= Len(h.lists[p]) /\ f <= Len(h.lists[q]) + d - 1
  <2>1. f \in Nat /\ f >= 1
    <3>1. f \in Nat /\ n \in 1 .. f
      BY <1>1, <1>f, TogetherFrames
    <3> QED BY <3>1
  <2>2. /\ d \in Nat /\ d >= 2 /\ f <= Len(h.lists[p])
        /\ f = 0 \/ (frame_delta[p] = d /\ f <= Len(h.lists[q]) + d - 1)
    <3> HIDE DEF Frames
    <3> QED BY <1>1, <1>f, <1>d, <1>q, TogetherFrames
  <2>3. f # 0
    BY <2>1
  <2> QED BY <2>1, <2>2, <2>3
<1>3. InStep(h, Conn(p), p)
  <2>1. ~Failed(h, p)
    BY <1>2, <1>f DEF Failed
  <2> QED BY <1>1, <2>1
<1>4. machine[p].inputs[start[p] + n] = FrameInput(h, n)
  <2>1. AtFrame(h, machine[p], f) /\ start[p] = Len(h.base.inputs) /\ n \in 1 .. f
    BY <1>3, <1>f DEF InStep
  <2> QED BY <2>1 DEF AtFrame
<1>5. CASE n < d
  BY <1>2, <1>4, <1>5, <1>d DEF FrameInput
<1>6. CASE ~ (n < d)
  <2>k. PICK k : k = n - d + 1
    OBVIOUS
  <2>1. FrameInput(h, n) = <<Played(h.lists[h.server][k]),
                             Played(h.lists[Other(h.server)][k])>>
    BY <1>6, <1>d, <2>k DEF FrameInput
  <2>2. ASSUME NEW r \in Peers PROVE recorded[r][k] = Played(h.lists[r][k])
    <3>1. Len(h.lists[r]) \in Nat
          /\ \A j \in 1 .. Len(h.lists[r]) : recorded[r][j] = Played(h.lists[r][j])
      BY <1>1, TogetherFrames
    <3>2. r = p \/ r = q
      BY <1>q, OtherPeer
    <3>3. n \in Nat /\ n <= f
      BY <1>2, <1>f
    <3>l. PICK l : l = Len(h.lists[r])
      OBVIOUS
    <3>4. l \in Nat /\ (f <= l \/ f <= l + d - 1)
      BY <1>2, <3>1, <3>2, <3>l
    <3>5. k \in 1 .. l
      BY <1>2, <1>6, <2>k, <3>3, <3>4
    <3> QED BY <3>1, <3>5, <3>l
  <2>3. h.server \in Peers /\ Other(h.server) \in Peers
    BY <1>1, OtherPeer DEF GhostOK
  <2> QED BY <1>1, <1>2, <1>4, <1>6, <2>1, <2>2, <2>3, <2>k
<1> QED BY <1>5, <1>6

\* The invariant gives the types.
LEMMA TypesInv ==
  IInv => TypeOK
<1> SUFFICES ASSUME IInv PROVE TypeOK
  OBVIOUS
<1>1. TypeInv /\ RingInv
  BY DEF IInv, BaseInv
<1>2. frame_delta \in [Peers -> Deltas \cup {0, DEFAULT_DELTA}]
  BY <1>1 DEF TypeInv, IsMap, RingInv
<1>3. ASSUME NEW p \in Peers
      PROVE  /\ DOMAIN frame_event_list[p] = 0 .. frame_delta[p] - 1
             /\ frame_delta[p] > 0 =>
                  current_frame[p] \in DOMAIN frame_event_list[p]
             /\ frame_buffer_full[p] =>
                  frame_to_play[p] \in DOMAIN frame_event_list[p]
  <2>d. PICK d : d = frame_delta[p]
    OBVIOUS
  <2>1. RingOK(p) /\ d \in Deltas \cup {0, DEFAULT_DELTA}
    BY <1>1, <2>d DEF RingInv, RingOK
  <2>2. d \in Nat /\ (d # 0 => d > 0) /\ (d > 0 => d >= 2)
    BY <2>1, DeltaNat
  <2>3. DOMAIN frame_event_list[p] = 0 .. d - 1
    BY <2>1, <2>d DEF RingOK
  <2>4. d > 0 => current_frame[p] \in 0 .. d - 1
    BY <2>1, <2>d DEF RingOK
  <2>5. ASSUME frame_buffer_full[p] PROVE frame_to_play[p] \in 0 .. d - 1
    <3>1. d > 0 /\ frame_to_play[p] = (current_frame[p] + 1) % d
      BY <2>1, <2>2, <2>5, <2>d DEF RingOK
    <3>n. PICK n : n = current_frame[p]
      OBVIOUS
    <3>2. d >= 2 /\ n \in 0 .. d - 1
      BY <2>2, <2>4, <3>1, <3>n
    <3>3. (n + 1) % d = NextSlot(n, d)
      BY <2>2, <3>2, NextSlotIs
    <3>4. NextSlot(n, d) \in 0 .. d - 1
      BY <2>2, <3>2 DEF NextSlot
    <3> QED BY <3>1, <3>3, <3>4, <3>n
  <2> QED BY <2>3, <2>4, <2>5, <2>d
<1> QED BY <1>1, <1>2, <1>3 DEF TypeInv, TypeOK, Modes, Traps, Ends

-----------------------------------------------------------------------------

\* Every connection ever made has a history that explains both its peers.
THEOREM NetPlayInductive == Spec => []IInv
<1> QED BY InitInv, NextInv, PTL DEF Spec

\* Types, and the indices of network_prepare_next_frame(): current_frame and,
\* once the buffer has been full, frame_to_play are slots of frame_event_list.
THEOREM NetPlayTypes == Spec => []TypeOK
<1> QED BY NetPlayInductive, TypesInv, PTL

\* Lockstep: while both peers play on one connection, every frame of both
\* machines has the same input, the two lists network_hook() sent frame_delta - 1
\* frames earlier, the server's first.
THEOREM NetPlaySameInputs == Spec => []SameInputs
<1> QED BY NetPlayInductive, InputsInv, PTL

\* The registers network_hook_connected_receive() compares are never different:
\* both are those of the frame in which the lists were made.
THEOREM NetPlayInSync == Spec => []NeverOutOfSync
<1>1. IInv => NeverOutOfSync
  BY DEF IInv, NeverOutOfSync
<1> QED BY <1>1, NetPlayInductive, PTL

\* While both peers play on one connection, neither is more than frame_delta
\* frames ahead: network_hook() waits for the other's list.
THEOREM NetPlayLead == Spec => []LeadBounded
<1> QED BY NetPlayInductive, LeadInv, PTL
=============================================================================
