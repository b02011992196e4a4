--------------------------- MODULE NetPlaySession ---------------------------
(***************************************************************************)
(* The inductive invariant of NetPlay and the lemmas about its parts.      *)
(*                                                                         *)
(*   BaseInv   where the handler of a peer stands, which sockets it has,   *)
(*             and that both ends of a connection break together; proved   *)
(*             here for every action;                                      *)
(*   RingInv   the indices of the ring of lists;                           *)
(*   ConnInv   every connection has a history (a "ghost") that explains    *)
(*             the state of both peers and what is under way.              *)
(*                                                                         *)
(* NetPlayProofs proves that every action keeps the last two, and what     *)
(* follows for a session.                                                  *)
(***************************************************************************)
EXTENDS NetPlay, FiniteSetTheorems, SequenceTheorems, WellFoundedInduction, TLAPS

-----------------------------------------------------------------------------
(* Sockets.                                                                *)

\* A set of numbers that is not empty has a least element.
LEMMA Least ==
  ASSUME NEW T, T \subseteq Nat, T # {}
  PROVE  \E x \in T : \A y \in T : x <= y
<1> DEFINE R == {ss \in Nat \X Nat : ss[1] < ss[2]}
<1>1. IsWellFoundedOn(R, Nat)
  BY NatLessThanWellFounded, Zenon DEF OpToRel
<1>2. \A x, y \in T : y < x => <<y, x>> \in R
  OBVIOUS
<1> HIDE DEF R
<1>3. PICK x \in T : \A y \in T : ~ (<<y, x>> \in R)
  BY <1>1, WFMin, Zenon
<1>4. ASSUME NEW y \in T PROVE x <= y
  <2>1. ~(y < x)
    BY <1>2, <1>3, Zenon
  <2> QED BY <2>1, SMT
<1> QED BY <1>4

\* What the constants are.
LEMMA Bounds ==
  /\ MaxSessions \in Nat /\ MaxFrames \in Nat
  /\ NUM_OF_TESTPACKETS \in Nat \ {0}
  /\ \A d \in Deltas \cup {DEFAULT_DELTA} : d \in Nat /\ d >= 2
BY NetPlayAssumption

\* get_new_pool_entry() finds an entry if there is one.
LEMMA FreeEntryFound ==
  ASSUME NEW p \in Peers, \E e \in Entries : socket_pool[p][e] = FREE
  PROVE  FreeEntry(p) \in Entries /\ socket_pool[p][FreeEntry(p)] = FREE
<1> DEFINE T == {e \in Entries : socket_pool[p][e] = FREE}
<1>1. T \subseteq Nat /\ T # {}
  BY NetPlayAssumption DEF Entries
<1>2. \E x \in T : \A y \in T : x <= y
  BY <1>1, Least, Zenon
<1> QED BY <1>2, Zenon DEF FreeEntry

\* A pool without a second entry for a connection, and without an entry for x,
\* has one that is free.
LEMMA PoolHasRoom ==
  ASSUME NEW f \in [Entries -> Conns \cup {LISTEN, FREE}],
         NEW x \in Entries, \A e \in Entries : f[e] # x,
         \A d, e \in Entries : f[d] = f[e] /\ f[e] # FREE => d = e
  PROVE  \E e \in Entries : f[e] = FREE
<1> SUFFICES ASSUME \A e \in Entries : f[e] # FREE PROVE FALSE
  OBVIOUS
<1> DEFINE T == Entries \ {x}
<1>1. f \in [Entries -> T]
  BY NetPlayAssumption DEF Entries, Conns, LISTEN, FREE
<1>2. IsFiniteSet(Entries) /\ Cardinality(Entries) = MaxSessions + 1
  BY FS_Interval, NetPlayAssumption DEF Entries
<1>3. IsFiniteSet(T) /\ Cardinality(T) = Cardinality(Entries) - 1
  BY <1>2, FS_RemoveElement
<1>4. Cardinality(T) < Cardinality(Entries)
  BY <1>2, <1>3, Bounds
<1> HIDE DEF T
<1>5. \E d, e \in Entries : d # e /\ f[d] = f[e]
  BY <1>1, <1>2, <1>3, <1>4, FS_PigeonHole
<1> QED BY <1>5

-----------------------------------------------------------------------------
(* The control of a peer and its sockets.                                  *)

IsMap(f) == f = [p \in Peers |-> f[p]]

Modes == {"IDLE", "SERVER", "SERVER_CONNECTED", "CLIENT", "GONE"}
Traps == {"none", "sync_test", "server_connect", "client_connect"}
Places == {"run", "snapshot", "settings", "test_send", "test_wait",
           "test_delta", "test_echo", "test_receive", "length", "list", "gone"}
Ends == {"none", "up", "fin", "dying", "dead", "closed"}

TypeInv ==
  /\ network_mode \in [Peers -> Modes]
  /\ network_socket \in [Peers -> Entries \cup {NULL}]
  /\ listen_socket \in [Peers -> Entries \cup {NULL}]
  /\ socket_pool \in [Peers -> [Entries -> Conns \cup {LISTEN, FREE}]]
  /\ suspended \in [Peers -> 0 .. 1]
  /\ packets \in [Peers -> 0 .. NUM_OF_TESTPACKETS]
  /\ trap \in [Peers -> Traps]
  /\ pc \in [Peers -> Places]
  /\ end \in [Conns -> [Peers -> Ends]]
  /\ chan = [c \in Conns |-> [p \in Peers |-> chan[c][p]]]
  /\ sessions \in 0 .. MaxSessions
  /\ backlog \in [Peers -> Seq(1 .. sessions)]
  /\ IsMap(frame_delta) /\ IsMap(frame_event_list)
  /\ frame_buffer_full \in [Peers -> BOOLEAN]
  /\ IsMap(current_frame) /\ IsMap(frame_to_play)
  /\ IsMap(machine) /\ IsMap(snapshotfilename)
  /\ IsMap(recorded) /\ IsMap(start)

\* Where a handler stands, what the mode and the waiting trap are there.
ControlInv(p) ==
  /\ (pc[p] = "gone") = (network_mode[p] = "GONE")
  /\ trap[p] # "none" => pc[p] = "run"
  /\ trap[p] = "server_connect" =>
       /\ network_mode[p] \in {"SERVER", "IDLE"}
       /\ Conn(p) # 0 => network_mode[p] = "SERVER"
  /\ trap[p] = "client_connect" => network_mode[p] \in {"SERVER", "IDLE"}
  /\ pc[p] = "snapshot" => network_mode[p] = "IDLE"
  /\ pc[p] = "settings" => network_mode[p] \in {"SERVER", "IDLE"}
  /\ pc[p] \in {"test_send", "test_wait", "test_delta"} =>
       network_mode[p] = "SERVER_CONNECTED"
  /\ pc[p] \in {"test_echo", "test_receive"} => network_mode[p] = "CLIENT"
  /\ pc[p] \in {"test_send", "test_wait", "test_echo"} => packets[p] >= 1
  /\ pc[p] \in {"test_delta", "test_receive"} => packets[p] = 0
  /\ pc[p] \in {"length", "list"} /\ Conn(p) # 0 => connected(p)

\* The listening socket belongs to listen_socket; a connection has one entry,
\* after it has been accepted.
Entry(p, e) ==
  /\ socket_pool[p][e] = LISTEN =>
       /\ e = listen_socket[p]
       /\ network_mode[p] \in {"SERVER", "SERVER_CONNECTED", "CLIENT"}
  /\ socket_pool[p][e] \in Conns =>
       /\ socket_pool[p][e] <= sessions
       /\ socket_pool[p][e] \notin Range(backlog[p])
       /\ \A d \in Entries : socket_pool[p][d] = socket_pool[p][e] => d = e

Distinct(s) == \A i, j \in 1 .. Len(s) : s[i] = s[j] => i = j

Pool(p) == Distinct(backlog[p]) /\ \A e \in Entries : Entry(p, e)

\* Both ends of a connection break together, and one not made is empty.
EndsInv ==
  \A c \in Conns :
    /\ (end[c]["A"] = "up") <=> (end[c]["B"] = "up")
    /\ c > sessions => \A p \in Peers : chan[c][p] = << >>

PeerInv == \A p \in Peers : ControlInv(p) /\ Pool(p)

BaseInv == TypeInv /\ PeerInv /\ EndsInv

-----------------------------------------------------------------------------
(* What an action of a peer leaves alone.                                  *)

\* What belongs to one peer, but for its backlog.
Mine(r) ==
  <<network_mode[r], network_socket[r], listen_socket[r], socket_pool[r],
    suspended[r], packets[r], trap[r], pc[r], machine[r], snapshotfilename[r],
    frame_delta[r], frame_buffer_full[r], current_frame[r], frame_to_play[r],
    frame_event_list[r], recorded[r], start[r]>>

\* There are two peers.
LEMMA OtherPeer ==
  \A p \in Peers : /\ Other(p) \in Peers /\ Other(p) # p /\ Other(Other(p)) = p
                   /\ \A r \in Peers : r # p => r = Other(p)
BY DEF Peers, Other

\* A handler of p changes nothing that belongs to the other peer but its
\* backlog, which network_connect_client() makes longer.
LEMMA Untouched ==
  ASSUME TypeInv, NEW p \in Peers, Step(p) \/ Environment(p),
         NEW r \in Peers, r # p
  PROVE  Mine(r)' = Mine(r)
<1>0. /\ IsMap(network_mode) /\ IsMap(network_socket) /\ IsMap(listen_socket)
      /\ IsMap(socket_pool) /\ IsMap(suspended) /\ IsMap(packets)
      /\ IsMap(trap) /\ IsMap(pc) /\ IsMap(machine) /\ IsMap(snapshotfilename)
      /\ IsMap(frame_delta) /\ IsMap(frame_buffer_full) /\ IsMap(current_frame)
      /\ IsMap(frame_to_play) /\ IsMap(frame_event_list) /\ IsMap(recorded)
      /\ IsMap(start)
  BY DEF TypeInv, IsMap
<1>1. ASSUME Gone(p) PROVE
        /\ network_mode'[r] = network_mode[r] /\ pc'[r] = pc[r]
        /\ trap'[r] = trap[r] /\ socket_pool'[r] = socket_pool[r]
        /\ network_socket'[r] = network_socket[r]
        /\ listen_socket'[r] = listen_socket[r]
  BY <1>0, <1>1 DEF Gone, IsMap
<1>2. ASSUME NEW next, NEW then, network_disconnect(p, next, then) PROVE
        /\ network_mode'[r] = network_mode[r] /\ pc'[r] = pc[r]
        /\ trap'[r] = trap[r] /\ socket_pool'[r] = socket_pool[r]
        /\ network_socket'[r] = network_socket[r]
        /\ listen_socket'[r] = listen_socket[r]
  BY <1>0, <1>1, <1>2 DEF network_disconnect, IsMap
<1>3. ASSUME NEW delta, InitFrameEventList(p, delta) PROVE
        /\ frame_delta'[r] = frame_delta[r]
        /\ frame_event_list'[r] = frame_event_list[r]
        /\ current_frame'[r] = current_frame[r]
        /\ frame_buffer_full'[r] = frame_buffer_full[r]
        /\ trap'[r] = trap[r] /\ pc'[r] = pc[r]
        /\ recorded'[r] = recorded[r] /\ start'[r] = start[r]
        /\ frame_to_play'[r] = frame_to_play[r]
  BY <1>0, <1>3 DEF InitFrameEventList, IsMap
<1>4. ASSUME NEW list, NEW lists, PrepareNextFrame(p, list, lists) PROVE
        /\ current_frame'[r] = current_frame[r]
        /\ frame_to_play'[r] = frame_to_play[r]
        /\ frame_event_list'[r] = frame_event_list[r]
        /\ machine'[r] = machine[r]
  BY <1>0, <1>4 DEF PrepareNextFrame, IsMap
<1>5. CASE network_start_server(p)
  BY <1>0, <1>5 DEF network_start_server, IsMap, Mine, config, ring, history
<1>6. CASE network_connect_client(p)
  BY <1>0, <1>6 DEF network_connect_client, IsMap, Mine, config, ring, history
<1>7. CASE ReceiveSnapshot(p)
  BY <1>0, <1>7 DEF ReceiveSnapshot, Goto, IsMap, Mine, config, ring, history
<1>8. CASE network_hook_accept(p)
  BY <1>0, <1>8 DEF network_hook_accept, IsMap, Mine, config, ring, history
<1>9. CASE network_server_connect_trap(p)
  BY <1>0, <1>9 DEF network_server_connect_trap, IsMap, Mine, config, ring,
                    history, sockets
<1>10. CASE network_client_connect_trap(p)
  BY <1>0, <1>10 DEF network_client_connect_trap, Goto, IsMap, Mine, config,
                     ring, history, sockets
<1>11. CASE ReceiveSettings(p)
  BY <1>0, <1>11 DEF ReceiveSettings, IsMap, Mine, config, ring, history, sockets
<1>12. CASE TestSend(p)
  BY <1>0, <1>3, <1>12 DEF TestSend, TestUnchanged, IsMap, Mine, config, ring,
                           history, sockets
<1>13. CASE TestWait(p)
  BY <1>0, <1>3, <1>13 DEF TestWait, TestUnchanged, IsMap, Mine, config, ring,
                           history, sockets
<1>14. CASE TestDelta(p)
  BY <1>0, <1>3, <1>14 DEF TestDelta, TestUnchanged, IsMap, Mine, config, ring,
                           history, sockets
<1>15. CASE TestEcho(p)
  BY <1>0, <1>3, <1>15 DEF TestEcho, TestUnchanged, IsMap, Mine, config, ring,
                           history, sockets
<1>16. CASE TestReceive(p)
  BY <1>0, <1>3, <1>16 DEF TestReceive, TestUnchanged, IsMap, Mine, config, ring,
                           history, sockets
<1>17. CASE \E type \in Types : network_event_record(p, type)
  BY <1>0, <1>17 DEF network_event_record, RecordInList, IsMap, Mine, ring,
                     history, sockets
<1>18. CASE network_event_record_sync_test(p)
  BY <1>0, <1>18 DEF network_event_record_sync_test, RecordInList, IsMap, Mine,
                     ring, history, sockets
<1>19. CASE network_suspend(p)
  BY <1>0, <1>19 DEF network_suspend, IsMap, Mine, config, ring, history, sockets
<1>20. CASE network_hook(p)
  BY <1>0, <1>2, <1>4, <1>20 DEF network_hook, IsMap, Mine, sockets
<1>21. CASE CrashInHook(p)
  BY <1>0, <1>1, <1>21 DEF CrashInHook, IsMap, Mine, config, ring, history
<1>22. CASE ReceiveLength(p)
  BY <1>0, <1>2, <1>22 DEF ReceiveLength, IsMap, Mine, config, ring, history,
                           sockets
<1>23. CASE ReceiveList(p)
  BY <1>0, <1>2, <1>4, <1>23 DEF ReceiveList, IsMap, Mine, history, sockets
<1>24. CASE UserDisconnect(p)
  BY <1>0, <1>2, <1>24 DEF UserDisconnect, IsMap, Mine, config, ring, history
<1>25. CASE Exit(p)
  BY <1>0, <1>1, <1>25 DEF Exit, IsMap, Mine, config, ring, history
<1> QED
  BY <1>5, <1>6, <1>7, <1>8, <1>9, <1>10, <1>11, <1>12, <1>13, <1>14, <1>15,
     <1>16, <1>17, <1>18, <1>19, <1>20, <1>21, <1>22, <1>23, <1>24, <1>25
  DEF Step, Environment

-----------------------------------------------------------------------------
(* What becomes of a connection.                                           *)

OpenEnds == {"up", "fin", "dying"}

\* Nothing is added to c: messages may get lost, ends may break.
Weaker(c) ==
  /\ \A r \in Peers :
       \/ chan'[c][r] = chan[c][r] \/ chan'[c][r] = << >>
       \/ \E k \in 0 .. Len(chan[c][r]) : chan'[c][r] = SubSeq(chan[c][r], 1, k)
  /\ end'[c]["A"] = "up" =>
       end[c]["A"] = "up" /\ \A r \in Peers : chan'[c][r] = chan[c][r]
  /\ \A r \in Peers : end'[c][r] \in OpenEnds => end[c][r] \in OpenEnds

\* TypeInv and EndsInv, as far as they are about connections.
TcpInv ==
  /\ end \in [Conns -> [Peers -> Ends]]
  /\ chan = [c \in Conns |-> [p \in Peers |-> chan[c][p]]]
  /\ sessions \in Nat
  /\ EndsInv

\* A step that leaves the connections alone keeps what is known of them.
LEMMA SameTcp ==
  ASSUME TcpInv, chan' = chan, end' = end, sessions' \in Nat,
         sessions <= sessions'
  PROVE  TcpInv' /\ \A c \in Conns : Weaker(c)
<1>1. TcpInv'
  BY DEF TcpInv, EndsInv, Conns
<1> QED BY <1>1 DEF Weaker

\* closesocket() on the ends S of p: both ends of a connection stay consistent
\* and no connection gets better.
LEMMA HangUpTcp ==
  ASSUME TcpInv, NEW S, NEW p \in Peers, HangUp(S, p), sessions' = sessions
  PROVE  TcpInv' /\ \A c \in Conns : Weaker(c)
<1>1. Other(p) \in Peers /\ Other(p) # p /\ Peers = {p, Other(p)} /\ Peers = {"A", "B"}
  BY OtherPeer DEF Peers, Other
<1>2. ASSUME NEW c \in Conns PROVE
        IF c \in S
        THEN /\ chan'[c] = [chan[c] EXCEPT ![p] = << >>]
             /\ chan'[c][p] = << >> /\ chan'[c][Other(p)] = chan[c][Other(p)]
             /\ end'[c][p] = "closed" /\ end'[c] \in [Peers -> Ends]
             /\ end[c][Other(p)] # "up" => end'[c][Other(p)] = end[c][Other(p)]
             /\ end[c][Other(p)] = "up" => end'[c][Other(p)] \in {"dying", "fin"}
        ELSE chan'[c] = chan[c] /\ end'[c] = end[c]
  <2> DEFINE q == Other(p)
             reset == chan[c][p] # << >> \/ c \in Range(backlog[p])
             old == end[c][q]
             new == IF old # "up" THEN old ELSE IF reset THEN "dying" ELSE "fin"
  <2>1. chan'[c] = IF c \in S THEN [chan[c] EXCEPT ![p] = << >>] ELSE chan[c]
    BY DEF HangUp
  <2>2. end'[c] = IF c \notin S THEN end[c]
                  ELSE [end[c] EXCEPT ![p] = "closed", ![q] = new]
    BY <1>1 DEF HangUp, TcpInv
  <2>3. chan[c] = [r \in Peers |-> chan[c][r]] /\ end[c] \in [Peers -> Ends]
    BY DEF TcpInv
  <2>4. new \in Ends /\ "closed" \in Ends
    BY <1>1, <2>3 DEF Ends
  <2>5. q \in Peers /\ q # p /\ (old # "up" => new = old)
        /\ (old = "up" => new \in {"dying", "fin"})
    BY <1>1
  <2> HIDE DEF new
  <2> QED BY <1>1, <2>1, <2>2, <2>3, <2>4, <2>5
<1>3. /\ chan' = [c \in Conns |-> [r \in Peers |-> chan'[c][r]]]
      /\ end' \in [Conns -> [Peers -> Ends]]
  <2>1. end' \in [Conns -> [Peers -> Ends]]
    BY <1>2 DEF HangUp, TcpInv
  <2>2. chan' = [c \in Conns |-> chan'[c]]
    BY DEF HangUp
  <2>3. ASSUME NEW c \in Conns PROVE chan'[c] = [r \in Peers |-> chan'[c][r]]
    BY <1>2 DEF TcpInv
  <2> QED BY <2>1, <2>2, <2>3
<1>4. EndsInv'
  <2> SUFFICES ASSUME NEW c \in Conns
               PROVE  /\ (end'[c]["A"] = "up") <=> (end'[c]["B"] = "up")
                      /\ c > sessions => \A r \in Peers : chan'[c][r] = << >>
    BY DEF EndsInv
  <2>1. /\ (end[c]["A"] = "up") <=> (end[c]["B"] = "up")
        /\ c > sessions => \A r \in Peers : chan[c][r] = << >>
    BY DEF EndsInv, TcpInv
  <2>2. CASE c \in S
    <3>1. end'[c][p] # "up" /\ end'[c][Other(p)] # "up"
      BY <1>2, <2>2
    <3>2. chan'[c][p] = << >> /\ chan'[c][Other(p)] = chan[c][Other(p)]
      BY <1>2, <2>2
    <3> QED BY <1>1, <2>1, <3>1, <3>2
  <2>3. CASE c \notin S
    BY <1>2, <2>1, <2>3
  <2> QED BY <2>2, <2>3
<1>5. ASSUME NEW c \in Conns PROVE Weaker(c)
  BY <1>1, <1>2, <1>4 DEF Weaker, OpenEnds, EndsInv, TcpInv
<1> QED BY <1>3, <1>4, <1>5 DEF TcpInv

\* A call that fails on a dying end changes that connection only.
LEMMA BreakEndTcp ==
  ASSUME TcpInv, NEW p \in Peers, BreakEnd(p), sessions' = sessions,
         Conn(p) # 0 => Conn(p) \in Conns /\ end[Conn(p)][p] # "up"
  PROVE  TcpInv' /\ \A c \in Conns : Weaker(c)
<1>1. Peers = {"A", "B"}
  BY DEF Peers
<1>2. CASE Conn(p) = 0
  BY <1>2, SameTcp DEF BreakEnd, TcpInv, EndsInv, Weaker
<1>3. CASE Conn(p) # 0
  <2> DEFINE d == Conn(p)
  <2>1. d \in Conns /\ end[d][p] # "up"
    BY <1>3
  <2> HIDE DEF d
  <2>2. end' = [end EXCEPT ![d][p] = "dead"] /\ chan' = chan
    BY <1>3 DEF BreakEnd, d
  <2>3. end' \in [Conns -> [Peers -> Ends]]
    BY <2>1, <2>2 DEF TcpInv, Ends
  <2>4. \A c \in Conns, r \in Peers :
          end'[c][r] = IF c = d /\ r = p THEN "dead" ELSE end[c][r]
    BY <2>1, <2>2 DEF TcpInv
  <2>5. EndsInv'
    BY <1>1, <2>1, <2>2, <2>4 DEF EndsInv, TcpInv
  <2>6. TcpInv'
    BY <2>2, <2>3, <2>5 DEF TcpInv
  <2> QED BY <1>1, <2>1, <2>2, <2>4, <2>6 DEF Weaker, OpenEnds, TcpInv, EndsInv
<1> QED BY <1>2, <1>3

\* A send that succeeds changes the connection of p only.
LEMMA SendsTcp ==
  ASSUME TcpInv, NEW p \in Peers, NEW msgs, Sends(p, msgs), Conn(p) \in Conns,
         sessions' = sessions, Conn(p) <= sessions
  PROVE  /\ TcpInv'
         /\ \A c \in Conns : c # Conn(p) => Weaker(c)
         /\ end[Conn(p)][p] # "up" => Weaker(Conn(p))
         /\ end[Conn(p)][p] = "up" =>
              /\ end' = end
              /\ chan'[Conn(p)][p] = chan[Conn(p)][p]
              /\ chan'[Conn(p)][Other(p)] = chan[Conn(p)][Other(p)] \o msgs
         /\ end[Conn(p)][p] \in OpenEnds
<1> DEFINE d == Conn(p)
<1>1. d \in Conns /\ d <= sessions
  OBVIOUS
<1>2. end[d][p] \in {"up", "fin", "dying"}
  BY DEF Sends
<1>3. CASE end[d][p] = "up"
  <2>1. chan' = [chan EXCEPT ![d][Other(p)] = @ \o msgs] /\ end' = end
    BY <1>3 DEF Sends
  <2> HIDE DEF d
  <2>2. \A c \in Conns, r \in Peers :
          chan'[c][r] = IF c = d /\ r = Other(p) THEN chan[c][r] \o msgs
                        ELSE chan[c][r]
    BY <1>1, <2>1, OtherPeer DEF TcpInv
  <2>3. chan' = [c \in Conns |-> [r \in Peers |-> chan'[c][r]]]
    <3>1. chan = [c \in Conns |-> chan[c]] /\ chan[d] = [r \in Peers |-> chan[d][r]]
      BY <1>1 DEF TcpInv
    <3>2. chan' = [c \in Conns |-> chan'[c]]
      BY <2>1, <3>1
    <3>3. ASSUME NEW c \in Conns PROVE chan'[c] = [r \in Peers |-> chan'[c][r]]
      <4>1. chan[c] = [r \in Peers |-> chan[c][r]]
        BY DEF TcpInv
      <4>2. chan'[c] = IF c = d THEN [chan[c] EXCEPT ![Other(p)] = @ \o msgs]
                       ELSE chan[c]
        BY <1>1, <2>1, <3>1
      <4> QED BY <4>1, <4>2
    <3> QED BY <3>2, <3>3
  <2>4. TcpInv'
    BY <1>1, <2>1, <2>2, <2>3 DEF TcpInv, EndsInv, Conns
  <2>5. \A c \in Conns : c # d => Weaker(c)
    BY <2>1, <2>2 DEF Weaker
  <2>6. chan'[d][p] = chan[d][p] /\ chan'[d][Other(p)] = chan[d][Other(p)] \o msgs
    BY <1>1, <2>2, OtherPeer
  <2> QED BY <1>1, <1>2, <1>3, <2>1, <2>4, <2>5, <2>6 DEF d, OpenEnds
<1>4. CASE end[d][p] # "up"
  <2>1. chan' = chan /\ end' = [end EXCEPT ![d][p] = "dying"]
    BY <1>4 DEF Sends
  <2> HIDE DEF d
  <2>2. end' \in [Conns -> [Peers -> Ends]]
    BY <1>1, <2>1 DEF TcpInv, Ends
  <2>3. \A c \in Conns, r \in Peers :
          end'[c][r] = IF c = d /\ r = p THEN "dying" ELSE end[c][r]
    BY <1>1, <2>1 DEF TcpInv
  <2>4. EndsInv'
    BY <1>1, <1>4, <2>1, <2>3 DEF EndsInv, TcpInv, Peers
  <2>5. TcpInv' /\ \A c \in Conns : Weaker(c)
    BY <1>1, <1>2, <1>4, <2>1, <2>2, <2>3, <2>4
    DEF TcpInv, Weaker, OpenEnds, EndsInv, Peers
  <2> QED BY <1>1, <1>2, <1>4, <2>5 DEF d, OpenEnds
<1> QED BY <1>3, <1>4

\* A receive takes one message from the connection of p only.
LEMMA TakeTcp ==
  ASSUME TcpInv, NEW p \in Peers, Arrived(p), Take(p), Conn(p) \in Conns,
         Conn(p) <= sessions, sessions' = sessions
  PROVE  /\ TcpInv' /\ end' = end
         /\ \A c \in Conns : c # Conn(p) => Weaker(c)
         /\ chan'[Conn(p)][p] = Tail(chan[Conn(p)][p])
         /\ chan'[Conn(p)][Other(p)] = chan[Conn(p)][Other(p)]
<1> DEFINE d == Conn(p)
<1>1. d \in Conns /\ d <= sessions
  OBVIOUS
<1>2. chan' = [chan EXCEPT ![d][p] = Tail(@)] /\ end' = end
  BY DEF Take
<1> HIDE DEF d
<1>3. \A c \in Conns, r \in Peers :
        chan'[c][r] = IF c = d /\ r = p THEN Tail(chan[c][r]) ELSE chan[c][r]
  BY <1>1, <1>2 DEF TcpInv
<1>4. chan' = [c \in Conns |-> [r \in Peers |-> chan'[c][r]]]
  BY <1>1, <1>2 DEF TcpInv
<1>5. TcpInv'
  BY <1>1, <1>2, <1>3, <1>4 DEF TcpInv, EndsInv, Conns
<1>6. \A c \in Conns : c # d => Weaker(c)
  BY <1>2, <1>3 DEF Weaker
<1> QED BY <1>1, <1>2, <1>3, <1>5, <1>6, OtherPeer DEF d

-----------------------------------------------------------------------------
(* The control of a peer, for every action.                                *)

\* The invariant of the connections, from that of the peers.
LEMMA TypesOfTcp ==
  ASSUME TypeInv, EndsInv
  PROVE  /\ TcpInv
         /\ \A p \in Peers : Conn(p) \in 0 .. MaxSessions
         /\ \A p \in Peers : Conn(p) # 0 => Conn(p) \in Conns
<1>1. TcpInv
  BY DEF TypeInv, TcpInv
<1>2. ASSUME NEW p \in Peers PROVE Conn(p) = 0 \/ Conn(p) \in Conns
  <2>1. network_socket[p] \in Entries \cup {NULL}
        /\ \A e \in Entries : socket_pool[p][e] \in Conns \cup {LISTEN, FREE}
    BY DEF TypeInv
  <2> QED BY <2>1 DEF Conn, NULL, LISTEN, FREE
<1> QED BY <1>1, <1>2, Bounds DEF Conns

\* The connection of a peer has been made.
LEMMA ConnMade ==
  ASSUME TypeInv, PeerInv, NEW p \in Peers, Conn(p) # 0
  PROVE  /\ Conn(p) \in 1 .. sessions
         /\ network_socket[p] \in Entries
         /\ socket_pool[p][network_socket[p]] = Conn(p)
         /\ Conn(p) \notin Range(backlog[p])
<1>1. network_socket[p] \in Entries \cup {NULL}
      /\ \A e \in Entries : socket_pool[p][e] \in Conns \cup {LISTEN, FREE}
  BY DEF TypeInv
<1>2. /\ network_socket[p] \in Entries /\ socket_pool[p][network_socket[p]] = Conn(p)
      /\ Conn(p) \in Conns
  BY <1>1 DEF Conn, NULL, LISTEN, FREE
<1> QED BY <1>2 DEF PeerInv, Pool, Entry, Conns

\* A peer whose variables did not change keeps its invariant, also when a
\* connection was added to its backlog.
LEMMA SamePeer ==
  ASSUME TypeInv, PeerInv, NEW r \in Peers, Mine(r)' = Mine(r),
         sessions' \in Nat, sessions <= sessions',
         \/ backlog'[r] = backlog[r]
         \/ /\ backlog'[r] = Append(backlog[r], sessions + 1)
            /\ sessions' = sessions + 1
  PROVE  ControlInv(r)' /\ Pool(r)' /\ Conn(r)' = Conn(r)
<1>1. /\ network_mode'[r] = network_mode[r] /\ network_socket'[r] = network_socket[r]
      /\ listen_socket'[r] = listen_socket[r] /\ socket_pool'[r] = socket_pool[r]
      /\ packets'[r] = packets[r] /\ trap'[r] = trap[r] /\ pc'[r] = pc[r]
  BY DEF Mine
<1>2. Conn(r)' = Conn(r)
  BY <1>1 DEF Conn
<1>3. ControlInv(r)'
  BY <1>1, <1>2 DEF PeerInv, ControlInv, connected
<1>4. Pool(r) /\ backlog[r] \in Seq(1 .. sessions) /\ sessions \in Nat
  BY DEF PeerInv, TypeInv
<1>5. CASE backlog'[r] = backlog[r]
  <2>1. ASSUME NEW e \in Entries PROVE Entry(r, e)'
    <3>1. Entry(r, e)
      BY <1>4 DEF Pool
    <3>2. socket_pool[r][e] \in Conns => socket_pool[r][e] \in Int
      BY DEF Conns
    <3> QED BY <1>1, <1>4, <1>5, <3>1, <3>2 DEF Entry
  <2> QED BY <1>2, <1>3, <1>4, <1>5, <2>1 DEF Pool
<1>6. CASE /\ backlog'[r] = Append(backlog[r], sessions + 1)
           /\ sessions' = sessions + 1
  <2> DEFINE new == Append(backlog[r], sessions + 1)
  <2>1. /\ Len(new) = Len(backlog[r]) + 1 /\ Len(backlog[r]) \in Nat
        /\ \A i \in 1 .. Len(backlog[r]) : new[i] = backlog[r][i]
        /\ new[Len(backlog[r]) + 1] = sessions + 1
        /\ DOMAIN new = 1 .. Len(new) /\ DOMAIN backlog[r] = 1 .. Len(backlog[r])
        /\ \A i \in 1 .. Len(backlog[r]) : backlog[r][i] <= sessions
    BY <1>4
  <2>2. backlog'[r] = new
    BY <1>6
  <2> HIDE DEF new
  <2>3. \A x \in Range(new) : x = sessions + 1 \/ x \in Range(backlog[r])
    BY <2>1 DEF Range
  <2>4. Distinct(new)
    <3> SUFFICES ASSUME NEW i \in 1 .. Len(new), NEW j \in 1 .. Len(new),
                        new[i] = new[j]
                 PROVE  i = j
      BY DEF Distinct
    <3>1. \A a, b \in 1 .. Len(backlog[r]) : backlog[r][a] = backlog[r][b] => a = b
      BY <1>4 DEF Pool, Distinct
    <3>2. \A a \in 1 .. Len(new) : a = Len(backlog[r]) + 1 \/ a \in 1 .. Len(backlog[r])
      BY <2>1
    <3>3. \A a \in 1 .. Len(backlog[r]) : new[a] # sessions + 1
      BY <1>4, <2>1
    <3> QED BY <2>1, <3>1, <3>2, <3>3
  <2>5. ASSUME NEW e \in Entries PROVE Entry(r, e)'
    <3>1. Entry(r, e)
      BY <1>4 DEF Pool
    <3>2. socket_pool[r][e] \in Conns => socket_pool[r][e] \in Int
      BY DEF Conns
    <3>3. socket_pool[r][e] \in Conns =>
            socket_pool[r][e] <= sessions + 1 /\ socket_pool[r][e] \notin Range(new)
      BY <1>4, <2>3, <3>1, <3>2 DEF Entry
    <3> QED BY <1>1, <1>6, <2>2, <3>1, <3>3 DEF Entry
  <2> QED BY <1>2, <1>3, <2>2, <2>4, <2>5 DEF Pool
<1> QED BY <1>5, <1>6

\* A process that ends closes all its sockets.
LEMMA GoneStep ==
  ASSUME TypeInv, PeerInv, EndsInv, NEW p \in Peers, Gone(p),
         sessions' = sessions, packets' = packets
  PROVE  /\ TcpInv' /\ \A c \in Conns : Weaker(c)
         /\ Conn(p)' = 0 /\ ControlInv(p)' /\ Pool(p)'
         /\ network_mode' \in [Peers -> Modes] /\ pc' \in [Peers -> Places]
         /\ trap' \in [Peers -> Traps]
         /\ backlog' \in [Peers -> Seq(1 .. sessions)]
         /\ backlog'[p] = << >>
         /\ backlog'[Other(p)] = backlog[Other(p)]
         /\ socket_pool' \in [Peers -> [Entries -> Conns \cup {LISTEN, FREE}]]
         /\ network_socket' = network_socket /\ listen_socket' = listen_socket
<1>1. TcpInv' /\ \A c \in Conns : Weaker(c)
  BY TypesOfTcp, HangUpTcp DEF Gone
<1>2. /\ network_mode' \in [Peers -> Modes] /\ pc' \in [Peers -> Places]
      /\ trap' \in [Peers -> Traps]
      /\ network_mode'[p] = "GONE" /\ pc'[p] = "gone" /\ trap'[p] = "none"
  BY DEF Gone, TypeInv, Modes, Places, Traps
<1>3. /\ socket_pool' \in [Peers -> [Entries -> Conns \cup {LISTEN, FREE}]]
      /\ \A e \in Entries : socket_pool'[p][e] = FREE
  BY DEF Gone, TypeInv
<1>4. /\ backlog' \in [Peers -> Seq(1 .. sessions)]
      /\ backlog'[p] = << >> /\ backlog'[Other(p)] = backlog[Other(p)]
  BY OtherPeer DEF Gone, TypeInv
<1>5. network_socket' = network_socket /\ listen_socket' = listen_socket
      /\ network_socket[p] \in Entries \cup {NULL}
  BY DEF Gone, TypeInv
<1>6. Conn(p)' = 0
  BY <1>3, <1>5 DEF Conn, NULL
<1>7. ControlInv(p)'
  BY <1>2, <1>6 DEF ControlInv
<1>8. Pool(p)'
  BY <1>3, <1>4 DEF Pool, Entry, Distinct, FREE, LISTEN, Conns
<1> QED BY <1>1, <1>2, <1>3, <1>4, <1>5, <1>6, <1>7, <1>8

\* network_disconnect() ends the process or closes its sockets, and leaves no
\* connection behind network_socket.
LEMMA DisconnectStep ==
  ASSUME TypeInv, PeerInv, EndsInv, NEW p \in Peers, NEW next \in Places,
         NEW then \in Traps, network_disconnect(p, next, then), next # "gone",
         pc[p] # "gone",
         then # "none" => next = "run",
         then \in {"none", "sync_test"} \/ then = trap[p], next \in {"run", "length"},
         sessions' = sessions, packets' = packets
  PROVE  /\ TcpInv' /\ \A c \in Conns : Weaker(c)
         /\ Conn(p)' = 0 /\ ControlInv(p)' /\ Pool(p)'
         /\ network_mode' \in [Peers -> Modes] /\ pc' \in [Peers -> Places]
         /\ trap' \in [Peers -> Traps]
         /\ backlog' \in [Peers -> Seq(1 .. sessions)]
         /\ backlog'[p] = << >> \/ backlog'[p] = backlog[p]
         /\ backlog'[Other(p)] = backlog[Other(p)]
         /\ socket_pool' \in [Peers -> [Entries -> Conns \cup {LISTEN, FREE}]]
         /\ network_socket' = network_socket /\ listen_socket' = listen_socket
<1>1. CASE Gone(p)
  BY <1>1, GoneStep
<1>2. CASE ~Gone(p)
  <2> DEFINE closed == {network_socket[p], AlsoClosed(p)} \ {NULL}
             refs == {socket_pool[p][e] : e \in closed}
             S == (refs \cap Conns)
                  \cup (IF LISTEN \in refs THEN Range(backlog[p]) ELSE {})
  <2>1. /\ HangUp(S, p)
        /\ backlog' = IF LISTEN \in refs THEN [backlog EXCEPT ![p] = << >>]
                      ELSE backlog
        /\ socket_pool' = [socket_pool EXCEPT ![p] = [e \in Entries |->
                             IF e \in closed THEN FREE ELSE @[e]]]
        /\ network_mode' = [network_mode EXCEPT
             ![p] = IF @ = "SERVER_CONNECTED" THEN "SERVER" ELSE "IDLE"]
        /\ pc' = [pc EXCEPT ![p] = next]
        /\ trap' = [trap EXCEPT ![p] = then]
        /\ UNCHANGED <<network_socket, listen_socket>>
    BY <1>2 DEF network_disconnect
  <2> HIDE DEF S, refs
  <2>2. TcpInv' /\ \A c \in Conns : Weaker(c)
    BY <2>1, TypesOfTcp, HangUpTcp
  <2>3. /\ network_mode' \in [Peers -> Modes] /\ pc' \in [Peers -> Places]
        /\ trap' \in [Peers -> Traps]
        /\ network_mode'[p] = IF network_mode[p] = "SERVER_CONNECTED"
                              THEN "SERVER" ELSE "IDLE"
        /\ pc'[p] = next /\ trap'[p] = then
    BY <2>1 DEF TypeInv, Modes
  <2>4. /\ socket_pool' \in [Peers -> [Entries -> Conns \cup {LISTEN, FREE}]]
        /\ \A e \in Entries :
             socket_pool'[p][e] = IF e \in closed THEN FREE ELSE socket_pool[p][e]
    BY <2>1 DEF TypeInv
  <2>5. /\ backlog' \in [Peers -> Seq(1 .. sessions)]
        /\ backlog'[p] = << >> \/ backlog'[p] = backlog[p]
        /\ backlog'[Other(p)] = backlog[Other(p)]
    BY <2>1, OtherPeer DEF TypeInv
  <2>6. network_socket' = network_socket /\ listen_socket' = listen_socket
        /\ network_socket[p] \in Entries \cup {NULL}
    BY <2>1 DEF TypeInv
  <2>7. Conn(p)' = 0
    BY <2>4, <2>6 DEF Conn, NULL
  <2>8. ControlInv(p)'
    BY <2>3, <2>7 DEF PeerInv, ControlInv
  <2>9. ASSUME NEW e \in Entries, socket_pool'[p][e] = LISTEN
        PROVE  e = listen_socket'[p] /\ network_mode'[p] = "SERVER"
    <3>1. e \notin closed /\ socket_pool[p][e] = LISTEN
      BY <2>4, <2>9 DEF LISTEN, FREE
    <3>2. e = listen_socket[p]
      BY <3>1 DEF PeerInv, Pool, Entry
    <3>3. e # NULL
      BY DEF Entries, NULL
    <3>4. network_mode[p] = "SERVER_CONNECTED"
      BY <3>1, <3>2, <3>3 DEF AlsoClosed
    <3> QED BY <2>3, <2>6, <3>2, <3>4
  <2>10. Pool(p)'
    <3>1. \A e \in Entries : socket_pool'[p][e] \in Conns =>
            socket_pool'[p][e] = socket_pool[p][e]
      BY <2>4 DEF Conns, FREE
    <3>2. Range(backlog'[p]) \subseteq Range(backlog[p])
      BY <2>5 DEF Range
    <3>3. ASSUME NEW e \in Entries PROVE Entry(p, e)'
      <4>1. Entry(p, e)
        BY DEF PeerInv, Pool
      <4> QED BY <2>9, <3>1, <3>2, <4>1 DEF Entry
    <3>4. Distinct(backlog'[p])
      BY <2>5 DEF PeerInv, Pool, Distinct
    <3> QED BY <3>3, <3>4 DEF Pool
  <2> QED BY <2>2, <2>3, <2>4, <2>5, <2>6, <2>7, <2>8, <2>10
<1> QED BY <1>1, <1>2

\* What the sockets of p have to do with each other when p is given an entry.
LEMMA RoomFor ==
  ASSUME TypeInv, PeerInv, NEW p \in Peers, NEW x \in Entries,
         \A e \in Entries : socket_pool[p][e] # x
  PROVE  FreeEntry(p) \in Entries /\ socket_pool[p][FreeEntry(p)] = FREE
<1> DEFINE f == socket_pool[p]
<1>1. f \in [Entries -> Conns \cup {LISTEN, FREE}]
  BY DEF TypeInv
<1>2. ASSUME NEW d \in Entries, NEW e \in Entries, f[d] = f[e], f[e] # FREE
      PROVE  d = e
  <2>1. Entry(p, d) /\ Entry(p, e)
    BY DEF PeerInv, Pool
  <2>2. CASE f[e] = LISTEN
    BY <1>2, <2>1, <2>2 DEF Entry
  <2>3. CASE f[e] \in Conns
    BY <1>2, <2>1, <2>3 DEF Entry
  <2> QED BY <1>1, <1>2, <2>2, <2>3
<1>3. \E e \in Entries : f[e] = FREE
  BY <1>1, <1>2, PoolHasRoom
<1> QED BY <1>3, FreeEntryFound

MineTypes ==
  /\ network_mode \in [Peers -> Modes]
  /\ network_socket \in [Peers -> Entries \cup {NULL}]
  /\ listen_socket \in [Peers -> Entries \cup {NULL}]
  /\ socket_pool \in [Peers -> [Entries -> Conns \cup {LISTEN, FREE}]]
  /\ suspended \in [Peers -> 0 .. 1]
  /\ packets \in [Peers -> 0 .. NUM_OF_TESTPACKETS]
  /\ trap \in [Peers -> Traps]
  /\ pc \in [Peers -> Places]
  /\ sessions \in 0 .. MaxSessions
  /\ backlog \in [Peers -> Seq(1 .. sessions)]
  /\ IsMap(frame_delta) /\ IsMap(frame_event_list)
  /\ frame_buffer_full \in [Peers -> BOOLEAN]
  /\ IsMap(current_frame) /\ IsMap(frame_to_play)
  /\ IsMap(machine) /\ IsMap(snapshotfilename)
  /\ IsMap(recorded) /\ IsMap(start)

\* The invariant of the control, from that of both peers.
LEMMA Combine ==
  ASSUME TypeInv, PeerInv, NEW p \in Peers, Step(p) \/ Environment(p),
         TcpInv', MineTypes', ControlInv(p)', Pool(p)', sessions <= sessions',
         \/ backlog'[Other(p)] = backlog[Other(p)]
         \/ /\ backlog'[Other(p)] = Append(backlog[Other(p)], sessions + 1)
            /\ sessions' = sessions + 1
  PROVE  BaseInv'
<1>1. TypeInv' /\ EndsInv'
  BY DEF TypeInv, MineTypes, TcpInv
<1>2. Mine(Other(p))' = Mine(Other(p))
  BY Untouched, OtherPeer
<1>3. sessions' \in Nat
  BY Bounds DEF MineTypes
<1>4. ControlInv(Other(p))' /\ Pool(Other(p))'
  BY <1>2, <1>3, OtherPeer, SamePeer
<1>5. PeerInv'
  BY <1>4, OtherPeer DEF PeerInv
<1> QED BY <1>1, <1>5 DEF BaseInv

\* The pool of p has a listening socket.
Listens(p) == \E e \in Entries : socket_pool[p][e] = LISTEN

\* Places at which an action that leaves the sockets alone goes on.
LEMMA ControlStep ==
  ASSUME TypeInv, PeerInv, NEW p \in Peers,
         network_socket' = network_socket, listen_socket' = listen_socket,
         socket_pool' = socket_pool, backlog' = backlog, sessions' = sessions,
         Listens(p) => network_mode'[p] \in {"SERVER", "SERVER_CONNECTED", "CLIENT"}
  PROVE  Pool(p)' /\ Conn(p)' = Conn(p)
<1>1. ASSUME NEW e \in Entries PROVE Entry(p, e)'
  <2>1. Entry(p, e)
    BY DEF PeerInv, Pool
  <2> QED BY <2>1 DEF Entry, Listens
<1>2. Distinct(backlog[p])
  BY DEF PeerInv, Pool
<1> QED BY <1>1, <1>2 DEF Pool, Conn, Distinct

\* A receive or a send that fails changes the connection of p only.
LEMMA FailTcp ==
  ASSUME TypeInv, EndsInv, NEW p \in Peers, sessions' = sessions,
         BreakEnd(p), Failing(p) \/ Dies(p)
  PROVE  TcpInv' /\ \A c \in Conns : Weaker(c)
<1>1. Conn(p) # 0 => Conn(p) \in Conns /\ end[Conn(p)][p] # "up"
  BY TypesOfTcp DEF Failing, Dies
<1> QED BY <1>1, TypesOfTcp, BreakEndTcp

\* network_start_server() keeps the invariant of the control.
LEMMA StartServerBase ==
  ASSUME BaseInv, NEW p \in Peers, network_start_server(p)
  PROVE  BaseInv'
<1>0. TypeInv /\ PeerInv /\ EndsInv /\ ControlInv(p) /\ Pool(p)
  BY DEF BaseInv, PeerInv
<1>1. TcpInv' /\ sessions' = sessions /\ sessions \in Nat /\ backlog' = backlog
  BY <1>0, TypesOfTcp, SameTcp DEF network_start_server, tcp, counters, TcpInv
<1>2. \A e \in Entries : socket_pool[p][e] # LISTEN
  BY <1>0 DEF Pool, Entry, network_start_server
<1>3. FreeEntry(p) \in Entries /\ socket_pool[p][FreeEntry(p)] = FREE
  <2>1. LISTEN \in Entries
    BY Bounds DEF LISTEN, Entries
  <2> QED BY <1>0, <1>2, <2>1, RoomFor
<1>4. MineTypes'
  <2>1. /\ network_mode' \in [Peers -> Modes]
        /\ listen_socket' \in [Peers -> Entries \cup {NULL}]
        /\ socket_pool' \in [Peers -> [Entries -> Conns \cup {LISTEN, FREE}]]
    <3>1. network_mode' \in [Peers -> Modes]
      BY <1>0 DEF network_start_server, TypeInv, Modes
    <3>2. listen_socket' \in [Peers -> Entries \cup {NULL}]
      BY <1>0, <1>3 DEF network_start_server, TypeInv
    <3>3. socket_pool' \in [Peers -> [Entries -> Conns \cup {LISTEN, FREE}]]
      <4>1. CASE UNCHANGED socket_pool
        BY <1>0, <4>1 DEF TypeInv
      <4>2. CASE socket_pool' = [socket_pool EXCEPT ![p][FreeEntry(p)] = LISTEN]
        BY <1>0, <1>3, <4>2 DEF TypeInv
      <4> QED BY <4>1, <4>2 DEF network_start_server
    <3> QED BY <3>1, <3>2, <3>3
  <2> QED BY <1>0, <2>1
          DEF network_start_server, config, ring, tcp, counters, history,
              TypeInv, MineTypes, IsMap
<1>5. ControlInv(p)' /\ Pool(p)'
  <2>1. CASE /\ listen_socket' = [listen_socket EXCEPT ![p] = FreeEntry(p)]
             /\ socket_pool' = [socket_pool EXCEPT ![p][FreeEntry(p)] = LISTEN]
             /\ network_mode' = [network_mode EXCEPT ![p] = "SERVER"]
    <3>1. /\ listen_socket'[p] = FreeEntry(p) /\ network_mode'[p] = "SERVER"
          /\ \A e \in Entries : socket_pool'[p][e] =
               IF e = FreeEntry(p) THEN LISTEN ELSE socket_pool[p][e]
      BY <1>0, <1>3, <2>1 DEF TypeInv
    <3>2. ASSUME NEW e \in Entries PROVE Entry(p, e)'
      <4>1. Entry(p, e)
        BY <1>0 DEF Pool
      <4>2. LISTEN \notin Conns
        BY DEF Conns, LISTEN
      <4> QED BY <1>1, <1>2, <1>3, <3>1, <4>1, <4>2 DEF Entry
    <3>3. Pool(p)'
      BY <1>0, <1>1, <3>2 DEF Pool, Distinct
    <3>4. Conn(p)' # 0 => Conn(p) # 0
      <4>1. network_socket' = network_socket /\ network_socket[p] \in Entries \cup {NULL}
        BY <1>0 DEF network_start_server, TypeInv
      <4> QED BY <3>1, <4>1 DEF Conn, LISTEN
    <3>5. ControlInv(p)'
      BY <1>0, <3>1, <3>4 DEF network_start_server, ControlInv, counters
    <3> QED BY <3>3, <3>5
  <2>2. CASE /\ listen_socket' = [listen_socket EXCEPT ![p] = NULL]
             /\ UNCHANGED <<socket_pool, network_mode>>
    <3>1. ASSUME NEW e \in Entries PROVE Entry(p, e)'
      BY <1>0, <1>1, <1>2, <2>2 DEF Pool, Entry
    <3>2. Pool(p)'
      BY <1>0, <1>1, <3>1 DEF Pool, Distinct
    <3> QED BY <1>0, <2>2, <3>2 DEF network_start_server, ControlInv, counters, Conn,
                                    connected
  <2> QED BY <2>1, <2>2 DEF network_start_server
<1> QED BY <1>0, <1>1, <1>4, <1>5, Combine DEF Environment

\* network_connect_client() keeps the invariant of the control.
LEMMA ConnectClientBase ==
  ASSUME BaseInv, NEW p \in Peers, network_connect_client(p)
  PROVE  BaseInv'
<1>0. TypeInv /\ PeerInv /\ EndsInv /\ ControlInv(p) /\ Pool(p) /\ sessions \in Nat
      /\ backlog[p] \in Seq(1 .. sessions)
  BY DEF BaseInv, PeerInv, TypeInv
<1> DEFINE c == sessions + 1
           q == Other(p)
<1>1. CASE Listening(q)
  <2>1. /\ network_socket' = [network_socket EXCEPT ![p] = FreeEntry(p)]
        /\ socket_pool' = [socket_pool EXCEPT ![p][FreeEntry(p)] = c]
        /\ backlog' = [backlog EXCEPT ![q] = Append(@, c)]
        /\ end' = [end EXCEPT ![c] = [r \in Peers |-> "up"]]
        /\ sessions' = c /\ chan' = chan
        /\ pc' = [pc EXCEPT ![p] = "snapshot"]
        /\ c \in Conns /\ c \in Entries
        /\ network_mode[p] = "IDLE" /\ trap[p] = "none"
        /\ UNCHANGED <<network_mode, trap, listen_socket, packets>>
    BY <1>0, <1>1, Bounds DEF network_connect_client, Conns, Entries
  <2> HIDE DEF c
  <2>2. ASSUME NEW e \in Entries PROVE socket_pool[p][e] # c
    <3>1. Entry(p, e)
      BY <1>0 DEF Pool
    <3> QED BY <1>0, <2>1, <3>1 DEF Entry, c
  <2>3. FreeEntry(p) \in Entries /\ socket_pool[p][FreeEntry(p)] = FREE
    BY <1>0, <2>1, <2>2, RoomFor
  <2>4. sessions' \in 0 .. MaxSessions /\ backlog' \in [Peers -> Seq(1 .. sessions')]
        /\ backlog'[q] = Append(backlog[q], c) /\ backlog'[p] = backlog[p]
    <3>1. \A r \in Peers : backlog[r] \in Seq(1 .. sessions')
      <4>1. 1 .. sessions \subseteq 1 .. sessions'
        BY <1>0, <2>1 DEF c
      <4> QED BY <1>0, <4>1, SeqMonotonic DEF TypeInv
    <3>2. c \in 1 .. sessions'
      BY <1>0, <2>1 DEF c
    <3> QED BY <1>0, <2>1, <3>1, <3>2, OtherPeer DEF TypeInv, Conns
  <2>5. MineTypes'
    BY <1>0, <1>1, <2>1, <2>3, <2>4
    DEF network_connect_client, config, ring, history, TypeInv, MineTypes, IsMap, Places
  <2>6. TcpInv'
    <3>1. end' \in [Conns -> [Peers -> Ends]]
      BY <1>0, <2>1 DEF TypeInv, Ends
    <3>2. \A d \in Conns : end'[d] = IF d = c THEN [r \in Peers |-> "up"] ELSE end[d]
      BY <1>0, <2>1 DEF TypeInv
    <3>3. EndsInv'
      BY <1>0, <2>1, <3>2 DEF EndsInv, Peers, Conns, c
    <3> QED BY <1>0, <2>1, <3>1, <3>3 DEF TypeInv, TcpInv, c
  <2>7. \A e \in Entries : socket_pool'[p][e] =
               IF e = FreeEntry(p) THEN c ELSE socket_pool[p][e]
    BY <1>0, <2>1, <2>3 DEF TypeInv
  <2>8. ASSUME NEW e \in Entries PROVE Entry(p, e)'
    <3>1. Entry(p, e)
      BY <1>0 DEF Pool
    <3>2. LISTEN # c
      BY <1>0 DEF LISTEN, c
    <3>3. c \notin Range(backlog[p])
      BY <1>0 DEF Range, c
    <3>4. \A x \in Conns : x <= sessions => x <= sessions'
      BY <1>0, <2>1 DEF c, Conns
    <3>5. c <= sessions'
      BY <1>0, <2>1 DEF c
    <3> QED BY <2>1, <2>2, <2>3, <2>4, <2>7, <3>1, <3>2, <3>3, <3>4, <3>5 DEF Entry
  <2>9. Pool(p)'
    BY <1>0, <2>4, <2>8 DEF Pool, Distinct
  <2>10. ControlInv(p)'
    <3>1. pc'[p] = "snapshot"
      BY <1>0, <2>1 DEF TypeInv
    <3> QED BY <1>0, <2>1, <3>1 DEF ControlInv
  <2>11. sessions <= sessions'
    BY <1>0, <2>1 DEF c
  <2> QED BY <1>0, <2>1, <2>4, <2>5, <2>6, <2>9, <2>10, <2>11, Combine
          DEF Environment, c
<1>2. CASE ~Listening(q)
  <2>1. /\ network_socket' = [network_socket EXCEPT ![p] = NULL]
        /\ UNCHANGED <<socket_pool, backlog, end, sessions, pc>>
        /\ chan' = chan /\ network_mode[p] = "IDLE" /\ trap[p] = "none"
        /\ UNCHANGED <<network_mode, trap, listen_socket, packets>> /\ pc[p] = "run"
    BY <1>2 DEF network_connect_client
  <2>2. TcpInv'
    BY <1>0, <2>1, TypesOfTcp, SameTcp DEF TcpInv
  <2>3. MineTypes'
    BY <1>0, <1>2, <2>1
    DEF network_connect_client, config, ring, history, TypeInv, MineTypes, IsMap
  <2>4. ASSUME NEW e \in Entries PROVE Entry(p, e)'
    BY <1>0, <2>1 DEF Pool, Entry
  <2>5. Pool(p)'
    BY <1>0, <2>1, <2>4 DEF Pool, Distinct
  <2>6. ControlInv(p)'
    BY <1>0, <2>1 DEF ControlInv
  <2> QED BY <1>0, <2>1, <2>2, <2>3, <2>5, <2>6, Combine DEF Environment
<1> QED BY <1>1, <1>2


\* Shapes that every handler keeps.
DataTypes ==
  /\ suspended \in [Peers -> 0 .. 1]
  /\ packets \in [Peers -> 0 .. NUM_OF_TESTPACKETS]
  /\ IsMap(frame_delta) /\ IsMap(frame_event_list)
  /\ frame_buffer_full \in [Peers -> BOOLEAN]
  /\ IsMap(current_frame) /\ IsMap(frame_to_play)
  /\ IsMap(machine) /\ IsMap(snapshotfilename)
  /\ IsMap(recorded) /\ IsMap(start)

\* A handler that opens and closes no socket keeps the invariant of the control
\* where it keeps that of its peer.
LEMMA DataStep ==
  ASSUME BaseInv, NEW p \in Peers, Step(p) \/ Environment(p)
  PROVE  DataTypes'
<1>0. /\ IsMap(frame_delta) /\ IsMap(frame_event_list) /\ IsMap(current_frame)
      /\ IsMap(frame_to_play) /\ IsMap(machine) /\ IsMap(snapshotfilename)
      /\ IsMap(recorded) /\ IsMap(start)
      /\ frame_buffer_full \in [Peers -> BOOLEAN]
      /\ suspended \in [Peers -> 0 .. 1]
      /\ packets \in [Peers -> 0 .. NUM_OF_TESTPACKETS]
      /\ NUM_OF_TESTPACKETS \in Nat
  BY Bounds DEF BaseInv, TypeInv
<1>1. ControlInv(p)
  BY DEF BaseInv, PeerInv
<1>2. ASSUME NEW delta, InitFrameEventList(p, delta) PROVE
        /\ IsMap(frame_delta)' /\ IsMap(frame_event_list)' /\ IsMap(current_frame)'
        /\ IsMap(frame_to_play)' /\ IsMap(recorded)' /\ IsMap(start)'
        /\ frame_buffer_full' \in [Peers -> BOOLEAN]
  BY <1>0, <1>2 DEF InitFrameEventList, IsMap
<1>3. ASSUME NEW list, NEW lists, PrepareNextFrame(p, list, lists) PROVE
        /\ IsMap(frame_event_list)' /\ IsMap(current_frame)'
        /\ IsMap(frame_to_play)' /\ IsMap(machine)'
  BY <1>0, <1>3 DEF PrepareNextFrame, IsMap
<1>4. CASE /\ UNCHANGED <<config, ring, history>> /\ UNCHANGED packets
           /\ IsMap(machine)' /\ IsMap(snapshotfilename)' /\ suspended' = suspended
  BY <1>0, <1>4 DEF config, ring, history, IsMap, DataTypes
<1>5. CASE network_start_server(p)
  BY <1>0, <1>4, <1>5 DEF network_start_server, IsMap
<1>6. CASE network_connect_client(p)
  BY <1>0, <1>4, <1>6 DEF network_connect_client, IsMap
<1>7. CASE ReceiveSnapshot(p)
  BY <1>0, <1>4, <1>7 DEF ReceiveSnapshot, IsMap
<1>8. CASE network_hook_accept(p)
  BY <1>0, <1>4, <1>8 DEF network_hook_accept, IsMap
<1>9. CASE network_server_connect_trap(p)
  BY <1>0, <1>9 DEF network_server_connect_trap, IsMap, DataTypes, config,
                           ring, history
<1>10. CASE network_client_connect_trap(p)
  BY <1>0, <1>4, <1>10 DEF network_client_connect_trap, IsMap
<1>11. CASE ReceiveSettings(p)
  BY <1>0, <1>11 DEF ReceiveSettings, IsMap, DataTypes, config, ring, history
<1>12. CASE TestSend(p)
  BY <1>0, <1>2, <1>12 DEF TestSend, TestUnchanged, IsMap, DataTypes, config,
                           ring, history
<1>13. ASSUME pc[p] \in {"test_wait", "test_echo"},
              packets' = [packets EXCEPT ![p] = @ - 1]
       PROVE  packets' \in [Peers -> 0 .. NUM_OF_TESTPACKETS]
  BY <1>0, <1>1, <1>13 DEF ControlInv
<1>14. CASE TestWait(p)
  <2>1. packets' \in [Peers -> 0 .. NUM_OF_TESTPACKETS]
    BY <1>0, <1>13, <1>14 DEF TestWait
  <2> QED BY <1>0, <1>2, <1>14, <2>1
          DEF TestWait, TestUnchanged, IsMap, DataTypes, config, ring, history
<1>15. CASE TestDelta(p)
  BY <1>0, <1>2, <1>15 DEF TestDelta, TestUnchanged, IsMap, DataTypes, config,
                           ring, history
<1>16. CASE TestEcho(p)
  <2>1. packets' \in [Peers -> 0 .. NUM_OF_TESTPACKETS]
    BY <1>0, <1>13, <1>16 DEF TestEcho
  <2> QED BY <1>0, <1>2, <1>16, <2>1
          DEF TestEcho, TestUnchanged, IsMap, DataTypes, config, ring, history
<1>17. CASE TestReceive(p)
  BY <1>0, <1>2, <1>17 DEF TestReceive, TestUnchanged, IsMap, DataTypes, config,
                           ring, history
<1>18. CASE \E type \in Types : network_event_record(p, type)
  BY <1>0, <1>18 DEF network_event_record, RecordInList, IsMap, DataTypes, ring,
                     history
<1>19. CASE network_event_record_sync_test(p)
  BY <1>0, <1>19 DEF network_event_record_sync_test, RecordInList, IsMap,
                     DataTypes, ring, history
<1>20. CASE network_suspend(p)
  BY <1>0, <1>20 DEF network_suspend, IsMap, DataTypes, config, ring, history
<1>21. CASE network_hook(p)
  <2>1. BufferFull(p) \in BOOLEAN
    BY <1>0 DEF BufferFull
  <2>2. frame_buffer_full' \in [Peers -> BOOLEAN]
    BY <1>0, <1>21, <2>1 DEF network_hook
  <2>3. suspended' \in [Peers -> 0 .. 1] /\ packets' = packets
    BY <1>0, <1>21 DEF network_hook
  <2>4. IsMap(recorded)' /\ IsMap(start)' /\ IsMap(frame_delta)'
        /\ IsMap(snapshotfilename)'
    <3>1. UNCHANGED <<frame_delta, snapshotfilename, start>>
      BY <1>21 DEF network_hook
    <3>2. IsMap(recorded)'
      <4>1. PICK x : recorded' = [recorded EXCEPT ![p] = Append(@, x)]
        BY <1>21 DEF network_hook
      <4> QED BY <1>0, <4>1 DEF IsMap
    <3> QED BY <1>0, <3>1, <3>2 DEF IsMap
  <2>5. IsMap(frame_event_list)' /\ IsMap(current_frame)'
        /\ IsMap(frame_to_play)' /\ IsMap(machine)'
    BY <1>0, <1>3, <1>21 DEF network_hook, IsMap
  <2> QED BY <1>0, <2>2, <2>3, <2>4, <2>5 DEF DataTypes
<1>22. CASE CrashInHook(p)
  BY <1>0, <1>4, <1>22 DEF CrashInHook, IsMap
<1>23. CASE ReceiveLength(p)
  BY <1>0, <1>23 DEF ReceiveLength, IsMap, DataTypes, config, ring, history
<1>24. CASE ReceiveList(p)
  <2>1. IsMap(frame_event_list)' /\ IsMap(current_frame)'
        /\ IsMap(frame_to_play)' /\ IsMap(machine)'
    BY <1>0, <1>3, <1>24 DEF ReceiveList, IsMap
  <2> QED BY <1>0, <1>24, <2>1 DEF ReceiveList, IsMap, DataTypes, history
<1>25. CASE UserDisconnect(p)
  BY <1>0, <1>4, <1>25 DEF UserDisconnect, IsMap
<1>26. CASE Exit(p)
  BY <1>0, <1>4, <1>26 DEF Exit, IsMap
<1> QED
  BY <1>5, <1>6, <1>7, <1>8, <1>9, <1>10, <1>11, <1>12, <1>14, <1>15,
     <1>16, <1>17, <1>18, <1>19, <1>20, <1>21, <1>22, <1>23, <1>24, <1>25, <1>26
  DEF Step, Environment

\* The types of what a handler may change of its sockets and its control.
SocketTypes ==
  /\ network_mode \in [Peers -> Modes]
  /\ network_socket \in [Peers -> Entries \cup {NULL}]
  /\ listen_socket \in [Peers -> Entries \cup {NULL}]
  /\ socket_pool \in [Peers -> [Entries -> Conns \cup {LISTEN, FREE}]]
  /\ trap \in [Peers -> Traps]
  /\ pc \in [Peers -> Places]
  /\ backlog \in [Peers -> Seq(1 .. sessions)]

\* What no new connection changes.
LEMMA SameSessions ==
  ASSUME BaseInv, NEW p \in Peers, Step(p) \/ Environment(p),
         TcpInv', SocketTypes', ControlInv(p)', Pool(p)', sessions' = sessions,
         backlog'[Other(p)] = backlog[Other(p)]
  PROVE  BaseInv'
<1>1. DataTypes'
  BY DataStep
<1>2. TypeInv /\ PeerInv /\ sessions \in 0 .. MaxSessions
  BY DEF BaseInv, TypeInv
<1>3. MineTypes'
  BY <1>1, <1>2 DEF MineTypes, DataTypes, SocketTypes
<1>4. sessions <= sessions'
  BY <1>2
<1> QED BY <1>2, <1>3, <1>4, Combine

\* ... and of its control alone.
ControlTypes ==
  network_mode \in [Peers -> Modes] /\ trap \in [Peers -> Traps]
  /\ pc \in [Peers -> Places]

\* With the same sockets, the connection and the pool are the same.
LEMMA SameSockets ==
  ASSUME BaseInv, NEW p \in Peers, Step(p) \/ Environment(p),
         TcpInv', ControlTypes', ControlInv(p)',
         UNCHANGED <<sockets, backlog, sessions>>,
         Listens(p) => network_mode'[p] \in {"SERVER", "SERVER_CONNECTED", "CLIENT"}
  PROVE  BaseInv'
<1>1. TypeInv /\ PeerInv
  BY DEF BaseInv
<1>2. SocketTypes'
  BY <1>1 DEF TypeInv, SocketTypes, ControlTypes, sockets
<1>3. Pool(p)'
  BY <1>1, ControlStep DEF sockets
<1> QED BY <1>2, <1>3, SameSessions

\* A mode and a trap other than those of a waiting server.
LEMMA NoListener ==
  ASSUME BaseInv, NEW p \in Peers, Listens(p)
  PROVE  network_mode[p] \in {"SERVER", "SERVER_CONNECTED", "CLIENT"}
BY DEF BaseInv, PeerInv, Pool, Entry, Listens

\* What the invariant of the control says of one peer.
LEMMA ConnFacts ==
  ASSUME BaseInv, NEW p \in Peers
  PROVE  /\ TypeInv /\ PeerInv /\ EndsInv /\ ControlInv(p) /\ Pool(p) /\ TcpInv
         /\ Conn(p) # 0 => Conn(p) \in Conns /\ Conn(p) <= sessions
         /\ sessions \in Nat /\ sessions <= MaxSessions
         /\ network_mode[p] \in Modes /\ trap[p] \in Traps /\ pc[p] \in Places
         /\ packets[p] \in 0 .. NUM_OF_TESTPACKETS /\ NUM_OF_TESTPACKETS \in Nat \ {0}
<1>1. TypeInv /\ PeerInv /\ EndsInv
  BY DEF BaseInv
<1>2. TcpInv /\ (Conn(p) # 0 => Conn(p) \in Conns)
  BY <1>1, TypesOfTcp
<1>3. sessions \in 0 .. MaxSessions
  BY <1>1 DEF TypeInv
<1>4. Conn(p) # 0 => Conn(p) \in 1 .. sessions
  BY <1>1, ConnMade
<1>5. ControlInv(p) /\ Pool(p)
  BY <1>1 DEF PeerInv
<1>6. network_mode[p] \in Modes /\ trap[p] \in Traps /\ pc[p] \in Places
      /\ packets[p] \in 0 .. NUM_OF_TESTPACKETS
  BY <1>1 DEF TypeInv
<1> QED BY <1>1, <1>2, <1>3, <1>4, <1>5, <1>6, Bounds

\* Whatever p does with its connection, the others get no better.
LEMMA CallTcp ==
  ASSUME BaseInv, NEW p \in Peers, sessions' = sessions,
         \/ \E msgs : Sends(p, msgs)
         \/ Arrived(p) /\ Take(p)
         \/ Fail(p)
         \/ Dies(p) /\ BreakEnd(p)
         \/ UNCHANGED <<chan, end>>
  PROVE  TcpInv' /\ \A c \in Conns : c # Conn(p) => Weaker(c)
<1>0. TypeInv /\ EndsInv /\ TcpInv
      /\ (Conn(p) # 0 => Conn(p) \in Conns /\ Conn(p) <= sessions)
      /\ sessions \in Nat
  BY ConnFacts
<1>1. ASSUME NEW msgs, Sends(p, msgs)
      PROVE  TcpInv' /\ \A c \in Conns : c # Conn(p) => Weaker(c)
  <2>1. Conn(p) # 0
    BY <1>1 DEF Sends
  <2> QED BY <1>0, <1>1, <2>1, SendsTcp
<1>2. CASE Arrived(p) /\ Take(p)
  <2>1. Conn(p) # 0
    BY <1>2 DEF Arrived
  <2> QED BY <1>0, <1>2, <2>1, TakeTcp
<1>3. CASE Fail(p)
  BY <1>0, <1>3, FailTcp DEF Fail
<1>4. CASE Dies(p) /\ BreakEnd(p)
  BY <1>0, <1>4, FailTcp
<1>5. CASE UNCHANGED <<chan, end>>
  BY <1>0, <1>5, SameTcp
<1> QED BY <1>1, <1>2, <1>3, <1>4, <1>5

\* The receive of the snapshot keeps the invariant of the control.
LEMMA ReceiveSnapshotBase ==
  ASSUME BaseInv, NEW p \in Peers, ReceiveSnapshot(p)
  PROVE  BaseInv'
<1>0. /\ TypeInv /\ PeerInv /\ EndsInv /\ TcpInv /\ ControlInv(p) /\ Pool(p)
      /\ Conn(p) # 0 => Conn(p) \in Conns
  BY ConnFacts
<1>1. /\ pc[p] = "snapshot" /\ pc' = [pc EXCEPT ![p] = "run"]
      /\ UNCHANGED <<network_mode, network_socket, listen_socket, packets,
                     backlog, sessions>>
      /\ trap[p] = "none" /\ network_mode[p] = "IDLE"
  BY <1>0 DEF ReceiveSnapshot, Goto, ControlInv, counters
<1>2. pc'[p] = "run" /\ pc' \in [Peers -> Places]
  BY <1>0, <1>1 DEF TypeInv, Places
<1>3. CASE /\ Arrived(p) /\ Take(p)
           /\ trap' = [trap EXCEPT ![p] = "client_connect"]
           /\ UNCHANGED socket_pool
  <2>1. TcpInv'
    BY <1>1, <1>3, CallTcp
  <2>2. trap'[p] = "client_connect" /\ trap' \in [Peers -> Traps]
    BY <1>0, <1>3 DEF TypeInv, Traps
  <2>3. ControlTypes' /\ ControlInv(p)'
    BY <1>0, <1>1, <1>2, <2>2 DEF TypeInv, ControlTypes, ControlInv
  <2>4. ~Listens(p)
    BY <1>1, NoListener
  <2> QED BY <1>1, <1>3, <2>1, <2>3, <2>4, SameSockets DEF Step, sockets
<1>4. CASE /\ HangUp({Conn(p)} \ {0}, p)
           /\ socket_pool' = [socket_pool EXCEPT ![p][network_socket[p]] = FREE]
           /\ UNCHANGED trap
  <2>1. TcpInv'
    BY <1>0, <1>1, <1>4, HangUpTcp
  <2>2. /\ socket_pool' \in [Peers -> [Entries -> Conns \cup {LISTEN, FREE}]]
        /\ \A e \in Entries : socket_pool'[p][e] =
             IF e = network_socket[p] THEN FREE ELSE socket_pool[p][e]
    BY <1>0, <1>4 DEF TypeInv
  <2>3. SocketTypes'
    BY <1>0, <1>1, <1>2, <1>4, <2>2 DEF TypeInv, SocketTypes
  <2>4. ControlInv(p)'
    BY <1>0, <1>1, <1>2, <1>4 DEF ControlInv
  <2>5. ASSUME NEW e \in Entries PROVE Entry(p, e)'
    <3>1. Entry(p, e)
      BY <1>0 DEF Pool
    <3> QED BY <1>1, <2>2, <3>1 DEF Entry, FREE, LISTEN, Conns
  <2>6. Pool(p)'
    BY <1>0, <1>1, <2>5 DEF Pool, Distinct
  <2> QED BY <1>1, <2>1, <2>3, <2>4, <2>6, SameSessions DEF Step
<1> QED BY <1>3, <1>4 DEF ReceiveSnapshot

\* The accept in network_hook() keeps the invariant of the control.
LEMMA AcceptBase ==
  ASSUME BaseInv, NEW p \in Peers, network_hook_accept(p)
  PROVE  BaseInv'
<1>0. /\ TypeInv /\ PeerInv /\ EndsInv /\ TcpInv /\ ControlInv(p) /\ Pool(p)
      /\ sessions \in Nat /\ sessions <= MaxSessions
  BY ConnFacts
<1> DEFINE c == Head(backlog[p])
           s == backlog[p]
<1>1. /\ pc[p] = "run" /\ trap[p] = "none" /\ network_mode[p] = "SERVER"
      /\ s # << >>
      /\ network_socket' = [network_socket EXCEPT ![p] = FreeEntry(p)]
      /\ socket_pool' = [socket_pool EXCEPT ![p][FreeEntry(p)] = c]
      /\ backlog' = [backlog EXCEPT ![p] = Tail(@)]
      /\ trap' = [trap EXCEPT ![p] = "server_connect"]
      /\ UNCHANGED <<network_mode, listen_socket, packets, pc, chan, end, sessions>>
  BY DEF network_hook_accept, counters
<1>2. /\ s \in Seq(1 .. sessions) /\ Tail(s) \in Seq(1 .. sessions)
      /\ Len(s) \in Nat /\ Len(s) >= 1 /\ Len(Tail(s)) = Len(s) - 1
      /\ c = s[1] /\ c \in 1 .. sessions
      /\ \A i \in 1 .. Len(s) - 1 : Tail(s)[i] = s[i + 1]
      /\ DOMAIN s = 1 .. Len(s) /\ DOMAIN Tail(s) = 1 .. Len(s) - 1
  BY <1>0, <1>1 DEF TypeInv
<1>4. /\ backlog' \in [Peers -> Seq(1 .. sessions)] /\ backlog'[p] = Tail(s)
      /\ backlog'[Other(p)] = backlog[Other(p)]
  BY <1>0, <1>1, <1>2, OtherPeer DEF TypeInv
<1> HIDE DEF c, s
<1>3. c \in Conns /\ c \in Entries /\ c \in Range(s)
  <2>1. c \in Conns /\ c \in Entries
    BY <1>0, <1>2, Bounds DEF Conns, Entries
  <2>2. 1 \in DOMAIN s
    BY <1>2
  <2> QED BY <1>2, <2>1, <2>2 DEF Range
<1>5. Distinct(Tail(s)) /\ c \notin Range(Tail(s)) /\ Range(Tail(s)) \subseteq Range(s)
  <2>1. \A i, j \in 1 .. Len(s) : s[i] = s[j] => i = j
    BY <1>0 DEF Pool, Distinct, s
  <2>2. ASSUME NEW i \in 1 .. Len(s) - 1
        PROVE  i + 1 \in 1 .. Len(s) /\ i + 1 # 1 /\ Tail(s)[i] = s[i + 1]
    BY <1>2
  <2>3. ASSUME NEW i \in 1 .. Len(s) - 1, NEW j \in 1 .. Len(s) - 1,
               Tail(s)[i] = Tail(s)[j]
        PROVE  i = j
    BY <1>2, <2>1, <2>2, <2>3
  <2>4. 1 \in 1 .. Len(s)
    BY <1>2
  <2>5. \A i \in 1 .. Len(s) - 1 : Tail(s)[i] # c
    BY <1>2, <2>1, <2>2, <2>4
  <2> QED BY <1>2, <2>2, <2>3, <2>5 DEF Distinct, Range
<1>6. \A e \in Entries : socket_pool[p][e] # c
  <2> SUFFICES ASSUME NEW e \in Entries PROVE socket_pool[p][e] # c
    OBVIOUS
  <2>1. Entry(p, e)
    BY <1>0 DEF Pool
  <2> QED BY <1>3, <2>1 DEF Entry, s
<1>7. FreeEntry(p) \in Entries /\ socket_pool[p][FreeEntry(p)] = FREE
  BY <1>0, <1>3, <1>6, RoomFor
<1>8. /\ socket_pool' \in [Peers -> [Entries -> Conns \cup {LISTEN, FREE}]]
      /\ \A e \in Entries : socket_pool'[p][e] =
           IF e = FreeEntry(p) THEN c ELSE socket_pool[p][e]
  BY <1>0, <1>1, <1>3, <1>7 DEF TypeInv
<1>9. ASSUME NEW e \in Entries PROVE Entry(p, e)'
  <2>1. Entry(p, e)
    BY <1>0 DEF Pool
  <2>2. LISTEN \notin Conns
    BY DEF LISTEN, Conns
  <2>3. c <= sessions
    BY <1>2
  <2> QED BY <1>1, <1>3, <1>4, <1>5, <1>6, <1>7, <1>8, <2>1, <2>2, <2>3 DEF Entry, s
<1>10. Pool(p)'
  BY <1>4, <1>5, <1>9 DEF Pool
<1>11. trap' \in [Peers -> Traps] /\ trap'[p] = "server_connect"
  BY <1>0, <1>1 DEF TypeInv, Traps
<1>12. network_socket' \in [Peers -> Entries \cup {NULL}]
  BY <1>0, <1>1, <1>7 DEF TypeInv
<1>13. SocketTypes'
  BY <1>0, <1>1, <1>4, <1>8, <1>11, <1>12 DEF TypeInv, SocketTypes
<1>14. ControlInv(p)'
  BY <1>0, <1>1, <1>11 DEF ControlInv
<1>15. TcpInv'
  BY <1>1, CallTcp
<1> QED BY <1>1, <1>4, <1>10, <1>13, <1>14, <1>15, SameSessions DEF Step

\* network_server_connect_trap() keeps the invariant of the control.
LEMMA ServerTrapBase ==
  ASSUME BaseInv, NEW p \in Peers, network_server_connect_trap(p)
  PROVE  BaseInv'
<1>0. /\ TypeInv /\ ControlInv(p) /\ NUM_OF_TESTPACKETS \in Nat \ {0}
  BY ConnFacts
<1>1. /\ pc[p] = "run" /\ trap[p] = "server_connect"
      /\ trap' = [trap EXCEPT ![p] = "none"]
      /\ UNCHANGED <<sockets, backlog, sessions>>
  BY DEF network_server_connect_trap, counters
<1>2. trap'[p] = "none" /\ trap' \in [Peers -> Traps]
  BY <1>0, <1>1 DEF TypeInv, Traps
<1>3. TcpInv'
  <2>1. \/ \E msgs : Sends(p, msgs)
        \/ Fail(p)
        \/ Dies(p) /\ BreakEnd(p)
        \/ UNCHANGED <<chan, end>>
    BY DEF network_server_connect_trap
  <2> QED BY <1>1, <2>1, CallTcp
<1>4. \/ UNCHANGED <<network_mode, packets, pc>>
      \/ /\ network_mode' = [network_mode EXCEPT ![p] = "SERVER_CONNECTED"]
         /\ packets' = [packets EXCEPT ![p] = NUM_OF_TESTPACKETS]
         /\ pc' = [pc EXCEPT ![p] = "test_send"]
      \/ /\ network_mode' = [network_mode EXCEPT ![p] = "SERVER_CONNECTED"]
         /\ UNCHANGED <<packets, pc>>
  BY DEF network_server_connect_trap
<1>5. ControlTypes' /\ ControlInv(p)'
  <2>1. CASE UNCHANGED <<network_mode, packets, pc>>
    BY <1>0, <1>1, <1>2, <2>1 DEF TypeInv, ControlTypes, ControlInv
  <2>2. CASE /\ network_mode' = [network_mode EXCEPT ![p] = "SERVER_CONNECTED"]
             /\ packets' = [packets EXCEPT ![p] = NUM_OF_TESTPACKETS]
             /\ pc' = [pc EXCEPT ![p] = "test_send"]
    <3>1. /\ network_mode'[p] = "SERVER_CONNECTED" /\ pc'[p] = "test_send"
          /\ packets'[p] >= 1
          /\ network_mode' \in [Peers -> Modes] /\ pc' \in [Peers -> Places]
      BY <1>0, <2>2 DEF TypeInv, Modes, Places
    <3> QED BY <1>2, <3>1 DEF ControlTypes, ControlInv
  <2>3. CASE /\ network_mode' = [network_mode EXCEPT ![p] = "SERVER_CONNECTED"]
             /\ UNCHANGED <<packets, pc>>
    <3>1. /\ network_mode'[p] = "SERVER_CONNECTED" /\ pc'[p] = "run"
          /\ network_mode' \in [Peers -> Modes] /\ pc' \in [Peers -> Places]
      BY <1>0, <1>1, <2>3 DEF TypeInv, Modes, Places
    <3> QED BY <1>2, <3>1 DEF ControlTypes, ControlInv
  <2> QED BY <1>4, <2>1, <2>2, <2>3
<1>6. Listens(p) => network_mode'[p] \in {"SERVER", "SERVER_CONNECTED", "CLIENT"}
  <2>1. network_mode'[p] \in {network_mode[p], "SERVER_CONNECTED"}
    BY <1>0, <1>4 DEF TypeInv
  <2> QED BY <2>1, NoListener
<1> QED BY <1>1, <1>3, <1>5, <1>6, SameSockets DEF Step

\* network_client_connect_trap() keeps the invariant of the control.
LEMMA ClientTrapBase ==
  ASSUME BaseInv, NEW p \in Peers, network_client_connect_trap(p)
  PROVE  BaseInv'
<1>0. /\ TypeInv /\ ControlInv(p)
  BY ConnFacts
<1>1. /\ pc[p] = "run" /\ trap[p] = "client_connect"
      /\ trap' = [trap EXCEPT ![p] = "none"]
      /\ pc' = [pc EXCEPT ![p] = "settings"]
      /\ UNCHANGED <<sockets, backlog, sessions, network_mode, packets, chan, end>>
  BY DEF network_client_connect_trap, Goto, counters, tcp
<1>2. trap'[p] = "none" /\ trap' \in [Peers -> Traps]
      /\ pc'[p] = "settings" /\ pc' \in [Peers -> Places]
  BY <1>0, <1>1 DEF TypeInv, Traps, Places
<1>3. TcpInv'
  BY <1>1, CallTcp
<1>4. ControlTypes' /\ ControlInv(p)'
  BY <1>0, <1>1, <1>2 DEF TypeInv, ControlTypes, ControlInv
<1> QED BY <1>1, <1>3, <1>4, SameSockets, NoListener DEF Step

\* The receive of the settings keeps the invariant of the control.
LEMMA ReceiveSettingsBase ==
  ASSUME BaseInv, NEW p \in Peers, ReceiveSettings(p)
  PROVE  BaseInv'
<1>0. /\ TypeInv /\ ControlInv(p) /\ NUM_OF_TESTPACKETS \in Nat \ {0}
  BY ConnFacts
<1>1. /\ pc[p] = "settings" /\ trap' = trap /\ trap[p] = "none"
      /\ UNCHANGED <<sockets, backlog, sessions>>
  BY <1>0 DEF ReceiveSettings, counters, ControlInv
<1>2. TcpInv'
  <2>1. (Arrived(p) /\ Take(p)) \/ Fail(p)
    BY DEF ReceiveSettings
  <2> QED BY <1>1, <2>1, CallTcp
<1>3. \/ /\ network_mode' = [network_mode EXCEPT ![p] = "CLIENT"]
         /\ packets' = [packets EXCEPT ![p] = NUM_OF_TESTPACKETS]
         /\ pc' = [pc EXCEPT ![p] = "test_echo"]
      \/ pc' = [pc EXCEPT ![p] = "run"] /\ UNCHANGED <<network_mode, packets>>
  BY DEF ReceiveSettings
<1>4. ControlTypes' /\ ControlInv(p)'
  <2>1. CASE /\ network_mode' = [network_mode EXCEPT ![p] = "CLIENT"]
             /\ packets' = [packets EXCEPT ![p] = NUM_OF_TESTPACKETS]
             /\ pc' = [pc EXCEPT ![p] = "test_echo"]
    <3>1. /\ network_mode'[p] = "CLIENT" /\ pc'[p] = "test_echo"
          /\ packets'[p] >= 1
          /\ network_mode' \in [Peers -> Modes] /\ pc' \in [Peers -> Places]
      BY <1>0, <2>1 DEF TypeInv, Modes, Places
    <3> QED BY <1>0, <1>1, <3>1 DEF TypeInv, ControlTypes, ControlInv
  <2>2. CASE pc' = [pc EXCEPT ![p] = "run"] /\ UNCHANGED <<network_mode, packets>>
    <3>1. pc'[p] = "run" /\ pc' \in [Peers -> Places]
      BY <1>0, <2>2 DEF TypeInv, Places
    <3> QED BY <1>0, <1>1, <2>2, <3>1 DEF TypeInv, ControlTypes, ControlInv
  <2> QED BY <1>3, <2>1, <2>2
<1>5. Listens(p) => network_mode'[p] \in {"SERVER", "SERVER_CONNECTED", "CLIENT"}
  <2>1. network_mode'[p] \in {network_mode[p], "CLIENT"}
    BY <1>0, <1>3 DEF TypeInv
  <2> QED BY <2>1, NoListener
<1> QED BY <1>1, <1>2, <1>4, <1>5, SameSockets DEF Step

\* Where network_test_delay() ends.
LEMMA InitControl ==
  ASSUME BaseInv, NEW p \in Peers, NEW delta, InitFrameEventList(p, delta),
         connected(p), network_mode' = network_mode
  PROVE  ControlTypes' /\ ControlInv(p)'
<1>1. TypeInv
  BY DEF BaseInv
<1>2. /\ trap'[p] = "sync_test" /\ trap' \in [Peers -> Traps]
      /\ pc'[p] = "run" /\ pc' \in [Peers -> Places]
  BY <1>1 DEF InitFrameEventList, TypeInv, Traps, Places
<1> QED BY <1>1, <1>2 DEF ControlTypes, ControlInv, TypeInv, connected

\* The measurement of network_test_delay() keeps the invariant of the control:
\* a test packet is sent,
LEMMA TestSendBase ==
  ASSUME BaseInv, NEW p \in Peers, TestSend(p)
  PROVE  BaseInv'
<1>0. /\ TypeInv /\ ControlInv(p)
  BY ConnFacts
<1>1. /\ pc[p] = "test_send" /\ packets' = packets /\ connected(p)
      /\ UNCHANGED <<sockets, backlog, sessions, network_mode>>
      /\ network_mode[p] = "SERVER_CONNECTED" /\ packets[p] >= 1 /\ trap[p] = "none"
  BY <1>0 DEF TestSend, TestUnchanged, counters, ControlInv, connected
<1>2. TcpInv'
  <2>1. (\E msgs : Sends(p, msgs)) \/ Fail(p)
    BY DEF TestSend
  <2> QED BY <1>1, <2>1, CallTcp
<1>3. ControlTypes' /\ ControlInv(p)'
  <2>1. CASE pc' = [pc EXCEPT ![p] = "test_wait"] /\ trap' = trap
    <3>1. pc'[p] = "test_wait" /\ pc' \in [Peers -> Places]
      BY <1>0, <2>1 DEF TypeInv, Places
    <3> QED BY <1>0, <1>1, <2>1, <3>1 DEF TypeInv, ControlTypes, ControlInv
  <2>2. CASE InitFrameEventList(p, DEFAULT_DELTA)
    BY <1>1, <2>2, InitControl
  <2> QED BY <2>1, <2>2 DEF TestSend
<1> QED BY <1>1, <1>2, <1>3, SameSockets, NoListener DEF Step

\* ... it comes back,
LEMMA TestWaitBase ==
  ASSUME BaseInv, NEW p \in Peers, TestWait(p)
  PROVE  BaseInv'
<1>0. /\ TypeInv /\ ControlInv(p) /\ packets[p] \in 0 .. NUM_OF_TESTPACKETS
      /\ NUM_OF_TESTPACKETS \in Nat
  BY ConnFacts
<1>1. /\ pc[p] = "test_wait" /\ connected(p)
      /\ UNCHANGED <<sockets, backlog, sessions, network_mode>>
      /\ network_mode[p] = "SERVER_CONNECTED" /\ packets[p] >= 1 /\ trap[p] = "none"
  BY <1>0 DEF TestWait, TestUnchanged, counters, ControlInv, connected
<1>2. TcpInv'
  <2>1. (Arrived(p) /\ Take(p)) \/ Fail(p)
    BY DEF TestWait
  <2> QED BY <1>1, <2>1, CallTcp
<1>3. ControlTypes' /\ ControlInv(p)'
  <2>1. CASE /\ pc' = [pc EXCEPT ![p] = IF packets[p] = 1 THEN "test_delta"
                                        ELSE "test_send"]
             /\ packets' = [packets EXCEPT ![p] = @ - 1] /\ trap' = trap
    <3>1. pc'[p] = (IF packets[p] = 1 THEN "test_delta" ELSE "test_send")
          /\ pc' \in [Peers -> Places] /\ packets'[p] = packets[p] - 1
      BY <1>0, <2>1 DEF TypeInv, Places
    <3> QED BY <1>0, <1>1, <2>1, <3>1 DEF TypeInv, ControlTypes, ControlInv
  <2>2. CASE InitFrameEventList(p, DEFAULT_DELTA)
    BY <1>1, <2>2, InitControl
  <2> QED BY <2>1, <2>2 DEF TestWait, history, ring, config
<1> QED BY <1>1, <1>2, <1>3, SameSockets, NoListener DEF Step

\* ... frame_delta is sent,
LEMMA TestDeltaBase ==
  ASSUME BaseInv, NEW p \in Peers, TestDelta(p)
  PROVE  BaseInv'
<1>0. /\ TypeInv /\ ControlInv(p)
  BY ConnFacts
<1>1. /\ pc[p] = "test_delta" /\ connected(p)
      /\ UNCHANGED <<sockets, backlog, sessions, network_mode>>
      /\ network_mode[p] = "SERVER_CONNECTED"
  BY <1>0 DEF TestDelta, TestUnchanged, counters, ControlInv, connected
<1>2. TcpInv'
  <2>1. (\E msgs : Sends(p, msgs)) \/ Fail(p)
    BY DEF TestDelta
  <2> QED BY <1>1, <2>1, CallTcp
<1>3. ControlTypes' /\ ControlInv(p)'
  BY <1>1, InitControl DEF TestDelta
<1> QED BY <1>1, <1>2, <1>3, SameSockets, NoListener DEF Step

\* ... it is received by the client,
LEMMA TestReceiveBase ==
  ASSUME BaseInv, NEW p \in Peers, TestReceive(p)
  PROVE  BaseInv'
<1>0. /\ TypeInv /\ ControlInv(p)
  BY ConnFacts
<1>1. /\ pc[p] = "test_receive" /\ connected(p)
      /\ UNCHANGED <<sockets, backlog, sessions, network_mode>>
      /\ network_mode[p] = "CLIENT"
  BY <1>0 DEF TestReceive, TestUnchanged, counters, ControlInv, connected
<1>2. TcpInv'
  <2>1. (Arrived(p) /\ Take(p)) \/ Fail(p)
    BY DEF TestReceive
  <2> QED BY <1>1, <2>1, CallTcp
<1>3. ControlTypes' /\ ControlInv(p)'
  BY <1>1, InitControl DEF TestReceive
<1> QED BY <1>1, <1>2, <1>3, SameSockets, NoListener DEF Step

\* A packet that comes is sent back, or the end breaks.
LEMMA EchoTcp ==
  ASSUME BaseInv, NEW p \in Peers, sessions' = sessions, Arrived(p),
         IF end[Conn(p)][p] = "up"
         THEN /\ chan' = [chan EXCEPT ![Conn(p)] =
                            [r \in Peers |-> IF r = p THEN Tail(@[r]) ELSE @[r] \o Echo(p)]]
              /\ UNCHANGED end
         ELSE /\ chan' = [chan EXCEPT ![Conn(p)][p] = Tail(@)]
              /\ end' = [end EXCEPT ![Conn(p)][p] = "dying"]
  PROVE  /\ TcpInv' /\ \A c \in Conns : c # Conn(p) => Weaker(c)
         /\ chan'[Conn(p)][p] = Tail(chan[Conn(p)][p])
         /\ end[Conn(p)][p] = "up" =>
              /\ chan'[Conn(p)][Other(p)] = chan[Conn(p)][Other(p)] \o Echo(p)
              /\ end' = end
         /\ end[Conn(p)][p] # "up" =>
              /\ chan'[Conn(p)][Other(p)] = chan[Conn(p)][Other(p)]
              /\ end' = [end EXCEPT ![Conn(p)][p] = "dying"]
<1> DEFINE d == Conn(p)
           q == Other(p)
<1>1. /\ d \in Conns /\ d <= sessions /\ TcpInv
      /\ end[d][p] \in {"up", "fin", "dying"} /\ sessions \in Nat
  BY ConnFacts DEF Arrived
<1>2. q \in Peers /\ q # p /\ Peers = {p, q} /\ Peers = {"A", "B"}
  BY OtherPeer DEF Peers, Other
<1>3. CASE end[d][p] = "up"
  <2>1. /\ chan' = [chan EXCEPT ![d] = [r \in Peers |->
             IF r = p THEN Tail(@[r]) ELSE @[r] \o Echo(p)]]
        /\ end' = end
    BY <1>3
  <2>0. end[d][p] = "up"
    BY <1>3
  <2> HIDE DEF d, q
  <2>2. chan = [c \in Conns |-> chan[c]] /\ chan[d] = [r \in Peers |-> chan[d][r]]
    BY <1>1 DEF TcpInv
  <2>3. /\ \A c \in Conns : c # d => chan'[c] = chan[c]
        /\ chan'[d] = [r \in Peers |->
             IF r = p THEN Tail(chan[d][r]) ELSE chan[d][r] \o Echo(p)]
    BY <1>1, <2>1, <2>2
  <2>4. chan'[d][p] = Tail(chan[d][p]) /\ chan'[d][q] = chan[d][q] \o Echo(p)
    BY <1>1, <1>2, <2>2, <2>3
  <2>5. chan' = [c \in Conns |-> [r \in Peers |-> chan'[c][r]]]
    <3>1. chan' = [c \in Conns |-> chan'[c]]
      BY <2>1, <2>2
    <3>2. ASSUME NEW c \in Conns PROVE chan'[c] = [r \in Peers |-> chan'[c][r]]
      <4>1. chan[c] = [r \in Peers |-> chan[c][r]]
        BY <1>1 DEF TcpInv
      <4> QED BY <2>2, <2>3, <4>1
    <3> QED BY <3>1, <3>2
  <2>6. EndsInv'
    <3> SUFFICES ASSUME NEW c \in Conns
                 PROVE  /\ (end[c]["A"] = "up") <=> (end[c]["B"] = "up")
                        /\ c > sessions => \A r \in Peers : chan'[c][r] = << >>
      BY <2>1 DEF EndsInv
    <3>1. /\ (end[c]["A"] = "up") <=> (end[c]["B"] = "up")
          /\ c > sessions => \A r \in Peers : chan[c][r] = << >>
      BY <1>1 DEF EndsInv, TcpInv
    <3>2. c > sessions => c # d
      BY <1>1 DEF Conns
    <3> QED BY <2>3, <3>1, <3>2
  <2>7. TcpInv'
    BY <1>1, <2>1, <2>5, <2>6 DEF TcpInv
  <2>8. \A c \in Conns : c # d => Weaker(c)
    BY <2>1, <2>3 DEF Weaker
  <2> QED BY <2>0, <2>1, <2>4, <2>7, <2>8 DEF d, q
<1>4. CASE end[d][p] # "up"
  <2>1. chan' = [chan EXCEPT ![d][p] = Tail(@)] /\ end' = [end EXCEPT ![d][p] = "dying"]
    BY <1>4
  <2>0. end[d][p] # "up"
    BY <1>4
  <2> HIDE DEF d, q
  <2>2. chan = [c \in Conns |-> chan[c]] /\ chan[d] = [r \in Peers |-> chan[d][r]]
    BY <1>1 DEF TcpInv
  <2>3. \A c \in Conns, r \in Peers :
          /\ chan'[c][r] = IF c = d /\ r = p THEN Tail(chan[c][r]) ELSE chan[c][r]
          /\ end'[c][r] = IF c = d /\ r = p THEN "dying" ELSE end[c][r]
    BY <1>1, <2>1, <2>2 DEF TcpInv
  <2>4. chan' = [c \in Conns |-> [r \in Peers |-> chan'[c][r]]]
    BY <1>1, <2>1 DEF TcpInv
  <2>5. end' \in [Conns -> [Peers -> Ends]]
    BY <1>1, <2>1 DEF TcpInv, Ends
  <2>6. EndsInv'
    <3> SUFFICES ASSUME NEW c \in Conns
                 PROVE  /\ (end'[c]["A"] = "up") <=> (end'[c]["B"] = "up")
                        /\ c > sessions => \A r \in Peers : chan'[c][r] = << >>
      BY DEF EndsInv
    <3>1. /\ (end[c]["A"] = "up") <=> (end[c]["B"] = "up")
          /\ c > sessions => \A r \in Peers : chan[c][r] = << >>
      BY <1>1 DEF EndsInv, TcpInv
    <3>2. c > sessions => c # d
      BY <1>1 DEF Conns
    <3>3. CASE c = d
      <4>1. end'[d][q] = end[d][q] /\ end'[d][p] = "dying"
        BY <1>1, <1>2, <2>3
      <4>2. end[d][q] # "up"
        BY <1>2, <2>0, <3>1, <3>3
      <4> QED BY <1>2, <3>2, <3>3, <4>1, <4>2
    <3>4. CASE c # d
      BY <1>2, <2>3, <3>1, <3>4
    <3> QED BY <3>3, <3>4
  <2>7. TcpInv'
    BY <1>1, <2>4, <2>5, <2>6 DEF TcpInv
  <2>8. \A c \in Conns : c # d => Weaker(c)
    BY <1>2, <2>3 DEF Weaker
  <2>9. chan'[d][p] = Tail(chan[d][p]) /\ chan'[d][q] = chan[d][q]
    BY <1>1, <1>2, <2>3
  <2> QED BY <2>0, <2>1, <2>7, <2>8, <2>9 DEF d, q
<1> QED BY <1>3, <1>4

\* ... and the client sends a test packet back.
LEMMA TestEchoBase ==
  ASSUME BaseInv, NEW p \in Peers, TestEcho(p)
  PROVE  BaseInv'
<1>0. /\ TypeInv /\ ControlInv(p) /\ packets[p] \in 0 .. NUM_OF_TESTPACKETS
      /\ NUM_OF_TESTPACKETS \in Nat
  BY ConnFacts
<1>1. /\ pc[p] = "test_echo" /\ connected(p)
      /\ UNCHANGED <<sockets, backlog, sessions, network_mode>>
      /\ network_mode[p] = "CLIENT" /\ packets[p] >= 1 /\ trap[p] = "none"
  BY <1>0 DEF TestEcho, TestUnchanged, counters, ControlInv, connected
<1>2. CASE Fail(p) /\ InitFrameEventList(p, DEFAULT_DELTA)
  <2>1. ControlTypes' /\ ControlInv(p)'
    BY <1>1, <1>2, InitControl
  <2>2. TcpInv'
    BY <1>1, <1>2, CallTcp
  <2> QED BY <1>1, <2>1, <2>2, SameSockets, NoListener DEF Step
<1>3. CASE ~ (Fail(p) /\ InitFrameEventList(p, DEFAULT_DELTA))
  <2>1. TcpInv'
    BY <1>1, <1>3, EchoTcp DEF TestEcho
  <2>2. /\ pc' = [pc EXCEPT ![p] = IF packets[p] = 1 THEN "test_receive"
                                   ELSE "test_echo"]
        /\ packets' = [packets EXCEPT ![p] = @ - 1] /\ trap' = trap
    BY <1>3 DEF TestEcho
  <2>3. pc'[p] = (IF packets[p] = 1 THEN "test_receive" ELSE "test_echo")
        /\ pc' \in [Peers -> Places] /\ packets'[p] = packets[p] - 1
    BY <1>0, <2>2 DEF TypeInv, Places
  <2>4. ControlTypes' /\ ControlInv(p)'
    BY <1>0, <1>1, <2>2, <2>3 DEF TypeInv, ControlTypes, ControlInv
  <2> QED BY <1>1, <2>1, <2>4, SameSockets, NoListener DEF Step
<1> QED BY <1>2, <1>3

\* The end of a process keeps the invariant of the control.
LEMMA GoneBase ==
  ASSUME BaseInv, NEW p \in Peers, Step(p) \/ Environment(p), Gone(p),
         sessions' = sessions, packets' = packets
  PROVE  BaseInv'
<1>1. TypeInv /\ PeerInv /\ EndsInv
  BY DEF BaseInv
<1>2. /\ TcpInv' /\ ControlInv(p)' /\ Pool(p)'
      /\ backlog'[Other(p)] = backlog[Other(p)]
      /\ network_mode' \in [Peers -> Modes] /\ pc' \in [Peers -> Places]
      /\ trap' \in [Peers -> Traps]
      /\ backlog' \in [Peers -> Seq(1 .. sessions)]
      /\ socket_pool' \in [Peers -> [Entries -> Conns \cup {LISTEN, FREE}]]
      /\ network_socket' = network_socket /\ listen_socket' = listen_socket
  BY <1>1, GoneStep
<1>3. SocketTypes'
  BY <1>1, <1>2 DEF SocketTypes, TypeInv
<1> QED BY <1>2, <1>3, SameSessions

\* network_disconnect() keeps the invariant of the control.
LEMMA DisconnectBase ==
  ASSUME BaseInv, NEW p \in Peers, Step(p) \/ Environment(p),
         NEW next \in {"run", "length"}, NEW then \in Traps,
         network_disconnect(p, next, then), pc[p] # "gone",
         then # "none" => next = "run",
         then \in {"none", "sync_test"} \/ then = trap[p],
         sessions' = sessions, packets' = packets
  PROVE  BaseInv'
<1>1. TypeInv /\ PeerInv /\ EndsInv
  BY DEF BaseInv
<1>0. next \in Places /\ next # "gone"
  BY DEF Places
<1>2. /\ TcpInv' /\ ControlInv(p)' /\ Pool(p)'
      /\ backlog'[Other(p)] = backlog[Other(p)]
      /\ network_mode' \in [Peers -> Modes] /\ pc' \in [Peers -> Places]
      /\ trap' \in [Peers -> Traps]
      /\ backlog' \in [Peers -> Seq(1 .. sessions)]
      /\ socket_pool' \in [Peers -> [Entries -> Conns \cup {LISTEN, FREE}]]
      /\ network_socket' = network_socket /\ listen_socket' = listen_socket
  BY <1>0, <1>1, DisconnectStep
<1>3. SocketTypes'
  BY <1>1, <1>2 DEF SocketTypes, TypeInv
<1> QED BY <1>2, <1>3, SameSessions

\* network_event_record() keeps the invariant of the control.
LEMMA RecordBase ==
  ASSUME BaseInv, NEW p \in Peers, NEW type \in Types, network_event_record(p, type)
  PROVE  BaseInv'
<1>0. TypeInv /\ ControlInv(p)
  BY ConnFacts
<1>1. UNCHANGED <<sockets, backlog, sessions, network_mode, trap, pc, packets,
                  chan, end>>
  BY DEF network_event_record, tcp
<1>2. TcpInv'
  BY <1>1, CallTcp
<1>3. ControlTypes' /\ ControlInv(p)'
  <2>1. Conn(p)' = Conn(p)
    BY <1>1 DEF Conn, sockets
  <2> QED BY <1>0, <1>1, <2>1 DEF TypeInv, ControlTypes, ControlInv, connected
<1> QED BY <1>1, <1>2, <1>3, SameSockets, NoListener DEF Environment

\* The sync test trap keeps the invariant of the control.
LEMMA SyncTestBase ==
  ASSUME BaseInv, NEW p \in Peers, network_event_record_sync_test(p)
  PROVE  BaseInv'
<1>0. TypeInv /\ ControlInv(p)
  BY ConnFacts
<1>1. UNCHANGED <<sockets, backlog, sessions, network_mode, pc, packets, chan, end>>
      /\ trap' = [trap EXCEPT ![p] = "none"] /\ pc[p] = "run"
  BY DEF network_event_record_sync_test, tcp, counters
<1>2. TcpInv'
  BY <1>1, CallTcp
<1>3. ControlTypes' /\ ControlInv(p)'
  <2>1. trap'[p] = "none" /\ trap' \in [Peers -> Traps]
    BY <1>0, <1>1 DEF TypeInv, Traps
  <2> QED BY <1>0, <1>1, <2>1 DEF TypeInv, ControlTypes, ControlInv
<1> QED BY <1>1, <1>2, <1>3, SameSockets, NoListener DEF Step

\* network_suspend() keeps the invariant of the control.
LEMMA SuspendBase ==
  ASSUME BaseInv, NEW p \in Peers, network_suspend(p)
  PROVE  BaseInv'
<1>0. TypeInv /\ ControlInv(p)
  BY ConnFacts
<1>1. UNCHANGED <<sockets, backlog, sessions, network_mode, trap, pc, packets>>
      /\ pc[p] = "run"
  BY DEF network_suspend
<1>2. TcpInv'
  BY <1>1, CallTcp DEF network_suspend
<1>3. ControlTypes' /\ ControlInv(p)'
  <2>1. Conn(p)' = Conn(p)
    BY <1>1 DEF Conn, sockets
  <2> QED BY <1>0, <1>1, <2>1 DEF TypeInv, ControlTypes, ControlInv, connected
<1> QED BY <1>1, <1>2, <1>3, SameSockets, NoListener DEF Environment

\* network_hook() of a connected peer keeps the invariant of the control.
LEMMA HookBase ==
  ASSUME BaseInv, NEW p \in Peers, network_hook(p)
  PROVE  BaseInv'
<1>0. TypeInv /\ ControlInv(p)
  BY ConnFacts
<1> DEFINE full == BufferFull(p)
<1>1. pc[p] = "run" /\ trap[p] = "none" /\ connected(p) /\ packets' = packets
      /\ sessions' = sessions
  BY DEF network_hook, counters
<1>2. CASE \E msgs : /\ Sends(p, msgs)
                     /\ pc' = [pc EXCEPT ![p] = IF full THEN "length" ELSE "run"]
                     /\ UNCHANGED <<network_mode, sockets, backlog>>
                     /\ trap' = IF full THEN trap ELSE [trap EXCEPT ![p] = "sync_test"]
  <2>1. TcpInv'
    BY <1>1, <1>2, CallTcp
  <2>2. /\ pc'[p] = (IF full THEN "length" ELSE "run") /\ pc' \in [Peers -> Places]
        /\ trap'[p] = (IF full THEN "none" ELSE "sync_test")
        /\ trap' \in [Peers -> Traps]
    <3> HIDE DEF full
    <3> QED BY <1>0, <1>1, <1>2 DEF TypeInv, Places, Traps
  <2> HIDE DEF full
  <2>3. ControlTypes' /\ ControlInv(p)'
    BY <1>0, <1>1, <1>2, <2>2 DEF TypeInv, ControlTypes, ControlInv, connected
  <2> QED BY <1>1, <1>2, <2>1, <2>3, SameSockets, NoListener DEF Step
<1>3. CASE network_disconnect(p, IF full THEN "length" ELSE "run",
                              IF full THEN "none" ELSE "sync_test")
  <2> DEFINE next == IF full THEN "length" ELSE "run"
             then == IF full THEN "none" ELSE "sync_test"
  <2>1. /\ next \in {"run", "length"} /\ then \in Traps
        /\ then # "none" => next = "run"
        /\ then \in {"none", "sync_test"}
    BY DEF Traps
  <2>2. network_disconnect(p, next, then)
    BY <1>3
  <2> HIDE DEF next, then
  <2> QED BY <1>1, <2>1, <2>2, DisconnectBase DEF Step
<1> QED BY <1>2, <1>3 DEF network_hook

\* The receive of a length keeps the invariant of the control.
LEMMA LengthBase ==
  ASSUME BaseInv, NEW p \in Peers, ReceiveLength(p)
  PROVE  BaseInv'
<1>0. TypeInv /\ ControlInv(p)
  BY ConnFacts
<1>1. pc[p] = "length" /\ packets' = packets /\ sessions' = sessions
  BY DEF ReceiveLength, counters
<1>2. CASE /\ \/ Arrived(p) /\ Take(p)
              \/ UNCHANGED <<chan, end>>
           /\ pc' = pc \/ pc' = [pc EXCEPT ![p] = "list"]
           /\ UNCHANGED <<network_mode, sockets, backlog, trap>>
  <2>1. TcpInv'
    BY <1>1, <1>2, CallTcp
  <2>2. pc'[p] \in {"length", "list"} /\ pc' \in [Peers -> Places]
    BY <1>0, <1>1, <1>2 DEF TypeInv, Places
  <2>3. Conn(p)' = Conn(p)
    BY <1>2 DEF Conn, sockets
  <2>4. ControlTypes' /\ ControlInv(p)'
    BY <1>0, <1>1, <1>2, <2>2, <2>3 DEF TypeInv, ControlTypes, ControlInv, connected
  <2> QED BY <1>1, <1>2, <2>1, <2>4, SameSockets, NoListener DEF Step
<1>3. CASE network_disconnect(p, "run", "none")
  BY <1>1, <1>3, DisconnectBase DEF Step, Traps
<1> QED BY <1>2, <1>3 DEF ReceiveLength, tcp

\* The receive of a list keeps the invariant of the control.
LEMMA ListBase ==
  ASSUME BaseInv, NEW p \in Peers, ReceiveList(p)
  PROVE  BaseInv'
<1>0. TypeInv /\ ControlInv(p)
  BY ConnFacts
<1>1. pc[p] = "list" /\ packets' = packets /\ sessions' = sessions
  BY DEF ReceiveList, counters
<1>2. CASE /\ (Arrived(p) /\ Take(p)) \/ Fail(p)
           /\ pc' = [pc EXCEPT ![p] = "run"]
           /\ trap' = trap \/ trap' = [trap EXCEPT ![p] = "sync_test"]
           /\ UNCHANGED <<network_mode, sockets, backlog>>
  <2>1. TcpInv'
    BY <1>1, <1>2, CallTcp
  <2>2. pc'[p] = "run" /\ pc' \in [Peers -> Places] /\ trap' \in [Peers -> Traps]
        /\ trap'[p] \in {"none", "sync_test"}
    BY <1>0, <1>1, <1>2 DEF TypeInv, Places, Traps, ControlInv
  <2>3. ControlTypes' /\ ControlInv(p)'
    BY <1>0, <1>1, <1>2, <2>2 DEF TypeInv, ControlTypes, ControlInv
  <2> QED BY <1>1, <1>2, <2>1, <2>3, SameSockets, NoListener DEF Step
<1>3. CASE network_disconnect(p, "run", "sync_test")
  BY <1>1, <1>3, DisconnectBase DEF Step, Traps
<1> QED BY <1>2, <1>3 DEF ReceiveList

\* A user who disconnects keeps the invariant of the control.
LEMMA UserDisconnectBase ==
  ASSUME BaseInv, NEW p \in Peers, UserDisconnect(p)
  PROVE  BaseInv'
<1>0. trap[p] \in Traps
  BY ConnFacts
<1>1. /\ network_disconnect(p, "run", trap[p]) /\ pc[p] = "run"
      /\ packets' = packets /\ sessions' = sessions
  BY DEF UserDisconnect
<1> QED BY <1>0, <1>1, DisconnectBase DEF Environment

\* A broken link makes one connection worse.
LEMMA LinkBreaksTcp ==
  ASSUME TcpInv, NEW d \in Conns, LinkBreaks(d)
  PROVE  /\ TcpInv' /\ \A c \in Conns : Weaker(c)
<1>1. PICK keep \in [Peers -> 0 .. MaxFrames + MaxInputs] :
        /\ \A p \in Peers : keep[p] <= Len(chan[d][p])
        /\ chan' = [chan EXCEPT ![d] = [p \in Peers |-> SubSeq(@[p], 1, keep[p])]]
  BY DEF LinkBreaks
<1>2. /\ end' = [end EXCEPT ![d] = [p \in Peers |->
                   IF @[p] \in {"up", "fin"} THEN "dying" ELSE @[p]]]
      /\ sessions' = sessions /\ "up" \in {end[d][p] : p \in Peers}
  BY DEF LinkBreaks
<1>3. /\ chan = [c \in Conns |-> [p \in Peers |-> chan[c][p]]]
      /\ end \in [Conns -> [Peers -> Ends]] /\ EndsInv
  BY DEF TcpInv
<1>4. \A c \in Conns, p \in Peers :
        /\ chan'[c][p] = IF c = d THEN SubSeq(chan[c][p], 1, keep[p]) ELSE chan[c][p]
        /\ end'[c][p] = IF c = d /\ end[c][p] \in {"up", "fin"} THEN "dying"
                        ELSE end[c][p]
  BY <1>1, <1>2, <1>3
<1>5. chan' = [c \in Conns |-> [p \in Peers |-> chan'[c][p]]]
  BY <1>1, <1>3
<1>6. end' \in [Conns -> [Peers -> Ends]]
  BY <1>2, <1>3 DEF Ends
<1>7. Peers = {"A", "B"}
  BY DEF Peers
<1>8. \A p \in Peers : keep[p] \in Nat /\ 0 <= keep[p] /\ keep[p] <= Len(chan[d][p])
  BY <1>1, NetPlayAssumption
<1>9. EndsInv'
  <2> SUFFICES ASSUME NEW c \in Conns
               PROVE  /\ (end'[c]["A"] = "up") <=> (end'[c]["B"] = "up")
                      /\ c > sessions => \A p \in Peers : chan'[c][p] = << >>
    BY <1>2 DEF EndsInv
  <2>1. /\ (end[c]["A"] = "up") <=> (end[c]["B"] = "up")
        /\ c > sessions => \A p \in Peers : chan[c][p] = << >>
    BY <1>3 DEF EndsInv
  <2>2. CASE c = d
    <3>1. end'[c]["A"] # "up" /\ end'[c]["B"] # "up"
      BY <1>4, <1>7, <2>2
    <3>2. ASSUME NEW p \in Peers, c > sessions PROVE chan'[c][p] = << >>
      <4>1. chan[c][p] = << >> /\ keep[p] <= Len(chan[c][p]) /\ keep[p] \in Nat
        BY <1>8, <2>1, <2>2, <3>2
      <4>2. keep[p] = 0
        BY <4>1
      <4>3. SubSeq(<< >>, 1, 0) = << >>
        OBVIOUS
      <4>4. chan'[c][p] = SubSeq(chan[c][p], 1, keep[p])
        BY <1>4, <2>2
      <4> QED BY <4>1, <4>2, <4>3, <4>4
    <3> QED BY <3>1, <3>2
  <2>3. CASE c # d
    BY <1>4, <1>7, <2>1, <2>3
  <2> QED BY <2>2, <2>3
<1>10. TcpInv'
  BY <1>2, <1>5, <1>6, <1>9 DEF TcpInv
<1>11. ASSUME NEW c \in Conns PROVE Weaker(c)
  <2>1. CASE c # d
    BY <1>4, <1>7, <2>1 DEF Weaker
  <2>2. CASE c = d
    <3>1. \A r \in Peers : \E k \in 0 .. Len(chan[c][r]) :
            chan'[c][r] = SubSeq(chan[c][r], 1, k)
      <4> SUFFICES ASSUME NEW r \in Peers
                   PROVE  \E k \in 0 .. Len(chan[c][r]) :
                            chan'[c][r] = SubSeq(chan[c][r], 1, k)
        OBVIOUS
      <4>1. keep[r] \in 0 .. Len(chan[c][r])
        BY <1>8, <2>2
      <4> QED BY <1>4, <2>2, <4>1
    <3>2. end'[c]["A"] # "up"
      BY <1>4, <1>7, <2>2
    <3>3. \A r \in Peers : end'[c][r] \in OpenEnds => end[c][r] \in OpenEnds
      BY <1>4, <2>2 DEF OpenEnds
    <3> QED BY <3>1, <3>2, <3>3 DEF Weaker
  <2> QED BY <2>1, <2>2
<1> QED BY <1>10, <1>11

\* A broken link keeps the invariant of the control.
LEMMA LinkBreaksBase ==
  ASSUME BaseInv, NEW d \in Conns, LinkBreaks(d)
  PROVE  BaseInv'
<1>1. TypeInv /\ PeerInv /\ EndsInv /\ TcpInv
  BY TypesOfTcp DEF BaseInv
<1>2. TcpInv' /\ UNCHANGED <<network_mode, sockets, suspended, config, ring,
        snapshotfilename, packets, trap, pc, machine, backlog, sessions, history>>
  BY <1>1, LinkBreaksTcp DEF LinkBreaks
<1>3. TypeInv' /\ EndsInv'
  BY <1>1, <1>2 DEF TypeInv, TcpInv, IsMap, sockets, config, ring, history
<1>4. ASSUME NEW r \in Peers PROVE ControlInv(r)' /\ Pool(r)'
  <2>1. Mine(r)' = Mine(r)
    BY <1>2 DEF Mine, sockets, config, ring, history
  <2>2. sessions \in Nat /\ sessions' = sessions /\ backlog' = backlog
    BY <1>1, <1>2, Bounds DEF TypeInv
  <2> QED BY <1>1, <2>1, <2>2, SamePeer
<1> QED BY <1>3, <1>4 DEF BaseInv, PeerInv

\* So does a step that changes nothing.
LEMMA StutterBase ==
  ASSUME BaseInv, UNCHANGED vars
  PROVE  BaseInv'
<1>1. TypeInv /\ PeerInv /\ EndsInv
  BY DEF BaseInv
<1>2. TypeInv' /\ EndsInv'
  BY <1>1 DEF vars, TypeInv, EndsInv, IsMap, sockets, config, ring, history, tcp,
              counters
<1>3. ASSUME NEW r \in Peers PROVE ControlInv(r)' /\ Pool(r)'
  <2>1. Mine(r)' = Mine(r)
    BY DEF vars, Mine, sockets, config, ring, history
  <2>2. sessions \in Nat /\ sessions' = sessions /\ backlog' = backlog
    BY <1>1, Bounds DEF TypeInv, vars, tcp, counters
  <2> QED BY <1>1, <2>1, <2>2, SamePeer
<1> QED BY <1>2, <1>3 DEF BaseInv, PeerInv

\* Every step keeps the invariant of the control.
LEMMA BaseStep ==
  BaseInv /\ [Next]_vars => BaseInv'
<1> SUFFICES ASSUME BaseInv, [Next]_vars PROVE BaseInv'
  OBVIOUS
<1>1. ASSUME NEW p \in Peers, Step(p) PROVE BaseInv'
  <2>1. CASE CrashInHook(p)
    BY <2>1, GoneBase DEF CrashInHook, Step, counters
  <2> QED
    BY <1>1, <2>1, AcceptBase, HookBase, ServerTrapBase, ClientTrapBase,
       SyncTestBase, ReceiveSnapshotBase, ReceiveSettingsBase, TestSendBase,
       TestWaitBase, TestDeltaBase, TestEchoBase, TestReceiveBase, LengthBase,
       ListBase DEF Step
<1>2. ASSUME NEW p \in Peers, Environment(p) PROVE BaseInv'
  <2>1. CASE Exit(p)
    BY <2>1, GoneBase DEF Exit, Environment
  <2> QED
    BY <1>2, <2>1, StartServerBase, ConnectClientBase, RecordBase, SuspendBase,
       UserDisconnectBase DEF Environment
<1>3. ASSUME NEW c \in Conns, LinkBreaks(c) PROVE BaseInv'
  BY <1>3, LinkBreaksBase
<1> QED BY <1>1, <1>2, <1>3, StutterBase DEF Next

\* It holds in the initial states.
LEMMA BaseInit ==
  Init => BaseInv
<1> SUFFICES ASSUME Init PROVE BaseInv
  OBVIOUS
<1>1. TypeInv
  BY Bounds, EmptySeq
  DEF Init, TypeInv, IsMap, Modes, Traps, Places, Ends, NULL, Conns
<1>2. EndsInv
  BY DEF Init, EndsInv, Peers
<1>3. ASSUME NEW p \in Peers PROVE ControlInv(p) /\ Pool(p)
  <2>1. Conn(p) = 0
    BY <1>3 DEF Init, Conn
  <2>2. ControlInv(p)
    BY <2>1 DEF Init, ControlInv
  <2>3. \A e \in Entries : socket_pool[p][e] = FREE
    BY DEF Init
  <2>4. Pool(p)
    BY <2>3 DEF Init, Pool, Entry, Distinct, FREE, LISTEN, Conns
  <2> QED BY <2>2, <2>4
<1> QED BY <1>1, <1>2, <1>3 DEF BaseInv, PeerInv

-----------------------------------------------------------------------------
(* Sequences whose elements have no type.                                  *)

ASeq(s) == s \in Seq(Range(s))

\* A sequence over some set.
LEMMA ASeqOf ==
  ASSUME NEW S, NEW s \in Seq(S)
  PROVE  ASeq(s)
<1>1. DOMAIN s = 1 .. Len(s) /\ Len(s) \in Nat
  OBVIOUS
<1>2. \A i \in 1 .. Len(s) : s[i] \in Range(s)
  BY <1>1 DEF Range
<1> QED BY <1>1, <1>2, SeqDef DEF ASeq

\* The length and the domain of a sequence.
LEMMA ASeqFacts ==
  ASSUME NEW s, ASeq(s)
  PROVE  /\ Len(s) \in Nat /\ DOMAIN s = 1 .. Len(s)
         /\ s = << >> <=> Len(s) = 0
BY DEF ASeq

\* The empty sequence.
LEMMA ASeqEmpty == ASeq(<< >>) /\ Len(<< >>) = 0
<1>1. << >> \in Seq({})
  OBVIOUS
<1> QED BY <1>1, ASeqOf

\* A sequence of one element.
LEMMA ASeqOne ==
  ASSUME NEW a
  PROVE  ASeq(<<a>>) /\ Len(<<a>>) = 1 /\ <<a>>[1] = a
<1>1. <<a>> \in Seq({a})
  OBVIOUS
<1> QED BY <1>1, ASeqOf

\* A sequence of two elements.
LEMMA ASeqTwo ==
  ASSUME NEW a, NEW b
  PROVE  ASeq(<<a, b>>) /\ Len(<<a, b>>) = 2 /\ <<a, b>>[1] = a /\ <<a, b>>[2] = b
<1>1. <<a, b>> \in Seq({a, b})
  OBVIOUS
<1> QED BY <1>1, ASeqOf

\* A sequence and one more element.
LEMMA ASeqAppend ==
  ASSUME NEW s, ASeq(s), NEW e
  PROVE  /\ ASeq(Append(s, e))
         /\ Len(Append(s, e)) = Len(s) + 1
         /\ Append(s, e) # << >>
         /\ \A i \in 1 .. Len(s) : Append(s, e)[i] = s[i]
         /\ Append(s, e)[Len(s) + 1] = e
<1> DEFINE S == Range(s) \cup {e}
<1>1. s \in Seq(S) /\ e \in S
  BY SeqMonotonic DEF ASeq
<1> HIDE DEF S
<1>2. Append(s, e) \in Seq(S) /\ Len(Append(s, e)) = Len(s) + 1
      /\ (\A i \in 1 .. Len(s) : Append(s, e)[i] = s[i])
      /\ Append(s, e)[Len(s) + 1] = e /\ Append(s, e) # << >>
  BY <1>1
<1> QED BY <1>2, ASeqOf

\* A sequence without its first element.
LEMMA ASeqTail ==
  ASSUME NEW s, ASeq(s), s # << >>
  PROVE  /\ ASeq(Tail(s))
         /\ Len(Tail(s)) = Len(s) - 1
         /\ \A i \in 1 .. Len(s) - 1 : Tail(s)[i] = s[i + 1]
         /\ Head(s) = s[1] /\ Len(s) >= 1
<1>1. s \in Seq(Range(s))
  BY DEF ASeq
<1>2. Tail(s) \in Seq(Range(s)) /\ Len(Tail(s)) = Len(s) - 1 /\ Head(s) = s[1]
      /\ (\A i \in 1 .. Len(s) - 1 : Tail(s)[i] = s[i + 1]) /\ Len(s) >= 1
  BY <1>1
<1> QED BY <1>2, ASeqOf

\* Two sequences, one after the other.
LEMMA ASeqConcat ==
  ASSUME NEW s, ASeq(s), NEW t, ASeq(t)
  PROVE  /\ ASeq(s \o t)
         /\ Len(s \o t) = Len(s) + Len(t)
         /\ \A i \in 1 .. Len(s) : (s \o t)[i] = s[i]
         /\ \A i \in 1 .. Len(t) : (s \o t)[Len(s) + i] = t[i]
<1> DEFINE S == Range(s) \cup Range(t)
<1>1. s \in Seq(S) /\ t \in Seq(S)
  BY SeqMonotonic DEF ASeq
<1> HIDE DEF S
<1>2. /\ s \o t \in Seq(S) /\ Len(s \o t) = Len(s) + Len(t)
      /\ \A i \in 1 .. Len(s) + Len(t) :
           (s \o t)[i] = IF i <= Len(s) THEN s[i] ELSE t[i - Len(s)]
  BY <1>1, ConcatProperties
<1>3. \A i \in 1 .. Len(s) : (s \o t)[i] = s[i]
  BY <1>1, <1>2
<1>4. \A i \in 1 .. Len(t) : (s \o t)[Len(s) + i] = t[i]
  <2> SUFFICES ASSUME NEW i \in 1 .. Len(t) PROVE (s \o t)[Len(s) + i] = t[i]
    OBVIOUS
  <2>1. Len(s) \in Nat /\ Len(t) \in Nat
    BY <1>1
  <2>2. Len(s) + i \in 1 .. Len(s) + Len(t) /\ ~ (Len(s) + i <= Len(s))
        /\ Len(s) + i - Len(s) = i
    BY <2>1
  <2> QED BY <1>2, <2>2
<1> QED BY <1>2, <1>3, <1>4, ASeqOf

\* The first k elements of a sequence.
LEMMA ASeqPrefix ==
  ASSUME NEW s, ASeq(s), NEW k \in 0 .. Len(s)
  PROVE  /\ ASeq(SubSeq(s, 1, k))
         /\ Len(SubSeq(s, 1, k)) = k
         /\ \A i \in 1 .. k : SubSeq(s, 1, k)[i] = s[i]
<1>1. s \in Seq(Range(s)) /\ Len(s) \in Nat
  BY DEF ASeq
<1>2. /\ SubSeq(s, 1, k) \in Seq(Range(s)) /\ Len(SubSeq(s, 1, k)) = k
      /\ \A i \in 1 .. k : SubSeq(s, 1, k)[i] = s[i]
  BY <1>1, SubSeqProperties
<1> QED BY <1>2, ASeqOf

\* Sequences with the same elements are equal.
LEMMA ASeqEqual ==
  ASSUME NEW s, NEW t, ASeq(s), ASeq(t), Len(s) = Len(t),
         \A i \in 1 .. Len(s) : s[i] = t[i]
  PROVE  s = t
<1>1. s = [i \in 1 .. Len(s) |-> s[i]] /\ t = [i \in 1 .. Len(t) |-> t[i]]
  BY DEF ASeq
<1> QED BY <1>1

\* A list that ends with the first end mark in it is sent as a whole.
LEMMA WholeList ==
  ASSUME NEW list, ASeq(list), \A j \in 1 .. Len(list) : list[j] # LIST_END
  PROVE  ToListEnd(Append(list, LIST_END)) = Append(list, LIST_END)
<1> DEFINE X == Append(list, LIST_END)
           n == Len(list) + 1
           I == {i \in 1 .. Len(X) : X[i] = LIST_END}
<1>1. ASeq(X) /\ Len(X) = n /\ X[n] = LIST_END /\ Len(list) \in Nat
      /\ \A i \in 1 .. Len(list) : X[i] = list[i]
  BY ASeqAppend, ASeqFacts
<1> HIDE DEF X
<1>2. n \in I /\ \A i \in I : i = n
  BY <1>1
<1>3. I = {n}
  BY <1>2
<1>4. SelectInSeq(X, LAMBDA e : e = LIST_END) = n
  <2>1. Min({n}) = n
    BY <1>1 DEF Min
  <2> QED BY <1>3, <2>1 DEF SelectInSeq
<1>5. ToListEnd(X) = SubSeq(X, 1, n)
  BY <1>4 DEF ToListEnd
<1>6. SubSeq(X, 1, n) = X
  <2>1. n \in 0 .. Len(X)
    BY <1>1
  <2>2. ASeq(SubSeq(X, 1, n)) /\ Len(SubSeq(X, 1, n)) = n
        /\ \A i \in 1 .. n : SubSeq(X, 1, n)[i] = X[i]
    BY <1>1, <2>1, ASeqPrefix
  <2> QED BY <1>1, <2>2, ASeqEqual
<1> QED BY <1>5, <1>6 DEF X

-----------------------------------------------------------------------------
(* What lies behind a connection.  A ghost h is the history of one: its    *)
(* server, the snapshot (base) and the frame_delta the server sent, the    *)
(* lists each peer has made, how many messages each peer has read (read)   *)
(* and delivered (written), and idx[p][m], how many of the first m         *)
(* messages of p were lists.  No variable of the model holds it; the       *)
(* invariant says that there is one.                                       *)

N == NUM_OF_TESTPACKETS
Up(c) == end[c]["A"] = "up"
Open(p) == end[Conn(p)][p] \in OpenEnds
Frames(p) == Len(machine[p].inputs) - start[p]

IsMachine(m) ==
  /\ m = [origin |-> m.origin, inputs |-> m.inputs]
  /\ ASeq(m.inputs)

\* The input of the n-th frame of the session.
FrameInput(h, n) ==
  LET k == n - h.delta + 1
  IN  IF n < h.delta THEN << >>
      ELSE <<Played(h.lists[h.server][k]), Played(h.lists[Other(h.server)][k])>>

\* m is the machine after n frames of the session.
AtFrame(h, m, n) ==
  /\ IsMachine(m)
  /\ m.origin = h.base.origin
  /\ Len(m.inputs) = Len(h.base.inputs) + n
  /\ \A i \in 1 .. Len(h.base.inputs) : m.inputs[i] = h.base.inputs[i]
  /\ \A i \in 1 .. n : m.inputs[Len(h.base.inputs) + i] = FrameInput(h, i)

\* The k-th list: where it begins with the registers, they are those of the
\* k-th frame.
ListOK(h, list, k) ==
  /\ ASeq(list) /\ list # << >>
  /\ ToListEnd(list) = list
  /\ list[1].type = "SYNC_TEST" => AtFrame(h, list[1].regs, k - 1)

\* Messages before the first list: snapshot, settings, packets and delta.
Preamble(h, p) == IF p = h.server THEN N + 3 ELSE N

GhostPeer(h, p) ==
  LET q == Other(p)
  IN  /\ h.read[p] \in Nat /\ h.written[p] \in Nat
      /\ h.read[p] <= h.written[q]
      /\ ASeq(h.lists[p])
      /\ Len(h.lists[p]) <= Len(h.lists[q]) + h.delta
      /\ \A k \in 1 .. Len(h.lists[p]) : ListOK(h, h.lists[p][k], k)
      /\ h.idx[p] \in [Nat -> Nat]
      /\ h.idx[p][Preamble(h, p)] = 0
      /\ h.written[h.server] < N + 3 => h.lists[p] = << >> \/ p = h.server

GhostOK(h) ==
  /\ h.server \in Peers
  /\ IsMachine(h.base)
  /\ h.delta \in Deltas \cup {DEFAULT_DELTA}
  /\ \A p \in Peers : GhostPeer(h, p)

\* The m-th message of q.
MsgOK(h, q, m, msg) ==
  /\ q = h.server /\ m = 1 => msg.machine = h.base
  /\ q = h.server /\ m = N + 3 => msg.delta = h.delta
  /\ m > Preamble(h, q) =>
       IF msg.type = "list"
       THEN /\ h.idx[q][m] = h.idx[q][m - 1] + 1
            /\ h.idx[q][m] <= Len(h.lists[q])
            /\ msg.list = h.lists[q][h.idx[q][m]]
       ELSE h.idx[q][m] = h.idx[q][m - 1]

\* What is under way to p is what p has not read of what q has delivered.
Wire(h, c, p) ==
  LET q == Other(p)
      n == Len(chan[c][p])
  IN  /\ ASeq(chan[c][p])
      /\ h.read[p] + n <= h.written[q]
      /\ Up(c) => h.read[p] + n = h.written[q]
      /\ \A i \in 1 .. n : MsgOK(h, q, h.read[p] + i, chan[c][p][i])

Wrote(h, c, p, n) == h.written[p] <= n /\ (Up(c) => h.written[p] = n)

\* A server until it has sent frame_delta.
Serving(h, c, p) ==
  LET k == packets[p]
  IN  /\ trap[p] = "server_connect" =>
           h.server = p /\ h.read[p] = 0 /\ h.written[p] = 0 /\ h.lists[p] = << >>
      /\ network_mode[p] = "SERVER_CONNECTED" => h.server = p
      /\ pc[p] \in {"test_send", "test_wait", "test_delta"} =>
           /\ h.server = p /\ h.lists[p] = << >> /\ machine[p] = h.base
           /\ h.read[p] = N - k
           /\ Wrote(h, c, p, N - k + (IF pc[p] = "test_wait" THEN 3 ELSE 2))

\* A client until it has received frame_delta.
Calling(h, c, p) ==
  LET k == packets[p]
  IN  /\ (\/ network_mode[p] = "CLIENT" \/ trap[p] = "client_connect"
          \/ pc[p] \in {"snapshot", "settings"}) => h.server = Other(p)
      /\ pc[p] = "snapshot" =>
           h.read[p] = 0 /\ h.written[p] = 0 /\ h.lists[p] = << >>
      /\ trap[p] = "client_connect" \/ pc[p] = "settings" =>
           /\ h.read[p] = 1 /\ h.written[p] = 0 /\ h.lists[p] = << >>
           /\ snapshotfilename[p] = h.base
      /\ pc[p] \in {"test_echo", "test_receive"} =>
           /\ h.server = Other(p) /\ h.lists[p] = << >> /\ machine[p] = h.base
           /\ h.read[p] = N + 2 - k
           /\ Wrote(h, c, p, N - k)

\* The slot of the ring i frames back.
Back(p, i) == IF current_frame[p] >= i THEN current_frame[p] - i
              ELSE current_frame[p] - i + frame_delta[p]

\* The list of the current frame, under construction.
Recording(p) ==
  LET list == frame_event_list[p][current_frame[p]]
  IN  /\ ASeq(list)
      /\ \A j \in 1 .. Len(list) : list[j] # LIST_END
      /\ list # << >> /\ list[1].type = "SYNC_TEST" =>
           list[1].regs = machine[p]

\* The ring holds the lists p has made in the last frame_delta frames.
Ring(h, p) ==
  LET f == Frames(p)
      d == frame_delta[p]
      slots == frame_event_list[p]
  IN  /\ ~frame_buffer_full[p] => current_frame[p] = f /\ f <= d - 1
      /\ frame_buffer_full[p] => f >= d - 1
      /\ \A i \in 1 .. d - 1 : i <= f => slots[Back(p, i)] = h.lists[p][f + 1 - i]
      /\ pc[p] = "run" => Len(h.lists[p]) = f /\ Recording(p)
      /\ pc[p] # "run" => /\ Len(h.lists[p]) = f + 1
                          /\ slots[current_frame[p]] = h.lists[p][f + 1]
                          /\ frame_buffer_full[p]

\* p has played the lists it has read, and what it has sent has arrived.
Reads(h, c, p) ==
  LET q == Other(p)
      f == Frames(p)
      d == frame_delta[p]
  IN  /\ h.read[p] >= Preamble(h, q)
      /\ h.idx[q][h.read[p]] = IF f < d THEN 0 ELSE f - d + 1
      /\ Up(c) => /\ h.written[p] >= Preamble(h, p)
                  /\ h.idx[p][h.written[p]] = Len(h.lists[p])

InStep(h, c, p) ==
  LET q == Other(p)
      f == Frames(p)
  IN  /\ frame_delta[p] = h.delta
      /\ start[p] = Len(h.base.inputs)
      /\ f \in Nat
      /\ AtFrame(h, machine[p], f)
      /\ ASeq(recorded[p])
      /\ Len(recorded[p]) = Len(h.lists[p])
      /\ \A k \in 1 .. Len(h.lists[p]) : recorded[p][k] = Played(h.lists[p][k])
      /\ f <= Len(h.lists[p]) /\ Len(h.lists[p]) <= f + 1
      /\ f <= Len(h.lists[q]) + h.delta - 1
      /\ p # h.server => h.read[p] >= N + 3
      /\ Open(p) => Ring(h, p) /\ Reads(h, c, p)

\* The measurement failed: nothing was played on this connection.
Failed(h, p) ==
  /\ ~Open(p) /\ Frames(p) = 0 /\ recorded[p] = << >> /\ h.lists[p] = << >>
  /\ p # h.server => h.read[p] >= 2

\* A server that went on although its settings did not get out.
Hollow(h, p) == ~Open(p) /\ p = h.server /\ h.written[p] = 0

Playing(h, c, p) ==
  InSession(p) => InStep(h, c, p) \/ Failed(h, p) \/ Hollow(h, p)

Standing(h, c, p) ==
  Conn(p) = c => Serving(h, c, p) /\ Calling(h, c, p) /\ Playing(h, c, p)

\* A connection the server has not accepted yet.
Queued(h, c, p) ==
  c \in Range(backlog[p]) =>
    h.server = p /\ h.read[p] = 0 /\ h.written[p] = 0 /\ h.lists[p] = << >>

\* After its length, a list follows.
ListNext(c, p) ==
  Conn(p) = c /\ pc[p] = "list" =>
    IF chan[c][p] = << >> THEN ~Up(c) ELSE chan[c][p][1].type = "list"

ConnOK(h, c) ==
  /\ GhostOK(h)
  /\ \A p \in Peers : /\ Wire(h, c, p) /\ Standing(h, c, p) /\ Queued(h, c, p)
                      /\ ListNext(c, p)

ConnInv == \A c \in 1 .. sessions : \E h : ConnOK(h, c)

\* The ring of lists, whatever the connection.
RingInv == \A p \in Peers :
  /\ frame_delta[p] \in Deltas \cup {0, DEFAULT_DELTA}
  /\ frame_event_list[p] = [i \in 0 .. frame_delta[p] - 1 |-> frame_event_list[p][i]]
  /\ frame_delta[p] > 0 =>
       /\ current_frame[p] \in 0 .. frame_delta[p] - 1
       /\ frame_buffer_full[p] \/ current_frame[p] > 0 =>
            frame_to_play[p] = (current_frame[p] + 1) % frame_delta[p]
  /\ frame_delta[p] = 0 => ~frame_buffer_full[p]
  /\ IsMachine(machine[p])

IInv == BaseInv /\ RingInv /\ ConnInv /\ ~out_of_sync

-----------------------------------------------------------------------------
(* A ghost and the one after it.                                           *)

\* h after p has done something.
Then(h, p, base, delta, list, read, written, idx) ==
  [server |-> h.server, base |-> base, delta |-> delta,
   lists |-> [r \in Peers |-> IF r = p THEN list ELSE h.lists[r]],
   read |-> [r \in Peers |-> IF r = p THEN read ELSE h.read[r]],
   written |-> [r \in Peers |-> IF r = p THEN written ELSE h.written[r]],
   idx |-> [r \in Peers |-> IF r = p THEN idx ELSE h.idx[r]]]

\* The fields of the ghost after a step of p.
LEMMA ThenFields ==
  ASSUME NEW h, NEW p \in Peers, NEW base, NEW delta, NEW list, NEW read,
         NEW written, NEW idx, NEW g,
         g = Then(h, p, base, delta, list, read, written, idx)
  PROVE  /\ g.server = h.server /\ g.base = base /\ g.delta = delta
         /\ g.lists[p] = list /\ g.lists[Other(p)] = h.lists[Other(p)]
         /\ g.read[p] = read /\ g.read[Other(p)] = h.read[Other(p)]
         /\ g.written[p] = written /\ g.written[Other(p)] = h.written[Other(p)]
         /\ g.idx[p] = idx /\ g.idx[Other(p)] = h.idx[Other(p)]
BY OtherPeer DEF Then

\* g is h or continues it by what p does.
Extends(h, g, p) ==
  LET q == Other(p)
  IN  /\ g.server = h.server
      /\ g.lists[q] = h.lists[q] /\ g.read[q] = h.read[q]
      /\ g.written[q] = h.written[q] /\ g.idx[q] = h.idx[q]
      /\ h.written[p] <= g.written[p]
      /\ \A m \in 0 .. h.written[p] : g.idx[p][m] = h.idx[p][m]
      /\ g.idx[p][Preamble(h, p)] = h.idx[p][Preamble(h, p)]
      /\ ASeq(g.lists[p]) /\ Len(h.lists[p]) <= Len(g.lists[p])
      /\ \A k \in 1 .. Len(h.lists[p]) : g.lists[p][k] = h.lists[p][k]
      /\ g.base # h.base =>
           p = h.server /\ h.written[p] = 0 /\ h.lists[p] = << >>
      /\ g.delta # h.delta =>
           p = h.server /\ h.written[p] < N + 3 /\ h.lists[p] = << >>

\* The types of a ghost's fields.
LEMMA GhostTypes ==
  ASSUME NEW h, GhostOK(h), NEW r \in Peers
  PROVE  /\ h.server \in Peers
         /\ h.delta \in Nat /\ h.delta >= 2
         /\ h.read[r] \in Nat /\ h.written[r] \in Nat
         /\ h.read[r] <= h.written[Other(r)]
         /\ ASeq(h.lists[r]) /\ Len(h.lists[r]) \in Nat
         /\ h.idx[r] \in [Nat -> Nat]
         /\ Len(h.lists[r]) <= Len(h.lists[Other(r)]) + h.delta
         /\ N \in Nat /\ N >= 1
         /\ Preamble(h, r) \in {N, N + 3}
         /\ h.written[h.server] \in Nat
         /\ h.written[h.server] < N + 3 => h.lists[Other(h.server)] = << >>
<1>1. GhostPeer(h, r) /\ h.server \in Peers /\ GhostPeer(h, h.server)
      /\ GhostPeer(h, Other(h.server))
  BY OtherPeer DEF GhostOK
<1>2. h.delta \in Nat /\ h.delta >= 2 /\ N \in Nat /\ N >= 1
  BY Bounds DEF GhostOK, N
<1>3. ASeq(h.lists[r]) /\ Len(h.lists[r]) \in Nat
  BY <1>1, ASeqFacts DEF GhostPeer
<1>4. h.written[h.server] < N + 3 => h.lists[Other(h.server)] = << >>
  BY <1>1, OtherPeer DEF GhostPeer
<1> QED BY <1>1, <1>2, <1>3, <1>4 DEF GhostPeer, Preamble

\* A ghost extends itself.
LEMMA ExtendsItself ==
  ASSUME NEW h, GhostOK(h), NEW p \in Peers
  PROVE  Extends(h, h, p)
BY GhostTypes DEF Extends

\* A frame up to which both peers' lists were there has the input it had.
LEMMA InputStays ==
  ASSUME NEW h, GhostOK(h), NEW g, NEW p \in Peers, Extends(h, g, p),
         g.delta = h.delta, NEW n \in Nat,
         \A r \in Peers : n <= Len(h.lists[r]) + h.delta - 1
  PROVE  FrameInput(g, n) = FrameInput(h, n)
<1>1. h.delta \in Nat /\ h.server \in Peers /\ g.server = h.server
      /\ Other(h.server) \in Peers
  BY GhostTypes, OtherPeer DEF Extends
<1> DEFINE k == n - h.delta + 1
<1>2. ASSUME ~ (n < h.delta), NEW r \in Peers PROVE g.lists[r][k] = h.lists[r][k]
  <2>1. k \in 1 .. Len(h.lists[r])
    <3>1. n <= Len(h.lists[r]) + h.delta - 1 /\ Len(h.lists[r]) \in Nat
      BY GhostTypes
    <3> QED BY <1>1, <1>2, <3>1
  <2>2. g.lists[r] = h.lists[r] \/ r = p
    BY OtherPeer DEF Extends
  <2> QED BY <2>1, <2>2 DEF Extends
<1> HIDE DEF k
<1>3. CASE n < h.delta
  BY <1>3 DEF FrameInput
<1>4. CASE ~ (n < h.delta)
  <2>1. /\ g.lists[h.server][k] = h.lists[h.server][k]
        /\ g.lists[Other(h.server)][k] = h.lists[Other(h.server)][k]
    BY <1>1, <1>2, <1>4
  <2> QED BY <1>1, <1>4, <2>1 DEF FrameInput, k
<1> QED BY <1>3, <1>4

\* A machine at a frame stays at that frame when a list is added.
LEMMA FrameStays ==
  ASSUME NEW h, GhostOK(h), NEW g, NEW p \in Peers, Extends(h, g, p),
         g.delta = h.delta, g.base = h.base, NEW n \in Nat,
         \A r \in Peers : n <= Len(h.lists[r]) + h.delta - 1,
         NEW m, AtFrame(h, m, n)
  PROVE  AtFrame(g, m, n)
<1>1. ASSUME NEW i \in 1 .. n PROVE FrameInput(g, i) = FrameInput(h, i)
  <2>1. i \in Nat /\ h.delta \in Nat /\ \A r \in Peers : Len(h.lists[r]) \in Nat
    BY GhostTypes
  <2>2. \A r \in Peers : i <= Len(h.lists[r]) + h.delta - 1
    BY <2>1
  <2> QED BY <2>1, <2>2, InputStays
<1> QED BY <1>1 DEF AtFrame

\* One machine is at the n-th frame.
LEMMA FrameUnique ==
  ASSUME NEW h, NEW m1, NEW m2, NEW n \in Nat, IsMachine(h.base),
         AtFrame(h, m1, n), AtFrame(h, m2, n)
  PROVE  m1 = m2
<1> DEFINE b == Len(h.base.inputs)
<1>1. b \in Nat
  BY ASeqFacts DEF IsMachine
<1>2. /\ ASeq(m1.inputs) /\ ASeq(m2.inputs) /\ m1.origin = m2.origin
      /\ Len(m1.inputs) = b + n /\ Len(m2.inputs) = b + n
      /\ m1 = [origin |-> m1.origin, inputs |-> m1.inputs]
      /\ m2 = [origin |-> m2.origin, inputs |-> m2.inputs]
  BY DEF AtFrame, IsMachine
<1>3. ASSUME NEW i \in 1 .. b + n PROVE m1.inputs[i] = m2.inputs[i]
  <2>1. CASE i <= b
    BY <1>1, <2>1 DEF AtFrame
  <2>2. CASE i > b
    <3>1. i - b \in 1 .. n /\ b + (i - b) = i
      BY <1>1, <2>2
    <3>2. \A j \in 1 .. n : m1.inputs[b + j] = m2.inputs[b + j]
      BY DEF AtFrame
    <3> QED BY <3>1, <3>2
  <2> QED BY <1>1, <2>1, <2>2
<1>4. m1.inputs = m2.inputs
  BY <1>2, <1>3, ASeqEqual
<1> QED BY <1>2, <1>4

\* A message that was delivered stays what it was.
LEMMA MessageStays ==
  ASSUME NEW h, GhostOK(h), NEW g, NEW p \in Peers, Extends(h, g, p),
         NEW q \in Peers, NEW m \in 1 .. h.written[q], NEW msg, MsgOK(h, q, m, msg)
  PROVE  MsgOK(g, q, m, msg)
<1>1. g.server = h.server /\ h.written[q] \in Nat /\ h.idx[q] \in [Nat -> Nat]
      /\ N \in Nat
  BY GhostTypes DEF Extends
<1>2. Preamble(g, q) = Preamble(h, q)
  BY <1>1 DEF Preamble
<1>3. m \in 0 .. h.written[q] /\ m - 1 \in 0 .. h.written[q]
  BY <1>1
<1>4. g.idx[q][m] = h.idx[q][m] /\ g.idx[q][m - 1] = h.idx[q][m - 1]
  BY <1>3, OtherPeer DEF Extends
<1>5. h.idx[q][m] \in Nat /\ h.idx[q][m - 1] \in Nat
  BY <1>1, <1>3
<1>6. Len(h.lists[q]) <= Len(g.lists[q]) /\ Len(h.lists[q]) \in Nat
      /\ Len(g.lists[q]) \in Nat
  <2>1. ASeq(h.lists[q]) /\ Len(h.lists[q]) \in Nat
    BY GhostTypes
  <2>2. CASE q = p
    <3>1. ASeq(g.lists[p]) /\ Len(h.lists[p]) <= Len(g.lists[p])
      BY DEF Extends
    <3> QED BY <2>1, <2>2, <3>1, ASeqFacts
  <2>3. CASE q # p
    <3>1. g.lists[q] = h.lists[q]
      BY <2>3, OtherPeer DEF Extends
    <3> QED BY <2>1, <3>1
  <2> QED BY <2>2, <2>3
<1>7. q = h.server => g.base = h.base
  BY <1>1 DEF Extends
<1>8. q = h.server /\ m = N + 3 => g.delta = h.delta
  <2> SUFFICES ASSUME q = h.server, m = N + 3, g.delta # h.delta PROVE FALSE
    OBVIOUS
  <2>1. h.written[q] < N + 3
    BY DEF Extends
  <2> QED BY <1>1, <2>1
<1>9. ASSUME h.idx[q][m] = h.idx[q][m - 1] + 1, h.idx[q][m] <= Len(h.lists[q])
      PROVE  g.lists[q][h.idx[q][m]] = h.lists[q][h.idx[q][m]]
  <2>1. h.idx[q][m] \in 1 .. Len(h.lists[q])
    BY <1>5, <1>6, <1>9
  <2> QED BY <2>1, OtherPeer DEF Extends
<1>10. q = h.server /\ m = 1 => msg.machine = g.base
  BY <1>7 DEF MsgOK
<1>11. q = h.server /\ m = N + 3 => msg.delta = g.delta
  BY <1>8 DEF MsgOK
<1>12. ASSUME m > Preamble(h, q), msg.type = "list"
       PROVE  /\ g.idx[q][m] = g.idx[q][m - 1] + 1
              /\ g.idx[q][m] <= Len(g.lists[q])
              /\ msg.list = g.lists[q][g.idx[q][m]]
  <2>1. /\ h.idx[q][m] = h.idx[q][m - 1] + 1
        /\ h.idx[q][m] <= Len(h.lists[q])
        /\ msg.list = h.lists[q][h.idx[q][m]]
    BY <1>12 DEF MsgOK
  <2> QED BY <1>4, <1>5, <1>6, <1>9, <2>1
<1>13. ASSUME m > Preamble(h, q), msg.type # "list"
       PROVE  g.idx[q][m] = g.idx[q][m - 1]
  BY <1>4, <1>13 DEF MsgOK
<1> QED BY <1>1, <1>2, <1>10, <1>11, <1>12, <1>13 DEF MsgOK

\* The lists made so far stay what they were.
LEMMA ListStays ==
  ASSUME NEW h, GhostOK(h), NEW g, NEW p \in Peers, Extends(h, g, p),
         NEW r \in Peers, NEW k \in 1 .. Len(h.lists[r])
  PROVE  ListOK(g, g.lists[r][k], k)
<1>1. g.lists[r][k] = h.lists[r][k]
  BY OtherPeer DEF Extends
<1>2. ListOK(h, h.lists[r][k], k)
  BY DEF GhostOK, GhostPeer
<1>3. h.lists[r] # << >>
  BY GhostTypes, ASeqFacts
<1>4. g.base = h.base /\ g.delta = h.delta
  <2>1. CASE r = p
    BY <1>3, <2>1 DEF Extends
  <2>2. CASE r # p
    <3>1. r = Other(p)
      BY <2>2, OtherPeer
    <3>2. p = h.server => ~ (h.written[p] < N + 3)
      BY <1>3, <3>1, GhostTypes
    <3>3. h.written[p] \in Nat /\ N \in Nat
      BY GhostTypes
    <3> QED BY <3>2, <3>3 DEF Extends
  <2> QED BY <2>1, <2>2
<1>5. \A s \in Peers : k - 1 <= Len(h.lists[s]) + h.delta - 1
  <2> SUFFICES ASSUME NEW s \in Peers PROVE k - 1 <= Len(h.lists[s]) + h.delta - 1
    OBVIOUS
  <2>1. /\ h.delta \in Nat /\ Len(h.lists[r]) \in Nat /\ Len(h.lists[Other(r)]) \in Nat
        /\ Len(h.lists[r]) <= Len(h.lists[Other(r)]) + h.delta
        /\ k \in Nat /\ k <= Len(h.lists[r]) /\ h.delta >= 2
    BY GhostTypes, OtherPeer
  <2>2. s = r \/ s = Other(r)
    BY OtherPeer
  <2>3. \A a, b, d \in Nat : a <= b + d /\ k <= a /\ d >= 2 =>
          k - 1 <= a + d - 1 /\ k - 1 <= b + d - 1
    BY <2>1
  <2>4. k - 1 <= Len(h.lists[r]) + h.delta - 1
        /\ k - 1 <= Len(h.lists[Other(r)]) + h.delta - 1
    BY <2>1, <2>3
  <2> QED BY <2>2, <2>4
<1>6. k - 1 \in Nat
  BY GhostTypes
<1>7. \A m : AtFrame(h, m, k - 1) => AtFrame(g, m, k - 1)
  BY <1>4, <1>5, <1>6, FrameStays
<1> QED BY <1>1, <1>2, <1>7 DEF ListOK

\* What p adds is well formed.
Sound(h, g, p) ==
  /\ IsMachine(g.base)
  /\ g.delta \in Deltas \cup {DEFAULT_DELTA}
  /\ g.read[p] \in Nat /\ g.read[p] <= h.written[Other(p)]
  /\ g.written[p] \in Nat
  /\ g.idx[p] \in [Nat -> Nat]
  /\ \A k \in 1 .. Len(g.lists[p]) :
       k > Len(h.lists[p]) => ListOK(g, g.lists[p][k], k)
  /\ Len(g.lists[p]) <= Len(h.lists[Other(p)]) + g.delta
  /\ g.lists[p] # h.lists[p] =>
       p = h.server \/ ~ (h.written[h.server] < N + 3)

\* What p does keeps the ghost a ghost.
LEMMA GhostStays ==
  ASSUME NEW h, GhostOK(h), NEW g, NEW p \in Peers, Extends(h, g, p),
         Sound(h, g, p)
  PROVE  GhostOK(g)
<1> DEFINE q == Other(p)
<1>0. q \in Peers /\ Other(q) = p /\ p \in Peers /\ q # p
      /\ \A r \in Peers : r = p \/ r = q
  BY OtherPeer
<1> HIDE DEF q
<1>1. /\ g.server = h.server
      /\ g.lists[q] = h.lists[q] /\ g.read[q] = h.read[q]
      /\ g.written[q] = h.written[q] /\ g.idx[q] = h.idx[q]
      /\ h.written[p] <= g.written[p]
      /\ g.idx[p][Preamble(h, p)] = h.idx[p][Preamble(h, p)]
      /\ ASeq(g.lists[p]) /\ Len(h.lists[p]) <= Len(g.lists[p])
  BY DEF Extends, q
<1>a. /\ g.read[p] \in Nat /\ g.written[p] \in Nat /\ g.idx[p] \in [Nat -> Nat]
      /\ IsMachine(g.base) /\ g.delta \in Deltas \cup {DEFAULT_DELTA}
  BY DEF Sound
<1>2. \A r \in Peers :
         /\ h.read[r] \in Nat /\ h.written[r] \in Nat
         /\ ASeq(h.lists[r]) /\ Len(h.lists[r]) \in Nat
         /\ h.idx[r] \in [Nat -> Nat] /\ h.idx[r][Preamble(h, r)] = 0
         /\ h.written[h.server] < N + 3 => h.lists[r] = << >> \/ r = h.server
         /\ h.delta \in Nat /\ N \in Nat
         /\ h.read[r] <= h.written[Other(r)]
         /\ Len(h.lists[r]) <= Len(h.lists[Other(r)]) + h.delta
  BY GhostTypes DEF GhostOK, GhostPeer
<1>3. \A r \in Peers : Preamble(g, r) = Preamble(h, r)
  BY <1>1 DEF Preamble
<1>4. h.server \in Peers /\ g.written[h.server] \in Nat
      /\ h.written[h.server] <= g.written[h.server]
  <2>1. h.server \in Peers
    BY GhostTypes
  <2>2. CASE h.server = p
    BY <1>1, <1>a, <2>1, <2>2
  <2>3. CASE h.server = q
    <3>1. g.written[q] = h.written[q] /\ h.written[q] \in Nat
      BY <1>0, <1>1, <1>2
    <3>2. h.written[q] <= h.written[q]
      BY <3>1
    <3> QED BY <2>1, <2>3, <3>1, <3>2
  <2> QED BY <1>0, <2>1, <2>2, <2>3
<1>5. g.delta \in Nat
  BY <1>a, Bounds
<1>6. GhostPeer(g, p)
  <2>1. ASSUME NEW k \in 1 .. Len(g.lists[p]) PROVE ListOK(g, g.lists[p][k], k)
    <3>1. CASE k > Len(h.lists[p])
      BY <3>1 DEF Sound
    <3>2. CASE ~ (k > Len(h.lists[p]))
      <4>1. k \in 1 .. Len(h.lists[p])
        BY <1>2, <3>2
      <4> QED BY <4>1, ListStays
    <3> QED BY <3>1, <3>2
  <2>2. g.written[g.server] < N + 3 => g.lists[p] = << >> \/ p = g.server
    <3>1. h.written[h.server] \in Nat /\ N \in Nat
      BY <1>2, <1>4
    <3>2. g.written[h.server] < N + 3 => h.written[h.server] < N + 3
      BY <1>4, <3>1
    <3> QED BY <1>0, <1>1, <1>2, <3>2 DEF Sound
  <2>3. g.read[p] <= g.written[q]
    BY <1>1 DEF q, Sound
  <2>4. Len(g.lists[p]) <= Len(g.lists[q]) + g.delta
    BY <1>1 DEF q, Sound
  <2> QED BY <1>1, <1>a, <1>2, <1>3, <2>1, <2>2, <2>3, <2>4 DEF GhostPeer, q
<1>7. GhostPeer(g, q)
  <2>1. ASSUME NEW k \in 1 .. Len(g.lists[q]) PROVE ListOK(g, g.lists[q][k], k)
    <3>1. k \in 1 .. Len(h.lists[q])
      BY <1>1
    <3> QED BY <1>0, <3>1, ListStays
  <2>2. g.written[g.server] < N + 3 => g.lists[q] = << >> \/ q = g.server
    <3>1. h.written[h.server] \in Nat /\ N \in Nat
      BY <1>2, <1>4
    <3>2. g.written[h.server] < N + 3 => h.written[h.server] < N + 3
      BY <1>4, <3>1
    <3> QED BY <1>0, <1>1, <1>2, <3>2
  <2>3. h.read[q] <= h.written[p]
    BY <1>0, <1>2
  <2>4. g.read[q] <= g.written[p]
    <3>1. h.read[q] \in Nat /\ h.written[p] \in Nat
      BY <1>0, <1>2
    <3>2. g.read[q] = h.read[q] /\ h.written[p] <= g.written[p]
      BY <1>1
    <3> QED BY <1>a, <2>3, <3>1, <3>2
  <2>5. Len(g.lists[q]) <= Len(g.lists[p]) + g.delta
    <3>1. Len(h.lists[q]) <= Len(h.lists[p]) + h.delta
          /\ Len(h.lists[q]) \in Nat /\ Len(h.lists[p]) \in Nat
          /\ Len(g.lists[p]) \in Nat /\ h.delta \in Nat
      BY <1>0, <1>1, <1>2, ASeqFacts
    <3>2. CASE g.delta = h.delta
      <4>1. g.lists[q] = h.lists[q] /\ Len(h.lists[p]) <= Len(g.lists[p])
        BY <1>1
      <4>2. Len(g.lists[q]) = Len(h.lists[q])
        BY <4>1
      <4> QED BY <1>5, <3>1, <3>2, <4>1, <4>2
    <3>3. CASE g.delta # h.delta
      <4>1. p = h.server /\ h.written[p] < N + 3
        BY <3>3 DEF Extends
      <4>2. h.lists[q] = << >>
        BY <1>0, <1>2, <4>1
      <4>3. Len(h.lists[q]) = 0
        BY <4>2, ASeqEmpty
      <4> QED BY <1>1, <1>5, <3>1, <4>3
    <3> QED BY <3>2, <3>3
  <2> QED BY <1>0, <1>1, <1>2, <1>3, <2>1, <2>2, <2>4, <2>5 DEF GhostPeer
<1> QED BY <1>0, <1>1, <1>a, <1>4, <1>6, <1>7 DEF GhostOK

-----------------------------------------------------------------------------
(* The peer that does not act.                                             *)

\* No end of c gets better.
EndsKept(c) ==
  /\ end'[c]["A"] = "up" => end[c]["A"] = "up"
  /\ \A r \in Peers : end'[c][r] \in OpenEnds => end[c][r] \in OpenEnds

\* What Standing says of a peer depends on this.
Own(r) ==
  <<network_mode[r], network_socket[r], socket_pool[r], packets[r], trap[r],
    pc[r], machine[r], snapshotfilename[r], frame_delta[r],
    frame_buffer_full[r], current_frame[r], frame_to_play[r],
    frame_event_list[r], recorded[r], start[r]>>

\* What belongs to a peer includes what Standing looks at.
LEMMA MineOwn ==
  ASSUME NEW q, Mine(q)' = Mine(q)
  PROVE  Own(q)' = Own(q)
BY DEF Mine, Own

\* Those variables, one by one.
LEMMA OwnSame ==
  ASSUME NEW q, Own(q)' = Own(q)
  PROVE  /\ network_mode'[q] = network_mode[q]
         /\ network_socket'[q] = network_socket[q]
         /\ socket_pool'[q] = socket_pool[q]
         /\ packets'[q] = packets[q] /\ trap'[q] = trap[q] /\ pc'[q] = pc[q]
         /\ machine'[q] = machine[q] /\ snapshotfilename'[q] = snapshotfilename[q]
         /\ frame_delta'[q] = frame_delta[q]
         /\ frame_buffer_full'[q] = frame_buffer_full[q]
         /\ current_frame'[q] = current_frame[q]
         /\ frame_to_play'[q] = frame_to_play[q]
         /\ frame_event_list'[q] = frame_event_list[q]
         /\ recorded'[q] = recorded[q] /\ start'[q] = start[q]
         /\ Conn(q)' = Conn(q) /\ Frames(q)' = Frames(q)
         /\ InSession(q)' = InSession(q)
         /\ \A i : Back(q, i)' = Back(q, i)
         /\ Recording(q)' = Recording(q)
BY DEF Own, Conn, Frames, InSession, connected, Back, Recording

\* A peer in step stays in step when the other one makes a list or reads one.
LEMMA OtherInStep ==
  ASSUME NEW h, GhostOK(h), NEW g, NEW p \in Peers, Extends(h, g, p),
         NEW c, NEW q, q = Other(p), Own(q)' = Own(q), EndsKept(c), Conn(q) = c,
         InStep(h, c, q)
  PROVE  InStep(g, c, q)'
<1>1. q \in Peers /\ Other(q) = p /\ q # p /\ \A r \in Peers : r = p \/ r = q
  BY OtherPeer
<1>2. /\ g.server = h.server
      /\ g.lists[q] = h.lists[q] /\ g.read[q] = h.read[q]
      /\ g.written[q] = h.written[q] /\ g.idx[q] = h.idx[q]
      /\ \A m \in 0 .. h.written[p] : g.idx[p][m] = h.idx[p][m]
      /\ ASeq(g.lists[p]) /\ Len(h.lists[p]) <= Len(g.lists[p])
  BY DEF Extends
<1>3. /\ h.read[q] \in Nat /\ h.read[q] <= h.written[p] /\ h.written[p] \in Nat
      /\ Len(h.lists[q]) \in Nat /\ Len(h.lists[p]) \in Nat /\ N \in Nat
      /\ h.delta \in Nat /\ h.delta >= 2 /\ h.server \in Peers
  BY <1>1, GhostTypes
<1>4. g.base = h.base /\ g.delta = h.delta
  <2>1. p = h.server => h.read[q] >= N + 3
    BY <1>1 DEF InStep
  <2>2. p = h.server => ~ (h.written[p] < N + 3) /\ h.written[p] # 0
    BY <1>3, <2>1
  <2> QED BY <2>2 DEF Extends
<1>5. /\ Conn(q)' = Conn(q) /\ Frames(q)' = Frames(q)
      /\ machine'[q] = machine[q] /\ start'[q] = start[q]
      /\ frame_delta'[q] = frame_delta[q] /\ recorded'[q] = recorded[q]
  BY OwnSame
<1> DEFINE f == Frames(q)
<1>6. f \in Nat /\ f <= Len(h.lists[q]) /\ f <= Len(h.lists[p]) + h.delta - 1
  BY <1>1 DEF InStep
<1> HIDE DEF f
<1>7. AtFrame(g, machine[q], f)
  <2>1. AtFrame(h, machine[q], f)
    BY DEF InStep, f
  <2>2. f <= Len(h.lists[q]) + h.delta - 1
    BY <1>3, <1>6
  <2>3. \A r \in Peers : f <= Len(h.lists[r]) + h.delta - 1
    BY <1>1, <1>6, <2>2
  <2> QED BY <1>4, <1>6, <2>1, <2>3, FrameStays
<1>8. f <= Len(g.lists[p]) + g.delta - 1
  <2>1. Len(g.lists[p]) \in Nat
    BY <1>2, ASeqFacts
  <2>2. Len(h.lists[p]) <= Len(g.lists[p])
    BY <1>2
  <2>3. f <= Len(g.lists[p]) + h.delta - 1
    <3>1. h.delta \in Nat /\ Len(h.lists[p]) \in Nat
      BY <1>3
    <3>2. f \in Nat /\ f <= Len(h.lists[p]) + h.delta - 1
      BY <1>6
    <3> DEFINE a == Len(h.lists[p])
               b == Len(g.lists[p])
               d == h.delta
    <3>3. a \in Nat /\ b \in Nat /\ d \in Nat /\ a <= b /\ f <= a + d - 1
      BY <2>1, <2>2, <3>1, <3>2
    <3> HIDE DEF a, b, d
    <3>4. f <= b + d - 1
      BY <3>2, <3>3
    <3> QED BY <3>4 DEF b, d
  <2> QED BY <1>4, <2>3
<1>9. Open(q)' => Open(q)
  BY <1>1, <1>5 DEF Open, EndsKept
<1>10. Ring(h, q) => Ring(g, q)'
  BY <1>2, OwnSame DEF Ring
<1>11. Up(c)' => Up(c)
  BY DEF Up, EndsKept
<1>12. Reads(h, c, q) => Reads(g, c, q)'
  <2>1. h.read[q] \in 0 .. h.written[p]
    BY <1>3
  <2>2. g.idx[p][h.read[q]] = h.idx[p][h.read[q]]
    BY <1>2, <2>1
  <2>3. \A r : Preamble(g, r) = Preamble(h, r)
    BY <1>2 DEF Preamble
  <2> QED BY <1>1, <1>2, <1>5, <1>11, <2>2, <2>3 DEF Reads
<1>13. /\ frame_delta[q] = h.delta
       /\ start[q] = Len(h.base.inputs)
       /\ ASeq(recorded[q])
       /\ Len(recorded[q]) = Len(h.lists[q])
       /\ \A k \in 1 .. Len(h.lists[q]) : recorded[q][k] = Played(h.lists[q][k])
       /\ f <= Len(h.lists[q]) /\ Len(h.lists[q]) <= f + 1
       /\ q # h.server => h.read[q] >= N + 3
       /\ Open(q) => Ring(h, q) /\ Reads(h, c, q)
  BY DEF InStep, f
<1>14. Open(q)' => Ring(g, q)' /\ Reads(g, c, q)'
  BY <1>9, <1>10, <1>12, <1>13
<1> QED BY <1>1, <1>2, <1>4, <1>5, <1>6, <1>7, <1>8, <1>13, <1>14 DEF InStep, f

\* A peer that does nothing keeps its standing when the other one goes on.
LEMMA OtherStanding ==
  ASSUME NEW h, GhostOK(h), NEW g, NEW p \in Peers, Extends(h, g, p),
         NEW c, NEW q, q = Other(p), Own(q)' = Own(q), EndsKept(c),
         Standing(h, c, q), packets[q] \in 0 .. N
  PROVE  Standing(g, c, q)'
<1> SUFFICES ASSUME Conn(q) = c
             PROVE  Serving(g, c, q)' /\ Calling(g, c, q)' /\ Playing(g, c, q)'
  BY OwnSame DEF Standing
<1>0. Serving(h, c, q) /\ Calling(h, c, q) /\ Playing(h, c, q)
  BY DEF Standing
<1>1. q \in Peers /\ Other(q) = p /\ q # p /\ \A r \in Peers : r = p \/ r = q
  BY OtherPeer
<1>2. /\ g.server = h.server
      /\ g.lists[q] = h.lists[q] /\ g.read[q] = h.read[q]
      /\ g.written[q] = h.written[q]
  BY DEF Extends
<1>3. /\ h.read[q] \in Nat /\ h.read[q] <= h.written[p] /\ h.written[p] \in Nat
      /\ N \in Nat
  BY <1>1, GhostTypes
<1>4. Up(c)' => Up(c)
  BY DEF Up, EndsKept
<1>5. Open(q)' => Open(q)
  BY <1>1, OwnSame DEF Open, EndsKept
<1>6. h.read[q] >= 1 => g.base = h.base
  <2>1. h.read[q] >= 1 => h.written[p] # 0
    BY <1>3
  <2> QED BY <2>1 DEF Extends
<1>7. q = h.server => g.base = h.base
  BY <1>1 DEF Extends
<1>8. Serving(g, c, q)'
  <2>1. \A n : Wrote(h, c, q, n) => Wrote(g, c, q, n)'
    BY <1>2, <1>4 DEF Wrote
  <2> QED BY <1>0, <1>2, <1>7, <2>1, OwnSame DEF Serving
<1>9. Calling(g, c, q)'
  <2>1. \A n : Wrote(h, c, q, n) => Wrote(g, c, q, n)'
    BY <1>2, <1>4 DEF Wrote
  <2>2. CASE h.read[q] >= 1
    BY <1>0, <1>2, <1>6, <2>1, <2>2, OwnSame DEF Calling
  <2>3. CASE ~ (h.read[q] >= 1)
    <3>1. h.read[q] = 0
      BY <1>3, <2>3
    <3>2. ~ (pc[q] \in {"test_echo", "test_receive"})
      BY <1>0, <1>3, <3>1 DEF Calling
    <3>3. ~ (trap[q] = "client_connect" \/ pc[q] = "settings")
      BY <1>0, <3>1 DEF Calling
    <3> QED BY <1>0, <1>2, <3>2, <3>3, OwnSame DEF Calling
  <2> QED BY <2>2, <2>3
<1>10. Failed(h, q) => Failed(g, q)'
  BY <1>2, <1>5, OwnSame DEF Failed
<1>11. Hollow(h, q) => Hollow(g, q)'
  BY <1>2, <1>5 DEF Hollow
<1>12. InStep(h, c, q) => InStep(g, c, q)'
  BY OtherInStep
<1>13. Playing(g, c, q)'
  BY <1>0, <1>10, <1>11, <1>12, OwnSame DEF Playing
<1> QED BY <1>8, <1>9, <1>13

-----------------------------------------------------------------------------
(* What is under way.                                                      *)

\* The queue to r loses messages at its end only, and none while c is up.
Shorter(c, r) ==
  /\ \/ chan'[c][r] = chan[c][r] \/ chan'[c][r] = << >>
     \/ \E k \in 0 .. Len(chan[c][r]) : chan'[c][r] = SubSeq(chan[c][r], 1, k)
  /\ end'[c]["A"] = "up" => end[c]["A"] = "up" /\ chan'[c][r] = chan[c][r]

\* A connection that gets no better only loses messages at the end.
LEMMA WeakerShorter ==
  ASSUME NEW c, Weaker(c)
  PROVE  EndsKept(c) /\ \A r \in Peers : Shorter(c, r)
BY DEF Weaker, EndsKept, Shorter

\* What is left of a queue is a beginning of it.
LEMMA ShorterPrefix ==
  ASSUME NEW c, NEW r, Shorter(c, r), ASeq(chan[c][r])
  PROVE  /\ ASeq(chan'[c][r])
         /\ Len(chan'[c][r]) \in 0 .. Len(chan[c][r])
         /\ \A i \in 1 .. Len(chan'[c][r]) : chan'[c][r][i] = chan[c][r][i]
<1>1. Len(chan[c][r]) \in Nat
  BY ASeqFacts
<1>2. CASE chan'[c][r] = chan[c][r]
  BY <1>1, <1>2
<1>3. CASE chan'[c][r] = << >>
  BY <1>1, <1>3, ASeqEmpty
<1>4. ASSUME NEW k \in 0 .. Len(chan[c][r]), chan'[c][r] = SubSeq(chan[c][r], 1, k)
      PROVE  /\ ASeq(chan'[c][r])
             /\ Len(chan'[c][r]) \in 0 .. Len(chan[c][r])
             /\ \A i \in 1 .. Len(chan'[c][r]) : chan'[c][r][i] = chan[c][r][i]
  BY <1>4, ASeqPrefix
<1> QED BY <1>2, <1>3, <1>4 DEF Shorter

\* The queue to a peer that read nothing.
LEMMA WireKeep ==
  ASSUME NEW h, GhostOK(h), NEW g, NEW p \in Peers, Extends(h, g, p),
         NEW c, NEW r \in Peers, g.read[r] = h.read[r],
         g.written[Other(r)] = h.written[Other(r)], Wire(h, c, r), Shorter(c, r)
  PROVE  Wire(g, c, r)'
<1> DEFINE s == Other(r)
           n == Len(chan[c][r])
           k == Len(chan'[c][r])
<1>1. s \in Peers /\ ASeq(chan[c][r]) /\ h.read[r] \in Nat /\ h.written[s] \in Nat
      /\ h.read[r] + n <= h.written[s]
      /\ (Up(c) => h.read[r] + n = h.written[s])
      /\ \A i \in 1 .. n : MsgOK(h, s, h.read[r] + i, chan[c][r][i])
  BY GhostTypes, OtherPeer DEF Wire
<1>2. n \in Nat /\ k \in 0 .. n /\ ASeq(chan'[c][r])
      /\ \A i \in 1 .. k : chan'[c][r][i] = chan[c][r][i]
  BY <1>1, ShorterPrefix, ASeqFacts
<1>3. Up(c)' => Up(c) /\ k = n
  BY DEF Shorter, Up
<1> HIDE DEF n, k, s
<1>4. ASSUME NEW i \in 1 .. k
      PROVE  MsgOK(g, s, g.read[r] + i, chan'[c][r][i])
  <2>1. i \in 1 .. n
    BY <1>2
  <2>2. h.read[r] + i \in 1 .. h.written[s]
    BY <1>1, <1>2, <2>1
  <2>3. MsgOK(h, s, h.read[r] + i, chan[c][r][i])
    BY <1>1, <2>1
  <2>4. MsgOK(g, s, h.read[r] + i, chan[c][r][i])
    BY <1>1, <2>2, <2>3, MessageStays
  <2> QED BY <1>2, <2>4
<1>5. h.read[r] + k <= h.written[s]
  BY <1>1, <1>2
<1>6. g.read[r] = h.read[r] /\ g.written[s] = h.written[s]
  BY DEF s
<1> QED BY <1>1, <1>2, <1>3, <1>4, <1>5, <1>6 DEF Wire, n, k, s

\* The queue to a peer that has read one message.
LEMMA WireRead ==
  ASSUME NEW h, GhostOK(h), NEW g, NEW p \in Peers, Extends(h, g, p),
         NEW c, g.read[p] = h.read[p] + 1, Wire(h, c, p),
         chan[c][p] # << >>, chan'[c][p] = Tail(chan[c][p]), EndsKept(c)
  PROVE  Wire(g, c, p)'
<1> DEFINE s == Other(p)
           old == chan[c][p]
           new == chan'[c][p]
           n == Len(old)
<1>1. s \in Peers /\ ASeq(old) /\ h.read[p] \in Nat /\ h.written[s] \in Nat
      /\ h.read[p] + n <= h.written[s]
      /\ (Up(c) => h.read[p] + n = h.written[s])
      /\ \A i \in 1 .. n : MsgOK(h, s, h.read[p] + i, old[i])
  BY GhostTypes, OtherPeer DEF Wire
<1>2. n \in Nat /\ n >= 1 /\ Len(new) = n - 1 /\ ASeq(new)
      /\ \A i \in 1 .. n - 1 : new[i] = old[i + 1]
  BY <1>1, ASeqTail, ASeqFacts
<1>3. Up(c)' => Up(c)
  BY DEF EndsKept, Up
<1>6. g.read[p] = h.read[p] + 1 /\ g.written[s] = h.written[s]
  BY DEF Extends
<1> HIDE DEF n, s, old, new
<1>7. /\ h.read[p] \in Nat /\ h.written[s] \in Nat /\ h.read[p] + n <= h.written[s]
      /\ n \in Nat
  BY <1>1, <1>2
<1>4. ASSUME NEW i \in 1 .. n - 1
      PROVE  MsgOK(g, s, g.read[p] + i, new[i])
  <2>1. i + 1 \in 1 .. n /\ i \in Nat /\ i + 1 <= n
    BY <1>7
  <2>2. h.read[p] + (i + 1) \in 1 .. h.written[s]
    <3> DEFINE a == h.read[p]
               b == h.written[s]
    <3>1. a \in Nat /\ b \in Nat /\ a + n <= b /\ n \in Nat
      BY <1>7
    <3> HIDE DEF a, b
    <3>2. a + (i + 1) \in 1 .. b
      BY <2>1, <3>1
    <3> QED BY <3>2 DEF a, b
  <2>3. MsgOK(h, s, h.read[p] + (i + 1), old[i + 1])
    BY <1>1, <2>1
  <2>4. MsgOK(g, s, h.read[p] + (i + 1), old[i + 1])
    BY <1>1, <2>2, <2>3, MessageStays
  <2>5. g.read[p] + i = h.read[p] + (i + 1)
    BY <1>1, <1>6
  <2> QED BY <1>2, <2>4, <2>5
<1>5. /\ g.read[p] + (n - 1) <= g.written[s]
      /\ Up(c) => g.read[p] + (n - 1) = g.written[s]
  BY <1>1, <1>2, <1>6
<1> QED BY <1>2, <1>3, <1>4, <1>5 DEF Wire, new, s

\* The queue to the other peer after a send that arrives.
LEMMA WireWrite ==
  ASSUME NEW h, GhostOK(h), NEW g, NEW p \in Peers, Extends(h, g, p),
         NEW c, NEW msgs, ASeq(msgs), NEW q, q = Other(p), Wire(h, c, q), Up(c),
         g.written[p] = h.written[p] + Len(msgs),
         chan'[c][q] = chan[c][q] \o msgs,
         \A i \in 1 .. Len(msgs) : MsgOK(g, p, h.written[p] + i, msgs[i])
  PROVE  Wire(g, c, q)'
<1> DEFINE old == chan[c][q]
           new == chan'[c][q]
           n == Len(old)
           k == Len(msgs)
<1>1. q \in Peers /\ Other(q) = p /\ ASeq(old) /\ h.read[q] \in Nat
      /\ h.written[p] \in Nat /\ h.read[q] + n = h.written[p]
      /\ \A i \in 1 .. n : MsgOK(h, p, h.read[q] + i, old[i])
  BY GhostTypes, OtherPeer DEF Wire
<1>2. n \in Nat /\ k \in Nat /\ Len(new) = n + k /\ ASeq(new)
      /\ (\A i \in 1 .. n : new[i] = old[i])
      /\ (\A i \in 1 .. k : new[n + i] = msgs[i])
  <2>1. ASeq(old) /\ ASeq(msgs) /\ new = old \o msgs
    BY <1>1
  <2> HIDE DEF old, new
  <2> QED BY <2>1, ASeqConcat, ASeqFacts
<1>3. g.read[q] = h.read[q] /\ g.written[p] = h.written[p] + k
  BY DEF Extends
<1>4. \A i \in 1 .. k : MsgOK(g, p, h.written[p] + i, msgs[i])
  OBVIOUS
<1> HIDE DEF old, new, n, k
<1>5. ASSUME NEW i \in 1 .. n + k
      PROVE  MsgOK(g, p, g.read[q] + i, new[i])
  <2>1. CASE i <= n
    <3>1. i \in 1 .. n
      BY <1>2, <2>1
    <3>2. h.read[q] + i \in 1 .. h.written[p]
      BY <1>1, <1>2, <3>1
    <3>3. MsgOK(h, p, h.read[q] + i, old[i])
      BY <1>1, <3>1
    <3>4. MsgOK(g, p, h.read[q] + i, old[i])
      BY <3>2, <3>3, MessageStays
    <3> QED BY <1>2, <1>3, <3>1, <3>4
  <2>2. CASE i > n
    <3>1. i - n \in 1 .. k /\ n + (i - n) = i
      BY <1>2, <2>2
    <3>2. MsgOK(g, p, h.written[p] + (i - n), msgs[i - n])
      BY <1>4, <3>1
    <3>3. h.written[p] + (i - n) = g.read[q] + i
      BY <1>1, <1>2, <1>3
    <3>4. new[i] = msgs[i - n]
      BY <1>2, <3>1
    <3> QED BY <3>2, <3>3, <3>4
  <2> QED BY <1>2, <2>1, <2>2
<1>6. g.read[q] + (n + k) = g.written[p]
  <2> DEFINE a == h.read[q]
             b == h.written[p]
  <2>1. a \in Nat /\ b \in Nat /\ a + n = b /\ n \in Nat /\ k \in Nat
        /\ g.read[q] = a /\ g.written[p] = b + k
    BY <1>1, <1>2, <1>3
  <2> HIDE DEF a, b
  <2>2. a + (n + k) = b + k
    BY <2>1
  <2> QED BY <2>1, <2>2
<1>7. g.read[q] + (n + k) <= g.written[p]
  <2>1. g.written[p] \in Nat
    BY <1>1, <1>2, <1>3
  <2> QED BY <1>6, <2>1
<1> QED BY <1>1, <1>2, <1>5, <1>6, <1>7 DEF Wire, new

-----------------------------------------------------------------------------
(* The next ghost of a connection.                                         *)

\* A connection in the backlog stays as it was.
LEMMA QueuedStays ==
  ASSUME NEW h, NEW g, NEW c, NEW r, Queued(h, c, r),
         g.server = h.server, g.read[r] = h.read[r], g.written[r] = h.written[r],
         g.lists[r] = h.lists[r],
         c \in Range(backlog'[r]) => c \in Range(backlog[r])
  PROVE  Queued(g, c, r)'
BY DEF Queued

\* After a length, the list stays the next message.
LEMMA ListNextKeep ==
  ASSUME NEW c, NEW r, ListNext(c, r), Shorter(c, r), ASeq(chan[c][r]),
         Conn(r)' = c /\ pc'[r] = "list" => Conn(r) = c /\ pc[r] = "list"
  PROVE  ListNext(c, r)'
<1> SUFFICES ASSUME Conn(r)' = c, pc'[r] = "list"
             PROVE  IF chan'[c][r] = << >> THEN ~Up(c)'
                    ELSE chan'[c][r][1].type = "list"
  BY DEF ListNext
<1>1. IF chan[c][r] = << >> THEN ~Up(c) ELSE chan[c][r][1].type = "list"
  BY DEF ListNext
<1>2. /\ ASeq(chan'[c][r])
      /\ Len(chan'[c][r]) \in 0 .. Len(chan[c][r])
      /\ \A i \in 1 .. Len(chan'[c][r]) : chan'[c][r][i] = chan[c][r][i]
  BY ShorterPrefix
<1>3. Up(c)' => Up(c) /\ chan'[c][r] = chan[c][r]
  BY DEF Shorter, Up
<1>4. CASE chan'[c][r] = << >>
  <2>1. CASE chan[c][r] = << >>
    BY <1>1, <1>3, <1>4, <2>1
  <2>2. CASE chan[c][r] # << >>
    BY <1>3, <1>4, <2>2
  <2> QED BY <2>1, <2>2
<1>5. CASE chan'[c][r] # << >>
  <2>1. 1 \in 1 .. Len(chan'[c][r]) /\ Len(chan[c][r]) # 0
    BY <1>2, <1>5, ASeqFacts
  <2>2. chan[c][r] # << >>
    BY <2>1, ASeqEmpty
  <2> QED BY <1>1, <1>2, <1>5, <2>1, <2>2
<1> QED BY <1>4, <1>5

\* g continues h by what p does on c, its connection.
LEMMA Advance ==
  ASSUME NEW h, NEW c, ConnOK(h, c), NEW g, NEW p \in Peers, Extends(h, g, p),
         Sound(h, g, p), NEW q, q = Other(p), Own(q)' = Own(q), EndsKept(c),
         packets[q] \in 0 .. N, Wire(g, c, p)', Wire(g, c, q)',
         Standing(g, c, p)', ListNext(c, p)', ListNext(c, q)',
         c \notin Range(backlog'[p]),
         c \in Range(backlog'[q]) => c \in Range(backlog[q])
  PROVE  ConnOK(g, c)'
<1>0. q \in Peers /\ Other(q) = p /\ q # p /\ \A r \in Peers : r = p \/ r = q
  BY OtherPeer
<1>1. GhostOK(h) /\ Standing(h, c, q) /\ Queued(h, c, q)
  BY <1>0 DEF ConnOK
<1>2. GhostOK(g)
  BY <1>1, GhostStays
<1>3. Standing(g, c, q)'
  BY <1>1, OtherStanding
<1>4. Queued(g, c, p)'
  BY DEF Queued
<1>5. Queued(g, c, q)'
  <2>1. g.server = h.server /\ g.read[q] = h.read[q]
        /\ g.written[q] = h.written[q] /\ g.lists[q] = h.lists[q]
    BY DEF Extends
  <2> QED BY <1>1, <2>1, QueuedStays
<1>6. \A r \in Peers : Wire(g, c, r)' /\ Standing(g, c, r)' /\ Queued(g, c, r)'
                       /\ ListNext(c, r)'
  BY <1>0, <1>3, <1>4, <1>5
<1> QED BY <1>2, <1>6 DEF ConnOK

\* A ghost that does not change stays within its bounds.
LEMMA SoundItself ==
  ASSUME NEW h, GhostOK(h), NEW p \in Peers
  PROVE  Sound(h, h, p)
<1>1. h.read[p] \in Nat /\ h.written[p] \in Nat /\ h.idx[p] \in [Nat -> Nat]
      /\ h.read[p] <= h.written[Other(p)]
      /\ Len(h.lists[p]) <= Len(h.lists[Other(p)]) + h.delta
      /\ Len(h.lists[p]) \in Nat
  BY GhostTypes
<1>2. \A k \in 1 .. Len(h.lists[p]) : ~ (k > Len(h.lists[p]))
  BY <1>1
<1> QED BY <1>1, <1>2 DEF Sound, GhostOK

\* A connection on which nothing new is sent or read keeps its ghost.
LEMMA Keep ==
  ASSUME NEW h, NEW c, ConnOK(h, c), Weaker(c), NEW p \in Peers,
         NEW q, q = Other(p), Own(q)' = Own(q), packets[q] \in 0 .. N,
         Standing(h, c, p)',
         Conn(p)' = c /\ pc'[p] = "list" => Conn(p) = c /\ pc[p] = "list",
         \A r \in Peers : c \in Range(backlog'[r]) => c \in Range(backlog[r])
  PROVE  ConnOK(h, c)'
<1>0. q \in Peers /\ Other(q) = p /\ q # p /\ \A r \in Peers : r = p \/ r = q
  BY OtherPeer
<1>1. GhostOK(h) /\ \A r \in Peers : Wire(h, c, r) /\ Standing(h, c, r)
                      /\ Queued(h, c, r) /\ ListNext(c, r) /\ ASeq(chan[c][r])
  BY DEF ConnOK, Wire
<1>2. Extends(h, h, p)
  BY <1>1, ExtendsItself
<1>3. EndsKept(c) /\ \A r \in Peers : Shorter(c, r)
  BY WeakerShorter
<1>4. Standing(h, c, q)'
  BY <1>0, <1>1, <1>2, <1>3, OtherStanding
<1>5. \A r \in Peers : Wire(h, c, r)'
  BY <1>1, <1>2, <1>3, WireKeep
<1>6. \A r \in Peers : Queued(h, c, r)'
  BY <1>1, QueuedStays
<1>7. ListNext(c, p)'
  BY <1>1, <1>3, ListNextKeep
<1>8. ListNext(c, q)'
  BY <1>0, <1>1, <1>3, OwnSame, ListNextKeep
<1> QED BY <1>0, <1>1, <1>4, <1>5, <1>6, <1>7, <1>8 DEF ConnOK

\* All connections but the one the acting peer is on afterwards.
LEMMA KeepOthers ==
  ASSUME BaseInv, ConnInv, NEW p \in Peers, Mine(Other(p))' = Mine(Other(p)),
         NEW c \in 1 .. sessions, Weaker(c), Conn(p)' # c,
         \A r \in Peers : c \in Range(backlog'[r]) => c \in Range(backlog[r])
  PROVE  \E h : ConnOK(h, c)'
<1>1. PICK h : ConnOK(h, c)
  BY DEF ConnInv
<1>2. Standing(h, c, p)'
  BY DEF Standing
<1>3. Own(Other(p))' = Own(Other(p)) /\ packets[Other(p)] \in 0 .. N
  BY ConnFacts, OtherPeer, MineOwn DEF N
<1> QED BY <1>1, <1>2, <1>3, Keep

\* No connection is made: it remains to look at the one p is on.
LEMMA ConnStep ==
  ASSUME BaseInv, ConnInv, NEW p \in Peers, Mine(Other(p))' = Mine(Other(p)),
         sessions' = sessions, NEW d, Conn(p)' = d,
         \A c \in Conns : c # d => Weaker(c),
         \A r \in Peers : Range(backlog'[r]) \subseteq Range(backlog[r]),
         d \in 1 .. sessions => \A h : ConnOK(h, d) => \E g : ConnOK(g, d)'
  PROVE  ConnInv'
<1> SUFFICES ASSUME NEW c \in 1 .. sessions PROVE \E h : ConnOK(h, c)'
  BY DEF ConnInv
<1>1. c \in Conns
  <2>1. sessions \in Nat /\ sessions <= MaxSessions /\ MaxSessions \in Nat
    BY ConnFacts, Bounds
  <2> QED BY <2>1 DEF Conns
<1>2. CASE c # d
  BY <1>1, <1>2, KeepOthers
<1>3. CASE c = d
  <2>1. PICK h : ConnOK(h, c)
    BY DEF ConnInv
  <2> QED BY <1>3, <2>1
<1> QED BY <1>2, <1>3

-----------------------------------------------------------------------------
(* What the acting peer does to its own connection.                        *)

\* What the ghost of the connection of p says of p.
LEMMA OnConn ==
  ASSUME BaseInv, NEW p \in Peers, NEW c, Conn(p) = c, c # 0,
         NEW h, ConnOK(h, c)
  PROVE  /\ GhostOK(h) /\ Other(p) \in Peers /\ Other(Other(p)) = p
         /\ Wire(h, c, p) /\ Wire(h, c, Other(p)) /\ ListNext(c, Other(p))
         /\ Serving(h, c, p) /\ Calling(h, c, p) /\ Playing(h, c, p)
         /\ packets[Other(p)] \in 0 .. N /\ packets[p] \in 0 .. N
         /\ c \in Conns /\ c \notin Range(backlog[p]) /\ c \in 1 .. sessions
         /\ Up(c) <=> end[c][p] = "up"
         /\ TypeInv /\ PeerInv /\ EndsInv /\ TcpInv /\ ControlInv(p)
<1>1. Other(p) \in Peers /\ Other(Other(p)) = p
  BY OtherPeer
<1>2. GhostOK(h) /\ Wire(h, c, p) /\ Wire(h, c, Other(p)) /\ ListNext(c, Other(p))
      /\ Serving(h, c, p) /\ Calling(h, c, p) /\ Playing(h, c, p)
  BY <1>1 DEF ConnOK, Standing
<1>3. packets[Other(p)] \in 0 .. N /\ packets[p] \in 0 .. N
      /\ TypeInv /\ PeerInv /\ EndsInv /\ TcpInv /\ ControlInv(p) /\ c \in Conns
  BY <1>1, ConnFacts DEF N
<1>4. c \in 1 .. sessions /\ c \notin Range(backlog[p])
  BY <1>3, ConnMade
<1>5. Up(c) <=> end[c][p] = "up"
  BY <1>3 DEF EndsInv, Up, Peers
<1> QED BY <1>1, <1>2, <1>3, <1>4, <1>5

\* The queue to the other peer gets longer, if anything.
LEMMA ListNextMore ==
  ASSUME NEW c, NEW q, ListNext(c, q), Own(q)' = Own(q), Up(c),
         ASeq(chan[c][q]), NEW msgs, ASeq(msgs), chan'[c][q] = chan[c][q] \o msgs
  PROVE  ListNext(c, q)'
<1> SUFFICES ASSUME Conn(q) = c, pc[q] = "list"
             PROVE  chan'[c][q] # << >> /\ chan'[c][q][1].type = "list"
  BY OwnSame DEF ListNext
<1>1. chan[c][q] # << >> /\ chan[c][q][1].type = "list"
  BY DEF ListNext
<1> DEFINE s == chan[c][q]
           t == chan'[c][q]
<1>2. ASeq(s) /\ s # << >> /\ t = s \o msgs
  BY <1>1
<1> HIDE DEF s, t
<1>3. Len(s) \in Nat /\ Len(s) # 0 /\ Len(msgs) \in Nat
  BY <1>2, ASeqFacts
<1>4. Len(t) = Len(s) + Len(msgs) /\ ASeq(t)
      /\ \A i \in 1 .. Len(s) : t[i] = s[i]
  BY <1>2, ASeqConcat
<1>5. 1 \in 1 .. Len(s) /\ Len(t) # 0
  BY <1>3, <1>4
<1>6. t # << >> /\ t[1] = s[1]
  BY <1>4, <1>5, ASeqEmpty
<1> QED BY <1>1, <1>6 DEF s, t

\* p sends msgs and they get through.
LEMMA WriteGhost ==
  ASSUME BaseInv, NEW p \in Peers, NEW c, Conn(p) = c, c # 0,
         NEW h, ConnOK(h, c), NEW q, q = Other(p), Mine(q)' = Mine(q),
         NEW msgs, ASeq(msgs), Sends(p, msgs), Up(c),
         backlog' = backlog, sessions' = sessions,
         NEW g, Extends(h, g, p), Sound(h, g, p), g.read[p] = h.read[p],
         g.written[p] = h.written[p] + Len(msgs),
         \A i \in 1 .. Len(msgs) : MsgOK(g, p, h.written[p] + i, msgs[i]),
         Standing(g, c, p)', pc'[p] # "list"
  PROVE  ConnOK(g, c)'
<1>1. /\ GhostOK(h) /\ Wire(h, c, p) /\ Wire(h, c, q) /\ ListNext(c, q)
      /\ packets[q] \in 0 .. N /\ c \in Conns /\ c \notin Range(backlog[p])
      /\ c \in 1 .. sessions /\ end[c][p] = "up" /\ TcpInv
      /\ q \in Peers /\ Other(q) = p
  BY OnConn
<1>2. sessions \in Nat /\ c <= sessions
  BY <1>1 DEF TcpInv
<1>3. end' = end /\ chan'[c][p] = chan[c][p] /\ chan'[c][q] = chan[c][q] \o msgs
  BY <1>1, <1>2, SendsTcp
<1>4. EndsKept(c) /\ Shorter(c, p)
  BY <1>3 DEF EndsKept, Shorter
<1>5. Own(q)' = Own(q)
  BY MineOwn
<1>6. Wire(g, c, q)'
  BY <1>1, <1>3, WireWrite
<1>7. g.written[q] = h.written[q]
  BY DEF Extends
<1>8. Wire(g, c, p)'
  BY <1>1, <1>4, <1>7, WireKeep
<1>9. ListNext(c, p)' /\ ListNext(c, q)'
  BY <1>1, <1>3, <1>5, ListNextMore DEF ListNext, Wire
<1> QED BY <1>1, <1>4, <1>5, <1>6, <1>8, <1>9, Advance

\* p does something that does not reach the other peer.
LEMMA WeakGhost ==
  ASSUME BaseInv, NEW p \in Peers, NEW c, Conn(p) = c, c # 0,
         NEW h, ConnOK(h, c), NEW q, q = Other(p), Mine(q)' = Mine(q),
         Weaker(c), backlog' = backlog,
         NEW g, Extends(h, g, p), Sound(h, g, p), g.read[p] = h.read[p],
         g.written[p] = h.written[p],
         Standing(g, c, p)', pc'[p] # "list"
  PROVE  ConnOK(g, c)'
<1>1. /\ GhostOK(h) /\ Wire(h, c, p) /\ Wire(h, c, q) /\ ListNext(c, q)
      /\ packets[q] \in 0 .. N /\ c \notin Range(backlog[p])
      /\ q \in Peers /\ Other(q) = p
  BY OnConn
<1>2. EndsKept(c) /\ Shorter(c, p) /\ Shorter(c, q)
  BY <1>1, WeakerShorter
<1>3. Own(q)' = Own(q)
  BY MineOwn
<1>4. g.written[q] = h.written[q] /\ g.read[q] = h.read[q]
  BY DEF Extends
<1>5. Wire(g, c, p)' /\ Wire(g, c, q)'
  BY <1>1, <1>2, <1>4, WireKeep
<1>6. ListNext(c, p)'
  BY DEF ListNext
<1>7. ListNext(c, q)'
  BY <1>1, <1>2, <1>3, OwnSame, ListNextKeep DEF Wire
<1> QED BY <1>1, <1>2, <1>3, <1>5, <1>6, <1>7, Advance

\* h after p has read a message.
Read(h, p) == Then(h, p, h.base, h.delta, h.lists[p], h.read[p] + 1,
                   h.written[p], h.idx[p])

\* The fields of the ghost after p has read a message.
LEMMA ReadFields ==
  ASSUME NEW h, GhostOK(h), NEW c, NEW p \in Peers, Wire(h, c, p),
         chan[c][p] # << >>, NEW g, g = Read(h, p)
  PROVE  /\ g.server = h.server /\ g.base = h.base /\ g.delta = h.delta
         /\ \A r \in Peers : g.lists[r] = h.lists[r] /\ g.idx[r] = h.idx[r]
                             /\ g.written[r] = h.written[r]
         /\ g.read[p] = h.read[p] + 1
         /\ g.read[Other(p)] = h.read[Other(p)]
         /\ Extends(h, g, p) /\ Sound(h, g, p)
         /\ MsgOK(h, Other(p), g.read[p], Head(chan[c][p]))
         /\ h.read[p] \in Nat /\ h.read[p] + 1 <= h.written[Other(p)]
<1>0. Other(p) \in Peers /\ \A r \in Peers : r = p \/ r = Other(p)
  BY OtherPeer
<1>1. /\ g.server = h.server /\ g.base = h.base /\ g.delta = h.delta
      /\ \A r \in Peers : g.lists[r] = h.lists[r] /\ g.idx[r] = h.idx[r]
                          /\ g.written[r] = h.written[r]
      /\ g.read[p] = h.read[p] + 1
      /\ g.read[Other(p)] = h.read[Other(p)]
  BY <1>0, ThenFields DEF Read
<1>2. /\ h.read[p] \in Nat /\ h.written[p] \in Nat
      /\ h.written[Other(p)] \in Nat /\ ASeq(h.lists[p])
      /\ Len(h.lists[p]) \in Nat
  BY <1>0, GhostTypes
<1>3. Extends(h, g, p)
  BY <1>0, <1>1, <1>2 DEF Extends
<1>4. h.read[p] + 1 <= h.written[Other(p)]
      /\ MsgOK(h, Other(p), h.read[p] + 1, Head(chan[c][p]))
  <2>1. /\ h.read[p] + Len(chan[c][p]) <= h.written[Other(p)]
        /\ \A i \in 1 .. Len(chan[c][p]) :
             MsgOK(h, Other(p), h.read[p] + i, chan[c][p][i])
        /\ ASeq(chan[c][p])
    BY DEF Wire
  <2>2. Len(chan[c][p]) \in Nat /\ Len(chan[c][p]) >= 1
        /\ Head(chan[c][p]) = chan[c][p][1]
    BY <2>1, ASeqTail, ASeqFacts
  <2>3. 1 \in 1 .. Len(chan[c][p])
    BY <2>2
  <2>4. h.read[p] + 1 <= h.written[Other(p)]
    <3> DEFINE a == h.read[p]
               b == h.written[Other(p)]
               n == Len(chan[c][p])
    <3>1. a \in Nat /\ b \in Nat /\ n \in Nat /\ n >= 1 /\ a + n <= b
      BY <1>2, <2>1, <2>2
    <3> HIDE DEF a, b, n
    <3>2. a + 1 <= b
      BY <3>1
    <3> QED BY <3>2 DEF a, b
  <2> QED BY <2>1, <2>2, <2>3, <2>4
<1>5. Sound(h, g, p)
  <2>1. Sound(h, h, p)
    BY SoundItself
  <2>2. \A k \in 1 .. Len(h.lists[p]) : ~ (k > Len(h.lists[p]))
    BY <1>2
  <2>3. h.read[p] + 1 \in Nat
    BY <1>2
  <2> QED BY <1>1, <1>4, <2>1, <2>2, <2>3 DEF Sound
<1> QED BY <1>1, <1>2, <1>3, <1>4, <1>5

\* A receive that returns: the ghost of the connection has one message more
\* read.
LEMMA ReadGhost ==
  ASSUME BaseInv, NEW p \in Peers, NEW c, Conn(p) = c, c # 0,
         NEW h, ConnOK(h, c), NEW q, q = Other(p), Mine(q)' = Mine(q),
         Arrived(p), Take(p), backlog' = backlog, sessions' = sessions,
         NEW g, g = Read(h, p), Standing(g, c, p)', pc'[p] # "list"
  PROVE  ConnOK(g, c)'
<1>1. /\ GhostOK(h) /\ Wire(h, c, p) /\ Wire(h, c, q) /\ ListNext(c, q)
      /\ packets[q] \in 0 .. N /\ c \in Conns /\ c \notin Range(backlog[p])
      /\ c \in 1 .. sessions /\ TcpInv
      /\ q \in Peers /\ Other(q) = p /\ p \in Peers
  BY OnConn
<1>2. sessions \in Nat /\ c <= sessions
  BY <1>1 DEF TcpInv
<1>3. end' = end /\ chan'[c][p] = Tail(chan[c][p]) /\ chan'[c][q] = chan[c][q]
  BY <1>1, <1>2, TakeTcp
<1>4. chan[c][p] # << >>
  BY DEF Arrived
<1>5. /\ Extends(h, g, p) /\ Sound(h, g, p) /\ g.read[p] = h.read[p] + 1
      /\ g.read[q] = h.read[q] /\ g.written[p] = h.written[p]
  BY <1>1, <1>4, ReadFields
<1>6. EndsKept(c) /\ Shorter(c, q)
  BY <1>3 DEF EndsKept, Shorter
<1>7. Own(q)' = Own(q)
  BY MineOwn
<1>8. Wire(g, c, p)'
  BY <1>1, <1>3, <1>4, <1>5, <1>6, WireRead
<1>9. Wire(g, c, q)'
  BY <1>1, <1>5, <1>6, WireKeep
<1>10. ListNext(c, p)'
  BY DEF ListNext
<1>11. ListNext(c, q)'
  BY <1>1, <1>6, <1>7, OwnSame, ListNextKeep DEF Wire
<1> QED BY <1>1, <1>5, <1>6, <1>7, <1>8, <1>9, <1>10, <1>11, Advance
=============================================================================
