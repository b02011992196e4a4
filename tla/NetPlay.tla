------------------------------- MODULE NetPlay ------------------------------
(***************************************************************************)
(* Network play (network.c): two emulators on one TCP connection that run  *)
(* in lockstep.  A server sends its snapshot to the client that connects,  *)
(* both measure how long a packet travels and agree on frame_delta; from   *)
(* then on each peer sends the list of the events recorded in a frame at   *)
(* the end of that frame and plays the lists of both peers frame_delta - 1 *)
(* frames later.                                                           *)
(*                                                                         *)
(* A handler runs under the main lock of its process, so nothing of the    *)
(* same process comes between its steps; the other process comes in        *)
(* between.  A peer's program counter pc names the receive (or the send    *)
(* between two receives) at which the handler stands, "run" outside of     *)
(* every handler of this module.                                           *)
(*                                                                         *)
(* TCP is external: a connection is a queue of messages to each end and    *)
(* the state of each end, see "socket.c" below.                            *)
(***************************************************************************)
EXTENDS Integers, Sequences, FiniteSets, SequencesExt

CONSTANTS
  Servers, Clients,     \* the peers whose user starts a server, a client
  Control,              \* network_control: event types each role may send
  DEFAULT_DELTA,        \* frame_delta of a failed measurement (5)
  Deltas,               \* the values the measurement can give
  NUM_OF_TESTPACKETS,
  MaxSessions,          \* bound: connections ever made
  MaxFrames,            \* bound: frames of one session
  MaxInputs,            \* bound: events recorded and calls of network_suspend()
  MaxFaults             \* bound: broken links, user disconnects and exits

ASSUME NetPlayAssumption ==
  /\ Servers \cup Clients \subseteq {"A", "B"}
  /\ DOMAIN Control = {"server", "client"}
  /\ {DEFAULT_DELTA} \cup Deltas \subseteq Nat \ {0, 1}
  /\ \A r \in DOMAIN Control : Control[r] \cap {"LIST_END", "SYNC_TEST"} = {}
  /\ NUM_OF_TESTPACKETS \in Nat \ {0}
  /\ {MaxSessions, MaxFrames, MaxInputs, MaxFaults} \subseteq Nat

Peers == {"A", "B"}
Other(p) == IF p = "A" THEN "B" ELSE "A"
Conns == 1 .. MaxSessions
Entries == 0 .. MaxSessions       \* of socket_pool: enough for every socket
NULL == -1
FREE == -1                        \* a pool entry that is not used
LISTEN == 0                       \* a pool entry that listens
NoLists == << >>                  \* frame_event_list == NULL
Types == UNION {Control[r] : r \in DOMAIN Control}

VARIABLES
  network_mode, network_socket, listen_socket, suspended,
  frame_delta, frame_buffer_full, current_frame, frame_to_play,
  frame_event_list,     \* NoLists, or the lists of frame_delta frames
  snapshotfilename,     \* the machine state in the client's temporary file
  packets,              \* test packets still to be exchanged
  trap,                 \* the traps waiting for the next opcode
  pc,
  machine,              \* the emulated machine: where its state comes from
                        \*   and the inputs of every frame since
  socket_pool,          \* each entry: a connection, LISTEN or FREE
  backlog,              \* connections a listening socket has not accepted
  chan,                 \* chan[c][p]: messages on their way to p
  end,                  \* end[c][p]: the state of p's end
  sessions, inputs, faults,          \* counters of the bounds
  recorded, start,      \* history: what p sent, and its machine at the start
  out_of_sync           \* history: a sync test has failed

config == <<frame_delta, frame_event_list>>
ring == <<frame_buffer_full, current_frame, frame_to_play>>
tcp == <<backlog, chan, end>>
sockets == <<network_socket, listen_socket, socket_pool>>
counters == <<sessions, inputs, faults>>
history == <<recorded, start>>
vars == <<network_mode, sockets, suspended, config, ring, snapshotfilename,
          packets, trap, pc, machine, tcp, counters, history, out_of_sync>>

Init ==
  /\ machine = [p \in Peers |-> [origin |-> p, inputs |-> << >>]]
  /\ network_mode = [p \in Peers |-> "IDLE"]
  /\ network_socket = [p \in Peers |-> NULL]
  /\ listen_socket = [p \in Peers |-> NULL]
  /\ suspended = [p \in Peers |-> 0]
  /\ frame_delta = [p \in Peers |-> 0]
  /\ frame_buffer_full = [p \in Peers |-> FALSE]
  /\ current_frame = [p \in Peers |-> 0]
  /\ frame_to_play = [p \in Peers |-> 0]
  /\ frame_event_list = [p \in Peers |-> NoLists]
  /\ snapshotfilename = machine
  /\ packets = [p \in Peers |-> 0]
  /\ trap = [p \in Peers |-> "none"]
  /\ pc = [p \in Peers |-> "run"]
  /\ socket_pool = [p \in Peers |-> [e \in Entries |-> FREE]]
  /\ backlog = [p \in Peers |-> << >>]
  /\ chan = [c \in Conns |-> [p \in Peers |-> << >>]]
  /\ end = [c \in Conns |-> [p \in Peers |-> "none"]]
  /\ sessions = 0 /\ inputs = 0 /\ faults = 0
  /\ recorded = [p \in Peers |-> << >>]
  /\ start = [p \in Peers |-> 0]
  /\ out_of_sync = FALSE

-----------------------------------------------------------------------------
(* socket.c and the TCP connections below it.  An end is "up"; "fin" when  *)
(* the other end has been closed with nothing left to read, after which a  *)
(* receive returns 0 for ever; "dying" when a reset is on its way, which   *)
(* fails the next receive or send that sees it; "dead" after that;         *)
(* "closed" by its owner.                                                  *)

\* get_new_pool_entry(): the lowest free entry.
FreeEntry(p) ==
  CHOOSE e \in Entries :
    /\ socket_pool[p][e] = FREE
    /\ \A d \in Entries : socket_pool[p][d] = FREE => e <= d

\* The connection behind network_socket; 0 when the entry has been closed or
\* belongs to the listening socket, whose calls fail.
Conn(p) ==
  IF network_socket[p] = NULL \/ socket_pool[p][network_socket[p]] = FREE THEN 0
  ELSE socket_pool[p][network_socket[p]]

\* closesocket() of p's ends of the connections S.  Unread data, or a
\* connection that was never accepted, turns the close into a reset.
HangUp(S, p) ==
  LET reset(c) == chan[c][p] # << >> \/ c \in Range(backlog[p])
  IN  /\ chan' = [c \in Conns |->
           IF c \in S THEN [chan[c] EXCEPT ![p] = << >>] ELSE chan[c]]
      /\ end' = [c \in Conns |->
           IF c \notin S THEN end[c]
           ELSE [end[c] EXCEPT
                   ![p] = "closed",
                   ![Other(p)] = IF @ # "up" THEN @
                                 ELSE IF reset(c) THEN "dying" ELSE "fin"]]

\* vice_network_send() succeeds.  What reaches an end that is not there is
\* lost and answered with a reset.
Sends(p, msgs) ==
  /\ Conn(p) # 0
  /\ end[Conn(p)][p] \in {"up", "fin", "dying"}
  /\ IF end[Conn(p)][p] = "up"
     THEN /\ chan' = [chan EXCEPT ![Conn(p)][Other(p)] = @ \o msgs]
          /\ UNCHANGED end
     ELSE /\ end' = [end EXCEPT ![Conn(p)][p] = "dying"]
          /\ UNCHANGED chan

\* The next call on the socket returns -1.
Failing(p) == Conn(p) # 0 => end[Conn(p)][p] \in {"dying", "dead"}

\* The end after such a call.
BreakEnd(p) ==
  /\ end' = IF Conn(p) = 0 THEN end ELSE [end EXCEPT ![Conn(p)][p] = "dead"]
  /\ UNCHANGED chan

Fail(p) == Failing(p) /\ BreakEnd(p)

\* Sends that succeed until the reset arrives between two of them.
Dies(p) == Conn(p) # 0 /\ end[Conn(p)][p] \in {"fin", "dying"}

\* network_recv_buffer() can return, and the message it returns.  On an end
\* that is "fin" with an empty queue it never does: it adds 0 to what it has.
Arrived(p) ==
  /\ Conn(p) # 0
  /\ end[Conn(p)][p] \in {"up", "fin", "dying"}
  /\ chan[Conn(p)][p] # << >>

Message(p) == Head(chan[Conn(p)][p])

\* network_recv_buffer() takes the message off the connection, and what the
\* handler sends next, if anything, goes out.
Take(p) ==
  /\ chan' = [chan EXCEPT ![Conn(p)][p] = Tail(@)]
  /\ UNCHANGED end

-----------------------------------------------------------------------------
(* The end of a session.                                                   *)

\* A process that is gone, after exit(), a failed assertion or a crash: the
\* kernel closes every socket it has.
Gone(p) ==
  /\ network_mode' = [network_mode EXCEPT ![p] = "GONE"]
  /\ pc' = [pc EXCEPT ![p] = "gone"]
  /\ trap' = [trap EXCEPT ![p] = "none"]
  /\ HangUp({c \in Conns : end[c][p] \notin {"none", "closed"}}, p)
  /\ backlog' = [backlog EXCEPT ![p] = << >>]
  /\ socket_pool' = [socket_pool EXCEPT ![p] = [e \in Entries |-> FREE]]
  /\ UNCHANGED <<network_socket, listen_socket>>

\* The second socket network_disconnect() closes: listen_socket, unless a
\* client was connected.
AlsoClosed(p) ==
  IF network_mode[p] = "SERVER_CONNECTED" THEN NULL ELSE listen_socket[p]

\* vice_network_socket_close() asserts that the entry is in use.
ClosesTwice(p) ==
  LET n == network_socket[p]
      l == AlsoClosed(p)
  IN  \/ n # NULL /\ socket_pool[p][n] = FREE
      \/ l # NULL /\ (l = n \/ socket_pool[p][l] = FREE)

\* network_disconnect(), after which its caller goes on at next and leaves
\* the trap then.  Closing an entry twice ends a debug build; a release build,
\* without assertions, closes a descriptor that is no longer there and goes on.
network_disconnect(p, next, then) ==
  LET closed == {network_socket[p], AlsoClosed(p)} \ {NULL}
      refs == {socket_pool[p][e] : e \in closed}
  IN  \/ /\ ClosesTwice(p)
         /\ Gone(p)
      \/ /\ HangUp((refs \cap Conns)
                   \cup IF LISTEN \in refs THEN Range(backlog[p]) ELSE {}, p)
         /\ backlog' = IF LISTEN \in refs
                       THEN [backlog EXCEPT ![p] = << >>] ELSE backlog
         /\ socket_pool' = [socket_pool EXCEPT ![p] = [e \in Entries |->
                              IF e \in closed THEN FREE ELSE @[e]]]
         /\ network_mode' = [network_mode EXCEPT
              ![p] = IF @ = "SERVER_CONNECTED" THEN "SERVER" ELSE "IDLE"]
         /\ pc' = [pc EXCEPT ![p] = next]
         /\ trap' = [trap EXCEPT ![p] = then]
         /\ UNCHANGED <<network_socket, listen_socket>>

-----------------------------------------------------------------------------
(* Lists of events (event.c).                                              *)

Event(type) == [type |-> type, regs |-> << >>]
LIST_END == Event("LIST_END")

\* A list up to its end mark: what the do loops of
\* network_create_event_buffer() and network_create_event_list() copy.
ToListEnd(list) ==
  SubSeq(list, 1, SelectInSeq(list, LAMBDA e : e = LIST_END))

\* event_playback_event_list(): what reaches the machine.
Played(list) ==
  SelectSeq(ToListEnd(list), LAMBDA e : e.type \in Types)

\* event_record_in_list() on the list of the current frame.
RecordInList(p, e) ==
  frame_event_list' = [frame_event_list EXCEPT ![p][current_frame[p]] =
                         Append(@, e)]

\* network_free_frame_event_list(), network_init_frame_event_list().
InitFrameEventList(p, delta) ==
  /\ frame_delta' = [frame_delta EXCEPT ![p] = delta]
  /\ frame_event_list' = [frame_event_list EXCEPT
                            ![p] = [i \in 0 .. delta - 1 |-> << >>]]
  /\ current_frame' = [current_frame EXCEPT ![p] = 0]
  /\ frame_buffer_full' = [frame_buffer_full EXCEPT ![p] = FALSE]
  /\ trap' = [trap EXCEPT ![p] = "sync_test"]
  /\ pc' = [pc EXCEPT ![p] = "run"]
  /\ recorded' = [recorded EXCEPT ![p] = << >>]
  /\ start' = [start EXCEPT ![p] = Len(machine[p].inputs)]
  /\ UNCHANGED frame_to_play

\* Mutant: the index does not wrap around.
PlaySlotBeyond(p, next) == next + 1

\* Mutant: the list played is one frame younger.
PlaySlotNext(p, next) == (next + 2) % frame_delta[p]

\* The oldest list of the ring, the one after the current.
PlaySlot(p, next) == (next + 1) % frame_delta[p]

\* network_prepare_next_frame(), after lists, the event lists of server and
\* client, were played; lists is empty while the buffer fills.
PrepareNextFrame(p, list, lists) ==
  LET next == (current_frame[p] + 1) % frame_delta[p]
  IN  /\ current_frame' = [current_frame EXCEPT ![p] = next]
      /\ frame_to_play' = [frame_to_play EXCEPT ![p] = PlaySlot(p, next)]
      /\ frame_event_list' = [frame_event_list EXCEPT
                                ![p] = [list EXCEPT ![next] = << >>]]
      /\ machine' = [machine EXCEPT ![p].inputs = Append(@, lists)]

-----------------------------------------------------------------------------
(* Connecting.                                                             *)

connected(p) == network_mode[p] \in {"SERVER_CONNECTED", "CLIENT"}

Goto(p, here, there) ==
  pc[p] = here /\ pc' = [pc EXCEPT ![p] = there]

\* network_start_server(); the bind or the listen may fail.
network_start_server(p) ==
  /\ p \in Servers /\ pc[p] = "run" /\ network_mode[p] = "IDLE"
  /\ \/ /\ listen_socket' = [listen_socket EXCEPT ![p] = FreeEntry(p)]
        /\ socket_pool' = [socket_pool EXCEPT ![p][FreeEntry(p)] = LISTEN]
        /\ network_mode' = [network_mode EXCEPT ![p] = "SERVER"]
     \/ /\ listen_socket' = [listen_socket EXCEPT ![p] = NULL]
        /\ UNCHANGED <<socket_pool, network_mode>>
  /\ UNCHANGED <<network_socket, suspended, config, ring, snapshotfilename,
                 packets, trap, pc, machine, tcp, counters, history, out_of_sync>>

Listening(q) ==
  /\ listen_socket[q] # NULL
  /\ socket_pool[q][listen_socket[q]] = LISTEN

\* network_connect_client() up to the receive of the snapshot.
network_connect_client(p) ==
  LET c == sessions + 1
      q == Other(p)
  IN  /\ p \in Clients /\ pc[p] = "run" /\ network_mode[p] = "IDLE"
      /\ trap[p] = "none"
      /\ sessions < MaxSessions
      /\ IF Listening(q)
         THEN /\ network_socket' = [network_socket EXCEPT ![p] = FreeEntry(p)]
              /\ socket_pool' = [socket_pool EXCEPT ![p][FreeEntry(p)] = c]
              /\ backlog' = [backlog EXCEPT ![q] = Append(@, c)]
              /\ end' = [end EXCEPT ![c] = [r \in Peers |-> "up"]]
              /\ sessions' = c
              /\ pc' = [pc EXCEPT ![p] = "snapshot"]
         ELSE /\ network_socket' = [network_socket EXCEPT ![p] = NULL]
              /\ UNCHANGED <<socket_pool, backlog, end, sessions, pc>>
      /\ UNCHANGED <<network_mode, listen_socket, suspended, config, ring,
                     snapshotfilename, packets, trap, machine, chan, inputs, faults, history, out_of_sync>>

\* The rest of network_connect_client().
ReceiveSnapshot(p) ==
  /\ Goto(p, "snapshot", "run")
  /\ \/ /\ Arrived(p)
        /\ Take(p)
        /\ snapshotfilename' = [snapshotfilename EXCEPT
                                  ![p] = Message(p).machine]
        /\ trap' = [trap EXCEPT ![p] = "client_connect"]
        /\ UNCHANGED socket_pool
     \/ /\ Failing(p)
        /\ HangUp({Conn(p)} \ {0}, p)
        /\ socket_pool' = [socket_pool EXCEPT ![p][network_socket[p]] = FREE]
        /\ UNCHANGED <<snapshotfilename, trap>>
  /\ UNCHANGED <<network_mode, network_socket, listen_socket, suspended,
                 config, ring, packets, machine, backlog, counters, history,
                 out_of_sync>>

\* network_hook() of a server that waits: accept a connection.
network_hook_accept(p) ==
  /\ pc[p] = "run" /\ trap[p] = "none"
  /\ network_mode[p] = "SERVER"
  /\ backlog[p] # << >>
  /\ network_socket' = [network_socket EXCEPT ![p] = FreeEntry(p)]
  /\ socket_pool' = [socket_pool EXCEPT ![p][FreeEntry(p)] = Head(backlog[p])]
  /\ backlog' = [backlog EXCEPT ![p] = Tail(@)]
  /\ trap' = [trap EXCEPT ![p] = "server_connect"]
  /\ UNCHANGED <<network_mode, listen_socket, suspended, config, ring,
                 snapshotfilename, packets, pc, machine, chan, end, counters,
                 history, out_of_sync>>

\* network_server_connect_trap() up to network_test_delay().  The snapshot
\* may fail to be written or sent; then the settings: a failure to send their
\* length goes unnoticed, as i holds the result of a comparison, and a
\* failure to send the list leaves the server connected without lists.
network_server_connect_trap(p) ==
  /\ pc[p] = "run" /\ trap[p] = "server_connect"
  /\ trap' = [trap EXCEPT ![p] = "none"]
  /\ \/ /\ UNCHANGED <<chan, end, network_mode, packets, pc>>
     \/ /\ Fail(p)
        /\ UNCHANGED <<network_mode, packets, pc>>
     \/ /\ \/ Sends(p, <<[type |-> "snapshot", machine |-> machine[p]],
                         [type |-> "settings"]>>)
           \/ Dies(p) /\ BreakEnd(p)
        /\ network_mode' = [network_mode EXCEPT ![p] = "SERVER_CONNECTED"]
        /\ packets' = [packets EXCEPT ![p] = NUM_OF_TESTPACKETS]
        /\ pc' = [pc EXCEPT ![p] = "test_send"]
     \/ /\ Dies(p) /\ BreakEnd(p)
        /\ network_mode' = [network_mode EXCEPT ![p] = "SERVER_CONNECTED"]
        /\ UNCHANGED <<packets, pc>>
  /\ UNCHANGED <<sockets, suspended, config, ring, snapshotfilename, machine,
                 backlog, counters, history, out_of_sync>>

\* network_client_connect_trap() up to the receive of the settings.
network_client_connect_trap(p) ==
  /\ trap[p] = "client_connect"
  /\ Goto(p, "run", "settings")
  /\ trap' = [trap EXCEPT ![p] = "none"]
  /\ UNCHANGED <<network_mode, sockets, suspended, config, ring,
                 snapshotfilename, packets, machine, tcp, counters, history,
                 out_of_sync>>

\* Mutant: the client keeps its machine.
SnapshotIgnored(p) == machine[p]

\* machine_read_snapshot() of the file.
SnapshotRead(p) == snapshotfilename[p]

\* ... and up to network_test_delay().  After a failed receive, or a snapshot
\* that cannot be read, the client is idle and its socket stays open.
ReceiveSettings(p) ==
  /\ pc[p] = "settings"
  /\ \/ /\ Arrived(p)
        /\ Take(p)
        /\ \/ /\ machine' = [machine EXCEPT ![p] = SnapshotRead(p)]
              /\ network_mode' = [network_mode EXCEPT ![p] = "CLIENT"]
              /\ packets' = [packets EXCEPT ![p] = NUM_OF_TESTPACKETS]
              /\ pc' = [pc EXCEPT ![p] = "test_echo"]
           \/ /\ pc' = [pc EXCEPT ![p] = "run"]
              /\ UNCHANGED <<machine, network_mode, packets>>
     \/ /\ Fail(p)
        /\ pc' = [pc EXCEPT ![p] = "run"]
        /\ UNCHANGED <<machine, network_mode, packets>>
  /\ UNCHANGED <<sockets, suspended, config, ring, snapshotfilename, trap,
                 backlog, counters, history, out_of_sync>>

-----------------------------------------------------------------------------
(* network_test_delay().                                                   *)

TestUnchanged == UNCHANGED <<network_mode, sockets, suspended,
  snapshotfilename, machine, backlog, counters, out_of_sync>>

\* The server sends a test packet.
TestSend(p) ==
  /\ pc[p] = "test_send"
  /\ \/ /\ Sends(p, <<[type |-> "packet"]>>)
        /\ pc' = [pc EXCEPT ![p] = "test_wait"]
        /\ UNCHANGED <<config, ring, trap, history>>
     \/ /\ Fail(p)
        /\ InitFrameEventList(p, DEFAULT_DELTA)
  /\ UNCHANGED packets
  /\ TestUnchanged

\* The server receives a test packet; after the last one it chooses.
TestWait(p) ==
  /\ pc[p] = "test_wait"
  /\ \/ /\ Arrived(p) /\ Take(p)
        /\ pc' = [pc EXCEPT ![p] = IF packets[p] = 1 THEN "test_delta"
                                   ELSE "test_send"]
        /\ packets' = [packets EXCEPT ![p] = @ - 1]
        /\ UNCHANGED <<config, ring, trap, history>>
     \/ /\ Fail(p)
        /\ InitFrameEventList(p, DEFAULT_DELTA)
        /\ UNCHANGED packets
  /\ TestUnchanged

\* The server sends new_frame_delta and uses it, sent or not.
TestDelta(p) ==
  /\ pc[p] = "test_delta"
  /\ \E new_frame_delta \in Deltas :
       /\ \/ Sends(p, <<[type |-> "delta", delta |-> new_frame_delta]>>)
          \/ Fail(p)
       /\ InitFrameEventList(p, new_frame_delta)
  /\ UNCHANGED packets
  /\ TestUnchanged

\* Mutant: the last packet is not sent back.
EchoAllButLast(p) == IF packets[p] = 1 THEN << >> ELSE <<Message(p)>>

\* The packet goes back as it came.
Echo(p) == <<Message(p)>>

\* The client receives a test packet and sends it back.
TestEcho(p) ==
  /\ pc[p] = "test_echo"
  /\ \/ /\ Arrived(p)
        /\ IF end[Conn(p)][p] = "up"
           THEN /\ chan' = [chan EXCEPT ![Conn(p)] =
                              [r \in Peers |-> IF r = p THEN Tail(@[r])
                                              ELSE @[r] \o Echo(p)]]
                /\ UNCHANGED end
           ELSE /\ chan' = [chan EXCEPT ![Conn(p)][p] = Tail(@)]
                /\ end' = [end EXCEPT ![Conn(p)][p] = "dying"]
        /\ pc' = [pc EXCEPT ![p] = IF packets[p] = 1 THEN "test_receive"
                                   ELSE "test_echo"]
        /\ packets' = [packets EXCEPT ![p] = @ - 1]
        /\ UNCHANGED <<config, ring, trap, history>>
     \/ /\ Fail(p)
        /\ InitFrameEventList(p, DEFAULT_DELTA)
        /\ UNCHANGED packets
  /\ TestUnchanged

\* The client receives new_frame_delta; an error goes unnoticed.
TestReceive(p) ==
  /\ pc[p] = "test_receive"
  /\ \/ Arrived(p) /\ Take(p) /\ InitFrameEventList(p, Message(p).delta)
     \/ Fail(p) /\ InitFrameEventList(p, DEFAULT_DELTA)
  /\ UNCHANGED packets
  /\ TestUnchanged

-----------------------------------------------------------------------------
(* Playing.                                                                *)

\* network_event_record(), called for a key, a joystick, a device or a
\* resource; an event the peer has no control over is dropped.
network_event_record(p, type) ==
  LET role == IF network_mode[p] = "CLIENT" THEN "client" ELSE "server"
  IN  /\ pc[p] = "run" /\ connected(p) /\ frame_event_list[p] # NoLists
      /\ inputs < MaxInputs /\ inputs' = inputs + 1
      /\ IF type \in Control[role] THEN RecordInList(p, Event(type))
         ELSE UNCHANGED frame_event_list
      /\ UNCHANGED <<network_mode, sockets, suspended, frame_delta, ring,
                     snapshotfilename, packets, trap, pc, machine, tcp,
                     sessions, faults, history, out_of_sync>>

\* The trap of every frame records the registers.
network_event_record_sync_test(p) ==
  /\ pc[p] = "run" /\ trap[p] = "sync_test"
  /\ trap' = [trap EXCEPT ![p] = "none"]
  /\ RecordInList(p, [type |-> "SYNC_TEST", regs |-> machine[p]])
  /\ UNCHANGED <<network_mode, sockets, suspended, frame_delta, ring,
                 snapshotfilename, packets, pc, machine, tcp, counters,
                 history, out_of_sync>>

\* network_suspend(): the emulation is about to stop; a length of 0 tells
\* the other peer, once in a frame.  A failure to send it goes unnoticed.
network_suspend(p) ==
  /\ pc[p] = "run" /\ connected(p) /\ suspended[p] = 0
  /\ inputs < MaxInputs /\ inputs' = inputs + 1
  /\ Sends(p, <<[type |-> "suspend"]>>) \/ Fail(p)
  /\ suspended' = [suspended EXCEPT ![p] = 1]
  /\ UNCHANGED <<network_mode, sockets, config, ring, snapshotfilename,
                 packets, trap, pc, machine, backlog, sessions, faults,
                 history, out_of_sync>>

\* Mutant: the ring is taken for full one slot beyond its end.
BufferFullBeyond(p) == frame_buffer_full[p] \/ current_frame[p] = frame_delta[p]

\* The lists of frame_delta frames are there: from now on, one is played in
\* every frame.
BufferFull(p) ==
  frame_buffer_full[p] \/ current_frame[p] = frame_delta[p] - 1

\* network_create_event_buffer(): the list with its length before it.
ListMessage(list) == <<[type |-> "list", list |-> ToListEnd(list)]>>

\* network_hook() of a connected peer: network_hook_connected_send(), then
\* network_hook_connected_receive() up to its receive.  The receive follows
\* also when the send has failed and the connection has been closed.
network_hook(p) ==
  LET list == [frame_event_list[p] EXCEPT ![current_frame[p]] =
                 Append(@, LIST_END)]
      full == BufferFull(p)
      frames == Len(machine[p].inputs) - start[p]
  IN  /\ pc[p] = "run" /\ trap[p] = "none" /\ connected(p)
      /\ frame_event_list[p] # NoLists
      /\ frames < MaxFrames
      /\ recorded' = [recorded EXCEPT
           ![p] = Append(@, Played(list[current_frame[p]]))]
      /\ \/ /\ Sends(p, ListMessage(list[current_frame[p]]))
            /\ pc' = [pc EXCEPT ![p] = IF full THEN "length" ELSE "run"]
            /\ UNCHANGED <<network_mode, sockets, backlog>>
            /\ trap' = IF full THEN trap ELSE [trap EXCEPT ![p] = "sync_test"]
         \/ /\ Failing(p)
            /\ network_disconnect(p, IF full THEN "length" ELSE "run",
                                  IF full THEN "none" ELSE "sync_test")
      /\ suspended' = [suspended EXCEPT ![p] = 0]
      /\ frame_buffer_full' = [frame_buffer_full EXCEPT ![p] = full]
      /\ IF full
         THEN /\ frame_event_list' = [frame_event_list EXCEPT ![p] = list]
              /\ UNCHANGED <<current_frame, frame_to_play, machine>>
         ELSE PrepareNextFrame(p, list, <<>>)
      /\ UNCHANGED <<frame_delta, snapshotfilename, packets, counters, start,
                     out_of_sync>>

\* A server connected without lists: frame_delta is 0, and the modulo of
\* network_prepare_next_frame() ends the program.
CrashInHook(p) ==
  /\ pc[p] = "run" /\ trap[p] = "none" /\ connected(p)
  /\ frame_event_list[p] = NoLists
  /\ Gone(p)
  /\ UNCHANGED <<suspended, config, ring, snapshotfilename, packets, machine,
                 counters, history, out_of_sync>>

\* The receive of a length: 0 for a suspended peer, for which it waits on.
ReceiveLength(p) ==
  /\ pc[p] = "length"
  /\ \/ /\ Arrived(p) /\ Message(p).type = "suspend"
        /\ Take(p)
        /\ suspended' = [suspended EXCEPT ![p] = 1]
        /\ UNCHANGED <<network_mode, sockets, backlog, trap, pc>>
     \/ /\ Arrived(p) /\ Message(p).type = "list"
        /\ pc' = [pc EXCEPT ![p] = "list"]
        /\ UNCHANGED <<network_mode, sockets, tcp, trap, suspended>>
     \/ /\ Failing(p)
        /\ network_disconnect(p, "run", "none")
        /\ UNCHANGED suspended
  /\ UNCHANGED <<config, ring, snapshotfilename, packets, machine, counters,
                 history, out_of_sync>>

\* The receive of a list; a failure leaves the frame as it is.  The sync test
\* compares the registers where both lists begin with them; a difference
\* disconnects, and the lists are played all the same.
ReceiveList(p) ==
  LET remote == Message(p).list
      local == frame_event_list[p][frame_to_play[p]]
      lists == IF network_mode[p] = "SERVER_CONNECTED" THEN <<local, remote>>
               ELSE <<remote, local>>
      differ == /\ \A i \in 1 .. 2 : Head(lists[i]).type = "SYNC_TEST"
                /\ Head(lists[1]).regs # Head(lists[2]).regs
  IN  /\ pc[p] = "list"
      /\ \/ /\ Arrived(p)
            /\ IF differ
               THEN /\ network_disconnect(p, "run", "sync_test")
                    /\ out_of_sync' = TRUE
               ELSE /\ Take(p)
                    /\ pc' = [pc EXCEPT ![p] = "run"]
                    /\ trap' = [trap EXCEPT ![p] = "sync_test"]
                    /\ UNCHANGED <<network_mode, sockets, backlog, out_of_sync>>
            /\ PrepareNextFrame(p, frame_event_list[p],
                                <<Played(lists[1]), Played(lists[2])>>)
         \/ /\ Fail(p)
            /\ pc' = [pc EXCEPT ![p] = "run"]
            /\ UNCHANGED <<network_mode, sockets, backlog, trap,
                           current_frame, frame_to_play, frame_event_list,
                           machine, out_of_sync>>
      /\ UNCHANGED <<suspended, frame_delta, frame_buffer_full,
                     snapshotfilename, packets, counters, history>>

-----------------------------------------------------------------------------
(* The users, the processes and the network.                               *)

Fault == faults < MaxFaults /\ faults' = faults + 1

\* The user switches network play off; the user interface calls
\* network_disconnect() unless the mode is IDLE.
UserDisconnect(p) ==
  /\ pc[p] = "run" /\ network_mode[p] # "IDLE"
  /\ Fault
  /\ network_disconnect(p, "run", trap[p])
  /\ UNCHANGED <<suspended, config, ring, snapshotfilename, packets, machine,
                 sessions, inputs, history, out_of_sync>>

\* The program ends: network_shutdown(), or a crash at any point.
Exit(p) ==
  /\ pc[p] # "gone"
  /\ Fault
  /\ Gone(p)
  /\ UNCHANGED <<suspended, config, ring, snapshotfilename, packets, machine,
                 sessions, inputs, history, out_of_sync>>

\* The link of a connection breaks: what is under way is lost from some
\* point on, and both ends see a reset some time.
LinkBreaks(c) ==
  /\ "up" \in {end[c][p] : p \in Peers}
  /\ Fault
  /\ \E keep \in [Peers -> 0 .. MaxFrames + MaxInputs] :
       /\ \A p \in Peers : keep[p] <= Len(chan[c][p])
       /\ chan' = [chan EXCEPT ![c] = [p \in Peers |-> SubSeq(@[p], 1, keep[p])]]
  /\ end' = [end EXCEPT ![c] = [p \in Peers |->
               IF @[p] \in {"up", "fin"} THEN "dying" ELSE @[p]]]
  /\ UNCHANGED <<network_mode, sockets, suspended, config, ring,
                 snapshotfilename, packets, trap, pc, machine, backlog,
                 sessions, inputs, history, out_of_sync>>

\* What the emulation of a peer does by itself.
Step(p) ==
  \/ network_hook_accept(p) \/ network_hook(p) \/ CrashInHook(p)
  \/ network_server_connect_trap(p) \/ network_client_connect_trap(p)
  \/ network_event_record_sync_test(p)
  \/ ReceiveSnapshot(p) \/ ReceiveSettings(p)
  \/ TestSend(p) \/ TestWait(p) \/ TestDelta(p)
  \/ TestEcho(p) \/ TestReceive(p)
  \/ ReceiveLength(p) \/ ReceiveList(p)

\* What users and the network do to it.
Environment(p) ==
  \/ network_start_server(p) \/ network_connect_client(p)
  \/ \E type \in Types : network_event_record(p, type)
  \/ network_suspend(p) \/ UserDisconnect(p) \/ Exit(p)

Next ==
  \/ \E p \in Peers : Step(p) \/ Environment(p)
  \/ \E c \in Conns : LinkBreaks(c)

Spec == Init /\ [][Next]_vars

\* The emulation runs, traps are served, a receive returns when data or a
\* reset arrives.  Nothing is assumed of the users.
Fairness == \A p \in Peers : WF_vars(Step(p))

FairSpec == Spec /\ Fairness

-----------------------------------------------------------------------------
TypeOK ==
  /\ network_mode \in
       [Peers -> {"IDLE", "SERVER", "SERVER_CONNECTED", "CLIENT", "GONE"}]
  /\ network_socket \in [Peers -> Entries \cup {NULL}]
  /\ listen_socket \in [Peers -> Entries \cup {NULL}]
  /\ socket_pool \in [Peers -> [Entries -> Conns \cup {LISTEN, FREE}]]
  /\ suspended \in [Peers -> 0 .. 1]
  /\ frame_delta \in [Peers -> Deltas \cup {0, DEFAULT_DELTA}]
  /\ frame_buffer_full \in [Peers -> BOOLEAN]
  /\ \A p \in Peers :
       /\ DOMAIN frame_event_list[p] = 0 .. frame_delta[p] - 1
       /\ frame_delta[p] > 0 => current_frame[p] \in DOMAIN frame_event_list[p]
       /\ frame_buffer_full[p] => frame_to_play[p] \in DOMAIN frame_event_list[p]
  /\ packets \in [Peers -> 0 .. NUM_OF_TESTPACKETS]
  /\ trap \in [Peers -> {"none", "sync_test", "server_connect",
                         "client_connect"}]
  /\ end \in [Conns -> [Peers -> {"none", "up", "fin", "dying", "dead",
                                  "closed"}]]

\* Both peers play on the same connection.
InSession(p) ==
  /\ connected(p)
  /\ pc[p] \in {"run", "length", "list"}
  /\ Conn(p) # 0

Together == /\ \A p \in Peers : InSession(p)
            /\ Conn("A") = Conn("B")

Server == CHOOSE p \in Peers : network_mode[p] = "SERVER_CONNECTED"
Client == Other(Server)

\* Lockstep: in a session every frame of both machines gets the same input,
\* the events both users gave frame_delta - 1 frames earlier, the server's
\* first; none is lost, repeated, moved to another frame or played on one
\* side only.
SameInputs ==
  Together =>
    \A p \in Peers :
      \A n \in 1 .. Len(machine[p].inputs) - start[p] :
        machine[p].inputs[start[p] + n] =
          IF n < frame_delta[p] THEN << >>
          ELSE LET sent == n - frame_delta[p] + 1
               IN  <<recorded[Server][sent], recorded[Client][sent]>>

\* The machines are deterministic and start from one snapshot, so the sync
\* test never finds a difference.
NeverOutOfSync == ~out_of_sync

\* A peer is never more than frame_delta frames ahead of the other: the lists
\* in the ring and on the wire stay bounded.
LeadBounded ==
  Together =>
    \A p, q \in Peers :
      (Len(machine[p].inputs) - start[p]) - (Len(machine[q].inputs) - start[q])
        <= frame_delta[p]

\* The other peer does not serve the connection p waits on.
Deserted(p) ==
  LET q == Other(p)
      queued == Conn(p) \in Range(backlog[q])
  IN  \/ ~queued /\ Conn(q) # Conn(p)
      \/ ~queued /\ pc[q] = "run" /\ trap[q] = "none" /\ ~connected(q)
      \/ queued /\ connected(q)

\* Every receive returns some time, or the other peer has left.
ReceivesReturn ==
  \A p \in Peers :
    pc[p] \notin {"run", "gone"} ~> (pc[p] \in {"run", "gone"} \/ Deserted(p))
=============================================================================
