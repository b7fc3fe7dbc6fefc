---------------------------- MODULE TcpSetState ----------------------------
(***************************************************************************)
(* kprobe__tcp_set_state: the eBPF program that follows every TCP socket   *)
(* through the states the kernel gives it, keeps a record per connection   *)
(* in the hash map conns and outputs one event when the connection closes. *)
(*                                                                         *)
(* The kernel calls tcp_set_state(sk, state) with the socket locked, so    *)
(* calls for one socket do not overlap, while calls for different sockets  *)
(* run on different CPUs and share the places of conns.  A socket address  *)
(* carries one connection after another; the one it carries now has a      *)
(* number, and a timestamp is the number of the connection during which it *)
(* was taken.  pid stands for pid and task, which are always taken         *)
(* together.                                                               *)
(***************************************************************************)
EXTENDS Naturals, FiniteSets

CONSTANTS
  Socks,        \* socket addresses
  Pids,         \* processes
  MaxEntries,   \* max_entries of conns, 10240 in the code
  MaxConns,     \* bound: connections a socket address carries
  MaxTotal,     \* bound: connections of all socket addresses together
  MaxMisses     \* bound: calls for which the kernel skips the program

ASSUME TcpAssumption ==
  /\ Pids \subseteq Nat \ {0}
  /\ MaxEntries \in Nat
  /\ MaxConns \in Nat
  /\ MaxTotal \in Nat
  /\ MaxMisses \in Nat

VARIABLES
  attached,   \* the program is attached
  misses,     \* calls for which the kernel skipped it
  tcp,        \* the connection a socket carries, as the kernel knows it
  call,       \* the call of tcp_set_state in progress on a socket
  conns,      \* the hash map
  events      \* the events output, each with the connection it came from

vars == <<attached, misses, tcp, call, conns, events>>

(* FIN_WAIT stands for FIN_WAIT1, FIN_WAIT2 and CLOSING, which the program *)
(* does not tell apart.                                                    *)
States == {"CLOSE", "SYN_SENT", "SYN_RECV", "ESTABLISHED", "FIN_WAIT", "CLOSE_WAIT", "LAST_ACK"}

Pcs == {"idle", "enter", "delete_old", "update", "output", "delete", "return"}

(* struct conn_t.                                                          *)
Conn == [pid : Pids \cup {0}, start : 0 .. MaxConns, outbound : BOOLEAN, connected : BOOLEAN]

ZeroConn == [pid |-> 0, start |-> 0, outbound |-> FALSE, connected |-> FALSE]

NoConn == [absent |-> TRUE]

(* The truth about a connection: its number on the socket address, which   *)
(* side opened it, whether it is IPv4 and not from 127/8 to 127/8, whether *)
(* it was ever established, the processes that connected or closed it, and *)
(* whether the program saw all of it: it was attached when the connection  *)
(* began, was skipped for none of its calls and found a place in conns     *)
(* whenever it needed one.                                                 *)
Truth == [id : 0 .. MaxConns, state : States, ipv4 : BOOLEAN, outbound : BOOLEAN,
          established : BOOLEAN, actors : SUBSET Pids, seen : BOOLEAN]

Call == [pc : Pcs, state : States, pid : Pids \cup {0}, conn : Conn]

Idle == [pc |-> "idle", state |-> "CLOSE", pid |-> 0, conn |-> ZeroConn]

Event == [sock : Socks, truth : Truth, conn : Conn]

Init ==
  /\ attached = FALSE
  /\ misses = 0
  /\ tcp = [s \in Socks |-> [id |-> 0, state |-> "CLOSE", ipv4 |-> FALSE,
                             outbound |-> FALSE, established |-> FALSE,
                             actors |-> {}, seen |-> FALSE]]
  /\ call = [s \in Socks |-> Idle]
  /\ conns = [s \in Socks |-> NoConn]
  /\ events = {}

-----------------------------------------------------------------------------
(* The kernel (external)                                                   *)

(* State changes the kernel makes through tcp_set_state, other than the    *)
(* connect that leaves CLOSE.                                              *)
Changes ==
  { <<"SYN_SENT", "ESTABLISHED">>, <<"SYN_SENT", "SYN_RECV">>, <<"SYN_SENT", "CLOSE">>,
    <<"SYN_RECV", "ESTABLISHED">>, <<"SYN_RECV", "CLOSE">>,
    <<"ESTABLISHED", "FIN_WAIT">>, <<"ESTABLISHED", "CLOSE_WAIT">>,
    <<"ESTABLISHED", "CLOSE">>, <<"FIN_WAIT", "CLOSE">>, <<"CLOSE_WAIT", "LAST_ACK">>,
    <<"CLOSE_WAIT", "CLOSE">>, <<"LAST_ACK", "CLOSE">> }

(* The changes a process makes itself, by connect() or close(); the others *)
(* happen in interrupt context, over whatever process is running.          *)
ByProcess == {"SYN_SENT", "FIN_WAIT", "LAST_ACK"}

NewConnection(s, ipv4, outbound, actors, state) ==
  [id |-> tcp[s].id + 1, state |-> state, ipv4 |-> ipv4, outbound |-> outbound,
   established |-> FALSE, actors |-> actors, seen |-> attached]

(* tcp_set_state(sk, state) is called: the program runs, if it is attached *)
(* and the CPU is not already running one.                                 *)
Enter(s, state, pid, truth) ==
  /\ \/ /\ attached
        /\ call' = [call EXCEPT ![s] = [pc |-> "enter", state |-> state, pid |-> pid,
                                        conn |-> ZeroConn]]
        /\ tcp' = [tcp EXCEPT ![s] = truth]
        /\ UNCHANGED misses
     \/ /\ ~attached
        /\ call' = [call EXCEPT ![s] = [pc |-> "return", state |-> state, pid |-> pid,
                                        conn |-> ZeroConn]]
        /\ tcp' = [tcp EXCEPT ![s] = [truth EXCEPT !.seen = FALSE]]
        /\ UNCHANGED misses
     \/ /\ attached
        /\ misses < MaxMisses
        /\ misses' = misses + 1
        /\ call' = [call EXCEPT ![s] = [pc |-> "return", state |-> state, pid |-> pid,
                                        conn |-> ZeroConn]]
        /\ tcp' = [tcp EXCEPT ![s] = [truth EXCEPT !.seen = FALSE]]
  /\ UNCHANGED <<attached, conns, events>>

(* The bound on all connections is not used up.                            *)
MoreConnections ==
  Cardinality({c \in Socks \X (1 .. MaxConns) : c[2] <= tcp[c[1]].id}) < MaxTotal

(* A process connects a closed socket, or a new one at a freed address.    *)
Connect(s) ==
  /\ call[s].pc = "idle"
  /\ tcp[s].state = "CLOSE"
  /\ tcp[s].id < MaxConns
  /\ MoreConnections
  /\ \E ipv4 \in BOOLEAN, pid \in Pids :
       Enter(s, "SYN_SENT", pid, NewConnection(s, ipv4, TRUE, {pid}, "CLOSE"))

(* A SYN for a listener makes a new socket, directly in SYN_RECV.          *)
Accept(s) ==
  /\ call[s].pc = "idle"
  /\ tcp[s].state = "CLOSE"
  /\ tcp[s].id < MaxConns
  /\ MoreConnections
  /\ \E ipv4 \in BOOLEAN :
       tcp' = [tcp EXCEPT ![s] = NewConnection(s, ipv4, FALSE, {}, "SYN_RECV")]
  /\ UNCHANGED <<attached, misses, call, conns, events>>

(* The connection changes state.                                           *)
Change(s) ==
  /\ call[s].pc = "idle"
  /\ \E state \in States, pid \in Pids :
       /\ <<tcp[s].state, state>> \in Changes
       /\ Enter(s, state, pid,
                [tcp[s] EXCEPT !.established = @ \/ state = "ESTABLISHED",
                               !.actors = IF state \in ByProcess THEN @ \cup {pid} ELSE @])

(* The agent attaches the program, at any time in the life of any socket.  *)
Attach ==
  /\ ~attached
  /\ attached' = TRUE
  /\ UNCHANGED <<misses, tcp, call, conns, events>>

(* tcp_set_state itself: the socket gets its new state.                    *)
Return(s) ==
  /\ call[s].pc = "return"
  /\ tcp' = [tcp EXCEPT ![s].state = call[s].state]
  /\ call' = [call EXCEPT ![s] = Idle]
  /\ UNCHANGED <<attached, misses, conns, events>>

-----------------------------------------------------------------------------
(* kprobe__tcp_set_state                                                   *)

Goto(s, pc, conn) == call' = [call EXCEPT ![s].pc = pc, ![s].conn = conn]

(* Faulty variant: goto update_conn instead of attaching the pid.          *)
SynSentNoPid(s) ==
  /\ call[s].pc = "enter"
  /\ call[s].state = "SYN_SENT"
  /\ Goto(s, "update", [ZeroConn EXCEPT !.outbound = TRUE, !.start = tcp[s].id])
  /\ UNCHANGED <<attached, misses, tcp, conns, events>>

(* SYN_SENT: the first state of an outbound connection.  A record left at  *)
(* this address is deleted, and a new one made.                            *)
SynSent(s) ==
  /\ call[s].pc = "enter"
  /\ call[s].state = "SYN_SENT"
  /\ Goto(s, IF conns[s] # NoConn THEN "delete_old" ELSE "update",
          [ZeroConn EXCEPT !.outbound = TRUE, !.start = tcp[s].id, !.pid = call[s].pid])
  /\ UNCHANGED <<attached, misses, tcp, conns, events>>

DeleteOld(s) ==
  /\ call[s].pc = "delete_old"
  /\ conns' = [conns EXCEPT ![s] = NoConn]
  /\ Goto(s, "update", call[s].conn)
  /\ UNCHANGED <<attached, misses, tcp, events>>

(* Faulty variants: the missed creation is not returned from, the flag     *)
(* F_CONNECTED is forgotten, inbound connections are not recorded.         *)
UntrackedTo(s, pc, conn) ==
  /\ call[s].pc = "enter"
  /\ call[s].state # "SYN_SENT"
  /\ conns[s] = NoConn
  /\ Goto(s, pc, conn)
  /\ UNCHANGED <<attached, misses, tcp, conns, events>>

UntrackedUnchecked(s) == UntrackedTo(s, "delete", conns[s])

UntrackedNotConnected(s) ==
  UntrackedTo(s, IF call[s].state = "ESTABLISHED" THEN "update" ELSE "return",
              [ZeroConn EXCEPT !.start = tcp[s].id])

UntrackedIgnored(s) == UntrackedTo(s, "return", ZeroConn)

(* No record: ESTABLISHED is taken to be the first state of an inbound     *)
(* connection; in any other state the creation was missed.                 *)
Untracked(s) ==
  /\ call[s].pc = "enter"
  /\ call[s].state # "SYN_SENT"
  /\ conns[s] = NoConn
  /\ IF call[s].state = "ESTABLISHED"
     THEN Goto(s, "update", [ZeroConn EXCEPT !.connected = TRUE, !.start = tcp[s].id])
     ELSE Goto(s, "return", ZeroConn)
  /\ UNCHANGED <<attached, misses, tcp, conns, events>>

(* Faulty variant: a filtered connection returns without its record being  *)
(* deleted.                                                                *)
TrackedFilterReturns(s) ==
  /\ call[s].pc = "enter"
  /\ call[s].state # "SYN_SENT"
  /\ conns[s] # NoConn
  /\ Goto(s, IF call[s].state = "CLOSE" /\ tcp[s].ipv4 THEN "output" ELSE "return", conns[s])
  /\ UNCHANGED <<attached, misses, tcp, conns, events>>

(* There is a record, copied to the stack: a successful outbound           *)
(* connection, a close by the process that is running, or the end, where   *)
(* only IPv4 between hosts is reported.                                    *)
Tracked(s) ==
  /\ call[s].pc = "enter"
  /\ call[s].state # "SYN_SENT"
  /\ conns[s] # NoConn
  /\ CASE call[s].state = "ESTABLISHED" ->
            Goto(s, "update", [conns[s] EXCEPT !.connected = TRUE])
       [] call[s].state = "LAST_ACK" ->
            Goto(s, "update", [conns[s] EXCEPT !.pid = call[s].pid])
       [] call[s].state = "CLOSE" ->
            Goto(s, IF tcp[s].ipv4 THEN "output" ELSE "delete", conns[s])
       [] OTHER -> Goto(s, "return", conns[s])
  /\ UNCHANGED <<attached, misses, tcp, conns, events>>

(* update_conn: a new key is refused when the map is full, and nobody      *)
(* looks at the result.                                                    *)
Full == Cardinality({s \in Socks : conns[s] # NoConn}) >= MaxEntries

UpdateConn(s) ==
  /\ call[s].pc = "update"
  /\ \/ /\ conns[s] # NoConn \/ ~Full
        /\ conns' = [conns EXCEPT ![s] = call[s].conn]
        /\ UNCHANGED tcp
     \/ /\ conns[s] = NoConn /\ Full
        /\ tcp' = [tcp EXCEPT ![s].seen = FALSE]
        /\ UNCHANGED conns
  /\ Goto(s, "return", call[s].conn)
  /\ UNCHANGED <<attached, misses, events>>

(* Faulty variant: return without deleting the record.                     *)
OutputKeepsRecord(s) ==
  /\ call[s].pc = "output"
  /\ events' = events \cup {[sock |-> s, truth |-> tcp[s], conn |-> call[s].conn]}
  /\ Goto(s, "return", call[s].conn)
  /\ UNCHANGED <<attached, misses, tcp, conns>>

(* bpf_perf_event_output of the connection's data.                         *)
Output(s) ==
  /\ call[s].pc = "output"
  /\ events' = events \cup {[sock |-> s, truth |-> tcp[s], conn |-> call[s].conn]}
  /\ Goto(s, "delete", call[s].conn)
  /\ UNCHANGED <<attached, misses, tcp, conns>>

DeleteConn(s) ==
  /\ call[s].pc = "delete"
  /\ conns' = [conns EXCEPT ![s] = NoConn]
  /\ Goto(s, "return", call[s].conn)
  /\ UNCHANGED <<attached, misses, tcp, events>>

Handler(s) ==
  SynSent(s) \/ DeleteOld(s) \/ Untracked(s) \/ Tracked(s) \/ UpdateConn(s) \/ Output(s)
    \/ DeleteConn(s)

(* The sockets have carried all the connections the bounds allow.          *)
Quiet ==
  /\ \A s \in Socks : call[s].pc = "idle" /\ tcp[s].state = "CLOSE"
  /\ MoreConnections => \A s \in Socks : tcp[s].id = MaxConns
  /\ UNCHANGED vars

Next ==
  \/ Attach
  \/ Quiet
  \/ \E s \in Socks : Connect(s) \/ Accept(s) \/ Change(s) \/ Return(s) \/ Handler(s)

Spec == Init /\ [][Next]_vars

-----------------------------------------------------------------------------
(* Properties                                                              *)

(* The types of the state: in particular only records kprobe__tcp_set_state *)
(* builds are stored in conns or output.                                   *)
TypeOK ==
  /\ attached \in BOOLEAN
  /\ misses \in 0 .. MaxMisses
  /\ tcp \in [Socks -> Truth]
  /\ call \in [Socks -> Call]
  /\ conns \in [Socks -> Conn \cup {NoConn}]
  /\ events \subseteq Event

(* An event describes the connection it came from.                         *)
Exact(e) ==
  /\ e.conn.start = e.truth.id
  /\ e.conn.outbound = e.truth.outbound
  /\ e.conn.connected = e.truth.established
  /\ e.conn.pid \in e.truth.actors \cup {0}
  /\ e.conn.outbound => e.conn.pid # 0

(* The event of an outbound connection the program saw all of is right in  *)
(* every field: direction, CONNECTED flag, start time and process, even if *)
(* the record of an earlier connection was left behind at its address.     *)
OutboundEventsExact == \A e \in events : e.truth.outbound /\ e.truth.seen => Exact(e)

(* As long as the kernel skips no call, the event of an inbound connection *)
(* is right in every field too, whatever was refused or missed before the  *)
(* program was attached.                                                   *)
InboundEventsExact ==
  misses = 0 => \A e \in events : ~e.truth.outbound => Exact(e)

(* A record is reported once at most, even one that was left behind by a   *)
(* skipped call and taken over by the next connection at its address: it   *)
(* is deleted when it is output.                                           *)
OneEventPerRecord ==
  \A e, f \in events : e.sock = f.sock /\ e.conn.start = f.conn.start => e = f

(* A connection the program saw all of, and that was more than a half-open *)
(* inbound one, has been reported by the time its socket is closed.        *)
SeenIsReported ==
  \A s \in Socks :
    LET c == tcp[s]
    IN  /\ call[s].pc = "idle"
        /\ c.state = "CLOSE" /\ c.id > 0
        /\ c.seen /\ c.ipv4
        /\ c.outbound \/ c.established
        => \E e \in events : e.sock = s /\ e.truth.id = c.id

(* As long as the kernel skips no call, no record outlives its connection: *)
(* the places of conns cannot leak away.                                   *)
NoRecordOutlives ==
  misses = 0 =>
    \A s \in Socks : conns[s] # NoConn /\ call[s].pc = "idle" =>
                       tcp[s].state # "CLOSE" /\ conns[s].start = tcp[s].id

(* The document on the hooks: the flags field tells inbound from outbound  *)
(* connections.  An outbound connection whose record was refused by a full *)
(* conns is taken for an inbound one when it is established.               *)
FlagsTellDirection == \A e \in events : e.conn.outbound = e.truth.outbound
=============================================================================
