------------------------- MODULE TcpSetStateProofs -------------------------
(***************************************************************************)
(* Proofs about TcpSetState, for any sockets and processes, any size of    *)
(* conns and any number of connections and skipped calls.                  *)
(***************************************************************************)
EXTENDS TcpSetState, TLAPS

(* The kernel's own steps and those of the program.                        *)
KernelStep(s) == Connect(s) \/ Accept(s) \/ Change(s) \/ Return(s)

(* The records that the program makes are records.                         *)
LEMMA ConnFacts ==
  /\ ZeroConn \in Conn
  /\ \A id \in 0 .. MaxConns, pid \in Pids \cup {0} :
       /\ [ZeroConn EXCEPT !.outbound = TRUE, !.start = id, !.pid = pid] \in Conn
       /\ [ZeroConn EXCEPT !.connected = TRUE, !.start = id] \in Conn
  /\ \A c \in Conn, pid \in Pids \cup {0} :
       [c EXCEPT !.connected = TRUE] \in Conn /\ [c EXCEPT !.pid = pid] \in Conn
<1>1. 0 \in 0 .. MaxConns /\ ZeroConn \in Conn
  BY TcpAssumption DEF ZeroConn, Conn
<1>2. ASSUME NEW id \in 0 .. MaxConns, NEW pid \in Pids \cup {0}
      PROVE  /\ [ZeroConn EXCEPT !.outbound = TRUE, !.start = id, !.pid = pid] \in Conn
             /\ [ZeroConn EXCEPT !.connected = TRUE, !.start = id] \in Conn
  BY DEF ZeroConn, Conn
<1>3. ASSUME NEW c \in Conn, NEW pid \in Pids \cup {0}
      PROVE  [c EXCEPT !.connected = TRUE] \in Conn /\ [c EXCEPT !.pid = pid] \in Conn
  BY DEF Conn
<1> QED
  BY <1>1, <1>2, <1>3

(* A record is not the absence of one.                                     *)
LEMMA ConnPresent == ASSUME NEW c \in Conn PROVE c # NoConn
<1>1. DOMAIN c = {"pid", "start", "outbound", "connected"}
  BY DEF Conn
<1>2. DOMAIN NoConn = {"absent"}
  BY DEF NoConn
<1> QED
  BY <1>1, <1>2

(* The types hold in the first state.                                      *)
LEMMA TypeInit == Init => TypeOK
<1> SUFFICES ASSUME Init PROVE TypeOK
  OBVIOUS
<1>1. Idle \in Call
  BY ConnFacts DEF Idle, Call, Pcs, States
<1>2. tcp \in [Socks -> Truth]
  BY TcpAssumption DEF Init, Truth, States
<1>3. call \in [Socks -> Call] /\ conns \in [Socks -> Conn \cup {NoConn}]
  BY <1>1 DEF Init
<1>4. attached \in BOOLEAN
  BY DEF Init
<1>5. misses \in 0 .. MaxMisses /\ events \subseteq Event
  BY TcpAssumption DEF Init
<1> QED
  BY <1>2, <1>3, <1>4, <1>5 DEF TypeOK

(* What Enter does to the socket, whichever way the call is observed.      *)
LEMMA EnterEffect ==
  ASSUME TypeOK, NEW s \in Socks, NEW state \in States, NEW pid \in Pids, NEW truth \in Truth,
         Enter(s, state, pid, truth)
  PROVE  /\ \E pc \in {"enter", "return"} :
              call' = [call EXCEPT ![s] = [pc |-> pc, state |-> state, pid |-> pid,
                                           conn |-> ZeroConn]]
         /\ \E t \in Truth : tcp' = [tcp EXCEPT ![s] = t]
         /\ misses' \in 0 .. MaxMisses
         /\ UNCHANGED <<attached, conns, events>>
<1>1. [truth EXCEPT !.seen = FALSE] \in Truth
  BY DEF Truth
<1>2. misses' \in 0 .. MaxMisses
  BY TcpAssumption DEF Enter, TypeOK
<1>3. \E t \in Truth : tcp' = [tcp EXCEPT ![s] = t]
  BY <1>1 DEF Enter
<1>4. \E pc \in {"enter", "return"} :
        call' = [call EXCEPT ![s] = [pc |-> pc, state |-> state, pid |-> pid, conn |-> ZeroConn]]
  BY DEF Enter
<1> QED
  BY <1>2, <1>3, <1>4 DEF Enter

(* The kernel's entry into tcp_set_state keeps the types.                  *)
LEMMA TypeEnter ==
  ASSUME TypeOK, NEW s \in Socks, NEW state \in States, NEW pid \in Pids, NEW truth \in Truth,
         Enter(s, state, pid, truth)
  PROVE  TypeOK'
<1>1. \A pc \in {"enter", "return"} :
        [pc |-> pc, state |-> state, pid |-> pid, conn |-> ZeroConn] \in Call
  BY ConnFacts DEF Call, Pcs
<1>2. call' \in [Socks -> Call]
  BY <1>1, EnterEffect DEF TypeOK
<1>3. tcp' \in [Socks -> Truth]
  BY EnterEffect DEF TypeOK
<1> QED
  BY <1>2, <1>3, EnterEffect DEF TypeOK

(* A new connection on a socket is one the model has.                      *)
LEMMA NewConnectionType ==
  ASSUME TypeOK, NEW s \in Socks, tcp[s].id < MaxConns, NEW ipv4 \in BOOLEAN,
         NEW outbound \in BOOLEAN, NEW actors \in SUBSET Pids, NEW state \in States
  PROVE  NewConnection(s, ipv4, outbound, actors, state) \in Truth
<1>1. tcp[s].id + 1 \in 0 .. MaxConns
  BY TcpAssumption DEF TypeOK, Truth
<1> QED
  BY <1>1 DEF NewConnection, Truth, TypeOK

(* The truth a state change leaves.                                        *)
Changed(s, state, pid) ==
  [tcp[s] EXCEPT !.established = @ \/ state = "ESTABLISHED",
                 !.actors = IF state \in ByProcess THEN @ \cup {pid} ELSE @]

(* A connection in its next state is one the model has.                    *)
LEMMA ChangedType ==
  ASSUME TypeOK, NEW s \in Socks, NEW state \in States, NEW pid \in Pids
  PROVE  Changed(s, state, pid) \in Truth
<1>1. tcp[s] \in Truth
  BY DEF TypeOK
<1>2. (IF state \in ByProcess THEN tcp[s].actors \cup {pid} ELSE tcp[s].actors) \in SUBSET Pids
  BY <1>1 DEF Truth
<1> QED
  BY <1>1, <1>2 DEF Changed, Truth

(* What the kernel does around the program keeps the types.                *)
LEMMA TypeKernel ==
  ASSUME TypeOK, NEW s \in Socks, KernelStep(s)
  PROVE  TypeOK'
<1>1. CASE Connect(s)
  <2>1. PICK ipv4 \in BOOLEAN, pid \in Pids :
          Enter(s, "SYN_SENT", pid, NewConnection(s, ipv4, TRUE, {pid}, "CLOSE"))
    BY <1>1 DEF Connect
  <2>2. NewConnection(s, ipv4, TRUE, {pid}, "CLOSE") \in Truth
    BY <1>1, NewConnectionType DEF Connect, States
  <2> QED
    BY <2>1, <2>2, TypeEnter DEF States
<1>2. CASE Accept(s)
  <2>1. PICK ipv4 \in BOOLEAN :
          tcp' = [tcp EXCEPT ![s] = NewConnection(s, ipv4, FALSE, {}, "SYN_RECV")]
    BY <1>2 DEF Accept
  <2>2. NewConnection(s, ipv4, FALSE, {}, "SYN_RECV") \in Truth
    BY <1>2, NewConnectionType DEF Accept, States
  <2>3. tcp' \in [Socks -> Truth]
    BY <2>1, <2>2 DEF TypeOK
  <2> QED
    BY <1>2, <2>3 DEF Accept, TypeOK
<1>3. CASE Change(s)
  <2>1. PICK state \in States, pid \in Pids : Enter(s, state, pid, Changed(s, state, pid))
    BY <1>3 DEF Change, Changed
  <2> QED
    BY <2>1, ChangedType, TypeEnter
<1>4. CASE Return(s)
  <2>1. Idle \in Call
    BY ConnFacts DEF Idle, Call, Pcs, States
  <2>2. [tcp[s] EXCEPT !.state = call[s].state] \in Truth
    BY DEF TypeOK, Truth, Call
  <2>3. tcp' = [tcp EXCEPT ![s] = [tcp[s] EXCEPT !.state = call[s].state]]
    BY <1>4 DEF Return
  <2> QED
    BY <1>4, <2>1, <2>2, <2>3 DEF Return, TypeOK
<1> QED
  BY <1>1, <1>2, <1>3, <1>4 DEF KernelStep

(* A step within the program changes the socket's own call only.           *)
LEMMA GotoType ==
  ASSUME TypeOK, NEW s \in Socks, NEW pc \in Pcs, NEW conn \in Conn, Goto(s, pc, conn)
  PROVE  /\ call' \in [Socks -> Call]
         /\ call' = [call EXCEPT ![s] = [call[s] EXCEPT !.pc = pc, !.conn = conn]]
         /\ call'[s].pc = pc /\ call'[s].conn = conn
         /\ call'[s].state = call[s].state /\ call'[s].pid = call[s].pid
         /\ \A t \in Socks : t # s => call'[t] = call[t]
<1>1. call[s] \in Call
  BY DEF TypeOK
<1>2. call' = [call EXCEPT ![s] = [call[s] EXCEPT !.pc = pc, !.conn = conn]]
  BY DEF Goto, TypeOK
<1> QED
  BY <1>1, <1>2 DEF Call, TypeOK

(* A step of the program keeps the types.                                  *)
LEMMA TypeHandler ==
  ASSUME TypeOK, NEW s \in Socks, Handler(s)
  PROVE  TypeOK'
<1>0. /\ call[s].conn \in Conn /\ call[s].pid \in Pids \cup {0} /\ tcp[s].id \in 0 .. MaxConns
      /\ tcp[s] \in Truth
      /\ (conns[s] # NoConn => conns[s] \in Conn)
  BY DEF TypeOK, Call, Truth
<1>1. ASSUME NEW pc \in Pcs, NEW conn \in Conn, Goto(s, pc, conn),
             UNCHANGED <<attached, misses>>, tcp' \in [Socks -> Truth],
             conns' \in [Socks -> Conn \cup {NoConn}], events' \subseteq Event
      PROVE  TypeOK'
  BY <1>1, GotoType DEF TypeOK
<1>2. CASE SynSent(s)
  BY <1>0, <1>1, <1>2, ConnFacts DEF SynSent, TypeOK, Pcs
<1>3. CASE DeleteOld(s)
  <2>1. conns' \in [Socks -> Conn \cup {NoConn}]
    BY <1>3 DEF DeleteOld, TypeOK
  <2> QED
    BY <1>0, <1>1, <1>3, <2>1 DEF DeleteOld, TypeOK, Pcs
<1>4. CASE Untracked(s)
  BY <1>0, <1>1, <1>4, ConnFacts DEF Untracked, TypeOK, Pcs
<1>5. CASE Tracked(s)
  BY <1>0, <1>1, <1>5, ConnFacts DEF Tracked, TypeOK, Pcs
<1>6. CASE UpdateConn(s)
  <2>1. conns' \in [Socks -> Conn \cup {NoConn}]
    BY <1>0, <1>6 DEF UpdateConn, TypeOK
  <2>2. [tcp[s] EXCEPT !.seen = FALSE] \in Truth
    BY <1>0 DEF Truth
  <2>3. tcp' = tcp \/ tcp' = [tcp EXCEPT ![s] = [tcp[s] EXCEPT !.seen = FALSE]]
    BY <1>6 DEF UpdateConn
  <2>4. tcp' \in [Socks -> Truth]
    BY <2>2, <2>3 DEF TypeOK
  <2> QED
    BY <1>0, <1>1, <1>6, <2>1, <2>4 DEF UpdateConn, TypeOK, Pcs
<1>7. CASE Output(s)
  <2>1. [sock |-> s, truth |-> tcp[s], conn |-> call[s].conn] \in Event
    BY <1>0 DEF Event
  <2> QED
    BY <1>0, <1>1, <1>7, <2>1 DEF Output, TypeOK, Pcs
<1>8. CASE DeleteConn(s)
  <2>1. conns' \in [Socks -> Conn \cup {NoConn}]
    BY <1>8 DEF DeleteConn, TypeOK
  <2> QED
    BY <1>0, <1>1, <1>8, <2>1 DEF DeleteConn, TypeOK, Pcs
<1> QED
  BY <1>2, <1>3, <1>4, <1>5, <1>6, <1>7, <1>8 DEF Handler

(* Every step keeps the types.                                             *)
LEMMA TypeStep == TypeOK /\ [Next]_vars => TypeOK'
<1> SUFFICES ASSUME TypeOK, [Next]_vars PROVE TypeOK'
  OBVIOUS
<1>1. CASE Attach \/ Quiet \/ UNCHANGED vars
  BY <1>1 DEF Attach, Quiet, vars, TypeOK
<1> QED
  BY <1>1, TypeKernel, TypeHandler DEF Next, KernelStep

(* Every record, every call in progress and every event has its type.      *)
THEOREM TypeCorrect == Spec => []TypeOK
  BY TypeInit, TypeStep, PTL DEF Spec

-----------------------------------------------------------------------------
(* What each step does to its socket s, field by field; it touches nothing *)
(* of the others.                                                          *)

OthersKept(s) ==
  \A t \in Socks \ {s} : tcp'[t] = tcp[t] /\ call'[t] = call[t] /\ conns'[t] = conns[t]

(* What the entry into tcp_set_state changes, field by field.              *)
LEMMA EnterFields ==
  ASSUME TypeOK, NEW s \in Socks, NEW state \in States, NEW pid \in Pids, NEW truth \in Truth,
         Enter(s, state, pid, truth)
  PROVE  /\ OthersKept(s)
         /\ UNCHANGED <<attached, conns, events>>
         /\ call'[s].state = state /\ call'[s].pid = pid
         /\ tcp'[s].id = truth.id /\ tcp'[s].state = truth.state
         /\ tcp'[s].outbound = truth.outbound /\ tcp'[s].established = truth.established
         /\ tcp'[s].actors = truth.actors
         /\ \/ /\ attached = TRUE /\ call'[s].pc = "enter" /\ misses' = misses
               /\ tcp'[s].seen = truth.seen
            \/ attached = FALSE /\ call'[s].pc = "return" /\ tcp'[s].seen = FALSE /\ misses' = misses
            \/ call'[s].pc = "return" /\ tcp'[s].seen = FALSE /\ misses' = misses + 1
<1>0. tcp \in [Socks -> Truth] /\ call \in [Socks -> Call] /\ attached \in BOOLEAN
  BY DEF TypeOK
<1>1. CASE /\ attached
           /\ call' = [call EXCEPT ![s] = [pc |-> "enter", state |-> state, pid |-> pid,
                                           conn |-> ZeroConn]]
           /\ tcp' = [tcp EXCEPT ![s] = truth]
           /\ UNCHANGED misses
  BY <1>0, <1>1 DEF Enter, OthersKept
<1>2. CASE /\ call' = [call EXCEPT ![s] = [pc |-> "return", state |-> state, pid |-> pid,
                                           conn |-> ZeroConn]]
           /\ tcp' = [tcp EXCEPT ![s] = [truth EXCEPT !.seen = FALSE]]
           /\ (attached = FALSE /\ UNCHANGED misses) \/ misses' = misses + 1
  <2>1. /\ call'[s] = [pc |-> "return", state |-> state, pid |-> pid, conn |-> ZeroConn]
        /\ tcp'[s] = [truth EXCEPT !.seen = FALSE]
        /\ \A t \in Socks \ {s} : tcp'[t] = tcp[t] /\ call'[t] = call[t]
    BY <1>0, <1>2
  <2>2. UNCHANGED <<attached, conns, events>>
    BY DEF Enter
  <2>3. /\ tcp'[s].id = truth.id /\ tcp'[s].state = truth.state
        /\ tcp'[s].outbound = truth.outbound /\ tcp'[s].established = truth.established
        /\ tcp'[s].actors = truth.actors /\ tcp'[s].seen = FALSE
    BY <2>1 DEF Truth
  <2>4. OthersKept(s)
    BY <2>1, <2>2 DEF OthersKept
  <2>5. call'[s].state = state /\ call'[s].pid = pid /\ call'[s].pc = "return"
    BY <2>1
  <2> QED
    BY <1>2, <2>2, <2>3, <2>4, <2>5
<1> QED
  BY <1>0, <1>1, <1>2 DEF Enter

(* An outbound connection begins with a call for SYN_SENT by the process   *)
(* that connects.                                                          *)
LEMMA ConnectFields ==
  ASSUME TypeOK, NEW s \in Socks, Connect(s)
  PROVE  \E pid \in Pids, truth \in Truth :
           /\ Enter(s, "SYN_SENT", pid, truth)
           /\ truth.id = tcp[s].id + 1 /\ truth.state = "CLOSE" /\ truth.outbound = TRUE
           /\ truth.established = FALSE /\ truth.actors = {pid}
<1>1. PICK ipv4 \in BOOLEAN, pid \in Pids :
        Enter(s, "SYN_SENT", pid, NewConnection(s, ipv4, TRUE, {pid}, "CLOSE"))
  BY DEF Connect
<1>2. NewConnection(s, ipv4, TRUE, {pid}, "CLOSE") \in Truth
  BY NewConnectionType DEF Connect, States
<1> QED
  BY <1>1, <1>2 DEF NewConnection

(* A later call is about the same connection.                              *)
LEMMA ChangeFields ==
  ASSUME TypeOK, NEW s \in Socks, Change(s)
  PROVE  \E state \in States \ {"SYN_SENT"}, pid \in Pids, truth \in Truth :
           /\ Enter(s, state, pid, truth)
           /\ tcp[s].state # "CLOSE"
           /\ truth.id = tcp[s].id /\ truth.state = tcp[s].state
           /\ truth.outbound = tcp[s].outbound /\ truth.seen = tcp[s].seen
           /\ truth.established = IF state = "ESTABLISHED" THEN TRUE ELSE tcp[s].established
           /\ tcp[s].actors \subseteq truth.actors
           /\ state = "LAST_ACK" => pid \in truth.actors
<1>1. PICK state \in States, pid \in Pids :
        /\ <<tcp[s].state, state>> \in Changes
        /\ Enter(s, state, pid, Changed(s, state, pid))
  BY DEF Change, Changed
<1>2. state # "SYN_SENT" /\ tcp[s].state # "CLOSE"
  BY <1>1 DEF Changes
<1>3. Changed(s, state, pid) \in Truth /\ tcp[s] \in Truth
  BY ChangedType DEF TypeOK
<1>4. /\ Changed(s, state, pid).id = tcp[s].id
      /\ Changed(s, state, pid).state = tcp[s].state
      /\ Changed(s, state, pid).outbound = tcp[s].outbound
      /\ Changed(s, state, pid).seen = tcp[s].seen
  BY <1>3 DEF Changed, Truth
<1>5. Changed(s, state, pid).established =
        IF state = "ESTABLISHED" THEN TRUE ELSE tcp[s].established
  BY <1>3 DEF Changed, Truth
<1>6. /\ tcp[s].actors \subseteq Changed(s, state, pid).actors
      /\ state = "LAST_ACK" => pid \in Changed(s, state, pid).actors
  BY <1>3 DEF Changed, Truth, ByProcess
<1> QED
  BY <1>1, <1>2, <1>3, <1>4, <1>5, <1>6

(* An inbound connection begins on a closed socket without a call of the   *)
(* program.                                                                *)
LEMMA AcceptFields ==
  ASSUME TypeOK, NEW s \in Socks, Accept(s)
  PROVE  /\ OthersKept(s)
         /\ UNCHANGED <<attached, misses, call, conns, events>>
         /\ tcp'[s].outbound = FALSE /\ tcp'[s].state = "SYN_RECV"
         /\ call[s].pc = "idle" /\ tcp[s].state = "CLOSE"
  BY DEF Accept, TypeOK, OthersKept, NewConnection

(* The return of tcp_set_state makes the new state the socket's.           *)
LEMMA ReturnFields ==
  ASSUME TypeOK, NEW s \in Socks, Return(s)
  PROVE  /\ OthersKept(s)
         /\ UNCHANGED <<attached, misses, conns, events>>
         /\ call[s].pc = "return"
         /\ tcp'[s] = [tcp[s] EXCEPT !.state = call[s].state]
         /\ tcp'[s].state = call[s].state
         /\ tcp'[s].id = tcp[s].id /\ tcp'[s].outbound = tcp[s].outbound
         /\ tcp'[s].established = tcp[s].established /\ tcp'[s].actors = tcp[s].actors
         /\ tcp'[s].seen = tcp[s].seen
         /\ call'[s] = Idle
<1>1. tcp[s] \in Truth /\ call[s] \in Call
  BY DEF TypeOK
<1>2. /\ tcp'[s] = [tcp[s] EXCEPT !.state = call[s].state]
      /\ call'[s] = Idle
      /\ OthersKept(s)
  BY DEF Return, TypeOK, OthersKept
<1> QED
  BY <1>1, <1>2 DEF Return, Truth

SameConnection(s) ==
  /\ tcp'[s].id = tcp[s].id /\ tcp'[s].state = tcp[s].state
  /\ tcp'[s].outbound = tcp[s].outbound /\ tcp'[s].established = tcp[s].established
  /\ tcp'[s].actors = tcp[s].actors
  /\ tcp'[s].seen = tcp[s].seen \/ tcp'[s].seen = FALSE

(* The types of what belongs to one socket.                                *)
LEMMA SocketTypes ==
  ASSUME TypeOK, NEW s \in Socks
  PROVE  /\ call[s].conn \in Conn /\ call[s].pid \in Pids \cup {0} /\ call[s].state \in States
         /\ tcp[s] \in Truth /\ tcp[s].id \in 0 .. MaxConns
         /\ conns[s] # NoConn => conns[s] \in Conn
  BY DEF TypeOK, Call, Truth

(* The program changes nothing of the other sockets and nothing of the     *)
(* connection.                                                             *)
LEMMA HandlerFields ==
  ASSUME TypeOK, NEW s \in Socks, Handler(s)
  PROVE  /\ OthersKept(s)
         /\ UNCHANGED <<attached, misses>>
         /\ call'[s].state = call[s].state /\ call'[s].pid = call[s].pid
         /\ SameConnection(s)
<1>1. \E pc \in Pcs, conn \in Conn : Goto(s, pc, conn)
  BY SocketTypes, ConnFacts DEF Handler, SynSent, DeleteOld, Untracked, Tracked, UpdateConn,
                                Output, DeleteConn, Pcs
<1>2. /\ call'[s].state = call[s].state /\ call'[s].pid = call[s].pid
      /\ \A t \in Socks : t # s => call'[t] = call[t]
  BY <1>1, GotoType
<1>3. /\ UNCHANGED <<attached, misses>>
      /\ tcp' = tcp \/ tcp' = [tcp EXCEPT ![s] = [tcp[s] EXCEPT !.seen = FALSE]]
      /\ conns' = conns \/ \E v : conns' = [conns EXCEPT ![s] = v]
  BY DEF Handler, SynSent, DeleteOld, Untracked, Tracked, UpdateConn, Output, DeleteConn
<1>4. \A t \in Socks \ {s} : tcp'[t] = tcp[t] /\ conns'[t] = conns[t]
  BY <1>3 DEF TypeOK
<1>5. tcp'[s] = tcp[s] \/ tcp'[s] = [tcp[s] EXCEPT !.seen = FALSE]
  BY <1>3 DEF TypeOK
<1>6. SameConnection(s)
  BY <1>5, SocketTypes DEF SameConnection, Truth
<1> QED
  BY <1>2, <1>3, <1>4, <1>6 DEF OthersKept

(* At SYN_SENT the program makes an outbound record of the connecting      *)
(* process.                                                                *)
LEMMA SynSentFields ==
  ASSUME TypeOK, NEW s \in Socks, SynSent(s)
  PROVE  /\ call[s].pc = "enter" /\ call[s].state = "SYN_SENT"
         /\ UNCHANGED <<tcp, conns, events>>
         /\ call'[s].pc = "delete_old" \/ call'[s].pc = "update"
         /\ call'[s].conn.start = tcp[s].id /\ call'[s].conn.outbound = TRUE
         /\ call'[s].conn.connected = FALSE /\ call'[s].conn.pid = call[s].pid
<1> DEFINE c == [ZeroConn EXCEPT !.outbound = TRUE, !.start = tcp[s].id, !.pid = call[s].pid]
<1>1. /\ c \in Conn /\ c.start = tcp[s].id /\ c.outbound = TRUE /\ c.connected = FALSE
      /\ c.pid = call[s].pid
  BY SocketTypes, ConnFacts DEF ZeroConn
<1>2. Goto(s, "delete_old", c) \/ Goto(s, "update", c)
  BY DEF SynSent
<1> HIDE DEF c
<1>3. call'[s].conn = c /\ (call'[s].pc = "delete_old" \/ call'[s].pc = "update")
  <2>1. CASE Goto(s, "delete_old", c)
    BY <1>1, <2>1, GotoType DEF Pcs
  <2>2. CASE Goto(s, "update", c)
    BY <1>1, <2>2, GotoType DEF Pcs
  <2> QED
    BY <1>2, <2>1, <2>2
<1> QED
  BY <1>1, <1>3 DEF SynSent

(* The program deletes the record that an older connection left.           *)
LEMMA DeleteOldFields ==
  ASSUME TypeOK, NEW s \in Socks, DeleteOld(s)
  PROVE  /\ call[s].pc = "delete_old" /\ conns'[s] = NoConn
         /\ UNCHANGED <<tcp, events>>
         /\ call'[s].pc = "update" /\ call'[s].conn = call[s].conn
  BY SocketTypes, GotoType DEF DeleteOld, Pcs, TypeOK

(* Without a record the program returns, or at ESTABLISHED makes an        *)
(* inbound one.                                                            *)
LEMMA UntrackedFields ==
  ASSUME TypeOK, NEW s \in Socks, Untracked(s)
  PROVE  /\ call[s].pc = "enter" /\ call[s].state # "SYN_SENT" /\ conns[s] = NoConn
         /\ UNCHANGED <<tcp, conns, events>>
         /\ \/ call[s].state # "ESTABLISHED" /\ call'[s].pc = "return"
            \/ /\ call[s].state = "ESTABLISHED" /\ call'[s].pc = "update"
               /\ call'[s].conn.start = tcp[s].id /\ call'[s].conn.outbound = FALSE
               /\ call'[s].conn.connected = TRUE /\ call'[s].conn.pid = 0
<1> DEFINE c == [ZeroConn EXCEPT !.connected = TRUE, !.start = tcp[s].id]
<1>1. /\ c \in Conn /\ c.start = tcp[s].id /\ c.outbound = FALSE /\ c.connected = TRUE
      /\ c.pid = 0
  BY SocketTypes, ConnFacts DEF ZeroConn
<1>2. \/ call[s].state = "ESTABLISHED" /\ Goto(s, "update", c)
      \/ call[s].state # "ESTABLISHED" /\ Goto(s, "return", ZeroConn)
  BY DEF Untracked
<1> HIDE DEF c
<1>3. \/ call[s].state = "ESTABLISHED" /\ call'[s].pc = "update" /\ call'[s].conn = c
      \/ call[s].state # "ESTABLISHED" /\ call'[s].pc = "return"
  BY <1>1, <1>2, ConnFacts, GotoType DEF Pcs
<1> QED
  BY <1>1, <1>3 DEF Untracked

(* With a record the program copies it and marks it, or goes on to output. *)
LEMMA TrackedFields ==
  ASSUME TypeOK, NEW s \in Socks, Tracked(s)
  PROVE  /\ call[s].pc = "enter" /\ call[s].state # "SYN_SENT" /\ conns[s] # NoConn
         /\ UNCHANGED <<tcp, conns, events>>
         /\ call'[s].conn.start = conns[s].start /\ call'[s].conn.outbound = conns[s].outbound
         /\ \/ /\ call[s].state = "ESTABLISHED" /\ call'[s].pc = "update"
               /\ call'[s].conn.connected = TRUE /\ call'[s].conn.pid = conns[s].pid
            \/ /\ call[s].state = "LAST_ACK" /\ call'[s].pc = "update"
               /\ call'[s].conn.connected = conns[s].connected /\ call'[s].conn.pid = call[s].pid
            \/ /\ call[s].state = "CLOSE" /\ call'[s].pc \in {"output", "delete"}
               /\ call'[s].conn = conns[s]
            \/ /\ call[s].state \notin {"ESTABLISHED", "CLOSE"} /\ call'[s].pc = "return"
               /\ call'[s].conn = conns[s]
<1> DEFINE e == [conns[s] EXCEPT !.connected = TRUE]
           l == [conns[s] EXCEPT !.pid = call[s].pid]
<1>0. /\ call[s].pc = "enter" /\ call[s].state # "SYN_SENT" /\ conns[s] # NoConn
      /\ UNCHANGED <<tcp, conns, events>>
  BY DEF Tracked
<1>1. /\ conns[s] \in Conn
      /\ e \in Conn /\ e.start = conns[s].start /\ e.outbound = conns[s].outbound
      /\ e.connected = TRUE /\ e.pid = conns[s].pid
      /\ l \in Conn /\ l.start = conns[s].start /\ l.outbound = conns[s].outbound
      /\ l.connected = conns[s].connected /\ l.pid = call[s].pid
  BY <1>0, SocketTypes DEF Conn
<1>2. /\ call[s].state = "ESTABLISHED" => Goto(s, "update", e)
      /\ call[s].state = "LAST_ACK" => Goto(s, "update", l)
      /\ call[s].state = "CLOSE" => Goto(s, "output", conns[s]) \/ Goto(s, "delete", conns[s])
      /\ call[s].state \notin {"ESTABLISHED", "LAST_ACK", "CLOSE"} => Goto(s, "return", conns[s])
  BY DEF Tracked
<1> HIDE DEF e, l
<1>3. CASE call[s].state = "ESTABLISHED"
  BY <1>0, <1>1, <1>2, <1>3, GotoType DEF Pcs
<1>4. CASE call[s].state = "LAST_ACK"
  BY <1>0, <1>1, <1>2, <1>4, GotoType DEF Pcs
<1>5. CASE call[s].state = "CLOSE"
  <2>1. call'[s].pc \in {"output", "delete"} /\ call'[s].conn = conns[s]
    BY <1>1, <1>2, <1>5, GotoType DEF Pcs
  <2> QED
    BY <1>0, <1>5, <2>1
<1>6. CASE call[s].state \notin {"ESTABLISHED", "LAST_ACK", "CLOSE"}
  BY <1>0, <1>1, <1>2, <1>6, GotoType DEF Pcs
<1> QED
  BY <1>3, <1>4, <1>5, <1>6

(* The update stores the copy, or is refused by the full map.              *)
LEMMA UpdateConnFields ==
  ASSUME TypeOK, NEW s \in Socks, UpdateConn(s)
  PROVE  /\ call[s].pc = "update" /\ call'[s].pc = "return"
         /\ UNCHANGED events
         /\ \/ conns'[s] = call[s].conn
            \/ conns'[s] = conns[s] /\ tcp'[s].seen = FALSE
<1>1. call'[s].pc = "return"
  BY SocketTypes, GotoType DEF UpdateConn, Pcs
<1>2. conns'[s] = call[s].conn \/ (conns'[s] = conns[s] /\ tcp'[s] = [tcp[s] EXCEPT !.seen = FALSE])
  BY DEF UpdateConn, TypeOK
<1> QED
  BY <1>1, <1>2, SocketTypes DEF UpdateConn, Truth

(* The output is of the copy, beside the connection as it is.              *)
LEMMA OutputFields ==
  ASSUME TypeOK, NEW s \in Socks, Output(s)
  PROVE  /\ call[s].pc = "output" /\ call'[s].pc = "delete"
         /\ UNCHANGED <<tcp, conns>>
         /\ events' = events \cup {[sock |-> s, truth |-> tcp[s], conn |-> call[s].conn]}
  BY SocketTypes, GotoType DEF Output, Pcs

(* The record is deleted after the output.                                 *)
LEMMA DeleteConnFields ==
  ASSUME TypeOK, NEW s \in Socks, DeleteConn(s)
  PROVE  /\ call[s].pc = "delete" /\ call'[s].pc = "return"
         /\ UNCHANGED <<tcp, events>>
         /\ conns'[s] = NoConn
  BY SocketTypes, GotoType DEF DeleteConn, Pcs, TypeOK

-----------------------------------------------------------------------------
(* As long as no call was skipped: the record of a socket is that of the   *)
(* connection it carries, and there is none once it is closed.             *)
RecordOK(s) ==
  /\ attached = FALSE => conns[s] = NoConn /\ call[s].pc \in {"idle", "return"}
  /\ conns[s] # NoConn => conns[s].start = tcp[s].id
  /\ call[s].pc \in {"delete_old", "update"} =>
       call[s].conn.start = tcp[s].id /\ call[s].state # "CLOSE"
  /\ call[s].pc = "idle" /\ tcp[s].state = "CLOSE" => conns[s] = NoConn
  /\ call[s].pc = "return" /\ call[s].state = "CLOSE" => conns[s] = NoConn

RecordInv == misses = 0 => \A s \in Socks : RecordOK(s)

(* A step of one socket keeps RecordOK of the others.                      *)
LEMMA RecordOthers ==
  ASSUME NEW s \in Socks, OthersKept(s), UNCHANGED attached,
         \A t \in Socks : RecordOK(t), RecordOK(s)'
  PROVE  \A t \in Socks : RecordOK(t)'
<1> SUFFICES ASSUME NEW t \in Socks \ {s} PROVE RecordOK(t)'
  OBVIOUS
<1>1. tcp'[t] = tcp[t] /\ call'[t] = call[t] /\ conns'[t] = conns[t] /\ RecordOK(t)
  BY DEF OthersKept
<1> QED
  BY <1>1 DEF RecordOK

(* A call that is not skipped begins with the right record or none.        *)
LEMMA RecordEnter ==
  ASSUME TypeOK, NEW s \in Socks, NEW state \in States, NEW pid \in Pids, NEW truth \in Truth,
         Enter(s, state, pid, truth), misses' = 0,
         attached = FALSE => conns[s] = NoConn,
         conns[s] # NoConn => conns[s].start = truth.id
  PROVE  RecordOK(s)' /\ OthersKept(s) /\ UNCHANGED attached
<1>1. misses \in Nat
  BY TcpAssumption DEF TypeOK
<1>2. /\ OthersKept(s) /\ UNCHANGED <<attached, conns>>
      /\ tcp'[s].id = truth.id
      /\ \/ attached = TRUE /\ call'[s].pc = "enter"
         \/ attached = FALSE /\ call'[s].pc = "return"
  <2>1. OthersKept(s) /\ UNCHANGED <<attached, conns>> /\ tcp'[s].id = truth.id
    BY EnterFields
  <2>2. \/ attached = TRUE /\ call'[s].pc = "enter"
        \/ attached = FALSE /\ call'[s].pc = "return"
        \/ misses' = misses + 1
    BY EnterFields
  <2>3. misses' # misses + 1
    BY <1>1
  <2> QED
    BY <2>1, <2>2, <2>3
<1> QED
  BY <1>2 DEF RecordOK

(* What the kernel does keeps RecordOK while no call is skipped.           *)
LEMMA RecordKernel ==
  ASSUME TypeOK, NEW s \in Socks, KernelStep(s), misses' = 0, RecordOK(s)
  PROVE  RecordOK(s)' /\ OthersKept(s) /\ UNCHANGED attached
<1>0. /\ attached = FALSE => conns[s] = NoConn
      /\ conns[s] # NoConn => conns[s].start = tcp[s].id
  BY DEF RecordOK
<1>1. CASE Connect(s)
  <2>1. PICK pid \in Pids, truth \in Truth : Enter(s, "SYN_SENT", pid, truth)
    BY <1>1, ConnectFields
  <2>2. conns[s] = NoConn
    BY <1>1 DEF Connect, RecordOK
  <2>3. "SYN_SENT" \in States
    BY DEF States
  <2> QED
    BY <2>1, <2>2, <2>3, RecordEnter
<1>2. CASE Accept(s)
  BY <1>2, AcceptFields DEF RecordOK
<1>3. CASE Change(s)
  <2>1. PICK state \in States \ {"SYN_SENT"}, pid \in Pids, truth \in Truth :
          Enter(s, state, pid, truth) /\ truth.id = tcp[s].id
    BY <1>3, ChangeFields
  <2> QED
    BY <1>0, <2>1, RecordEnter
<1>4. CASE Return(s)
  <2>1. /\ OthersKept(s) /\ UNCHANGED <<attached, conns>>
        /\ call[s].pc = "return" /\ tcp'[s].state = call[s].state /\ tcp'[s].id = tcp[s].id
        /\ call'[s] = Idle
    BY <1>4, ReturnFields
  <2>2. call'[s].pc = "idle"
    BY <2>1 DEF Idle
  <2> QED
    BY <2>1, <2>2 DEF RecordOK
<1> QED
  BY <1>1, <1>2, <1>3, <1>4 DEF KernelStep

(* A step of the program keeps RecordOK.                                   *)
LEMMA RecordHandler ==
  ASSUME TypeOK, NEW s \in Socks, Handler(s), RecordOK(s)
  PROVE  RecordOK(s)'
<1>1. /\ call'[s].state = call[s].state /\ tcp'[s].id = tcp[s].id
      /\ tcp'[s].state = tcp[s].state /\ UNCHANGED attached
  BY HandlerFields DEF SameConnection
<1>2. attached = TRUE
  BY DEF RecordOK, TypeOK, Handler, SynSent, DeleteOld, Untracked, Tracked, UpdateConn, Output,
         DeleteConn
<1>3. CASE SynSent(s)
  BY <1>1, <1>2, <1>3, SynSentFields DEF RecordOK
<1>4. CASE DeleteOld(s)
  BY <1>1, <1>2, <1>4, DeleteOldFields DEF RecordOK
<1>5. CASE Untracked(s)
  BY <1>1, <1>2, <1>5, UntrackedFields DEF RecordOK
<1>6. CASE Tracked(s)
  BY <1>1, <1>2, <1>6, TrackedFields DEF RecordOK
<1>7. CASE UpdateConn(s)
  BY <1>1, <1>2, <1>7, UpdateConnFields DEF RecordOK
<1>8. CASE Output(s)
  BY <1>1, <1>2, <1>8, OutputFields DEF RecordOK
<1>9. CASE DeleteConn(s)
  BY <1>1, <1>2, <1>9, DeleteConnFields DEF RecordOK
<1> QED
  BY <1>3, <1>4, <1>5, <1>6, <1>7, <1>8, <1>9 DEF Handler

(* Skipped calls are not taken back.                                       *)
LEMMA MissesGrow ==
  ASSUME TypeOK, [Next]_vars, misses' = 0
  PROVE  misses = 0
<1>1. misses \in Nat
  BY TcpAssumption DEF TypeOK
<1>2. misses' = misses \/ misses' = misses + 1
  <2>1. CASE Attach \/ Quiet \/ UNCHANGED vars
    BY <2>1 DEF Attach, Quiet, vars
  <2>2. ASSUME NEW s \in Socks, Connect(s) \/ Change(s)
        PROVE  misses' = misses \/ misses' = misses + 1
    BY <2>2 DEF Connect, Change, Enter
  <2>3. ASSUME NEW s \in Socks, Accept(s) \/ Return(s)
        PROVE  misses' = misses
    BY <2>3 DEF Accept, Return
  <2>4. ASSUME NEW s \in Socks, Handler(s)
        PROVE  misses' = misses
    BY <2>4, HandlerFields
  <2> QED
    BY <2>1, <2>2, <2>3, <2>4 DEF Next
<1> QED
  BY <1>1, <1>2

(* Every step keeps RecordInv.                                             *)
LEMMA RecordStep == TypeOK /\ RecordInv /\ [Next]_vars => RecordInv'
<1> SUFFICES ASSUME TypeOK, RecordInv, [Next]_vars, misses' = 0
             PROVE  \A s \in Socks : RecordOK(s)'
  BY DEF RecordInv
<1>1. CASE Attach \/ Quiet \/ UNCHANGED vars
  <2>1. misses = 0 /\ UNCHANGED <<tcp, call, conns>> /\ (attached' = TRUE \/ UNCHANGED attached)
    BY <1>1 DEF Attach, Quiet, vars
  <2> QED
    BY <2>1 DEF RecordInv, RecordOK
<1>2. ASSUME NEW s \in Socks, KernelStep(s)
      PROVE  \A t \in Socks : RecordOK(t)'
  <2>1. misses = 0
    BY MissesGrow
  <2>2. \A t \in Socks : RecordOK(t)
    BY <2>1 DEF RecordInv
  <2>3. RecordOK(s)' /\ OthersKept(s) /\ UNCHANGED attached
    BY <1>2, <2>2, RecordKernel
  <2> QED
    BY <2>2, <2>3, RecordOthers
<1>3. ASSUME NEW s \in Socks, Handler(s)
      PROVE  \A t \in Socks : RecordOK(t)'
  <2>1. OthersKept(s) /\ UNCHANGED <<attached, misses>>
    BY <1>3, HandlerFields
  <2>2. \A t \in Socks : RecordOK(t)
    BY <2>1 DEF RecordInv
  <2>3. RecordOK(s)'
    BY <1>3, <2>2, RecordHandler
  <2> QED
    BY <2>1, <2>2, <2>3, RecordOthers
<1> QED
  BY <1>1, <1>2, <1>3 DEF Next, KernelStep

(* However many sockets share conns, and whenever the program is attached: *)
(* as long as kprobe__tcp_set_state is skipped for no call, a record       *)
(* belongs to the live connection of its socket and is gone once that is   *)
(* closed.                                                                 *)
THEOREM RecordsEndWithConnection == Spec => []NoRecordOutlives
<1>1. Init => RecordInv
  BY DEF Init, RecordInv, RecordOK, Idle
<1>2. RecordInv => NoRecordOutlives
  BY DEF RecordInv, RecordOK, NoRecordOutlives
<1> QED
  BY <1>1, <1>2, TypeInit, TypeStep, RecordStep, PTL DEF Spec

-----------------------------------------------------------------------------
(* What the record of an inbound connection t must say, and that of an     *)
(* outbound one.                                                           *)
FitsInbound(c, t) ==
  /\ c.start = t.id
  /\ c.outbound = FALSE
  /\ c.connected = TRUE
  /\ t.established = TRUE
  /\ c.pid \in t.actors \cup {0}

FitsOutbound(c, t) ==
  /\ c.start = t.id
  /\ c.outbound = TRUE
  /\ c.connected = t.established
  /\ c.pid \in t.actors

(* As long as no call was skipped, an inbound connection that has a record *)
(* has one that fits, and so has the call that is about to use it.         *)
InboundOK(s) ==
  tcp[s].outbound = FALSE =>
    /\ conns[s] # NoConn => FitsInbound(conns[s], tcp[s])
    /\ call[s].pc \in {"update", "output"} => FitsInbound(call[s].conn, tcp[s])
    /\ call[s].pc # "delete_old"
    /\ call[s].pc = "enter" => call[s].state # "SYN_SENT"
    /\ call[s].pc = "enter" /\ call[s].state = "LAST_ACK" => call[s].pid \in tcp[s].actors
    /\ call[s].pc = "enter" /\ call[s].state = "ESTABLISHED" => tcp[s].established = TRUE

InboundInv == InboundEventsExact /\ (misses = 0 => \A s \in Socks : InboundOK(s))

(* An outbound connection the program has seen all of has a record between *)
(* its calls, and one that fits; the flag F_CONNECTED follows in the call  *)
(* that establishes it.                                                    *)
OutboundOK(s) ==
  tcp[s].outbound = TRUE /\ tcp[s].seen = TRUE =>
    /\ call[s].pc = "idle" /\ tcp[s].state # "CLOSE" =>
         conns[s] # NoConn /\ FitsOutbound(conns[s], tcp[s])
    /\ call[s].pc = "enter" /\ call[s].state = "SYN_SENT" =>
         tcp[s].established = FALSE /\ call[s].pid \in tcp[s].actors
    /\ call[s].pc = "enter" /\ call[s].state # "SYN_SENT" =>
         /\ conns[s] # NoConn
         /\ call[s].state = "ESTABLISHED" => tcp[s].established = TRUE
         /\ call[s].state = "LAST_ACK" => call[s].pid \in tcp[s].actors
         /\ conns[s].start = tcp[s].id /\ conns[s].outbound = TRUE
         /\ conns[s].pid \in tcp[s].actors
         /\ call[s].state # "ESTABLISHED" => conns[s].connected = tcp[s].established
    /\ call[s].pc \in {"delete_old", "update", "output"} => FitsOutbound(call[s].conn, tcp[s])
    /\ call[s].pc \in {"output", "delete"} => call[s].state = "CLOSE"
    /\ call[s].pc = "return" /\ call[s].state # "CLOSE" =>
         conns[s] # NoConn /\ FitsOutbound(conns[s], tcp[s])

OutboundInv == OutboundEventsExact /\ \A s \in Socks : OutboundOK(s)

-----------------------------------------------------------------------------
(* Inbound connections                                                     *)

(* The entry into tcp_set_state leaves the map, the events and the other   *)
(* sockets alone.                                                          *)
LEMMA EnterKept ==
  ASSUME TypeOK, NEW s \in Socks, NEW state \in States, NEW pid \in Pids, NEW truth \in Truth,
         Enter(s, state, pid, truth)
  PROVE  /\ OthersKept(s)
         /\ conns' = conns
         /\ events' = events
         /\ call'[s].state = state /\ call'[s].pid = pid
         /\ tcp'[s].id = truth.id /\ tcp'[s].outbound = truth.outbound
         /\ tcp'[s].established = truth.established /\ tcp'[s].actors = truth.actors
         /\ call'[s].pc = "enter" \/ call'[s].pc = "return"
<1>1. OthersKept(s)
  BY EnterFields
<1>2. conns' = conns /\ events' = events
  BY EnterFields
<1>3. call'[s].state = state /\ call'[s].pid = pid
  BY EnterFields
<1>4. tcp'[s].id = truth.id /\ tcp'[s].outbound = truth.outbound
  <2>1. tcp'[s].id = truth.id
    BY DEF Enter, TypeOK, Truth
  <2>2. tcp'[s].outbound = truth.outbound
    BY EnterFields, ZenonT(30)
  <2> QED
    BY <2>1, <2>2
<1>5. tcp'[s].established = truth.established /\ tcp'[s].actors = truth.actors
  BY EnterFields
<1>6. call'[s].pc = "enter" \/ call'[s].pc = "return"
  BY EnterFields
<1> QED
  BY <1>1, <1>2, <1>3, <1>4, <1>5, <1>6

(* What the kernel does keeps InboundOK.                                   *)
LEMMA InboundKernel ==
  ASSUME TypeOK, NEW s \in Socks, KernelStep(s), RecordOK(s), InboundOK(s)
  PROVE  InboundOK(s)' /\ OthersKept(s) /\ UNCHANGED events
<1>1. CASE Connect(s)
  <2>1. PICK pid \in Pids, truth \in Truth :
          Enter(s, "SYN_SENT", pid, truth) /\ truth.outbound = TRUE
    BY <1>1, ConnectFields
  <2>2. "SYN_SENT" \in States
    BY DEF States
  <2>3. tcp'[s].outbound = TRUE /\ OthersKept(s) /\ UNCHANGED events
    BY <2>1, <2>2, EnterKept
  <2> QED
    BY <2>3 DEF InboundOK
<1>2. CASE Accept(s)
  <2>1. conns[s] = NoConn
    BY <1>2, AcceptFields DEF RecordOK
  <2> QED
    BY <1>2, <2>1, AcceptFields DEF InboundOK
<1>3. CASE Change(s)
  <2>1. PICK state \in States \ {"SYN_SENT"}, pid \in Pids, truth \in Truth :
           /\ Enter(s, state, pid, truth)
           /\ truth.id = tcp[s].id /\ truth.outbound = tcp[s].outbound
           /\ truth.established = IF state = "ESTABLISHED" THEN TRUE ELSE tcp[s].established
           /\ tcp[s].actors \subseteq truth.actors
           /\ state = "LAST_ACK" => pid \in truth.actors
    BY <1>3, ChangeFields
  <2>2. /\ OthersKept(s) /\ UNCHANGED <<conns, events>>
        /\ call'[s].state = state /\ call'[s].pid = pid
        /\ tcp'[s].id = truth.id /\ tcp'[s].outbound = truth.outbound
        /\ tcp'[s].established = truth.established /\ tcp'[s].actors = truth.actors
        /\ call'[s].pc = "enter" \/ call'[s].pc = "return"
    <3>1. state \in States /\ Enter(s, state, pid, truth)
      BY <2>1
    <3>2. OthersKept(s) /\ conns' = conns /\ events' = events
      BY <3>1, EnterKept
    <3>3. call'[s].state = state /\ call'[s].pid = pid
      BY <3>1, EnterKept
    <3>4. tcp'[s].id = truth.id /\ tcp'[s].outbound = truth.outbound
      BY <3>1, EnterKept
    <3>5. tcp'[s].established = truth.established /\ tcp'[s].actors = truth.actors
      BY <3>1, EnterKept
    <3>6. call'[s].pc = "enter" \/ call'[s].pc = "return"
      BY <3>1, EnterKept
    <3> QED
      BY <3>2, <3>3, <3>4, <3>5, <3>6
  <2> QED
    BY <2>1, <2>2, SMTT(30) DEF InboundOK, FitsInbound
<1>4. CASE Return(s)
  <2>0. call'[s] = Idle
    BY <1>4, ReturnFields
  <2>1. call'[s].pc = "idle"
    BY <2>0 DEF Idle
  <2>2. /\ tcp'[s].id = tcp[s].id /\ tcp'[s].outbound = tcp[s].outbound
        /\ tcp'[s].established = tcp[s].established /\ tcp'[s].actors = tcp[s].actors
        /\ OthersKept(s) /\ UNCHANGED <<conns, events>>
    BY <1>4, ReturnFields
  <2> QED
    BY <2>1, <2>2 DEF InboundOK, FitsInbound
<1> QED
  BY <1>1, <1>2, <1>3, <1>4 DEF KernelStep

(* A step of the program keeps InboundOK.                                  *)
LEMMA InboundHandler ==
  ASSUME TypeOK, NEW s \in Socks, Handler(s), InboundOK(s)
  PROVE  InboundOK(s)'
<1>1. /\ call'[s].state = call[s].state /\ call'[s].pid = call[s].pid
      /\ tcp'[s].id = tcp[s].id /\ tcp'[s].outbound = tcp[s].outbound
      /\ tcp'[s].established = tcp[s].established /\ tcp'[s].actors = tcp[s].actors
  BY HandlerFields DEF SameConnection
<1> SUFFICES ASSUME tcp[s].outbound = FALSE PROVE InboundOK(s)'
  BY <1>1 DEF InboundOK
<1>3. CASE SynSent(s)
  BY <1>3, SynSentFields DEF InboundOK
<1>4. CASE DeleteOld(s)
  BY <1>4, DeleteOldFields DEF InboundOK
<1>5. CASE Untracked(s)
  BY <1>1, <1>5, UntrackedFields DEF InboundOK, FitsInbound
<1>6. CASE Tracked(s)
  <2>1. FitsInbound(conns[s], tcp[s])
    BY <1>6, TrackedFields DEF InboundOK
  <2>2. conns'[s] = conns[s]
    BY <1>6, TrackedFields
  <2>3. call'[s].pc \in {"update", "output"} => FitsInbound(call'[s].conn, tcp[s])
    BY <1>6, <2>1, TrackedFields DEF InboundOK, FitsInbound
  <2>4. call'[s].pc # "delete_old" /\ call'[s].pc # "enter"
    BY <1>6, TrackedFields
  <2> QED
    BY <1>1, <2>1, <2>2, <2>3, <2>4 DEF InboundOK, FitsInbound
<1>7. CASE UpdateConn(s)
  BY <1>1, <1>7, UpdateConnFields DEF InboundOK, FitsInbound
<1>8. CASE Output(s)
  BY <1>1, <1>8, OutputFields DEF InboundOK, FitsInbound
<1>9. CASE DeleteConn(s)
  BY <1>1, <1>9, DeleteConnFields DEF InboundOK, FitsInbound
<1> QED
  BY <1>3, <1>4, <1>5, <1>6, <1>7, <1>8, <1>9 DEF Handler

(* A step of one socket keeps InboundOK of the others.                     *)
LEMMA InboundOthers ==
  ASSUME NEW s \in Socks, OthersKept(s), \A t \in Socks : InboundOK(t), InboundOK(s)'
  PROVE  \A t \in Socks : InboundOK(t)'
<1> SUFFICES ASSUME NEW t \in Socks \ {s} PROVE InboundOK(t)'
  OBVIOUS
<1>1. tcp'[t] = tcp[t] /\ call'[t] = call[t] /\ conns'[t] = conns[t] /\ InboundOK(t)
  BY DEF OthersKept
<1> QED
  BY <1>1 DEF InboundOK

(* Only Output adds an event, and it adds one.                             *)
LEMMA EventsFields ==
  ASSUME TypeOK, NEW s \in Socks, Handler(s)
  PROVE  \/ UNCHANGED events
         \/ /\ call[s].pc = "output"
            /\ events' = events \cup {[sock |-> s, truth |-> tcp[s], conn |-> call[s].conn]}
  BY DEF Handler, SynSent, DeleteOld, Untracked, Tracked, UpdateConn, Output, DeleteConn

(* An event from a copy that fits an inbound connection is exact.          *)
LEMMA InboundExact ==
  ASSUME NEW c, NEW t, NEW s, FitsInbound(c, t), t.outbound = FALSE
  PROVE  Exact([sock |-> s, truth |-> t, conn |-> c])
  BY DEF FitsInbound, Exact

(* Every step keeps InboundInv.                                            *)
LEMMA InboundStep == TypeOK /\ RecordInv /\ InboundInv /\ [Next]_vars => InboundInv'
<1> SUFFICES ASSUME TypeOK, RecordInv, InboundInv, [Next]_vars, misses' = 0
             PROVE  /\ \A e \in events' : ~e.truth.outbound => Exact(e)
                    /\ \A s \in Socks : InboundOK(s)'
  BY DEF InboundInv, InboundEventsExact
<1>0. misses = 0
  BY MissesGrow
<1>1. /\ \A e \in events : ~e.truth.outbound => Exact(e)
      /\ \A s \in Socks : InboundOK(s) /\ RecordOK(s)
  BY <1>0 DEF InboundInv, InboundEventsExact, RecordInv
<1>2. CASE Attach \/ Quiet \/ UNCHANGED vars
  <2>1. UNCHANGED <<tcp, call, conns, events>>
    BY <1>2 DEF Attach, Quiet, vars
  <2> QED
    BY <1>1, <2>1 DEF InboundOK
<1>3. ASSUME NEW s \in Socks, KernelStep(s)
      PROVE  /\ \A e \in events' : ~e.truth.outbound => Exact(e)
             /\ \A t \in Socks : InboundOK(t)'
  <2>1. InboundOK(s)' /\ OthersKept(s) /\ UNCHANGED events
    BY <1>1, <1>3, InboundKernel
  <2> QED
    BY <1>1, <2>1, InboundOthers
<1>4. ASSUME NEW s \in Socks, Handler(s)
      PROVE  /\ \A e \in events' : ~e.truth.outbound => Exact(e)
             /\ \A t \in Socks : InboundOK(t)'
  <2>1. InboundOK(s)' /\ OthersKept(s)
    BY <1>1, <1>4, InboundHandler, HandlerFields
  <2>2. \A e \in events' : ~e.truth.outbound => Exact(e)
    <3>1. CASE UNCHANGED events
      BY <1>1, <3>1
    <3>2. CASE /\ call[s].pc = "output"
               /\ events' = events \cup {[sock |-> s, truth |-> tcp[s], conn |-> call[s].conn]}
      <4>1. tcp[s].outbound = FALSE =>
              Exact([sock |-> s, truth |-> tcp[s], conn |-> call[s].conn])
        BY <1>1, <3>2, InboundExact DEF InboundOK
      <4>2. tcp[s].outbound \in BOOLEAN
        BY SocketTypes DEF Truth
      <4> QED
        BY <1>1, <3>2, <4>1, <4>2
    <3> QED
      BY <1>4, <3>1, <3>2, EventsFields
  <2> QED
    BY <1>1, <2>1, <2>2, InboundOthers
<1> QED
  BY <1>2, <1>3, <1>4 DEF Next, KernelStep

(* As long as kprobe__tcp_set_state is skipped for no call, the event of   *)
(* an inbound connection has the right start, direction, CONNECTED flag    *)
(* and process, for any number of sockets and places in conns.             *)
THEOREM InboundExactly == Spec => []InboundEventsExact
<1>1. Init => RecordInv /\ InboundInv
  BY DEF Init, RecordInv, RecordOK, Idle, InboundInv, InboundOK, InboundEventsExact
<1>2. InboundInv => InboundEventsExact
  BY DEF InboundInv
<1> QED
  BY <1>1, <1>2, TypeInit, TypeStep, RecordStep, InboundStep, PTL DEF Spec

-----------------------------------------------------------------------------
(* Outbound connections                                                    *)

(* A connection is still seen after the entry only if the program runs and *)
(* it was seen before.                                                     *)
LEMMA EnterSeen ==
  ASSUME TypeOK, NEW s \in Socks, NEW state \in States, NEW pid \in Pids, NEW truth \in Truth,
         Enter(s, state, pid, truth), tcp'[s].seen = TRUE
  PROVE  call'[s].pc = "enter" /\ truth.seen = TRUE
<1>1. \/ call'[s].pc = "enter" /\ tcp'[s].seen = truth.seen
      \/ tcp'[s].seen = FALSE
  BY EnterFields
<1> QED
  BY <1>1

(* What the kernel does keeps OutboundOK.                                  *)
LEMMA OutboundKernel ==
  ASSUME TypeOK, NEW s \in Socks, KernelStep(s), OutboundOK(s)
  PROVE  OutboundOK(s)' /\ OthersKept(s) /\ UNCHANGED events
<1>1. CASE Connect(s)
  <2>0. "SYN_SENT" \in States
    BY DEF States
  <2>1. PICK pid \in Pids, truth \in Truth :
          /\ Enter(s, "SYN_SENT", pid, truth)
          /\ truth.established = FALSE /\ truth.actors = {pid}
    BY <1>1, ConnectFields
  <2>2. OthersKept(s) /\ events' = events
    BY <2>0, <2>1, EnterKept
  <2>3. /\ call'[s].state = "SYN_SENT" /\ call'[s].pid = pid
        /\ tcp'[s].established = FALSE /\ tcp'[s].actors = {pid}
    BY <2>0, <2>1, EnterKept
  <2>4. tcp'[s].seen = TRUE => call'[s].pc = "enter"
    BY <2>0, <2>1, EnterSeen
  <2> QED
    BY <2>2, <2>3, <2>4, SMTT(30) DEF OutboundOK
<1>2. CASE Accept(s)
  BY <1>2, AcceptFields DEF OutboundOK
<1>3. CASE Change(s)
  <2>1. PICK state \in States \ {"SYN_SENT"}, pid \in Pids, truth \in Truth :
           /\ Enter(s, state, pid, truth)
           /\ tcp[s].state # "CLOSE"
           /\ truth.id = tcp[s].id /\ truth.outbound = tcp[s].outbound
           /\ truth.seen = tcp[s].seen
           /\ truth.established = IF state = "ESTABLISHED" THEN TRUE ELSE tcp[s].established
           /\ tcp[s].actors \subseteq truth.actors
           /\ state = "LAST_ACK" => pid \in truth.actors
    BY <1>3, ChangeFields
  <2>2. state \in States /\ Enter(s, state, pid, truth)
    BY <2>1
  <2>3. OthersKept(s) /\ conns' = conns /\ events' = events
    BY <2>2, EnterKept, SMTT(30)
  <2>4. call'[s].state = state /\ call'[s].pid = pid
    BY <2>2, EnterKept
  <2>5. tcp'[s].id = truth.id /\ tcp'[s].outbound = truth.outbound
    BY <2>2, EnterKept
  <2>6. tcp'[s].established = truth.established /\ tcp'[s].actors = truth.actors
    BY <2>2, EnterKept
  <2>7. tcp'[s].seen = TRUE => call'[s].pc = "enter" /\ tcp[s].seen = TRUE
    BY <2>1, <2>2, EnterSeen
  <2>8. tcp[s].outbound = TRUE /\ tcp[s].seen = TRUE =>
          conns[s] # NoConn /\ FitsOutbound(conns[s], tcp[s])
    BY <1>3, <2>1 DEF OutboundOK, Change
  <2> QED
    BY <2>1, <2>3, <2>4, <2>5, <2>6, <2>7, <2>8 DEF OutboundOK, FitsOutbound
<1>4. CASE Return(s)
  <2>0. call'[s] = Idle
    BY <1>4, ReturnFields
  <2>1. call'[s].pc = "idle"
    BY <2>0 DEF Idle
  <2>2. /\ tcp'[s].id = tcp[s].id /\ tcp'[s].outbound = tcp[s].outbound
        /\ tcp'[s].established = tcp[s].established /\ tcp'[s].actors = tcp[s].actors
        /\ tcp'[s].seen = tcp[s].seen /\ tcp'[s].state = call[s].state
        /\ call[s].pc = "return"
        /\ OthersKept(s) /\ UNCHANGED <<conns, events>>
    BY <1>4, ReturnFields
  <2> QED
    BY <2>1, <2>2, SMTT(30) DEF OutboundOK, FitsOutbound
<1> QED
  BY <1>1, <1>2, <1>3, <1>4 DEF KernelStep

(* A step of the program keeps OutboundOK.                                 *)
LEMMA OutboundHandler ==
  ASSUME TypeOK, NEW s \in Socks, Handler(s), OutboundOK(s)
  PROVE  OutboundOK(s)'
<1>1. /\ call'[s].state = call[s].state /\ call'[s].pid = call[s].pid
      /\ tcp'[s].id = tcp[s].id /\ tcp'[s].outbound = tcp[s].outbound
      /\ tcp'[s].established = tcp[s].established /\ tcp'[s].actors = tcp[s].actors
      /\ tcp'[s].seen = tcp[s].seen \/ tcp'[s].seen = FALSE
  BY HandlerFields DEF SameConnection
<1> SUFFICES ASSUME tcp[s].outbound = TRUE, tcp[s].seen = TRUE, tcp'[s].seen = TRUE
             PROVE  OutboundOK(s)'
  BY <1>1 DEF OutboundOK
<1>3. CASE SynSent(s)
  BY <1>1, <1>3, SynSentFields DEF OutboundOK, FitsOutbound
<1>4. CASE DeleteOld(s)
  BY <1>1, <1>4, DeleteOldFields, SMTT(30) DEF OutboundOK, FitsOutbound
<1>5. CASE Untracked(s)
  BY <1>5, UntrackedFields DEF OutboundOK
<1>6. CASE Tracked(s)
  <2>1. /\ call[s].pc = "enter" /\ call[s].state # "SYN_SENT" /\ conns[s] # NoConn
        /\ conns'[s] = conns[s]
    BY <1>6, TrackedFields
  <2>2. /\ call[s].state = "ESTABLISHED" => tcp[s].established = TRUE
        /\ call[s].state = "LAST_ACK" => call[s].pid \in tcp[s].actors
        /\ conns[s].start = tcp[s].id /\ conns[s].outbound = TRUE
        /\ conns[s].pid \in tcp[s].actors
        /\ call[s].state # "ESTABLISHED" => conns[s].connected = tcp[s].established
    BY <2>1 DEF OutboundOK
  <2>3. FitsOutbound(call'[s].conn, tcp[s])
    BY <1>6, <2>2, TrackedFields DEF FitsOutbound
  <2>4. \/ call'[s].pc = "update"
        \/ call[s].state = "CLOSE" /\ call'[s].pc \in {"output", "delete"}
        \/ /\ call[s].state \notin {"ESTABLISHED", "CLOSE"} /\ call'[s].pc = "return"
           /\ call'[s].conn = conns[s]
    BY <1>6, TrackedFields
  <2> QED
    BY <1>1, <2>1, <2>3, <2>4, SMTT(30) DEF OutboundOK, FitsOutbound
<1>7. CASE UpdateConn(s)
  <2>1. call[s].pc = "update" /\ call'[s].pc = "return" /\ conns'[s] = call[s].conn
    BY <1>7, UpdateConnFields
  <2>2. call[s].conn # NoConn
    BY SocketTypes, ConnPresent
  <2> QED
    BY <1>1, <2>1, <2>2 DEF OutboundOK, FitsOutbound
<1>8. CASE Output(s)
  BY <1>1, <1>8, OutputFields, SMTT(30) DEF OutboundOK, FitsOutbound
<1>9. CASE DeleteConn(s)
  BY <1>1, <1>9, DeleteConnFields DEF OutboundOK, FitsOutbound
<1> QED
  BY <1>3, <1>4, <1>5, <1>6, <1>7, <1>8, <1>9 DEF Handler

(* A step of one socket keeps OutboundOK of the others.                    *)
LEMMA OutboundOthers ==
  ASSUME NEW s \in Socks, OthersKept(s), \A t \in Socks : OutboundOK(t), OutboundOK(s)'
  PROVE  \A t \in Socks : OutboundOK(t)'
<1> SUFFICES ASSUME NEW t \in Socks \ {s} PROVE OutboundOK(t)'
  OBVIOUS
<1>1. tcp'[t] = tcp[t] /\ call'[t] = call[t] /\ conns'[t] = conns[t] /\ OutboundOK(t)
  BY DEF OthersKept
<1> QED
  BY <1>1 DEF OutboundOK

(* An event from a copy that fits an outbound connection is exact.         *)
LEMMA OutboundExact ==
  ASSUME NEW c, NEW t, NEW s, FitsOutbound(c, t), t.outbound = TRUE, 0 \notin t.actors
  PROVE  Exact([sock |-> s, truth |-> t, conn |-> c])
  BY DEF FitsOutbound, Exact

(* Every step keeps OutboundInv.                                           *)
LEMMA OutboundStep == TypeOK /\ OutboundInv /\ [Next]_vars => OutboundInv'
<1> SUFFICES ASSUME TypeOK, OutboundInv, [Next]_vars
             PROVE  OutboundEventsExact' /\ \A s \in Socks : OutboundOK(s)'
  BY DEF OutboundInv
<1>1. OutboundEventsExact /\ \A s \in Socks : OutboundOK(s)
  BY DEF OutboundInv
<1>2. CASE Attach \/ Quiet \/ UNCHANGED vars
  <2>1. UNCHANGED <<tcp, call, conns, events>>
    BY <1>2 DEF Attach, Quiet, vars
  <2> QED
    BY <1>1, <2>1, SMTT(30) DEF OutboundOK, OutboundEventsExact
<1>3. ASSUME NEW s \in Socks, KernelStep(s)
      PROVE  OutboundEventsExact' /\ \A t \in Socks : OutboundOK(t)'
  <2>1. OutboundOK(s)' /\ OthersKept(s) /\ UNCHANGED events
    BY <1>1, <1>3, OutboundKernel
  <2>2. OutboundEventsExact'
    BY <1>1, <2>1 DEF OutboundEventsExact
  <2> QED
    BY <1>1, <2>1, <2>2, OutboundOthers
<1>4. ASSUME NEW s \in Socks, Handler(s)
      PROVE  OutboundEventsExact' /\ \A t \in Socks : OutboundOK(t)'
  <2>1. OutboundOK(s)' /\ OthersKept(s)
    BY <1>1, <1>4, OutboundHandler, HandlerFields
  <2>2. OutboundEventsExact'
    <3>1. CASE UNCHANGED events
      BY <1>1, <3>1 DEF OutboundEventsExact
    <3>2. CASE /\ call[s].pc = "output"
               /\ events' = events \cup {[sock |-> s, truth |-> tcp[s], conn |-> call[s].conn]}
      <4>1. 0 \notin tcp[s].actors
        BY SocketTypes, TcpAssumption DEF Truth
      <4>2. tcp[s].outbound = TRUE /\ tcp[s].seen = TRUE =>
              Exact([sock |-> s, truth |-> tcp[s], conn |-> call[s].conn])
        BY <1>1, <3>2, <4>1, OutboundExact DEF OutboundOK
      <4>3. tcp[s].outbound \in BOOLEAN /\ tcp[s].seen \in BOOLEAN
        BY SocketTypes DEF Truth
      <4> QED
        BY <1>1, <3>2, <4>2, <4>3 DEF OutboundEventsExact
    <3> QED
      BY <1>4, <3>1, <3>2, EventsFields
  <2> QED
    BY <1>1, <2>1, <2>2, OutboundOthers
<1> QED
  BY <1>2, <1>3, <1>4 DEF Next, KernelStep

(* The event of an outbound connection the program has seen all of is      *)
(* right in every field, for any number of sockets, places in conns and    *)
(* calls for which kprobe__tcp_set_state was skipped before.               *)
THEOREM OutboundExactly == Spec => []OutboundEventsExact
<1>1. Init => OutboundInv
  BY DEF Init, OutboundInv, OutboundOK, OutboundEventsExact
<1>2. OutboundInv => OutboundEventsExact
  BY DEF OutboundInv
<1> QED
  BY <1>1, <1>2, TypeInit, TypeStep, OutboundStep, PTL DEF Spec

-----------------------------------------------------------------------------
(* One event per record                                                    *)

(* The records of a socket that were reported, by the connection with      *)
(* which they began.                                                       *)
Starts(s) == {e.conn.start : e \in {f \in events : f.sock = s}}

(* A record in conns, or about to be stored or output, was not reported,   *)
(* until it is deleted; one that began with the present connection is      *)
(* reported at the end of the connection only, and none is from the        *)
(* future.                                                                 *)
FreshOK(s) ==
  /\ Starts(s) \subseteq 0 .. tcp[s].id
  /\ conns[s] # NoConn =>
       /\ conns[s].start \in 0 .. tcp[s].id
       /\ call[s].pc # "delete" => conns[s].start \notin Starts(s)
  /\ call[s].pc \in {"delete_old", "update", "output"} =>
       call[s].conn.start \in (0 .. tcp[s].id) \ Starts(s)
  /\ call[s].pc \in {"output", "delete"} => call[s].state = "CLOSE"
  /\ tcp[s].id \in Starts(s) =>
       \/ call[s].pc = "idle" /\ tcp[s].state = "CLOSE"
       \/ call[s].pc \in {"delete", "return"} /\ call[s].state = "CLOSE"

FreshInv == OneEventPerRecord /\ \A s \in Socks : FreshOK(s)

(* Without an output the reported records stay the same.                   *)
LEMMA StartsKept == ASSUME NEW s \in Socks, UNCHANGED events PROVE Starts(s)' = Starts(s)
BY DEF Starts

(* An output reports the record that the program copied, and no other      *)
(* socket's.                                                               *)
LEMMA StartsOutput ==
  ASSUME NEW s \in Socks,
         events' = events \cup {[sock |-> s, truth |-> tcp[s], conn |-> call[s].conn]}
  PROVE  /\ Starts(s)' = Starts(s) \cup {call[s].conn.start}
         /\ \A t \in Socks \ {s} : Starts(t)' = Starts(t)
<1> DEFINE e == [sock |-> s, truth |-> tcp[s], conn |-> call[s].conn]
<1>1. e.sock = s /\ e.conn.start = call[s].conn.start /\ events' = events \cup {e}
  OBVIOUS
<1> HIDE DEF e
<1>2. Starts(s)' = Starts(s) \cup {call[s].conn.start}
  BY <1>1 DEF Starts
<1>3. ASSUME NEW t \in Socks \ {s}
      PROVE  {f \in events' : f.sock = t} = {f \in events : f.sock = t}
  BY <1>1
<1> QED
  BY <1>2, <1>3 DEF Starts

(* An inbound connection is a new one.                                     *)
LEMMA AcceptNumber ==
  ASSUME TypeOK, NEW s \in Socks, Accept(s)
  PROVE  tcp'[s].id = tcp[s].id + 1
BY DEF Accept, TypeOK, NewConnection

(* A new connection at the address has a number no record has.             *)
LEMMA FreshNew ==
  ASSUME TypeOK, NEW s \in Socks, FreshOK(s), call[s].pc = "idle", UNCHANGED <<conns, events>>,
         tcp'[s].id = tcp[s].id + 1, call'[s].pc \in {"idle", "enter", "return"}
  PROVE  FreshOK(s)'
<1>1. tcp[s].id \in Nat
  BY SocketTypes, TcpAssumption
<1>2. Starts(s)' = Starts(s)
  BY StartsKept
<1>3. Starts(s) \subseteq 0 .. tcp[s].id /\ 0 .. tcp[s].id \subseteq 0 .. tcp'[s].id
  BY <1>1 DEF FreshOK
<1>4. tcp'[s].id \notin Starts(s)
  BY <1>1, <1>3
<1>5. conns'[s] # NoConn => conns'[s].start \in (0 .. tcp'[s].id) \ Starts(s)
  BY <1>3 DEF FreshOK
<1> QED
  BY <1>2, <1>3, <1>4, <1>5 DEF FreshOK

(* What the kernel does keeps FreshOK.                                     *)
LEMMA FreshKernel ==
  ASSUME TypeOK, NEW s \in Socks, KernelStep(s), FreshOK(s)
  PROVE  FreshOK(s)' /\ OthersKept(s) /\ UNCHANGED events
<1>1. CASE Connect(s)
  <2>0. "SYN_SENT" \in States /\ call[s].pc = "idle"
    BY <1>1 DEF States, Connect
  <2>1. PICK pid \in Pids, truth \in Truth :
          Enter(s, "SYN_SENT", pid, truth) /\ truth.id = tcp[s].id + 1
    BY <1>1, ConnectFields
  <2>2. OthersKept(s) /\ conns' = conns /\ events' = events
    BY <2>0, <2>1, EnterKept
  <2>3. tcp'[s].id = tcp[s].id + 1 /\ call'[s].pc \in {"idle", "enter", "return"}
    BY <2>0, <2>1, EnterKept
  <2> QED
    BY <2>0, <2>2, <2>3, FreshNew
<1>2. CASE Accept(s)
  BY <1>2, AcceptFields, AcceptNumber, FreshNew
<1>3. CASE Change(s)
  <2>1. PICK state \in States \ {"SYN_SENT"}, pid \in Pids, truth \in Truth :
          Enter(s, state, pid, truth) /\ tcp[s].state # "CLOSE" /\ truth.id = tcp[s].id
    BY <1>3, ChangeFields
  <2>2. state \in States /\ Enter(s, state, pid, truth)
    BY <2>1
  <2>3. OthersKept(s) /\ conns' = conns /\ events' = events
    BY <2>2, EnterKept
  <2>4. tcp'[s].id = tcp[s].id /\ call'[s].pc \in {"enter", "return"}
    BY <2>1, <2>2, EnterKept
  <2>5. call[s].pc = "idle"
    BY <1>3 DEF Change
  <2>6. Starts(s)' = Starts(s)
    BY <2>3, StartsKept
  <2> QED
    BY <2>1, <2>3, <2>4, <2>5, <2>6 DEF FreshOK
<1>4. CASE Return(s)
  <2>1. /\ OthersKept(s) /\ UNCHANGED <<conns, events>>
        /\ call[s].pc = "return" /\ tcp'[s].state = call[s].state /\ tcp'[s].id = tcp[s].id
        /\ call'[s] = Idle
    BY <1>4, ReturnFields
  <2>2. call'[s].pc = "idle"
    BY <2>1 DEF Idle
  <2>3. Starts(s)' = Starts(s)
    BY <2>1, StartsKept
  <2> QED
    BY <2>1, <2>2, <2>3 DEF FreshOK
<1> QED
  BY <1>1, <1>2, <1>3, <1>4 DEF KernelStep

(* A step of the program keeps FreshOK: what it outputs it then deletes.   *)
LEMMA FreshHandler ==
  ASSUME TypeOK, NEW s \in Socks, Handler(s), FreshOK(s)
  PROVE  FreshOK(s)'
<1>1. call'[s].state = call[s].state /\ tcp'[s].id = tcp[s].id /\ tcp'[s].state = tcp[s].state
  BY HandlerFields DEF SameConnection
<1>2. tcp[s].id \in 0 .. tcp[s].id
  BY SocketTypes, TcpAssumption
<1>3. CASE SynSent(s)
  BY <1>1, <1>2, <1>3, SynSentFields, StartsKept DEF FreshOK
<1>4. CASE DeleteOld(s)
  BY <1>1, <1>4, DeleteOldFields, StartsKept DEF FreshOK
<1>5. CASE Untracked(s)
  BY <1>1, <1>2, <1>5, UntrackedFields, StartsKept DEF FreshOK
<1>6. CASE Tracked(s)
  BY <1>1, <1>6, TrackedFields, StartsKept DEF FreshOK
<1>7. CASE UpdateConn(s)
  BY <1>1, <1>7, UpdateConnFields, StartsKept DEF FreshOK
<1>8. CASE Output(s)
  <2>1. /\ call[s].pc = "output" /\ call'[s].pc = "delete"
        /\ UNCHANGED conns
        /\ events' = events \cup {[sock |-> s, truth |-> tcp[s], conn |-> call[s].conn]}
    BY <1>8, OutputFields
  <2>2. Starts(s)' = Starts(s) \cup {call[s].conn.start}
    BY <2>1, StartsOutput
  <2> QED
    BY <1>1, <2>1, <2>2 DEF FreshOK
<1>9. CASE DeleteConn(s)
  BY <1>1, <1>9, DeleteConnFields, StartsKept DEF FreshOK
<1> QED
  BY <1>3, <1>4, <1>5, <1>6, <1>7, <1>8, <1>9 DEF Handler

(* A step of one socket keeps FreshOK of the others.                       *)
LEMMA FreshOthers ==
  ASSUME NEW s \in Socks, OthersKept(s), \A t \in Socks : FreshOK(t), FreshOK(s)',
         \A t \in Socks \ {s} : Starts(t)' = Starts(t)
  PROVE  \A t \in Socks : FreshOK(t)'
<1> SUFFICES ASSUME NEW t \in Socks \ {s} PROVE FreshOK(t)'
  OBVIOUS
<1>1. tcp'[t] = tcp[t] /\ call'[t] = call[t] /\ conns'[t] = conns[t] /\ FreshOK(t)
  BY DEF OthersKept
<1> QED
  BY <1>1 DEF FreshOK

(* Every step keeps FreshInv.                                              *)
LEMMA FreshStep == TypeOK /\ FreshInv /\ [Next]_vars => FreshInv'
<1> SUFFICES ASSUME TypeOK, FreshInv, [Next]_vars
             PROVE  OneEventPerRecord' /\ \A s \in Socks : FreshOK(s)'
  BY DEF FreshInv
<1>1. OneEventPerRecord /\ \A s \in Socks : FreshOK(s)
  BY DEF FreshInv
<1>2. CASE Attach \/ Quiet \/ UNCHANGED vars
  <2>1. UNCHANGED <<tcp, call, conns, events>>
    BY <1>2 DEF Attach, Quiet, vars
  <2> QED
    BY <1>1, <2>1, StartsKept DEF FreshOK, OneEventPerRecord
<1>3. ASSUME NEW s \in Socks, KernelStep(s)
      PROVE  OneEventPerRecord' /\ \A t \in Socks : FreshOK(t)'
  <2>1. FreshOK(s)' /\ OthersKept(s) /\ UNCHANGED events
    BY <1>1, <1>3, FreshKernel
  <2>2. OneEventPerRecord'
    BY <1>1, <2>1 DEF OneEventPerRecord
  <2> QED
    BY <1>1, <2>1, <2>2, FreshOthers, StartsKept
<1>4. ASSUME NEW s \in Socks, Handler(s)
      PROVE  OneEventPerRecord' /\ \A t \in Socks : FreshOK(t)'
  <2>1. FreshOK(s)' /\ OthersKept(s)
    BY <1>1, <1>4, FreshHandler, HandlerFields
  <2>2. CASE UNCHANGED events
    BY <1>1, <2>1, <2>2, FreshOthers, StartsKept DEF OneEventPerRecord
  <2>3. CASE /\ call[s].pc = "output"
             /\ events' = events \cup {[sock |-> s, truth |-> tcp[s], conn |-> call[s].conn]}
    <3>1. call[s].conn.start \notin Starts(s)
      BY <1>1, <2>3 DEF FreshOK
    <3>2. \A e \in events : e.sock = s => e.conn.start # call[s].conn.start
      BY <3>1 DEF Starts
    <3>3. OneEventPerRecord'
      BY <1>1, <2>3, <3>2 DEF OneEventPerRecord
    <3> QED
      BY <1>1, <2>1, <2>3, <3>3, FreshOthers, StartsOutput
  <2> QED
    BY <1>4, <2>2, <2>3, EventsFields
<1> QED
  BY <1>2, <1>3, <1>4 DEF Next, KernelStep

(* Whatever calls kprobe__tcp_set_state is skipped for and whatever conns  *)
(* refuses, no record is output twice: not one that was left behind and is *)
(* closed by a later connection at its address, either.                    *)
THEOREM RecordsReportedOnce == Spec => []OneEventPerRecord
<1>1. Init => FreshInv
  <2> SUFFICES ASSUME Init PROVE FreshInv
    OBVIOUS
  <2>1. \A s \in Socks : Starts(s) = {}
    BY DEF Init, Starts
  <2>2. \A s \in Socks : call[s].pc = "idle" /\ conns[s] = NoConn
    BY DEF Init, Idle
  <2>3. OneEventPerRecord
    BY DEF Init, OneEventPerRecord
  <2> QED
    BY <2>1, <2>2, <2>3 DEF FreshInv, FreshOK
<1>2. FreshInv => OneEventPerRecord
  BY DEF FreshInv
<1> QED
  BY <1>1, <1>2, TypeInit, TypeStep, FreshStep, PTL DEF Spec

-----------------------------------------------------------------------------
(* Every connection that was seen is reported                              *)

(* The present connection of a socket is more than a half-open inbound     *)
(* one; it has been reported.                                              *)
Recorded(s) == tcp[s].outbound = TRUE \/ tcp[s].established = TRUE

Reported(s) == \E e \in events : e.sock = s /\ e.truth.id = tcp[s].id

(* A connection the program saw all of has a record until it is closed,    *)
(* except while the call that makes it is under way, and an IPv4 one has   *)
(* been reported before the record is gone.                                *)
SeenOK(s) ==
  tcp[s].seen = TRUE /\ Recorded(s) =>
    /\ call[s].pc = "idle" /\ tcp[s].state # "CLOSE" => conns[s] # NoConn
    /\ call[s].pc = "enter" /\ call[s].state \notin {"SYN_SENT", "ESTABLISHED"} => conns[s] # NoConn
    /\ call[s].pc = "return" /\ call[s].state # "CLOSE" => conns[s] # NoConn
    /\ call[s].pc \in {"delete_old", "update"} => call[s].state # "CLOSE"
    /\ call[s].pc \in {"output", "delete"} => call[s].state = "CLOSE"
    /\ call[s].pc \in {"delete", "return"} /\ call[s].state = "CLOSE" /\ tcp[s].ipv4 = TRUE
         => Reported(s)
    /\ call[s].pc = "idle" /\ tcp[s].state = "CLOSE" /\ tcp[s].ipv4 = TRUE => Reported(s)

SeenInv == \A s \in Socks : SeenOK(s)

(* A connection stays of its family.                                       *)
LEMMA Ipv4Kept ==
  ASSUME TypeOK, NEW s \in Socks, Handler(s) \/ Return(s)
  PROVE  tcp'[s].ipv4 = tcp[s].ipv4
<1>1. tcp[s] \in Truth /\ tcp \in [Socks -> Truth]
  BY DEF TypeOK
<1>2. \/ tcp'[s] = tcp[s]
      \/ tcp'[s] = [tcp[s] EXCEPT !.seen = FALSE]
      \/ tcp'[s] = [tcp[s] EXCEPT !.state = call[s].state]
  BY <1>1 DEF Handler, SynSent, DeleteOld, Untracked, Tracked, UpdateConn, Output, DeleteConn,
              Return
<1> QED
  BY <1>1, <1>2 DEF Truth

(* A reported connection stays reported.                                   *)
LEMMA ReportedKept ==
  ASSUME NEW s \in Socks, events \subseteq events', tcp'[s].id = tcp[s].id, Reported(s)
  PROVE  Reported(s)'
  BY DEF Reported

(* The end of an IPv4 connection leads to an event.                        *)
LEMMA TrackedOutput ==
  ASSUME TypeOK, NEW s \in Socks, Tracked(s), call[s].state = "CLOSE", tcp[s].ipv4 = TRUE
  PROVE  call'[s].pc = "output"
<1>1. Goto(s, "output", conns[s]) /\ conns[s] # NoConn
  BY DEF Tracked
<1> QED
  BY <1>1, SocketTypes, GotoType DEF Pcs

(* What the kernel does keeps SeenOK.                                      *)
LEMMA SeenKernel ==
  ASSUME TypeOK, NEW s \in Socks, KernelStep(s), SeenOK(s)
  PROVE  SeenOK(s)' /\ OthersKept(s) /\ UNCHANGED events
<1>1. CASE Connect(s)
  <2>0. "SYN_SENT" \in States
    BY DEF States
  <2>1. PICK pid \in Pids, truth \in Truth : Enter(s, "SYN_SENT", pid, truth)
    BY <1>1, ConnectFields
  <2>2. OthersKept(s) /\ events' = events /\ call'[s].state = "SYN_SENT"
    BY <2>0, <2>1, EnterKept
  <2>3. tcp'[s].seen = TRUE => call'[s].pc = "enter"
    BY <2>0, <2>1, EnterSeen
  <2> QED
    BY <2>2, <2>3 DEF SeenOK
<1>2. CASE Accept(s)
  <2>1. tcp'[s].established = FALSE
    BY <1>2 DEF Accept, TypeOK, NewConnection
  <2> QED
    BY <1>2, <2>1, AcceptFields DEF SeenOK, Recorded
<1>3. CASE Change(s)
  <2>1. PICK state \in States \ {"SYN_SENT"}, pid \in Pids, truth \in Truth :
          /\ Enter(s, state, pid, truth)
          /\ tcp[s].state # "CLOSE"
          /\ truth.outbound = tcp[s].outbound /\ truth.seen = tcp[s].seen
          /\ truth.established = IF state = "ESTABLISHED" THEN TRUE ELSE tcp[s].established
    BY <1>3, ChangeFields
  <2>2. state \in States /\ Enter(s, state, pid, truth)
    BY <2>1
  <2>3. /\ OthersKept(s) /\ conns' = conns /\ events' = events
        /\ call'[s].state = state
        /\ tcp'[s].outbound = truth.outbound /\ tcp'[s].established = truth.established
    BY <2>2, EnterKept
  <2>4. tcp'[s].seen = TRUE => call'[s].pc = "enter" /\ tcp[s].seen = TRUE
    BY <2>1, <2>2, EnterSeen
  <2>5. state # "ESTABLISHED" => (Recorded(s)' <=> Recorded(s))
    BY <2>1, <2>3 DEF Recorded
  <2>6. call[s].pc = "idle"
    BY <1>3 DEF Change
  <2> QED
    BY <2>1, <2>3, <2>4, <2>5, <2>6 DEF SeenOK
<1>4. CASE Return(s)
  <2>1. /\ OthersKept(s) /\ UNCHANGED <<conns, events>>
        /\ call[s].pc = "return" /\ tcp'[s].state = call[s].state /\ tcp'[s].id = tcp[s].id
        /\ tcp'[s].outbound = tcp[s].outbound /\ tcp'[s].established = tcp[s].established
        /\ tcp'[s].seen = tcp[s].seen /\ call'[s] = Idle /\ tcp'[s].ipv4 = tcp[s].ipv4
    BY <1>4, ReturnFields, Ipv4Kept
  <2>2. call'[s].pc = "idle"
    BY <2>1 DEF Idle
  <2>3. Recorded(s)' <=> Recorded(s)
    BY <2>1 DEF Recorded
  <2>4. Reported(s) => Reported(s)'
    BY <2>1, ReportedKept
  <2> QED
    BY <2>1, <2>2, <2>3, <2>4 DEF SeenOK
<1> QED
  BY <1>1, <1>2, <1>3, <1>4 DEF KernelStep

(* A step of the program keeps SeenOK: the record of a seen connection     *)
(* goes only after its output.                                             *)
LEMMA SeenHandler ==
  ASSUME TypeOK, NEW s \in Socks, Handler(s), SeenOK(s)
  PROVE  SeenOK(s)'
<1>1. /\ call'[s].state = call[s].state /\ tcp'[s].state = tcp[s].state
      /\ tcp'[s].ipv4 = tcp[s].ipv4 /\ tcp'[s].id = tcp[s].id
      /\ tcp'[s].seen = TRUE => tcp[s].seen = TRUE
      /\ Recorded(s)' <=> Recorded(s)
  BY HandlerFields, Ipv4Kept DEF SameConnection, Recorded
<1>2. Reported(s) => Reported(s)'
  BY <1>1, EventsFields, ReportedKept
<1>3. CASE SynSent(s)
  BY <1>1, <1>3, SynSentFields DEF SeenOK
<1>4. CASE DeleteOld(s)
  BY <1>1, <1>4, DeleteOldFields DEF SeenOK
<1>5. CASE Untracked(s)
  BY <1>1, <1>5, UntrackedFields DEF SeenOK
<1>6. CASE Tracked(s)
  BY <1>1, <1>6, TrackedFields, TrackedOutput DEF SeenOK
<1>7. CASE UpdateConn(s)
  <2>1. call[s].conn # NoConn
    BY SocketTypes, ConnPresent
  <2> QED
    BY <1>1, <1>7, <2>1, UpdateConnFields DEF SeenOK
<1>8. CASE Output(s)
  <2>1. /\ call[s].pc = "output" /\ call'[s].pc = "delete"
        /\ events' = events \cup {[sock |-> s, truth |-> tcp[s], conn |-> call[s].conn]}
    BY <1>8, OutputFields
  <2>2. Reported(s)'
    <3> DEFINE e == [sock |-> s, truth |-> tcp[s], conn |-> call[s].conn]
    <3>1. e \in events' /\ e.sock = s /\ e.truth = tcp[s]
      BY <2>1
    <3> QED
      BY <1>1, <3>1 DEF Reported
  <2> QED
    BY <1>1, <2>1, <2>2 DEF SeenOK
<1>9. CASE DeleteConn(s)
  BY <1>1, <1>2, <1>9, DeleteConnFields DEF SeenOK
<1> QED
  BY <1>3, <1>4, <1>5, <1>6, <1>7, <1>8, <1>9 DEF Handler

(* Every step keeps SeenInv.                                               *)
LEMMA SeenStep == TypeOK /\ SeenInv /\ [Next]_vars => SeenInv'
<1> SUFFICES ASSUME TypeOK, SeenInv, [Next]_vars
             PROVE  \A s \in Socks : SeenOK(s)'
  BY DEF SeenInv
<1>1. \A s \in Socks : SeenOK(s)
  BY DEF SeenInv
<1>2. CASE Attach \/ Quiet \/ UNCHANGED vars
  <2>1. UNCHANGED <<tcp, call, conns, events>>
    BY <1>2 DEF Attach, Quiet, vars
  <2> QED
    BY <1>1, <2>1 DEF SeenOK, Recorded, Reported
<1>3. ASSUME NEW s \in Socks, OthersKept(s), SeenOK(s)', events \subseteq events'
      PROVE  \A t \in Socks : SeenOK(t)'
  <2> SUFFICES ASSUME NEW t \in Socks \ {s} PROVE SeenOK(t)'
    BY <1>3
  <2>1. tcp'[t] = tcp[t] /\ call'[t] = call[t] /\ conns'[t] = conns[t] /\ SeenOK(t)
    BY <1>1, <1>3 DEF OthersKept
  <2>2. (Recorded(t)' <=> Recorded(t)) /\ (Reported(t) => Reported(t)')
    BY <1>3, <2>1, ReportedKept DEF Recorded
  <2> QED
    BY <2>1, <2>2 DEF SeenOK
<1>4. ASSUME NEW s \in Socks, KernelStep(s) PROVE \A t \in Socks : SeenOK(t)'
  BY <1>1, <1>3, <1>4, SeenKernel
<1>5. ASSUME NEW s \in Socks, Handler(s) PROVE \A t \in Socks : SeenOK(t)'
  <2>1. SeenOK(s)' /\ OthersKept(s) /\ events \subseteq events'
    BY <1>1, <1>5, SeenHandler, HandlerFields, EventsFields
  <2> QED
    BY <1>3, <2>1
<1> QED
  BY <1>2, <1>4, <1>5 DEF Next, KernelStep

(* A connection all of whose calls of kprobe__tcp_set_state ran, and whose *)
(* record conns did not refuse, is reported by the time it is closed,      *)
(* whatever happens to the other sockets and whatever record an earlier    *)
(* connection left at its address.                                         *)
THEOREM SeenConnectionsReported == Spec => []SeenIsReported
<1>1. Init => SeenInv
  <2> SUFFICES ASSUME Init PROVE \A s \in Socks : SeenOK(s)
    BY DEF SeenInv
  <2>1. \A s \in Socks : tcp[s].seen = FALSE
    BY DEF Init
  <2> QED
    BY <2>1 DEF SeenOK
<1>2. TypeOK /\ SeenInv => SeenIsReported
  <2> SUFFICES ASSUME TypeOK, SeenInv, NEW s \in Socks,
                      call[s].pc = "idle", tcp[s].state = "CLOSE", tcp[s].seen, tcp[s].ipv4,
                      tcp[s].outbound \/ tcp[s].established
               PROVE  \E e \in events : e.sock = s /\ e.truth.id = tcp[s].id
    BY DEF SeenIsReported
  <2>1. tcp[s] \in Truth
    BY DEF TypeOK
  <2>2. tcp[s].seen = TRUE /\ tcp[s].ipv4 = TRUE /\ Recorded(s)
    BY <2>1 DEF Truth, Recorded
  <2> QED
    BY <2>2 DEF SeenInv, SeenOK, Reported
<1> QED
  BY <1>1, <1>2, TypeInit, TypeStep, SeenStep, PTL DEF Spec

=============================================================================
