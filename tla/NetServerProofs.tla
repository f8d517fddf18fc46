--------------------------- MODULE NetServerProofs ---------------------------
(***************************************************************************)
(* The files of the network server are written soundly, whatever the       *)
(* numbers of hosts, CPUs and devices, the sizes of buffers, pages and     *)
(* pieces, and whatever clients fail or die: the arithmetic of MmapFile     *)
(* first, then the steps of NetServer.  Then the sessions: no close header *)
(* is taken before all parts of the client are known, when a session ends  *)
(* everything sent is in the files, and no file holds data of two runs.    *)
(***************************************************************************)
EXTENDS NetServer, SequenceTheorems, FiniteSetTheorems, WellFoundedInduction, TLAPS

(* An offset within a page.                                                  *)
LEMMA InPage ==
  ASSUME NEW n \in Nat
  PROVE  /\ n % PageSize \in Nat
         /\ n % PageSize <= PageSize - 1
         /\ n % PageSize <= n
BY MmapAssumption, SMT

LEMMA WindowSize == Window \in Nat
<1>1. Nr \in Nat
  BY MmapAssumption DEF Nr
<1>2. \A a, b \in Nat : a * b \in Nat
  BY SMT
<1> QED BY <1>1, <1>2, MmapAssumption DEF Window

SoundMip == {m \in Mip : PiecesFit => WindowSound(m)}

LEMMA InitSound == init_mmap_info \in SoundMip
BY DEF SoundMip, Mip, WindowSound, init_mmap_info

(* setup_mmap leaves a sound window with room for the piece.                 *)
LEMMA SetupSound ==
  ASSUME NEW m \in SoundMip, NEW maxlen \in 1..MaxLen
  PROVE  LET s == setup_mmap(m, maxlen)
         IN  s \in SoundMip /\ (PiecesFit => s.off + maxlen <= s.len)
<1> DEFINE off == m.size % PageSize
<1> USE DEF SoundMip
<1>1. off \in Nat /\ off <= PageSize - 1 /\ off <= m.size
  BY InPage DEF Mip
<1>2. CASE m.off + maxlen > m.len
  <2>1. setup_mmap(m, maxlen) =
          [size |-> m.size, max |-> m.max + Window - off,
           off |-> off, len |-> Window - off, at |-> m.size - off]
    BY <1>2 DEF setup_mmap, Remapped
  <2>2. PiecesFit => off + maxlen <= Window - off
    BY <1>1, WindowSize, MmapAssumption DEF PiecesFit
  <2>3. m.size - off \in Nat /\ Window - off \in Int /\ m.max + Window - off \in Int
    BY <1>1, WindowSize, MmapAssumption DEF Mip
  <2> HIDE DEF off
  <2> QED BY <1>1, <2>1, <2>2, <2>3, WindowSize DEF Mip, WindowSound
<1>3. CASE ~(m.off + maxlen > m.len)
  <2>1. setup_mmap(m, maxlen) = m
    BY <1>3 DEF setup_mmap
  <2> QED BY <2>1, <1>3 DEF Mip
<1> QED BY <1>2, <1>3

LEMMA PutSound ==
  ASSUME NEW m \in SoundMip, NEW told \in Lens, NEW len \in Nat, len <= told
  PROVE  Put(m, told, len) \in SoundMip
<1> DEFINE s == setup_mmap(m, told)
<1>1. s \in SoundMip /\ (PiecesFit => s.off + told <= s.len)
  BY SetupSound DEF Lens
<1>2. told \in Nat
  BY MmapAssumption DEF Lens
<1>3. Put(m, told, len) = [s EXCEPT !.size = @ + len, !.off = @ + len]
  BY DEF Put
<1> HIDE DEF s
<1>4. Put(m, told, len) = [size |-> s.size + len, max |-> s.max, off |-> s.off + len,
                           len |-> s.len, at |-> s.at]
  BY <1>1, <1>3 DEF SoundMip, Mip
<1> QED BY <1>1, <1>2, <1>4 DEF SoundMip, Mip, WindowSound

-----------------------------------------------------------------------------
(* The inductive invariant: what is under way consists of headers and pieces *)
(* of the allowed lengths, and every file's window is sound.                 *)
SomeConnection ==
  [up : Seq(Message), acks : Int, client : {"here", "closed", "killed"}, accepted : BOOLEAN]
Conns(f) == \A c \in DOMAIN f : c[2] \in Nat /\ f[c] \in SomeConnection

SoundDevice == [id : Nat, ios : [Cpus -> SoundMip], runs : SUBSET Nat]
Devices == UNION {[D -> SoundDevice] : D \in SUBSET Int}
Host == [cl_opens : Int, devs : Devices]
HostsSound(f) == \A h \in DOMAIN f : f[h] \in Host

Client == ios \in [Hosts -> [Threads -> Int]] /\ run \in [Hosts -> Nat]

IInv == how \in Ways /\ Client /\ Conns(conn) /\ HostsSound(ch)

LEMMA SentConns ==
  ASSUME Conns(conn), NEW c, NEW m \in Message
  PROVE  Conns(Sent(c, m))
<1>1. CASE c \in DOMAIN conn
  <2>1. conn[c] \in SomeConnection
    BY <1>1 DEF Conns
  <2>2. Append(conn[c].up, m) \in Seq(Message)
    BY <2>1 DEF SomeConnection
  <2>3. [conn[c] EXCEPT !.up = Append(@, m)] \in SomeConnection
    BY <2>1, <2>2 DEF SomeConnection
  <2>4. Sent(c, m) = [conn EXCEPT ![c] = [conn[c] EXCEPT !.up = Append(@, m)]]
    BY <1>1 DEF Sent
  <2> QED BY <1>1, <2>3, <2>4 DEF Conns
<1>2. CASE c \notin DOMAIN conn
  BY <1>2 DEF Sent
<1> QED BY <1>1, <1>2

LEMMA AnswerConns ==
  ASSUME Conns(conn), NEW c
  PROVE  Conns(TakeAnswer(c))
<1>1. ASSUME NEW x \in SomeConnection PROVE [x EXCEPT !.acks = @ - 1] \in SomeConnection
  BY DEF SomeConnection
<1> QED BY <1>1 DEF Conns, TakeAnswer

LEMMA ShutConns ==
  ASSUME NEW f, Conns(f), NEW cs
  PROVE  Conns(Shut(cs, f))
<1>1. ASSUME NEW x \in SomeConnection PROVE [x EXCEPT !.client = "closed"] \in SomeConnection
  BY DEF SomeConnection
<1> QED BY <1>1 DEF Conns, Shut

LEMMA KilledConns ==
  ASSUME NEW f, Conns(f), NEW cs
  PROVE  Conns(Killed(cs, f))
<1>1. ASSUME NEW x \in SomeConnection PROVE [x EXCEPT !.client = "killed"] \in SomeConnection
  BY DEF SomeConnection
<1> QED BY <1>1 DEF Conns, Killed

(* The last message of a queue shortened or lost.                            *)
LEMMA FrontOf ==
  ASSUME NEW u \in Seq(Message), u # <<>>
  PROVE  /\ Front(u) \in Seq(Message) /\ Len(Front(u)) = Len(u) - 1
         /\ Len(u) \in DOMAIN u /\ u[Len(u)] \in Message
         /\ \A i \in 1..Len(u) - 1 : Front(u)[i] = u[i]
<1>1. PICK n \in Nat \ {0} : n = Len(u) /\ DOMAIN u = 1..n
  OBVIOUS
<1>2. Front(u) = SubSeq(u, 1, n - 1) /\ \A i \in 1..n - 1 : u[i] \in Message
  BY <1>1 DEF Front
<1>3. /\ SubSeq(u, 1, n - 1) \in Seq(Message)
      /\ Len(SubSeq(u, 1, n - 1)) = IF 1 <= n - 1 THEN n - 1 - 1 + 1 ELSE 0
      /\ \A i \in 1..n - 1 - 1 + 1 : SubSeq(u, 1, n - 1)[i] = u[1 + i - 1]
  BY <1>1, <1>2, SubSeqProperties
<1>4. \A i \in 1..n - 1 : SubSeq(u, 1, n - 1)[i] = u[i]
  BY <1>1, <1>3
<1> QED BY <1>1, <1>2, <1>3, <1>4

LEMMA CutMessage ==
  ASSUME NEW m \in Message, NEW cut \in Shortened(m) \cup {Header("cut", m.dev, 0)}
  PROVE  /\ cut \in Message /\ cut.dev = m.dev /\ cut.type \notin {"open", "close"}
         /\ cut.type = "data" => m.type = "data"
<1>1. CASE cut = Header("cut", m.dev, 0)
  BY <1>1 DEF Header, Message, Devs
<1>2. CASE m.type = "data" /\ \E n \in 0..m.len - 1 : cut = Piece(m.dev, m.told, n)
  <2>1. PICK n \in 0..m.len - 1 : cut = Piece(m.dev, m.told, n)
    BY <1>2
  <2>2. m.dev \in Devs /\ m.told \in Lens /\ m.len \in Nat /\ m.len <= m.told /\ Lens \subseteq Nat
    BY <1>2, MmapAssumption DEF Message, Lens
  <2>3. \A a, b \in Nat : \A k \in 0..a - 1 : a <= b => k \in Nat /\ k <= b
    OBVIOUS
  <2>4. n \in Nat /\ n <= m.told
    BY <2>1, <2>2, <2>3
  <2> QED BY <1>2, <2>1, <2>2, <2>4 DEF Piece, Message
<1> QED BY <1>1, <1>2 DEF Shortened

(* What became of the queue of a connection.                                 *)
ShortOf(u, v) ==
  \/ v = Front(u)
  \/ \E cut \in Message : /\ v = Append(Front(u), cut) /\ cut.dev = u[Len(u)].dev
                          /\ cut.type \notin {"open", "close"}
                          /\ cut.type = "data" => u[Len(u)].type = "data"
LEMMA LoseQueue ==
  ASSUME NEW c, Conns(conn), c \in DOMAIN conn, Lose(c)
  PROVE  /\ conn[c].client = "killed" /\ conn[c].up \in Seq(Message) /\ conn[c].up # <<>>
         /\ \E v \in Seq(Message) : ShortOf(conn[c].up, v) /\ conn' = [conn EXCEPT ![c].up = v]
<1>1. conn[c].up \in Seq(Message) /\ conn[c].up # <<>> /\ conn[c].client = "killed"
  BY DEF Conns, SomeConnection, Lose
<1> DEFINE u == conn[c].up
           m == u[Len(u)]
<1>2. Front(u) \in Seq(Message) /\ m \in Message
  BY <1>1, FrontOf
<1>3. CASE conn' = [conn EXCEPT ![c].up = Front(u)]
  BY <1>1, <1>2, <1>3 DEF ShortOf
<1>4. ASSUME NEW cut \in Shortened(m) \cup {Header("cut", m.dev, 0)},
             conn' = [conn EXCEPT ![c].up = Append(Front(u), cut)]
      PROVE  \E v \in Seq(Message) : ShortOf(u, v) /\ conn' = [conn EXCEPT ![c].up = v]
  <2>1. /\ cut \in Message /\ cut.dev = m.dev /\ cut.type \notin {"open", "close"}
        /\ cut.type = "data" => m.type = "data"
    BY <1>2, CutMessage
  <2> DEFINE v == Append(Front(u), cut)
  <2>2. v \in Seq(Message) /\ ShortOf(u, v)
    BY <1>2, <2>1 DEF ShortOf
  <2> QED BY <1>4, <2>2
<1> QED BY <1>1, <1>3, <1>4 DEF Lose

LEMMA NewConns ==
  ASSUME Conns(conn), NEW c, c[2] \in Nat, NEW messages \in Seq(Message)
  PROVE  Conns(Added(conn, c, NewConn(messages)))
<1>1. NewConn(messages) \in SomeConnection
  BY DEF SomeConnection, NewConn
<1> QED BY <1>1 DEF Conns, Added

LEMMA TakenConns ==
  ASSUME Conns(conn), NEW c \in DOMAIN conn, conn[c].up # <<>>, NEW n \in Int
  PROVE  Conns(Taken(c, n))
<1>1. conn[c] \in SomeConnection
  BY DEF Conns
<1>2. Tail(conn[c].up) \in Seq(Message)
  BY <1>1 DEF SomeConnection
<1>3. [up |-> Tail(conn[c].up), acks |-> conn[c].acks + n,
       client |-> conn[c].client, accepted |-> conn[c].accepted] \in SomeConnection
  BY <1>1, <1>2 DEF SomeConnection
<1> QED BY <1>3 DEF Conns, Taken

LEMMA FindSound ==
  ASSUME NEW devs \in Devices, NEW d \in Int, NEW id \in Nat
  PROVE  FindDpp(devs, d, id) \in Devices /\ d \in DOMAIN FindDpp(devs, d, id)
<1>1. NewDev(id) \in SoundDevice
  BY InitSound DEF SoundDevice, NewDev
<1>2. PICK D \in SUBSET Int : devs \in [D -> SoundDevice]
  BY DEF Devices
<1>3. FindDpp(devs, d, id) \in [D \cup {d} -> SoundDevice]
  BY <1>1, <1>2 DEF FindDpp, Added
<1>4. D \cup {d} \in SUBSET Int
  OBVIOUS
<1> QED BY <1>3, <1>4 DEF Devices

LEMMA CountingSound ==
  ASSUME HostsSound(ch), NEW c, c[2] \in Nat, NextMessage(c).dev \in Int, NEW n \in Int,
         Counting(c, n)
  PROVE  HostsSound(ch')
<1>1. CASE c[1] \in DOMAIN ch
  <2>1. ch[c[1]].devs \in Devices /\ ch[c[1]].cl_opens \in Int
    BY <1>1 DEF HostsSound, Host
  <2>2. [devs |-> FindDpp(ch[c[1]].devs, NextMessage(c).dev, c[2]),
         cl_opens |-> ch[c[1]].cl_opens + n] \in Host
    BY <2>1, FindSound DEF Host
  <2> QED BY <2>2 DEF Counting, HostsSound
<1>2. CASE c[1] \notin DOMAIN ch
  BY <1>2 DEF Counting, HostsSound
<1> QED BY <1>1, <1>2

LEMMA Ways_ ==
  ASSUME how \in Ways
  PROVE  how.cpus \in Nat \ {0} /\ how.devs \in Nat \ {0}
BY NetAssumption DEF Way

LEMMA ClosingDevInt ==
  ASSUME how \in Ways, Client, NEW h \in Hosts, NEW t \in Threads
  PROVE  ClosingDev(h, t) \in Int
<1>1. ios[h][t] \in Int /\ how.devs \in Nat \ {0}
  BY Ways_ DEF Client
<1>2. \A n \in Int : \A k \in Nat \ {0} : n % k \in Int
  BY SMT
<1> QED BY <1>1, <1>2 DEF ClosingDev, Threads

-----------------------------------------------------------------------------
LEMMA IosUpdate ==
  ASSUME Client, NEW h \in Hosts, NEW t \in Threads
  PROVE  /\ [ios EXCEPT ![h][t] = @ + 1] \in [Hosts -> [Threads -> Int]]
         /\ [ios EXCEPT ![h][t] = @ - 1] \in [Hosts -> [Threads -> Int]]
<1>1. ios[h] \in [Threads -> Int] /\ ios[h][t] \in Int
  BY DEF Client
<1>2. [ios[h] EXCEPT ![t] = @ + 1] \in [Threads -> Int]
  BY <1>1
<1>3. [ios[h] EXCEPT ![t] = @ - 1] \in [Threads -> Int]
  BY <1>1
<1> QED BY <1>2, <1>3 DEF Client

LEMMA InitInv == Init => IInv
BY DEF Init, IInv, Client, Conns, HostsSound, Threads

(* The client's steps leave the server's files alone.                        *)
LEMMA ClientKeeps ==
  ASSUME IInv, NEW h \in Hosts,
         StartRun(h) \/ Main(h) \/ Stop(h) \/ Die(h)
  PROVE  IInv'
<1> USE DEF IInv, server
<1>1. CASE StartRun(h)
  BY <1>1 DEF StartRun, Client, Conns, HostsSound
<1>2. ASSUME NEW f, Conns(f), Gone(h, f) PROVE IInv'
  BY <1>2 DEF Gone, Client, HostsSound, Conns
<1>3. CASE OpenClientConnection(h)
  <2>1. <<>> \in Seq(Message) /\ run[h] \in Nat
    BY DEF Client
  <2> QED BY <1>3, <2>1, NewConns DEF OpenClientConnection, Client, HostsSound, Conns
<1>4. CASE Unblock(h)
  BY <1>4 DEF Unblock, Client, HostsSound, Conns
<1>5. CASE CloseClientConnections(h)
  <2>1. how.cpus * how.devs \in Int
    BY Ways_
  <2> QED BY <1>5, <2>1 DEF CloseClientConnections, Client, HostsSound, Conns
<1>6. CASE Stop(h)
  BY <1>6 DEF Stop, Client, HostsSound, Conns
<1>7. CASE Die(h) \/ ConnectFails(h) \/ Exit(h)
  BY <1>2, <1>7, ShutConns, KilledConns DEF Die, ConnectFails, Exit
<1> QED BY <1>1, <1>3, <1>4, <1>5, <1>6, <1>7 DEF Main

LEMMA TracerKeeps ==
  ASSUME IInv, NEW h \in Hosts, NEW t \in Threads, Tracer(h, t)
  PROVE  IInv'
<1> USE DEF IInv, server
<1>1. CASE OpenIo(h, t)
  <2> DEFINE m == Header("open", ios[h][t], 0)
  <2>1. m \in Message /\ <<m>> \in Seq(Message)
    BY DEF Header, Message, Client
  <2>2. Conns(conn')
    <3>1. ConnOf(h, t, ios[h][t])[2] \in Nat
      BY DEF ConnOf, Client
    <3> QED BY <1>1, <2>1, <3>1, SentConns, NewConns DEF OpenIo
  <2>3. Client'
    <3>1. ios' = ios \/ ios' = [ios EXCEPT ![h][t] = @ + 1]
      BY <1>1 DEF OpenIo, Opened
    <3>2. run' = run
      BY <1>1 DEF OpenIo
    <3> QED BY <3>1, <3>2, IosUpdate DEF Client
  <2> QED BY <1>1, <2>2, <2>3 DEF OpenIo, HostsSound, Conns
<1>2. CASE OpenAnswered(h, t)
  BY <1>2, AnswerConns DEF OpenAnswered, Opened, Client, HostsSound, Conns
<1>3. CASE TraceFileFails(h, t) \/ Leave(h, t) \/ WaitAnswer(h, t) \/ AllClosed(h, t)
  BY <1>3 DEF TraceFileFails, Leave, WaitAnswer, AllClosed, Client, HostsSound, Conns
<1>4. CASE SetupClientFails(h, t)
  BY <1>4 DEF SetupClientFails, Client, HostsSound, Conns
<1>5. CASE SendClose(h, t)
  <2>1. Header("close", ClosingDev(h, t), 1) \in Message
    BY ClosingDevInt DEF Header, Message
  <2> QED BY <1>5, <2>1, SentConns DEF SendClose, Client, HostsSound, Conns
<1>6. ASSUME NEW f, Conns(f), Closed(h, t, f) PROVE IInv'
  <2>1. Conns(conn')
    BY <1>6, ShutConns DEF Closed
  <2>2. Client'
    BY <1>6, IosUpdate DEF Closed, Client
  <2> QED BY <1>6, <2>1, <2>2 DEF Closed, HostsSound
<1>7. CASE NoAnswer(h, t)
  BY <1>6, <1>7 DEF NoAnswer
<1>8. CASE CloseAnswered(h, t)
  BY <1>6, <1>8, AnswerConns DEF CloseAnswered
<1> QED BY <1>1, <1>2, <1>3, <1>4, <1>5, <1>7, <1>8 DEF Tracer

LEMMA SendKeeps ==
  ASSUME IInv, NEW h \in Hosts, NEW t \in Cpus, NEW d \in Devs, NEW len \in Lens,
         SendData(h, t, d, len)
  PROVE  IInv'
<1>1. Piece(d, len, len) \in Message
  BY MmapAssumption DEF Piece, Message, Lens
<1> QED BY <1>1, SentConns DEF IInv, SendData, Client, HostsSound, Conns, server

LEMMA HandleKeeps ==
  ASSUME IInv, NEW c \in DOMAIN conn, Handle(c)
  PROVE  IInv'
<1> USE DEF IInv, client
<1> DEFINE m == NextMessage(c)
           devs == FindDpp(ch[c[1]].devs, m.dev, c[2])
<1>1. conn[c].up # <<>> /\ m \in Message /\ m.dev \in Int /\ c[2] \in Nat
  <2>1. conn[c].up # <<>> /\ conn[c] \in SomeConnection /\ c[2] \in Nat
    BY DEF Handle, ClientOpens, ReadData, ClientCloses, ServerExits, Received, Conns
  <2>2. m \in Message
    BY <2>1 DEF SomeConnection, NextMessage
  <2> QED BY <2>1, <2>2 DEF Message, Devs
<1>2. c[1] \in DOMAIN ch => devs \in Devices /\ m.dev \in DOMAIN devs
  BY <1>1, FindSound DEF HostsSound, Host
<1> HIDE DEF devs
<1>3. CASE ClientOpens(c)
  BY <1>1, <1>3, TakenConns, CountingSound DEF ClientOpens, Client
<1>4. CASE ReadData(c)
  <2> DEFINE put == [devs EXCEPT ![m.dev] = Filled(@, c, m.told, m.len)]
  <2>1. m.told \in Lens /\ m.len \in Nat /\ m.len <= m.told
    BY <1>1, <1>4 DEF ReadData, Received, Message
  <2>2. ASSUME c[1] \in DOMAIN ch
        PROVE  put \in Devices
    <3>1. PICK D \in SUBSET Int : devs \in [D -> SoundDevice]
      BY <1>2, <2>2 DEF Devices
    <3> DEFINE dpp == devs[m.dev]
               new == Filled(dpp, c, m.told, m.len)
    <3>2. dpp \in SoundDevice
      BY <1>2, <2>2, <3>1
    <3>3. [dpp.ios EXCEPT ![c[3]] = Put(@, m.told, m.len)] \in [Cpus -> SoundMip]
      BY <3>2, <2>1, PutSound DEF SoundDevice
    <3>4. new \in SoundDevice
      BY <1>1, <3>2, <3>3 DEF SoundDevice, Filled
    <3>5. put = [devs EXCEPT ![m.dev] = new]
      OBVIOUS
    <3> HIDE DEF put, new
    <3>6. put \in [D -> SoundDevice]
      BY <3>1, <3>4, <3>5
    <3> QED BY <3>6 DEF Devices
  <2>3. ch' = [ch EXCEPT ![c[1]].devs = put]
    BY <1>4 DEF ReadData, devs
  <2> HIDE DEF put
  <2>4. HostsSound(ch')
    BY <2>2, <2>3 DEF HostsSound, Host
  <2>5. Conns(conn')
    BY <1>1, <1>4, TakenConns DEF ReadData
  <2> QED BY <1>4, <2>4, <2>5 DEF ReadData, Client
<1>5. CASE ClientCloses(c)
  <2>1. HostsSound(ch')
    <3>1. CASE LastClose(c[1])
      BY <1>5, <3>1 DEF ClientCloses, HostsSound
    <3>2. CASE ~LastClose(c[1])
      BY <1>1, <1>5, <3>2, CountingSound DEF ClientCloses
    <3> QED BY <3>1, <3>2
  <2>2. Conns(conn')
    <3>1. CASE LastClose(c[1])
      BY <1>5, <3>1 DEF ClientCloses, Conns
    <3>2. CASE ~LastClose(c[1])
      BY <1>1, <1>5, <3>2, TakenConns DEF ClientCloses
    <3> QED BY <3>1, <3>2
  <2> QED BY <1>5, <2>1, <2>2 DEF ClientCloses, Client
<1>6. CASE ServerExits(c)
  BY <1>6 DEF ServerExits, Client, Conns, HostsSound
<1> QED BY <1>3, <1>4, <1>5, <1>6 DEF Handle

LEMMA LoseKeeps ==
  ASSUME IInv, NEW c \in DOMAIN conn, Lose(c)
  PROVE  IInv'
<1>1. Conns(conn) /\ c \in DOMAIN conn
  BY DEF IInv
<1>2. PICK v \in Seq(Message) : conn' = [conn EXCEPT ![c].up = v]
  BY <1>1, LoseQueue
<1>3. conn[c] \in SomeConnection
  BY <1>1 DEF Conns
<1>4. [conn[c] EXCEPT !.up = v] \in SomeConnection
  BY <1>2, <1>3 DEF SomeConnection
<1>5. Conns(conn')
  BY <1>1, <1>2, <1>4 DEF Conns
<1> QED BY <1>5 DEF Lose, IInv, Client, HostsSound, client, server

LEMMA NextInv == IInv /\ [Next]_vars => IInv'
<1> SUFFICES ASSUME IInv, [Next]_vars
             PROVE  IInv'
  OBVIOUS
<1>1. CASE AddConnection
  <2> DEFINE c == Head(backlog)
  <2>1. Conns(conn')
    <3>1. ASSUME NEW x \in SomeConnection PROVE [x EXCEPT !.accepted = TRUE] \in SomeConnection
      BY DEF SomeConnection
    <3>2. conn' = [conn EXCEPT ![c].accepted = TRUE]
      BY <1>1 DEF AddConnection
    <3> QED BY <3>1, <3>2 DEF IInv, Conns
  <2>2. HostsSound(ch')
    <3>1. NewHost \in Host
      <4>1. <<>> \in [{} -> SoundDevice]
        OBVIOUS
      <4>2. {} \in SUBSET Int
        OBVIOUS
      <4> QED BY <4>1, <4>2 DEF NewHost, Host, Devices
    <3>2. ch' = Added(ch, c[1], NewHost)
      BY <1>1 DEF AddConnection
    <3> QED BY <3>1, <3>2 DEF IInv, HostsSound, Added
  <2> QED BY <1>1, <2>1, <2>2 DEF AddConnection, IInv, Client, client
<1>2. CASE UNCHANGED vars
  BY <1>2 DEF vars, client, server, IInv, Client, Conns, HostsSound
<1> QED BY <1>1, <1>2, ClientKeeps, TracerKeeps, SendKeeps, HandleKeeps, LoseKeeps DEF Next

(* The data of every client's CPUs and devices is put into the server's      *)
(* files piece behind piece, inside the windows that are mapped, also what   *)
(* arrives of the pieces of clients that are killed: if the pieces of all    *)
(* clients fit into the windows that the server makes.                       *)
THEOREM ServerFilesSound ==
  ASSUME PiecesFit
  PROVE  Spec => []FilesSound
<1>1. IInv => FilesSound
  <2> SUFFICES ASSUME IInv, NEW h \in DOMAIN ch, NEW d \in DOMAIN ch[h].devs, NEW t \in Cpus
               PROVE  LET m == ch[h].devs[d].ios[t] IN WindowSound(m) /\ PieceFits(m)
    BY DEF FilesSound
  <2>1. PICK D \in SUBSET Int : ch[h].devs \in [D -> SoundDevice]
    BY DEF IInv, HostsSound, Host, Devices
  <2>3. ch[h].devs[d] \in SoundDevice
    BY <2>1
  <2>4. ch[h].devs[d].ios[t] \in SoundMip
    BY <2>3 DEF SoundDevice
  <2> QED BY <2>4, SetupSound DEF PieceFits, SoundMip
<1> QED BY <1>1, InitInv, NextInv, PTL DEF Spec

-----------------------------------------------------------------------------
(* Sessions.  A client that is not stopped before it traces announces all of *)
(* its parts before it closes any, and the server ends its session with the  *)
(* last close, when everything sent is in the files: with send before the    *)
(* client has the answer it waits for, and so before its next run.           *)

(* No client is stopped before it traces, and one that runs again sends over *)
(* one connection for each CPU, and neither fails nor is killed.             *)
Orderly ==
  \A w \in Ways : ~w.early /\ (w.runs <= 1 \/ (w.use = "send" /\ ~w.fails /\ w.dies = {}))

(* The parts that a client announces, and the connections they use in this   *)
(* run of it.                                                                *)
Parts == CpusUsed \X (1..how.devs)
LineOf(h, q) == <<h, run[h], q[1], IF Send THEN 0 ELSE q[2]>>
Up(h, q) == IF LineOf(h, q) \in DOMAIN conn THEN conn[LineOf(h, q)].up ELSE <<>>
SentOf(h, q) == Bytes(sent, h, run[h], q[1], q[2])
FiledOf(h, q) == Bytes(filed, h, run[h], q[1], q[2])
NoneOf(h, f) == \A x \in DOMAIN f : x[1] = h => x[2] # run[h]

(* What is under way when the server has taken the open headers of op and    *)
(* the close headers of cl.                                                  *)
MessageInv(h, op, cl, c, m) ==
  /\ <<c[3], m.dev>> \in Parts \ cl /\ c = LineOf(h, <<c[3], m.dev>>)
  /\ m.type = "open" => <<c[3], m.dev>> \notin op
  /\ m.type = "data" => <<c[3], m.dev>> \in op
  /\ m.type = "close" => op = Parts
QueueInv(u) ==
  \A i, j \in DOMAIN u : i < j /\ u[i].dev = u[j].dev => u[i].type # "close" /\ u[j].type # "open"
LinesInv(h, op, cl) ==
  /\ \A c \in ConnsOf(h) :
       /\ \E q \in Parts : c = LineOf(h, q)
       /\ conn[c].accepted => h \in DOMAIN ch
       /\ \A i \in DOMAIN conn[c].up : MessageInv(h, op, cl, c, conn[c].up[i])
       /\ QueueInv(conn[c].up)
  /\ \A q \in op : LineOf(h, q) \in DOMAIN conn /\ conn[LineOf(h, q)].accepted
  /\ h \in DOMAIN ch => ch[h].cl_opens = Cardinality(op) - Cardinality(cl)

(* What is filed and what is under way add up to what was sent: s holds the  *)
(* sums so far.                                                              *)
Share(m, d) == IF m.type = "data" /\ m.dev = d THEN m.len ELSE 0
AddsUp(u, d, first, last) ==
  \E s \in [0..Len(u) -> Int] :
    /\ s[0] = first /\ s[Len(u)] = last
    /\ \A i \in 1..Len(u) : s[i] = s[i - 1] + Share(u[i], d)
BytesInv(h) == \A q \in Parts : AddsUp(Up(h, q), q[2], FiledOf(h, q), SentOf(h, q))
KeysInv(h) ==
  \A x \in DOMAIN sent : x[1] = h /\ x[2] = run[h] => \E q \in Parts : x = <<h, run[h], q[1], q[2]>>

(* The client while it announces its parts: those up to ios are taken, the   *)
(* next ones untouched.                                                      *)
Untouched(h, op, q) ==
  /\ q \notin op
  /\ \A c \in ConnsOf(h) : c[3] = q[1] => \A i \in DOMAIN conn[c].up : conn[c].up[i].dev # q[2]
  /\ ~Send => LineOf(h, q) \notin DOMAIN conn
OpeningInv(h, t, op) ==
  /\ tpc[h][t] \in {"open", "answer", "ready"} /\ ios[h][t] \in 1..how.devs
  /\ \A d \in 1..how.devs :
       /\ d < ios[h][t] \/ tpc[h][t] = "ready" => <<t, d>> \in op
       /\ tpc[h][t] = "open" /\ d >= ios[h][t] => Untouched(h, op, <<t, d>>)
       /\ tpc[h][t] = "answer" /\ d > ios[h][t] => Untouched(h, op, <<t, d>>)
  /\ tpc[h][t] = "answer" => LineOf(h, <<t, ios[h][t]>>) \in DOMAIN conn
  /\ \A c \in ConnsOf(h) : c[3] = t /\ conn[c].acks > 0 =>
       /\ tpc[h][t] = "answer" /\ conn[c].acks = 1
       /\ c = LineOf(h, <<t, ios[h][t]>>) /\ <<t, ios[h][t]>> \in op
OnlyOpens(h) == \A c \in ConnsOf(h) : \A i \in DOMAIN conn[c].up : conn[c].up[i].type = "open"
StartInv(h, op, cl) ==
  /\ ~done[h] /\ NoneOf(h, sent) /\ cl = {} /\ tpc[h][0] = "none"
  /\ OnlyOpens(h)
  /\ \A t \in CpusUsed : OpeningInv(h, t, op)
  /\ IF main[h] = "connect"
     THEN Send /\ Unconnected(h) # {} /\ \A t \in CpusUsed : tpc[h][t] = "open" /\ ios[h][t] = 1
     ELSE Send => Unconnected(h) = {}

(* The parts that the client has still to close, which no close header is    *)
(* under way for.                                                            *)
Remaining(h, t) ==
  IF tpc[h][t] = "close" THEN ios[h][t]
  ELSE IF tpc[h][t] \in {"check", "closing"} THEN ios[h][t] - 1 ELSE 0
ClosingPart(i) == <<how.cpus - ((i - 1) \div how.devs), how.devs - ((i - 1) % how.devs)>>
ToClose(h) ==
  IF Send
  THEN IF main[h] # "close" THEN Parts ELSE {ClosingPart(i) : i \in 1..Remaining(h, 0)}
  ELSE {q \in Parts : tpc[h][q[1]] = "run" \/ q[2] <= Remaining(h, q[1])}
Unclosed(h, cl, q) ==
  /\ q \notin cl
  /\ \A c \in ConnsOf(h) : c[3] = q[1] =>
       \A i \in DOMAIN conn[c].up : conn[c].up[i].dev = q[2] => conn[c].up[i].type # "close"
ClosingInv(h) ==
  /\ \A t \in CpusUsed :
       IF Send THEN tpc[h][t] \in {"run", "left"}
       ELSE tpc[h][t] \in {"run", "close", "check", "closing", "left"} /\ ios[h][t] \in 0..how.devs
            /\ (tpc[h][t] \in {"check", "closing"} => ios[h][t] > 0)
  /\ IF main[h] = "close"
     THEN /\ Send
          /\ tpc[h][0] \in {"close", "check", "closing", "left"} /\ ios[h][0] \in 0..how.cpus * how.devs
          /\ tpc[h][0] \in {"check", "closing"} => ios[h][0] > 0
     ELSE tpc[h][0] = "none"

(* With send, main has one close under way at most: those before it are      *)
(* taken, and there is an answer only for this one.                          *)
Answers(h, cl) ==
  \A c \in ConnsOf(h) : conn[c].acks > 0 =>
    /\ main[h] = "close" /\ tpc[h][0] \in {"check", "closing"} /\ conn[c].acks = 1
    /\ c = LineOf(h, ClosingPart(ios[h][0])) /\ ClosingPart(ios[h][0]) \in cl
Taking(h, cl) ==
  main[h] = "close" =>
    /\ \A i \in 1..how.cpus * how.devs : i > ios[h][0] => ClosingPart(i) \in cl
    /\ tpc[h][0] # "left" /\ (tpc[h][0] = "check" => ~done[h])
AckInv(h, cl) == Send => Answers(h, cl) /\ Taking(h, cl)

EndInv(h, op, cl) ==
  /\ op = Parts
  /\ ClosingInv(h)
  /\ AckInv(h, cl)
  /\ \A q \in ToClose(h) : Unclosed(h, cl, q)

ClientInv(h, op, cl) ==
  \/ main[h] = "off" /\ how.runs <= 1 /\ \A t \in Threads : tpc[h][t] = "none"
  \/ main[h] \in {"connect", "tracers"} /\ StartInv(h, op, cl)
  \/ main[h] \in {"run", "stop", "close"} /\ EndInv(h, op, cl)

LiveInv(h, op, cl) ==
  /\ run[h] # 0 /\ failed[h] = {}
  /\ \A x \in ended : x[1] = h => x[2] # run[h]
  /\ cl \subseteq op /\ cl # Parts
  /\ \A t \in Threads : t > how.cpus => tpc[h][t] = "none"
  /\ LinesInv(h, op, cl) /\ BytesInv(h) /\ KeysInv(h) /\ ClientInv(h, op, cl)

(* A client that has not run; one that failed, and sends nothing; one whose  *)
(* session was ended; one in a session; and one that was killed and lost     *)
(* messages, so that a part of it is never closed and its session never      *)
(* ends.  Only the third may run again.                                      *)
Empty(h) == h \in DOMAIN ch => ch[h].cl_opens = 0 /\ DOMAIN ch[h].devs = {}
Fresh(h) ==
  /\ run[h] = 0 /\ main[h] = "off"
  /\ \A t \in Threads : tpc[h][t] = "none"
  /\ ConnsOf(h) = {} /\ NoneOf(h, sent) /\ Empty(h)
Void(h) == run[h] # 0 /\ how.runs <= 1 /\ failed[h] # {} /\ NoneOf(h, sent)
Over(h) ==
  /\ run[h] # 0 /\ failed[h] = {} /\ ConnsOf(h) = {} /\ Empty(h)
  /\ main[h] \in {"run", "stop", "close", "off"}
  /\ IF Send THEN main[h] \in {"close", "off"} ELSE \A t \in Cpus : tpc[h][t] # "run"
  /\ KeysInv(h) /\ \A q \in Parts : SentOf(h, q) = FiledOf(h, q)
Live(h) == \E op, cl \in SUBSET Parts : LiveInv(h, op, cl)
ShortInv(h, op, cl, q) ==
  /\ run[h] # 0 /\ how.runs <= 1 /\ h \in how.dies
  /\ main[h] = "off" /\ \A t \in Threads : tpc[h][t] = "none"
  /\ \A x \in ended : x[1] = h => x[2] # run[h]
  /\ cl \subseteq op /\ LinesInv(h, op, cl) /\ Unclosed(h, cl, q)
Short(h) == \E op, cl \in SUBSET Parts : \E q \in Parts : ShortInv(h, op, cl, q)
HostInv(h) == Fresh(h) \/ Void(h) \/ Over(h) \/ Live(h) \/ Short(h)

(* Whatever became of the client: the connections and the devices of its     *)
(* host are those of its present run, and what earlier runs sent is filed.   *)
RunsUpTo(h, f) == \A x \in f : x[1] = h => x[2] \in 0..run[h]
OwnInv(h) ==
  /\ \A c \in ConnsOf(h) : c[2] = run[h] /\ (conn[c].accepted => h \in DOMAIN ch)
  /\ h \in DOMAIN ch => \A d \in DOMAIN ch[h].devs : ch[h].devs[d].id = run[h]
                                                 /\ ch[h].devs[d].runs \subseteq {run[h]}
  /\ RunsUpTo(h, ended) /\ RunsUpTo(h, DOMAIN sent) /\ RunsUpTo(h, DOMAIN filed)
  /\ \A x \in DOMAIN sent : x[1] = h /\ x[2] # run[h] => sent[x] = Bytes(filed, h, x[2], x[3], x[4])

Queued == \E S : backlog \in Seq(S) /\ \A c \in S : c[1] \in Hosts
Mains == {"off", "connect", "tracers", "stopped", "run", "stop", "close"}
Typed ==
  /\ main \in [Hosts -> Mains] /\ done \in [Hosts -> BOOLEAN]
  /\ tpc \in [Hosts -> [Threads -> Labels]]
  /\ failed \in [Hosts -> SUBSET Threads]
  /\ \A c \in DOMAIN conn : c[1] \in Hosts
  /\ \A x \in DOMAIN sent : x[1] \in Hosts
  /\ \A h \in DOMAIN ch : h \in Hosts
  /\ Queued

(* Connections are lost only by clients that were killed.                    *)
KilledIn(f) == {c \in DOMAIN f : f[c].client = "killed"}
KilledInv ==
  /\ \A h \in Hosts : main[h] # "off" => run[h] # 0
  /\ \A c \in KilledIn(conn) : c[1] \in how.dies /\ main[c[1]] = "off" /\ run[c[1]] # 0

(* While the server runs, and when it has exited: nothing is sent any more.   *)
RunningInv == Typed /\ KilledInv /\ \A h \in Hosts : HostInv(h) /\ OwnInv(h)
ExitedInv == DOMAIN conn = {} /\ DOMAIN ch = {} /\ backlog = <<>> /\ EndOfRunComplete
SessionInv == IInv /\ IF exited THEN ExitedInv ELSE RunningInv

-----------------------------------------------------------------------------
(* Sums over a queue.                                                        *)
LEMMA ShareInt ==
  ASSUME NEW m \in Message, NEW d
  PROVE  Share(m, d) \in Int
BY MmapAssumption DEF Share, Message, Lens

LEMMA AddsUpEmpty ==
  /\ \A d : \A n \in Int : AddsUp(<<>>, d, n, n)
  /\ \A d, a, b : AddsUp(<<>>, d, a, b) => a = b
<1>1. ASSUME NEW d, NEW n \in Int PROVE AddsUp(<<>>, d, n, n)
  <2> DEFINE s == [i \in 0..0 |-> n]
  <2>1. Len(<<>>) = 0
    OBVIOUS
  <2>2. s \in [0..0 -> Int] /\ s[0] = n
    OBVIOUS
  <2> HIDE DEF s
  <2> QED BY <2>1, <2>2 DEF AddsUp
<1> QED BY <1>1 DEF AddsUp

LEMMA AddsUpAppend ==
  ASSUME NEW u \in Seq(Message), NEW m \in Message, NEW d, NEW a, NEW b, AddsUp(u, d, a, b)
  PROVE  AddsUp(Append(u, m), d, a, b + Share(m, d))
<1>1. PICK s \in [0..Len(u) -> Int] :
        /\ s[0] = a /\ s[Len(u)] = b
        /\ \A i \in 1..Len(u) : s[i] = s[i - 1] + Share(u[i], d)
  BY DEF AddsUp
<1> DEFINE n == Len(u)
           v == Append(u, m)
           r == [i \in 0..n + 1 |-> IF i <= n THEN s[i] ELSE b + Share(m, d)]
<1>2. n \in Nat /\ Len(v) = n + 1 /\ v[n + 1] = m /\ \A i \in 1..n : v[i] = u[i]
  OBVIOUS
<1>3. Share(m, d) \in Int /\ b \in Int
  BY <1>1, ShareInt
<1>4. r \in [0..Len(v) -> Int]
  BY <1>1, <1>2, <1>3
<1>5. r[0] = a /\ r[Len(v)] = b + Share(m, d)
  BY <1>1, <1>2
<1>6. ASSUME NEW i \in 1..Len(v) PROVE r[i] = r[i - 1] + Share(v[i], d)
  <2>1. CASE i = n + 1
    <3>1. r[i] = b + Share(m, d) /\ r[i - 1] = s[n]
      BY <1>2, <2>1
    <3> QED BY <1>1, <1>2, <2>1, <3>1
  <2>2. CASE i # n + 1
    <3>1. i \in 1..n /\ i - 1 \in 0..n
      BY <1>2, <2>2
    <3>2. r[i] = s[i] /\ r[i - 1] = s[i - 1]
      BY <1>2, <3>1
    <3> QED BY <1>1, <1>2, <3>1, <3>2
  <2> QED BY <2>1, <2>2
<1> HIDE DEF r, v
<1> QED BY <1>4, <1>5, <1>6 DEF AddsUp, v

LEMMA AddsUpTail ==
  ASSUME NEW u \in Seq(Message), u # <<>>, NEW d, NEW a, NEW b, AddsUp(u, d, a, b)
  PROVE  AddsUp(Tail(u), d, a + Share(u[1], d), b)
<1>1. PICK s \in [0..Len(u) -> Int] :
        /\ s[0] = a /\ s[Len(u)] = b
        /\ \A i \in 1..Len(u) : s[i] = s[i - 1] + Share(u[i], d)
  BY DEF AddsUp
<1> DEFINE n == Len(u)
           v == Tail(u)
           r == [i \in 0..n - 1 |-> s[i + 1]]
<1>2. n \in Nat /\ n >= 1 /\ Len(v) = n - 1 /\ \A i \in 1..n - 1 : v[i] = u[i + 1]
  BY HeadTailProperties
<1>3. r \in [0..Len(v) -> Int]
  BY <1>1, <1>2
<1>4. r[0] = a + Share(u[1], d) /\ r[Len(v)] = b
  BY <1>1, <1>2
<1>5. ASSUME NEW i \in 1..Len(v) PROVE r[i] = r[i - 1] + Share(v[i], d)
  BY <1>1, <1>2
<1> HIDE DEF r, v
<1> QED BY <1>3, <1>4, <1>5 DEF AddsUp, v

(* A queue of one message that is not data.                                  *)
LEMMA AddsUpOne ==
  ASSUME NEW u \in Seq(Message), Len(u) = 1, u[1].type # "data", NEW d, NEW a, NEW b,
         AddsUp(u, d, a, b)
  PROVE  a = b
<1>1. PICK s \in [0..Len(u) -> Int] :
        /\ s[0] = a /\ s[Len(u)] = b
        /\ \A i \in 1..Len(u) : s[i] = s[i - 1] + Share(u[i], d)
  BY DEF AddsUp
<1>2. s[1] = s[0] + 0
  BY <1>1 DEF Share
<1> QED BY <1>1, <1>2

-----------------------------------------------------------------------------
LEMMA PartsFinite ==
  ASSUME how \in Ways
  PROVE  /\ IsFiniteSet(Parts) /\ \A S \in SUBSET Parts : IsFiniteSet(S) /\ Cardinality(S) \in Nat
         /\ IsFiniteSet(CpusUsed) /\ CpusUsed \subseteq Cpus /\ 0 \notin CpusUsed
<1>1. how.cpus \in 1..NCpus /\ how.devs \in Nat \ {0} /\ NCpus \in Nat
  BY Ways_, NetAssumption DEF Way
<1>2. IsFiniteSet(CpusUsed) /\ IsFiniteSet(1..how.devs)
  <2>1. how.cpus \in Int /\ how.devs \in Int /\ 1 \in Int
    BY <1>1
  <2> QED BY <2>1, FS_Interval DEF CpusUsed
<1>3. IsFiniteSet(Parts)
  BY <1>2, FS_Product DEF Parts
<1>4. \A S \in SUBSET Parts : IsFiniteSet(S) /\ Cardinality(S) \in Nat
  BY <1>3, FS_Subset, FS_CardinalityType
<1> QED BY <1>1, <1>2, <1>3, <1>4 DEF CpusUsed, Cpus

-----------------------------------------------------------------------------
(* What a step leaves alone, and which parts of the invariant hold on.       *)
LEMMA HowKept ==
  how' = how => /\ Parts' = Parts /\ Send' = Send /\ CpusUsed' = CpusUsed
                /\ \A h, q : run'[h] = run[h] => LineOf(h, q)' = LineOf(h, q)
BY DEF Parts, Send, CpusUsed, LineOf

SameLines(h) ==
  /\ run'[h] = run[h]
  /\ ConnsOf(h)' = ConnsOf(h)
  /\ \A c \in ConnsOf(h) : conn'[c].up = conn[c].up
SameAccepted(h) == \A c \in ConnsOf(h) : conn'[c].accepted = conn[c].accepted
SameAcks(h) == \A c \in ConnsOf(h) : conn'[c].acks = conn[c].acks
SameCount(h) ==
  /\ h \in DOMAIN ch' <=> h \in DOMAIN ch
  /\ h \in DOMAIN ch => ch'[h] = ch[h]
SameData(h) ==
  /\ run'[h] = run[h]
  /\ \A x : x[1] = h => (x \in DOMAIN sent' <=> x \in DOMAIN sent) /\ (x \in DOMAIN sent => sent'[x] = sent[x])
  /\ \A x : x[1] = h => (x \in DOMAIN filed' <=> x \in DOMAIN filed) /\ (x \in DOMAIN filed => filed'[x] = filed[x])
SameClient(h) ==
  /\ run'[h] = run[h] /\ main'[h] = main[h] /\ done'[h] = done[h]
  /\ tpc'[h] = tpc[h] /\ ios'[h] = ios[h] /\ failed'[h] = failed[h]
SameEnded(h) == \A x : x[1] = h => (x \in ended' <=> x \in ended)

LEMMA LineOfHost == \A h, q : LineOf(h, q)[1] = h /\ LineOf(h, q)[2] = run[h] /\ LineOf(h, q)[3] = q[1]
BY DEF LineOf

LEMMA LinesFrame ==
  ASSUME how' = how, NEW h, SameLines(h), SameAccepted(h), SameCount(h), NEW op, NEW cl,
         LinesInv(h, op, cl)
  PROVE  LinesInv(h, op, cl)'
<1>1. \A c, m : MessageInv(h, op, cl, c, m)' <=> MessageInv(h, op, cl, c, m)
  BY HowKept DEF MessageInv, SameLines
<1>2. \A q : LineOf(h, q) \in DOMAIN conn <=> LineOf(h, q) \in ConnsOf(h)
  BY LineOfHost DEF ConnsOf
<1>3. \A q : LineOf(h, q) \in DOMAIN conn' <=> LineOf(h, q) \in ConnsOf(h)'
  BY LineOfHost DEF ConnsOf
<1>4. \A q : LineOf(h, q)' = LineOf(h, q)
  BY HowKept DEF SameLines
<1> QED BY <1>1, <1>2, <1>3, <1>4, HowKept DEF LinesInv, SameLines, SameAccepted, SameCount, QueueInv

LEMMA UpFrame ==
  ASSUME how' = how, NEW h, SameLines(h), NEW q
  PROVE  Up(h, q)' = Up(h, q)
<1>1. LineOf(h, q)' = LineOf(h, q) /\ LineOf(h, q)[1] = h
  BY HowKept, LineOfHost DEF SameLines
<1> QED BY <1>1 DEF Up, SameLines, ConnsOf

LEMMA DataFrame ==
  ASSUME NEW h, SameData(h), NEW q
  PROVE  SentOf(h, q)' = SentOf(h, q) /\ FiledOf(h, q)' = FiledOf(h, q)
<1>1. <<h, run[h], q[1], q[2]>>[1] = h
  OBVIOUS
<1> QED BY <1>1 DEF SameData, SentOf, FiledOf, Bytes

LEMMA BytesFrame ==
  ASSUME how' = how, NEW h, SameLines(h), SameData(h), BytesInv(h)
  PROVE  BytesInv(h)'
<1>1. \A u, d, a, b : AddsUp(u, d, a, b)' <=> AddsUp(u, d, a, b)
  BY DEF AddsUp, Share
<1> QED BY <1>1, UpFrame, DataFrame, HowKept DEF BytesInv

LEMMA KeysFrame ==
  ASSUME how' = how, NEW h, SameData(h), KeysInv(h)
  PROVE  KeysInv(h)'
BY HowKept DEF KeysInv, SameData

LEMMA NoneFrame ==
  ASSUME NEW h, SameData(h)
  PROVE  (NoneOf(h, sent) => NoneOf(h, sent)') /\ (NoneOf(h, filed) => NoneOf(h, filed)')
BY DEF NoneOf, SameData

(* A part that is untouched, or not closed, stays so when nothing is sent    *)
(* that names it.                                                            *)
LEMMA UntouchedFrame ==
  ASSUME how' = how, NEW h, SameLines(h), NEW op, NEW q, Untouched(h, op, q)
  PROVE  Untouched(h, op, q)'
<1>1. LineOf(h, q)' = LineOf(h, q) /\ LineOf(h, q)[1] = h
  BY HowKept, LineOfHost DEF SameLines
<1> QED BY <1>1, HowKept DEF Untouched, SameLines, ConnsOf

LEMMA UnclosedFrame ==
  ASSUME NEW h, SameLines(h), NEW cl, NEW q, Unclosed(h, cl, q)
  PROVE  Unclosed(h, cl, q)'
BY DEF Unclosed, SameLines

LEMMA OpeningFrame ==
  ASSUME how' = how, NEW h, SameLines(h), SameAcks(h), NEW op, NEW t,
         tpc'[h][t] = tpc[h][t], ios'[h][t] = ios[h][t], OpeningInv(h, t, op)
  PROVE  OpeningInv(h, t, op)'
<1>1. \A q : LineOf(h, q)' = LineOf(h, q) /\ LineOf(h, q)[1] = h
  BY HowKept, LineOfHost DEF SameLines
<1>2. ConnsOf(h)' = ConnsOf(h) /\ \A q : LineOf(h, q) \in DOMAIN conn => LineOf(h, q) \in DOMAIN conn'
  BY <1>1 DEF SameLines, ConnsOf
<1>3. \A q : Untouched(h, op, q) => Untouched(h, op, q)'
  BY UntouchedFrame
<1> QED BY <1>1, <1>2, <1>3 DEF OpeningInv, SameAcks

LEMMA UnconnectedFrame ==
  ASSUME how' = how, NEW h, SameLines(h), run'[h] = run[h]
  PROVE  Unconnected(h)' = Unconnected(h)
BY HowKept DEF Unconnected, SameLines, ConnsOf

LEMMA StartFrame ==
  ASSUME how' = how, NEW h, SameLines(h), SameAcks(h), SameClient(h), SameData(h),
         NEW op, NEW cl, StartInv(h, op, cl)
  PROVE  StartInv(h, op, cl)'
<1>1. \A t : OpeningInv(h, t, op) => OpeningInv(h, t, op)'
  BY OpeningFrame DEF SameClient
<1>2. OnlyOpens(h)'
  BY DEF StartInv, OnlyOpens, SameLines
<1> QED BY <1>1, <1>2, NoneFrame, UnconnectedFrame, HowKept DEF StartInv, SameClient

LEMMA AckFrame ==
  ASSUME how' = how, NEW h, SameLines(h), SameAcks(h), NEW cl, AckInv(h, cl),
         main'[h] = main[h], tpc'[h] = tpc[h], ios'[h] = ios[h], done'[h] = done[h]
  PROVE  AckInv(h, cl)'
<1>1. \A i : ClosingPart(i)' = ClosingPart(i) /\ LineOf(h, ClosingPart(i))' = LineOf(h, ClosingPart(i))
  BY HowKept DEF ClosingPart, SameLines, LineOf
<1>2. Answers(h, cl) => Answers(h, cl)'
  BY <1>1 DEF Answers, SameLines, SameAcks
<1>3. Taking(h, cl) => Taking(h, cl)'
  BY <1>1 DEF Taking
<1> QED BY <1>2, <1>3, HowKept DEF AckInv

LEMMA EndFrame ==
  ASSUME how' = how, NEW h, SameLines(h), SameAcks(h), SameClient(h), NEW op, NEW cl, EndInv(h, op, cl)
  PROVE  EndInv(h, op, cl)'
<1>1. ToClose(h)' = ToClose(h)
  BY HowKept DEF ToClose, Remaining, ClosingPart, SameClient
<1>2. ClosingInv(h)'
  BY HowKept DEF EndInv, ClosingInv, SameClient
<1>3. AckInv(h, cl)'
  BY AckFrame DEF EndInv, SameClient
<1> QED BY <1>1, <1>2, <1>3, HowKept, UnclosedFrame DEF EndInv

LEMMA ClientFrame ==
  ASSUME how' = how, NEW h, SameLines(h), SameAcks(h), SameClient(h), SameData(h),
         NEW op, NEW cl, ClientInv(h, op, cl)
  PROVE  ClientInv(h, op, cl)'
BY StartFrame, EndFrame DEF ClientInv, SameClient, Threads

(* A step of which the host notices nothing.                                 *)
LEMMA HostFrame ==
  ASSUME how' = how, NEW h, SameLines(h), SameAccepted(h), SameAcks(h), SameCount(h), SameData(h),
         SameClient(h), SameEnded(h), HostInv(h)
  PROVE  HostInv(h)'
<1>1. CASE Fresh(h)
  <2>1. Fresh(h)'
    BY <1>1, NoneFrame DEF Fresh, Empty, SameLines, SameCount, SameClient, Threads
  <2> QED BY <2>1 DEF HostInv
<1>2. CASE Void(h)
  BY <1>2, NoneFrame DEF Void, HostInv, SameClient
<1>3. CASE Over(h)
  <2>1. Over(h)'
    BY <1>3, HowKept, KeysFrame, DataFrame DEF Over, Empty, SameLines, SameCount, SameClient, Cpus
  <2> QED BY <2>1 DEF HostInv
<1>4. CASE Live(h)
  <2>1. PICK op, cl \in SUBSET Parts : LiveInv(h, op, cl)
    BY <1>4 DEF Live
  <2>2. LiveInv(h, op, cl)'
    BY <2>1, LinesFrame, BytesFrame, KeysFrame, ClientFrame, HowKept DEF LiveInv, SameClient, SameEnded, Threads
  <2> QED BY <2>1, <2>2, HowKept DEF HostInv, Live
<1>5. CASE Short(h)
  <2>1. PICK op, cl \in SUBSET Parts, q \in Parts : ShortInv(h, op, cl, q)
    BY <1>5 DEF Short
  <2>2. ShortInv(h, op, cl, q)'
    BY <2>1, LinesFrame, UnclosedFrame DEF ShortInv, SameClient, SameEnded, Threads
  <2> QED BY <2>1, <2>2, HowKept DEF HostInv, Short
<1> QED BY <1>1, <1>2, <1>3, <1>4, <1>5 DEF HostInv

(* A client that lost messages takes no step.                                *)
LEMMA ShortOff ==
  ASSUME NEW h, Short(h)
  PROVE  /\ run[h] # 0 /\ how.runs <= 1 /\ h \in how.dies
         /\ main[h] = "off" /\ \A t \in Threads : tpc[h][t] = "none"
BY DEF Short, ShortInv

LEMMA OwnFrame ==
  ASSUME NEW h, SameLines(h), SameAccepted(h), SameCount(h), SameData(h), SameEnded(h), OwnInv(h)
  PROVE  OwnInv(h)'
<1>1. RunsUpTo(h, ended)' /\ RunsUpTo(h, DOMAIN sent)' /\ RunsUpTo(h, DOMAIN filed)'
  BY DEF OwnInv, RunsUpTo, SameLines, SameData, SameEnded
<1>2. \A x \in DOMAIN sent' : x[1] = h /\ x[2] # run'[h] => sent'[x] = Bytes(filed', h, x[2], x[3], x[4])
  <2> SUFFICES ASSUME NEW x \in DOMAIN sent', x[1] = h, x[2] # run'[h]
               PROVE  sent'[x] = Bytes(filed', h, x[2], x[3], x[4])
    OBVIOUS
  <2>1. <<h, x[2], x[3], x[4]>>[1] = h
    OBVIOUS
  <2> QED BY <2>1 DEF OwnInv, SameData, Bytes
<1> QED BY <1>1, <1>2 DEF OwnInv, SameLines, SameAccepted, SameCount

-----------------------------------------------------------------------------
(* A step of one client: the other hosts notice nothing.                     *)
ConnElsewhere(h, f) ==
  \A x : x[1] # h => (x \in DOMAIN f <=> x \in DOMAIN conn) /\ (x \in DOMAIN conn => f[x] = conn[x])
Named(f) == \A c \in DOMAIN f : c[1] \in Hosts

LEMMA ConnOfHost == \A h, t, d : ConnOf(h, t, d)[1] = h
BY DEF ConnOf

LEMMA ConnChanges ==
  ASSUME NEW h \in Hosts, Named(conn)
  PROVE  /\ \A c, m : c[1] = h => ConnElsewhere(h, Sent(c, m)) /\ Named(Sent(c, m))
         /\ \A c : c[1] = h => ConnElsewhere(h, TakeAnswer(c)) /\ Named(TakeAnswer(c))
         /\ \A c, m : c[1] = h => ConnElsewhere(h, Added(conn, c, m)) /\ Named(Added(conn, c, m))
         /\ \A f : ConnElsewhere(h, f) /\ Named(f) =>
              \A cs : (\A c \in cs : c[1] = h) => ConnElsewhere(h, Shut(cs, f)) /\ Named(Shut(cs, f))
         /\ \A cs : (\A c \in cs : c[1] = h) => ConnElsewhere(h, Killed(cs, conn)) /\ Named(Killed(cs, conn))
         /\ ConnElsewhere(h, conn)
<1>1. \A c, m : c[1] = h => ConnElsewhere(h, Sent(c, m)) /\ Named(Sent(c, m))
  BY DEF ConnElsewhere, Named, Sent
<1>2. \A c : c[1] = h => ConnElsewhere(h, TakeAnswer(c)) /\ Named(TakeAnswer(c))
  BY DEF ConnElsewhere, Named, TakeAnswer
<1>3. \A c, m : c[1] = h => ConnElsewhere(h, Added(conn, c, m)) /\ Named(Added(conn, c, m))
  BY DEF ConnElsewhere, Named, Added
<1>4. \A f : ConnElsewhere(h, f) /\ Named(f) =>
        \A cs : (\A c \in cs : c[1] = h) => ConnElsewhere(h, Shut(cs, f)) /\ Named(Shut(cs, f))
  BY DEF ConnElsewhere, Named, Shut
<1>5. \A cs : (\A c \in cs : c[1] = h) => ConnElsewhere(h, Killed(cs, conn)) /\ Named(Killed(cs, conn))
  BY DEF ConnElsewhere, Named, Killed
<1>6. ConnElsewhere(h, conn)
  BY DEF ConnElsewhere
<1> QED BY <1>1, <1>2, <1>3, <1>4, <1>5, <1>6

LEMMA ConnElsewhereSame ==
  ASSUME NEW h, ConnElsewhere(h, conn'), NEW g, g # h, run'[g] = run[g]
  PROVE  SameLines(g) /\ SameAccepted(g) /\ SameAcks(g)
BY DEF ConnElsewhere, SameLines, SameAccepted, SameAcks, ConnsOf

LEMMA CountedElsewhere ==
  ASSUME NEW f, NEW h, NEW r, NEW t, NEW d, NEW len
  PROVE  /\ \A x : x[1] # h => /\ (x \in DOMAIN Counted(f, h, r, t, d, len) <=> x \in DOMAIN f)
                               /\ (x \in DOMAIN f => Counted(f, h, r, t, d, len)[x] = f[x])
         /\ \A x \in DOMAIN Counted(f, h, r, t, d, len) : x \in DOMAIN f \/ x = <<h, r, t, d>>
BY DEF Counted

ClientStep(h) ==
  \/ StartRun(h) \/ Main(h) \/ Stop(h) \/ Die(h)
  \/ \E t \in Threads : Tracer(h, t)
  \/ \E t \in Cpus, d \in Devs, len \in Lens : SendData(h, t, d, len)

(* Each step changes the entries of one client, and its connections.         *)
LEMMA ClientConns ==
  ASSUME Typed, NEW h \in Hosts, ClientStep(h)
  PROVE  ConnElsewhere(h, conn') /\ Named(conn')
<1>0. Named(conn) /\ ConnElsewhere(h, conn)
  BY ConnChanges DEF Named, Typed
<1>1. ASSUME conn' = conn PROVE ConnElsewhere(h, conn') /\ Named(conn')
  BY <1>0, <1>1
<1>2. CASE StartRun(h) \/ Stop(h) \/ Unblock(h) \/ CloseClientConnections(h)
  BY <1>1, <1>2 DEF StartRun, Stop, Unblock, CloseClientConnections
<1>3. CASE ConnectFails(h) \/ Exit(h) \/ Die(h)
  <2>1. \A c \in ConnsOf(h) : c[1] = h
    BY DEF ConnsOf
  <2> QED BY <1>0, <1>3, <2>1, ConnChanges DEF ConnectFails, Exit, Die, Gone
<1>4. CASE OpenClientConnection(h)
  BY <1>0, <1>4, ConnChanges DEF OpenClientConnection
<1>5. ASSUME NEW t \in Threads, Tracer(h, t) PROVE ConnElsewhere(h, conn') /\ Named(conn')
  <2>1. CASE OpenIo(h, t)
    BY <1>0, <2>1, ConnChanges, ConnOfHost DEF OpenIo
  <2>2. CASE OpenAnswered(h, t)
    BY <1>0, <2>2, ConnChanges, ConnOfHost DEF OpenAnswered
  <2>3. CASE TraceFileFails(h, t) \/ SetupClientFails(h, t) \/ Leave(h, t) \/ WaitAnswer(h, t) \/ AllClosed(h, t)
    BY <1>1, <2>3 DEF TraceFileFails, SetupClientFails, Leave, WaitAnswer, AllClosed
  <2>4. CASE SendClose(h, t)
    BY <1>0, <2>4, ConnChanges, ConnOfHost DEF SendClose, ClosingConn
  <2>5. ASSUME NEW f, ConnElsewhere(h, f), Named(f), Closed(h, t, f)
        PROVE  ConnElsewhere(h, conn') /\ Named(conn')
    <3>1. \A c \in {ClosingConn(h, t)} : c[1] = h
      BY ConnOfHost DEF ClosingConn
    <3> QED BY <1>0, <2>5, <3>1, ConnChanges DEF Closed
  <2>6. CASE NoAnswer(h, t)
    BY <1>0, <2>5, <2>6 DEF NoAnswer
  <2>7. CASE CloseAnswered(h, t)
    BY <1>0, <2>5, <2>7, ConnChanges, ConnOfHost DEF CloseAnswered, ClosingConn
  <2> QED BY <1>5, <2>1, <2>2, <2>3, <2>4, <2>6, <2>7 DEF Tracer
<1>6. ASSUME NEW t \in Cpus, NEW d \in Devs, NEW len \in Lens, SendData(h, t, d, len)
      PROVE  ConnElsewhere(h, conn') /\ Named(conn')
  BY <1>0, <1>6, ConnChanges, ConnOfHost DEF SendData
<1> QED BY <1>2, <1>3, <1>4, <1>5, <1>6 DEF ClientStep, Main

(* What a step does to the client's variables.                               *)
OneClient(h) ==
  /\ run' = [run EXCEPT ![h] = run'[h]] /\ ios' = [ios EXCEPT ![h] = ios'[h]]
  /\ main' = [main EXCEPT ![h] = main'[h]] /\ main'[h] \in Mains
  /\ done' = [done EXCEPT ![h] = done'[h]] /\ done'[h] \in BOOLEAN
  /\ tpc' = [tpc EXCEPT ![h] = tpc'[h]] /\ tpc'[h] \in [Threads -> Labels]
  /\ failed' = [failed EXCEPT ![h] = failed'[h]] /\ failed'[h] \in SUBSET Threads
LEMMA ClientVars ==
  ASSUME IInv, Typed, NEW h \in Hosts, ClientStep(h)
  PROVE  OneClient(h)
<1> USE DEF Typed, Mains, Labels, Client, OneClient, Goto, TGoto
<1>0. \A t \in Threads, label \in Labels : [tpc EXCEPT ![h][t] = label][h] \in [Threads -> Labels]
  OBVIOUS
<1>1. CASE StartRun(h)
  BY <1>1 DEF StartRun, IInv
<1>2. CASE Stop(h)
  BY <1>2 DEF Stop, IInv
<1>3. CASE Unblock(h)
  <2>1. [t \in Threads |-> IF tpc[h][t] = "ready" THEN "run" ELSE tpc[h][t]] \in [Threads -> Labels]
    OBVIOUS
  <2> QED BY <1>3, <2>1 DEF Unblock, IInv
<1>4. CASE CloseClientConnections(h)
  <2>1. 0 \in Threads
    BY NetAssumption DEF Threads
  <2> QED BY <1>0, <1>4, <2>1 DEF CloseClientConnections, IInv
<1>5. ASSUME NEW f, Gone(h, f) PROVE OneClient(h)
  BY <1>5 DEF Gone, IInv
<1>6. CASE OpenClientConnection(h)
  BY <1>6 DEF OpenClientConnection, IInv
<1>7. ASSUME NEW t \in Threads, Tracer(h, t) PROVE OneClient(h)
  <2>1. run' = run /\ main' = main
    BY <1>7 DEF Tracer, OpenIo, OpenAnswered, TraceFileFails, SetupClientFails, Leave, SendClose,
                WaitAnswer, NoAnswer, CloseAnswered, Closed, AllClosed
  <2>2. \/ ios' = ios \/ ios' = [ios EXCEPT ![h][t] = @ + 1] \/ ios' = [ios EXCEPT ![h][t] = @ - 1]
    BY <1>7 DEF Tracer, OpenIo, OpenAnswered, Opened, TraceFileFails, SetupClientFails, Leave, SendClose,
                WaitAnswer, NoAnswer, CloseAnswered, Closed, AllClosed
  <2>3. done' = done \/ done' = [done EXCEPT ![h] = TRUE] \/ done' = [done EXCEPT ![h] = FALSE]
    BY <1>7 DEF Tracer, OpenIo, OpenAnswered, TraceFileFails, SetupClientFails, Leave, SendClose,
                WaitAnswer, NoAnswer, CloseAnswered, Closed, AllClosed
  <2>4. failed' = failed \/ failed' = [failed EXCEPT ![h] = @ \cup {t}]
    BY <1>7 DEF Tracer, OpenIo, OpenAnswered, TraceFileFails, SetupClientFails, Leave, SendClose,
                WaitAnswer, NoAnswer, CloseAnswered, Closed, AllClosed
  <2>5. \E label \in Labels : tpc' = [tpc EXCEPT ![h][t] = label]
    BY <1>7 DEF Tracer, OpenIo, OpenAnswered, Opened, TraceFileFails, SetupClientFails, Leave, SendClose,
                WaitAnswer, NoAnswer, CloseAnswered, Closed, AllClosed
  <2>6. run' = [run EXCEPT ![h] = run'[h]] /\ ios' = [ios EXCEPT ![h] = ios'[h]]
    BY <2>1, <2>2 DEF IInv
  <2>7. tpc' = [tpc EXCEPT ![h] = tpc'[h]] /\ tpc'[h] \in [Threads -> Labels]
    <3>1. PICK label \in Labels : tpc' = [tpc EXCEPT ![h][t] = label]
      BY <2>5
    <3> QED BY <3>1
  <2>8. failed' = [failed EXCEPT ![h] = failed'[h]] /\ failed'[h] \in SUBSET Threads
    BY <2>4
  <2>9. main' = [main EXCEPT ![h] = main'[h]] /\ main'[h] \in Mains
    BY <2>1
  <2>10. done' = [done EXCEPT ![h] = done'[h]] /\ done'[h] \in BOOLEAN
    BY <2>3
  <2> QED BY <2>6, <2>7, <2>8, <2>9, <2>10
<1>8. ASSUME NEW t \in Cpus, NEW d \in Devs, NEW len \in Lens, SendData(h, t, d, len)
      PROVE  OneClient(h)
  BY <1>8 DEF SendData, IInv
<1> QED BY <1>1, <1>2, <1>3, <1>4, <1>5, <1>6, <1>7, <1>8
        DEF ClientStep, Main, ConnectFails, Exit, Die

LEMMA ClientSent ==
  ASSUME NEW h \in Hosts, ClientStep(h)
  PROVE  /\ how' = how /\ ch' = ch /\ filed' = filed /\ ended' = ended /\ exited' = exited
         /\ sent' = sent \/ \E t, d, len : sent' = Counted(sent, h, run[h], t, d, len)
<1>1. CASE StartRun(h) \/ Stop(h) \/ Main(h) \/ Die(h)
  BY <1>1 DEF StartRun, Stop, Main, OpenClientConnection, ConnectFails, Unblock, CloseClientConnections,
              Exit, Die, Gone, server
<1>2. ASSUME NEW t \in Threads, Tracer(h, t)
      PROVE  /\ how' = how /\ sent' = sent /\ ch' = ch /\ filed' = filed /\ ended' = ended
             /\ exited' = exited
  BY <1>2 DEF Tracer, OpenIo, OpenAnswered, TraceFileFails, SetupClientFails, Leave, SendClose,
              WaitAnswer, NoAnswer, CloseAnswered, Closed, AllClosed, server
<1>3. CASE \E t \in Cpus, d \in Devs, len \in Lens : SendData(h, t, d, len)
  BY <1>3 DEF SendData, server
<1> QED BY <1>1, <1>2, <1>3 DEF ClientStep

LEMMA DataElsewhere ==
  ASSUME NEW h, NEW g, g # h, run'[g] = run[g],
         sent' = sent \/ \E r, t, d, len : sent' = Counted(sent, h, r, t, d, len),
         filed' = filed \/ \E r, t, d, len : filed' = Counted(filed, h, r, t, d, len)
  PROVE  SameData(g)
<1>1. \A x : x[1] = g => /\ (x \in DOMAIN sent' <=> x \in DOMAIN sent)
                         /\ (x \in DOMAIN sent => sent'[x] = sent[x])
  <2>1. CASE sent' = sent
    BY <2>1
  <2>2. CASE \E r, t, d, len : sent' = Counted(sent, h, r, t, d, len)
    <3>1. PICK r, t, d, len : sent' = Counted(sent, h, r, t, d, len)
      BY <2>2
    <3> QED BY <3>1, CountedElsewhere
  <2> QED BY <2>1, <2>2
<1>2. \A x : x[1] = g => /\ (x \in DOMAIN filed' <=> x \in DOMAIN filed)
                         /\ (x \in DOMAIN filed => filed'[x] = filed[x])
  <2>1. CASE filed' = filed
    BY <2>1
  <2>2. CASE \E r, t, d, len : filed' = Counted(filed, h, r, t, d, len)
    <3>1. PICK r, t, d, len : filed' = Counted(filed, h, r, t, d, len)
      BY <2>2
    <3> QED BY <3>1, CountedElsewhere
  <2> QED BY <2>1, <2>2
<1> QED BY <1>1, <1>2 DEF SameData

LEMMA ClientQueue ==
  ASSUME NEW h \in Hosts, ClientStep(h), Queued
  PROVE  Queued'
<1>1. backlog' = backlog \/ \E c : c[1] = h /\ backlog' = Append(backlog, c)
  <2>1. CASE OpenClientConnection(h)
    BY <2>1 DEF OpenClientConnection
  <2>2. ASSUME NEW t \in Threads, OpenIo(h, t)
        PROVE  backlog' = backlog \/ \E c : c[1] = h /\ backlog' = Append(backlog, c)
    <3>1. PICK c : c = ConnOf(h, t, ios[h][t]) /\ c[1] = h
      BY ConnOfHost
    <3> QED BY <2>2, <3>1 DEF OpenIo
  <2>3. CASE backlog' = backlog
    BY <2>3
  <2> QED BY <2>1, <2>2, <2>3
          DEF ClientStep, StartRun, Main, Stop, Die, ConnectFails, Unblock, CloseClientConnections, Exit, Gone,
              Tracer, OpenAnswered, TraceFileFails, SetupClientFails, Leave, SendClose,
              WaitAnswer, NoAnswer, CloseAnswered, Closed, AllClosed, SendData
<1>2. PICK S : backlog \in Seq(S) /\ \A c \in S : c[1] \in Hosts
  BY DEF Queued
<1>3. CASE backlog' = backlog
  BY <1>2, <1>3 DEF Queued
<1>4. ASSUME NEW c, c[1] = h, backlog' = Append(backlog, c) PROVE Queued'
  <2>1. backlog \in Seq(S \cup {c})
    BY <1>2
  <2>2. backlog' \in Seq(S \cup {c})
    BY <1>4, <2>1
  <2> QED BY <1>2, <1>4, <2>2 DEF Queued
<1> QED BY <1>1, <1>3, <1>4

LEMMA ClientElsewhere ==
  ASSUME IInv, Typed, NEW h \in Hosts, ClientStep(h)
  PROVE  Typed' /\ \A g \in Hosts \ {h} : (HostInv(g) => HostInv(g)') /\ (OwnInv(g) => OwnInv(g)')
<1>1. OneClient(h) /\ ConnElsewhere(h, conn') /\ Named(conn')
  BY ClientVars, ClientConns
<1>2. \A g \in Hosts \ {h} : SameClient(g)
  BY <1>1 DEF OneClient, SameClient, Typed, IInv, Client
<1>3. \A g \in Hosts \ {h} : SameData(g) /\ SameCount(g) /\ SameEnded(g)
  <2>1. sent' = sent \/ \E r, t, d, len : sent' = Counted(sent, h, r, t, d, len)
    BY ClientSent
  <2>2. \A g \in Hosts \ {h} : run'[g] = run[g]
    BY <1>2 DEF SameClient
  <2> QED BY <2>1, <2>2, ClientSent, DataElsewhere DEF SameCount, SameEnded
<1>4. \A g \in Hosts \ {h} : SameLines(g) /\ SameAccepted(g) /\ SameAcks(g)
  <2>1. \A g \in Hosts \ {h} : run'[g] = run[g]
    BY <1>2 DEF SameClient
  <2> QED BY <1>1, <2>1, ConnElsewhereSame
<1>5. \A g \in Hosts \ {h} : (HostInv(g) => HostInv(g)') /\ (OwnInv(g) => OwnInv(g)')
  BY <1>2, <1>3, <1>4, ClientSent, HostFrame, OwnFrame
<1>6. \A x \in DOMAIN sent' : x[1] \in Hosts
  <2>1. CASE sent' = sent
    BY <2>1 DEF Typed
  <2>2. ASSUME NEW t, NEW d, NEW len, sent' = Counted(sent, h, run[h], t, d, len)
        PROVE  \A x \in DOMAIN sent' : x[1] \in Hosts
    BY <2>2, CountedElsewhere DEF Typed
  <2> QED BY <2>1, <2>2, ClientSent
<1>7. Typed'
  <2>1. ch' = ch /\ Queued'
    BY ClientSent, ClientQueue DEF Typed
  <2> QED BY <1>1, <1>6, <2>1 DEF Typed, OneClient, Named, Threads
<1> QED BY <1>5, <1>7

(* A step of the server: the other hosts notice nothing either.              *)
Serve(c) == ClientOpens(c) \/ ReadData(c) \/ ClientCloses(c)
LEMMA HandleElsewhere ==
  ASSUME IInv, Typed, NEW c \in DOMAIN conn, Serve(c)
  PROVE  Typed' /\ \A g \in Hosts \ {c[1]} : (HostInv(g) => HostInv(g)') /\ (OwnInv(g) => OwnInv(g)')
<1> DEFINE h == c[1]
<1>1. how' = how /\ UNCHANGED client
  BY DEF Serve, ClientOpens, ReadData, ClientCloses
<1>2. /\ \A n : ConnElsewhere(h, Taken(c, n)) /\ DOMAIN Taken(c, n) = DOMAIN conn
  BY DEF ConnElsewhere, Taken
<1>3. ConnElsewhere(h, conn') /\ DOMAIN conn' \subseteq DOMAIN conn
  <2>1. CASE ClientOpens(c) \/ ReadData(c)
    BY <1>2, <2>1 DEF ClientOpens, ReadData
  <2>2. CASE ClientCloses(c)
    BY <1>2, <2>2 DEF ClientCloses, ConnElsewhere
  <2> QED BY <2>1, <2>2 DEF Serve
<1>4. \A g : g # h => SameCount(g)
  <2>1. ASSUME NEW n, Counting(c, n) PROVE \A g : g # h => SameCount(g)
    BY <2>1 DEF Counting, SameCount
  <2>2. CASE ClientOpens(c)
    BY <2>1, <2>2 DEF ClientOpens
  <2>3. CASE ReadData(c)
    BY <2>3 DEF ReadData, SameCount
  <2>4. CASE ClientCloses(c)
    BY <2>1, <2>4 DEF ClientCloses, SameCount
  <2> QED BY <2>2, <2>3, <2>4 DEF Serve
<1>5. \A g : g # h => SameEnded(g)
  BY DEF Serve, ClientOpens, ReadData, ClientCloses, SameEnded
<1>6. \A g : g # h => SameData(g)
  <2>1. sent' = sent /\ run' = run
    BY <1>1 DEF client
  <2>2. filed' = filed \/ \E r, t, d, len : filed' = Counted(filed, h, r, t, d, len)
    BY DEF Serve, ClientOpens, ReadData, ClientCloses
  <2> QED BY <2>1, <2>2, DataElsewhere
<1>7. \A g : SameClient(g)
  BY <1>1 DEF client, SameClient
<1>8. \A g \in Hosts \ {h} : (HostInv(g) => HostInv(g)') /\ (OwnInv(g) => OwnInv(g)')
  <2>1. run' = run
    BY <1>1 DEF client
  <2>2. \A g \in Hosts \ {h} : SameLines(g) /\ SameAccepted(g) /\ SameAcks(g)
    BY <1>3, <2>1, ConnElsewhereSame
  <2> QED BY <1>1, <1>4, <1>5, <1>6, <1>7, <2>2, HostFrame, OwnFrame
<1>9. Typed'
  <2>1. backlog' = backlog /\ DOMAIN ch' \subseteq DOMAIN ch
    BY DEF Serve, ClientOpens, ReadData, ClientCloses, Counting
  <2> QED BY <1>1, <1>3, <2>1 DEF Typed, client, Threads, Queued
<1> QED BY <1>8, <1>9

-----------------------------------------------------------------------------
(* The steps that send nothing.                                              *)
LEMMA ShutSame ==
  ASSUME NEW f, Conns(f), NEW cs
  PROVE  /\ DOMAIN Shut(cs, f) = DOMAIN f
         /\ \A c \in DOMAIN f : /\ Shut(cs, f)[c].up = f[c].up /\ Shut(cs, f)[c].acks = f[c].acks
                                /\ Shut(cs, f)[c].accepted = f[c].accepted
<1>1. ASSUME NEW x \in SomeConnection
      PROVE  LET y == [x EXCEPT !.client = "closed"] IN y.up = x.up /\ y.acks = x.acks /\ y.accepted = x.accepted
  BY DEF SomeConnection
<1> QED BY <1>1 DEF Shut, Conns

LEMMA KilledSame ==
  ASSUME NEW f, Conns(f), NEW cs
  PROVE  /\ DOMAIN Killed(cs, f) = DOMAIN f
         /\ \A c \in DOMAIN f : /\ Killed(cs, f)[c].up = f[c].up /\ Killed(cs, f)[c].acks = f[c].acks
                                /\ Killed(cs, f)[c].accepted = f[c].accepted
<1>1. ASSUME NEW x \in SomeConnection
      PROVE  LET y == [x EXCEPT !.client = "killed"] IN y.up = x.up /\ y.acks = x.acks /\ y.accepted = x.accepted
  BY DEF SomeConnection
<1> QED BY <1>1 DEF Killed, Conns

LEMMA AnswerSame ==
  ASSUME Conns(conn), NEW a
  PROVE  /\ DOMAIN TakeAnswer(a) = DOMAIN conn
         /\ \A c \in DOMAIN conn :
              /\ TakeAnswer(a)[c].up = conn[c].up /\ TakeAnswer(a)[c].accepted = conn[c].accepted
              /\ TakeAnswer(a)[c].acks = IF c = a THEN conn[c].acks - 1 ELSE conn[c].acks
<1>1. ASSUME NEW x \in SomeConnection
      PROVE  LET y == [x EXCEPT !.acks = @ - 1] IN y.up = x.up /\ y.acks = x.acks - 1 /\ y.accepted = x.accepted
  BY DEF SomeConnection
<1> QED BY <1>1 DEF TakeAnswer, Conns

Silent(h) ==
  how' = how /\ SameLines(h) /\ SameAccepted(h) /\ SameCount(h) /\ SameData(h) /\ SameEnded(h) /\ run'[h] = run[h]

LEMMA ConnSilent ==
  ASSUME Conns(conn), NEW h, run'[h] = run[h]
  PROVE  /\ conn' = conn => SameLines(h) /\ SameAccepted(h) /\ SameAcks(h)
         /\ \A cs : conn' = Shut(cs, conn) \/ conn' = Killed(cs, conn) =>
              SameLines(h) /\ SameAccepted(h) /\ SameAcks(h)
         /\ \A a : conn' = TakeAnswer(a) => SameLines(h) /\ SameAccepted(h)
         /\ \A a, cs : conn' = Shut(cs, TakeAnswer(a)) => SameLines(h) /\ SameAccepted(h)
<1>1. conn' = conn => SameLines(h) /\ SameAccepted(h) /\ SameAcks(h)
  BY DEF SameLines, SameAccepted, SameAcks, ConnsOf
<1>2. ASSUME NEW cs, conn' = Shut(cs, conn) \/ conn' = Killed(cs, conn)
      PROVE  SameLines(h) /\ SameAccepted(h) /\ SameAcks(h)
  BY <1>2, ShutSame, KilledSame DEF SameLines, SameAccepted, SameAcks, ConnsOf
<1>3. ASSUME NEW a, conn' = TakeAnswer(a) PROVE SameLines(h) /\ SameAccepted(h)
  BY <1>3, AnswerSame DEF SameLines, SameAccepted, ConnsOf
<1>4. ASSUME NEW a, NEW cs, conn' = Shut(cs, TakeAnswer(a)) PROVE SameLines(h) /\ SameAccepted(h)
  <2> DEFINE f == TakeAnswer(a)
  <2>1. Conns(f)
    BY AnswerConns
  <2>2. /\ DOMAIN f = DOMAIN conn
        /\ \A c \in DOMAIN conn : f[c].up = conn[c].up /\ f[c].accepted = conn[c].accepted
    BY AnswerSame
  <2> HIDE DEF f
  <2>3. conn' = Shut(cs, f)
    BY <1>4 DEF f
  <2>4. DOMAIN conn' = DOMAIN f
    BY <2>1, <2>3, ShutSame
  <2>5. \A c \in DOMAIN f : conn'[c].up = f[c].up /\ conn'[c].accepted = f[c].accepted
    BY <2>1, <2>3, ShutSame
  <2> QED BY <2>2, <2>4, <2>5 DEF SameLines, SameAccepted, ConnsOf
<1> QED BY <1>1, <1>2, <1>3, <1>4

LEMMA LiveKept ==
  ASSUME NEW h \in Hosts, Silent(h), failed'[h] = failed[h], NEW op \in SUBSET Parts, NEW cl \in SUBSET Parts,
         LiveInv(h, op, cl), ClientInv(h, op, cl)',
         \A t \in Threads : t > how.cpus => tpc'[h][t] = "none"
  PROVE  HostInv(h)'
<1>1. LiveInv(h, op, cl)'
  BY LinesFrame, BytesFrame, KeysFrame, HowKept DEF LiveInv, Silent, SameEnded, Threads
<1> QED BY <1>1, HowKept DEF HostInv, Live, Silent

LEMMA VoidKept ==
  ASSUME NEW h \in Hosts, Silent(h), failed'[h] # {}, Void(h)
  PROVE  HostInv(h)'
BY NoneFrame DEF HostInv, Void, Silent

LEMMA OverKept ==
  ASSUME NEW h \in Hosts, Silent(h), failed'[h] = failed[h], Over(h),
         main'[h] \in {"run", "stop", "close", "off"},
         IF Send THEN main'[h] \in {"close", "off"} ELSE \A t \in Cpus : tpc'[h][t] # "run"
  PROVE  HostInv(h)'
<1>1. Over(h)'
  BY HowKept, KeysFrame, DataFrame DEF Over, Empty, Silent, SameLines, SameCount, Cpus
<1> QED BY <1>1 DEF HostInv

(* A process that has gone.                                                  *)
LEMMA GoneHost ==
  ASSUME Orderly, IInv, Typed, NEW h \in Hosts, ConnectFails(h) \/ Exit(h) \/ Die(h), ~exited, HostInv(h)
  PROVE  HostInv(h)'
<1>0. /\ \E f : Gone(h, f)
      /\ main[h] # "off" /\ \E cs : conn' = Shut(cs, conn) \/ conn' = Killed(cs, conn)
  BY DEF ConnectFails, Exit, AllLeft, Die, Gone
<1>1. Silent(h) /\ SameAcks(h)
  BY <1>0, ConnSilent DEF Gone, Silent, SameCount, SameData, SameEnded, server, IInv
<1>2. failed'[h] = failed[h] /\ main'[h] = "off" /\ \A t \in Threads : tpc'[h][t] = "none"
  BY <1>0 DEF Gone, Goto, Typed
<1>3. Cpus \subseteq Threads
  BY NetAssumption DEF Cpus, Threads
<1>4. CASE Void(h)
  BY <1>1, <1>2, <1>4, VoidKept DEF Void
<1>5. CASE Over(h)
  BY <1>1, <1>2, <1>3, <1>5, OverKept
<1>6. ASSUME NEW op \in SUBSET Parts, NEW cl \in SUBSET Parts, LiveInv(h, op, cl)
      PROVE  HostInv(h)'
  <2>1. how.runs <= 1
    <3>1. CASE ConnectFails(h) \/ Die(h)
      BY <3>1 DEF ConnectFails, Die, Orderly, IInv
    <3>2. CASE Exit(h)
      <4>1. ~Send
        BY <1>0, <1>6, <3>2 DEF Exit, LiveInv, ClientInv, EndInv, AckInv, Taking
      <4> QED BY <4>1 DEF Orderly, IInv, Send
    <3> QED BY <3>1, <3>2
  <2>2. ClientInv(h, op, cl)'
    BY <1>1, <1>2, <2>1 DEF ClientInv, Threads, Silent
  <2> QED BY <1>1, <1>2, <1>6, <2>2, LiveKept
<1> QED BY <1>0, <1>4, <1>5, <1>6, ShortOff DEF HostInv, Live, Fresh

LEMMA StartHost ==
  ASSUME Orderly, IInv, Typed, NEW h \in Hosts, StartRun(h), HostInv(h), OwnInv(h)
  PROVE  HostInv(h)' /\ OwnInv(h)'
<1>1. /\ run[h] \in Nat /\ run'[h] = run[h] + 1 /\ how.runs \in Nat /\ run[h] < how.runs /\ main[h] = "off"
      /\ \A g \in Hosts \ {h} : run'[g] = run[g]
  BY NetAssumption DEF StartRun, IInv, Client, Way
<1>2. Fresh(h) \/ Over(h)
  <2>1. Live(h) => how.runs <= 1 /\ run[h] # 0
    BY <1>1 DEF Live, LiveInv, ClientInv
  <2>2. Void(h) => how.runs <= 1 /\ run[h] # 0
    BY DEF Void
  <2> QED BY <1>1, <2>1, <2>2, ShortOff DEF HostInv
<1>21. ConnsOf(h) = {} /\ Empty(h)
  BY <1>2 DEF Fresh, Over
<1>3. how' = how /\ conn' = conn /\ sent' = sent /\ filed' = filed /\ ch' = ch /\ ended' = ended
  BY DEF StartRun, server
<1>31. /\ \A x \in DOMAIN sent' : x[1] = h => x[2] # run'[h]
       /\ \A x \in DOMAIN filed' : x[1] = h => x[2] # run'[h]
       /\ \A x \in ended' : x[1] = h => x[2] # run'[h]
  BY <1>1, <1>3 DEF OwnInv, RunsUpTo
<1>4. main'[h] = (IF Send THEN "connect" ELSE "tracers") /\ ~done'[h] /\ failed'[h] = {}
  BY DEF StartRun, Goto, Typed
<1>5. /\ 0 \notin CpusUsed /\ CpusUsed # {} /\ CpusUsed \subseteq Threads
      /\ \A t \in Threads : tpc'[h][t] = IF t \in CpusUsed THEN "open" ELSE "none"
      /\ \A t \in CpusUsed : ios'[h][t] = 1
      /\ 0 \in Threads
  <2>1. how.cpus \in Nat \ {0} /\ 1 \in CpusUsed /\ CpusUsed \subseteq Threads /\ 0 \in Threads
    BY PartsFinite, Ways_, NetAssumption DEF IInv, CpusUsed, Cpus, Threads
  <2> QED BY <2>1, PartsFinite DEF StartRun, IInv, Client, Typed
<1>6. ConnsOf(h)' = {} /\ \A q : LineOf(h, q)' \notin DOMAIN conn
  BY <1>3, <1>21 DEF ConnsOf, LineOf
<1>7. LinesInv(h, {}, {})'
  BY <1>3, <1>6, <1>21, FS_EmptySet DEF LinesInv, Empty
<1>8. BytesInv(h)'
  <2>1. \A q : Up(h, q)' = <<>>
    BY <1>3, <1>6 DEF Up
  <2>2. \A q : SentOf(h, q)' = 0 /\ FiledOf(h, q)' = 0
    BY <1>31 DEF SentOf, FiledOf, Bytes
  <2>3. \A u, d, a, b : AddsUp(u, d, a, b)' <=> AddsUp(u, d, a, b)
    BY DEF AddsUp, Share
  <2> QED BY <2>1, <2>2, <2>3, AddsUpEmpty DEF BytesInv
<1>9. KeysInv(h)' /\ NoneOf(h, sent)'
  BY <1>31 DEF NoneOf, KeysInv
<1>10. StartInv(h, {}, {})'
  <2>1. ASSUME NEW t \in CpusUsed PROVE OpeningInv(h, t, {})'
    <3>1. tpc'[h][t] = "open" /\ ios'[h][t] = 1 /\ how.devs \in Nat \ {0}
      BY <1>5, Ways_ DEF IInv
    <3>2. \A q : Untouched(h, {}, q)'
      BY <1>3, <1>6, HowKept DEF Untouched
    <3> QED BY <1>3, <1>6, <3>1, <3>2 DEF OpeningInv
  <2>2. Send => Unconnected(h)' = CpusUsed
    <3>1. \A c \in DOMAIN conn : c[1] # h
      BY <1>21 DEF ConnsOf
    <3> QED BY <1>3, <3>1, HowKept DEF Unconnected
  <2>3. OnlyOpens(h)'
    BY <1>6 DEF OnlyOpens
  <2> QED BY <1>3, <1>4, <1>5, <1>9, <2>1, <2>2, <2>3, HowKept DEF StartInv
<1>11. LiveInv(h, {}, {})'
  <2>1. \A t \in Threads : t > how.cpus => t \notin CpusUsed
    BY Ways_ DEF CpusUsed, IInv, Threads
  <2>2. {} # Parts'
    <3>1. <<1, 1>> \in Parts
      BY Ways_ DEF Parts, CpusUsed, IInv
    <3> QED BY <1>3, <3>1, HowKept
  <2>3. run'[h] # 0
    BY <1>1
  <2> QED BY <1>3, <1>4, <1>5, <1>7, <1>8, <1>9, <1>10, <1>31, <2>1, <2>2, <2>3 DEF LiveInv, ClientInv, Threads
<1>12. OwnInv(h)'
  <2>1. RunsUpTo(h, ended)' /\ RunsUpTo(h, DOMAIN sent)' /\ RunsUpTo(h, DOMAIN filed)'
    BY <1>1, <1>3 DEF OwnInv, RunsUpTo
  <2>2. ASSUME NEW x \in DOMAIN sent, x[1] = h
        PROVE  sent[x] = Bytes(filed, h, x[2], x[3], x[4])
    <3>1. CASE x[2] # run[h]
      BY <2>2, <3>1 DEF OwnInv
    <3>2. CASE x[2] = run[h]
      <4>1. Over(h)
        BY <1>2, <2>2, <3>2 DEF Fresh, NoneOf
      <4>2. PICK q \in Parts : x = <<h, run[h], q[1], q[2]>>
        BY <2>2, <3>2, <4>1 DEF Over, KeysInv
      <4>3. sent[x] = SentOf(h, q) /\ Bytes(filed, h, x[2], x[3], x[4]) = FiledOf(h, q)
        BY <2>2, <4>2 DEF SentOf, FiledOf, Bytes
      <4> QED BY <4>1, <4>3 DEF Over
    <3> QED BY <3>1, <3>2
  <2> QED BY <1>3, <1>6, <1>21, <2>1, <2>2 DEF OwnInv, Empty
<1> QED BY <1>11, <1>12 DEF HostInv, Live

(* Opening fails: nothing was sent, and nothing will be.                     *)
LEMMA FailsHost ==
  ASSUME Orderly, IInv, Typed, NEW h \in Hosts, NEW t \in Threads,
         TraceFileFails(h, t) \/ SetupClientFails(h, t), ~exited, HostInv(h)
  PROVE  HostInv(h)'
<1>1. /\ main[h] \in {"tracers", "stopped"} /\ failed'[h] # {} /\ run' = run /\ sent' = sent
      /\ how.fails /\ how' = how
  BY DEF TraceFileFails, SetupClientFails, Opening, Typed
<1>2. run[h] # 0 /\ NoneOf(h, sent)
  BY <1>1, ShortOff DEF HostInv, Fresh, Void, Over, Live, LiveInv, ClientInv, StartInv
<1>3. how.runs <= 1
  BY <1>1 DEF Orderly, IInv
<1> QED BY <1>1, <1>2, <1>3 DEF HostInv, Void, NoneOf

(* The steps of a client in the end that send nothing.                       *)
LEMMA LiveEnding ==
  ASSUME IInv, NEW h \in Hosts, NEW t \in Threads, NEW op, NEW cl, LiveInv(h, op, cl),
         tpc[h][t] \notin {"none", "open", "answer", "ready"}
  PROVE  /\ main[h] \in {"run", "stop", "close"} /\ EndInv(h, op, cl)
         /\ t \in CpusUsed \/ t = 0
<1>1. t \in CpusUsed \/ t = 0
  BY Ways_ DEF LiveInv, Threads, CpusUsed, IInv
<1>2. ~StartInv(h, op, cl)
  BY <1>1 DEF StartInv, OpeningInv
<1> QED BY <1>1, <1>2 DEF LiveInv, ClientInv

LEMMA EndKept ==
  ASSUME IInv, Typed, NEW h \in Hosts, Silent(h), failed'[h] = failed[h],
         Live(h) => main[h] \in {"run", "stop", "close"},
         main'[h] = main[h] \/ (main[h] \in {"run", "stop"} /\ main'[h] \in {"stop", "close"}),
         ClosingInv(h) => ClosingInv(h)',
         ClosingInv(h) => ToClose(h)' \subseteq ToClose(h),
         \A op, cl \in SUBSET Parts : LiveInv(h, op, cl) /\ EndInv(h, op, cl) => AckInv(h, cl)',
         \A t \in Threads : tpc'[h][t] = "run" => tpc[h][t] = "run",
         \A t \in Threads : t > how.cpus /\ tpc[h][t] = "none" => tpc'[h][t] = "none",
         HostInv(h), ~Fresh(h), ~Short(h)
  PROVE  HostInv(h)'
<1>1. Cpus \subseteq Threads
  BY NetAssumption DEF Cpus, Threads
<1>2. CASE Void(h)
  BY <1>2, VoidKept DEF Void
<1>3. CASE Over(h)
  BY <1>1, <1>3, OverKept DEF Over
<1>4. ASSUME NEW op \in SUBSET Parts, NEW cl \in SUBSET Parts, LiveInv(h, op, cl)
      PROVE  HostInv(h)'
  <2>0. main[h] \in {"run", "stop", "close"} /\ main'[h] \in {"run", "stop", "close"}
    BY <1>4 DEF Live
  <2>1. EndInv(h, op, cl)
    BY <1>4, <2>0 DEF LiveInv, ClientInv
  <2>2. \A q \in ToClose(h)' : Unclosed(h, cl, q)'
    BY <2>1, UnclosedFrame DEF EndInv, Silent
  <2>3. EndInv(h, op, cl)'
    BY <1>4, <2>1, <2>2, HowKept DEF EndInv, Silent
  <2>4. ClientInv(h, op, cl)'
    BY <2>0, <2>3 DEF ClientInv
  <2>5. \A t \in Threads : t > how.cpus => tpc'[h][t] = "none"
    BY <1>4 DEF LiveInv
  <2> QED BY <1>4, <2>4, <2>5, LiveKept
<1> QED BY <1>2, <1>3, <1>4 DEF HostInv, Live

LEMMA SilentStep ==
  ASSUME Conns(conn), NEW h, how' = how, run' = run, sent' = sent, UNCHANGED server, SameLines(h),
         SameAccepted(h)
  PROVE  Silent(h)
BY DEF Silent, SameCount, SameData, SameEnded, server

(* Before main closes, no answer is under way.                               *)
LEMMA NoAcks ==
  ASSUME how' = how, NEW h, SameLines(h), SameAcks(h), main[h] # "close", main'[h] # "close", NEW cl, AckInv(h, cl)
  PROVE  AckInv(h, cl)'
BY HowKept DEF AckInv, Answers, Taking, SameLines, SameAcks

LEMMA StopHost ==
  ASSUME Orderly, IInv, Typed, NEW h \in Hosts, Stop(h), HostInv(h)
  PROVE  HostInv(h)'
<1>1. main[h] = "run" /\ main'[h] = "stop" /\ failed'[h] = failed[h] /\ tpc' = tpc /\ ios' = ios
  BY DEF Stop, Goto, Typed, Orderly, IInv
<1>7. ~Fresh(h) /\ ~Short(h)
  BY <1>1, ShortOff DEF Fresh
<1>2. Silent(h) /\ how' = how
  BY SilentStep, ConnSilent DEF Stop, IInv
<1>3. ClosingInv(h) => ClosingInv(h)'
  BY <1>1, <1>2, HowKept DEF ClosingInv
<1>4. ToClose(h)' = ToClose(h)
  BY <1>1, <1>2, HowKept DEF ToClose, Remaining
<1>5. SameAcks(h)
  BY <1>2, ConnSilent DEF Stop, IInv, Silent
<1>6. \A cl : AckInv(h, cl) => AckInv(h, cl)'
  BY <1>1, <1>2, <1>5, NoAcks DEF Silent
<1> QED BY <1>1, <1>2, <1>3, <1>4, <1>6, <1>7, EndKept DEF EndInv

LEMMA LeaveHost ==
  ASSUME IInv, Typed, NEW h \in Hosts, NEW t \in Threads, Leave(h, t), HostInv(h)
  PROVE  HostInv(h)'
<1>1. main[h] = "stop" /\ tpc[h][t] = "run" /\ main' = main /\ failed' = failed /\ ios' = ios /\ ~Fresh(h) /\ ~Short(h)
  BY ShortOff DEF Leave, Typed, Fresh
<1>2. \A s \in Threads : tpc'[h][s] = IF s = t THEN IF Send THEN "left" ELSE "close" ELSE tpc[h][s]
  BY DEF Leave, TGoto, Typed
<1>3. Silent(h) /\ how' = how
  BY SilentStep, ConnSilent DEF Leave, IInv
<1>4. CpusUsed \subseteq Threads /\ 0 \in Threads
  BY PartsFinite, NetAssumption DEF IInv, Cpus, Threads
<1>5. Live(h) => main[h] \in {"run", "stop", "close"}
  BY <1>1
<1>6. ClosingInv(h) => ClosingInv(h)'
  BY <1>1, <1>2, <1>3, <1>4, HowKept DEF ClosingInv
<1>7. ToClose(h)' \subseteq ToClose(h)
  <2>1. \A q \in Parts : q[1] \in Threads
    BY <1>4 DEF Parts
  <2>2. Send => ToClose(h)' \subseteq ToClose(h)
    BY <1>1, <1>3, HowKept DEF ToClose
  <2>3. ~Send => ToClose(h)' \subseteq ToClose(h)
    BY <1>1, <1>2, <1>3, <2>1, HowKept DEF ToClose, Remaining
  <2> QED BY <2>2, <2>3
<1>8. /\ \A s \in Threads : tpc'[h][s] = "run" => tpc[h][s] = "run"
      /\ \A s \in Threads : s > how.cpus /\ tpc[h][s] = "none" => tpc'[h][s] = "none"
  BY <1>1, <1>2
<1>9. \A cl : AckInv(h, cl) => AckInv(h, cl)'
  <2>1. SameAcks(h)
    BY <1>3, ConnSilent DEF Leave, IInv, Silent
  <2> QED BY <1>1, <1>3, <2>1, NoAcks DEF Silent
<1> QED BY <1>1, <1>3, <1>5, <1>6, <1>7, <1>8, <1>9, EndKept DEF EndInv

LEMMA DivMod ==
  ASSUME NEW a \in Nat, NEW k \in Nat \ {0}
  PROVE  a \div k \in Nat /\ a % k \in 0..k - 1 /\ a = k * (a \div k) + (a % k)
OBVIOUS

LEMMA DivModOf ==
  ASSUME NEW a \in Nat, NEW k \in Nat \ {0}, NEW b \in 0..k - 1, NEW c, c = k * a + b
  PROVE  c \div k = a /\ c % k = b
<1>1. c \in Nat
  BY k * a \in Nat
<1>2. PICK x, y : x = c \div k /\ y = c % k
  OBVIOUS
<1>3. x \in Nat /\ y \in 0..k - 1 /\ c = k * x + y
  BY <1>1, <1>2, DivMod
<1>4. ASSUME NEW u \in Nat, NEW v \in Nat, u < v PROVE k * u + k <= k * v
  <2>1. PICK w \in Nat : v = u + 1 + w
    <3>1. v - u - 1 \in Nat /\ v = u + 1 + (v - u - 1)
      BY <1>4
    <3> QED BY <3>1
  <2>2. k * (u + 1 + w) = k * u + k + k * w /\ k * w \in Nat /\ k * u \in Nat
    OBVIOUS
  <2> QED BY <2>1, <2>2
<1>5. k * x + y = k * a + b /\ k * x \in Nat /\ k * a \in Nat
  BY <1>3
<1>6. ~(x < a)
  BY <1>3, <1>4, <1>5
<1>7. ~(a < x)
  BY <1>3, <1>4, <1>5
<1> QED BY <1>2, <1>3, <1>5, <1>6, <1>7

(* main closes every part once: the numbers of ios stand for the parts.      *)
LEMMA ClosingParts ==
  ASSUME how \in Ways
  PROVE  /\ \A i \in 1..how.cpus * how.devs : ClosingPart(i) \in Parts
         /\ \A i, j \in 1..how.cpus * how.devs : ClosingPart(i) = ClosingPart(j) => i = j
         /\ \A p \in Parts : \E i \in 1..how.cpus * how.devs : ClosingPart(i) = p
<1> DEFINE n == how.cpus
           k == how.devs
<1>1. n \in Nat \ {0} /\ k \in Nat \ {0} /\ n * k \in Nat
  BY Ways_
<1> HIDE DEF n, k
<1>2. ASSUME NEW i \in 1..n * k
      PROVE  /\ (i - 1) \div k \in 0..n - 1 /\ (i - 1) % k \in 0..k - 1
             /\ i - 1 = k * ((i - 1) \div k) + ((i - 1) % k)
  <2>1. i - 1 \in Nat /\ i - 1 < n * k
    BY <1>1
  <2>2. /\ (i - 1) \div k \in Nat /\ (i - 1) % k \in 0..k - 1
        /\ i - 1 = k * ((i - 1) \div k) + ((i - 1) % k)
    BY <1>1, <2>1, DivMod
  <2>3. \A d \in Nat : d >= n => k * d >= n * k
    BY <1>1
  <2> QED BY <1>1, <2>1, <2>2, <2>3
<1>3. ASSUME NEW i \in 1..n * k PROVE <<n - ((i - 1) \div k), k - ((i - 1) % k)>> \in (1..n) \X (1..k)
  BY <1>1, <1>2
<1>4. ASSUME NEW i \in 1..n * k, NEW j \in 1..n * k,
             n - ((i - 1) \div k) = n - ((j - 1) \div k), k - ((i - 1) % k) = k - ((j - 1) % k)
      PROVE  i = j
  <2>1. (i - 1) \div k = (j - 1) \div k /\ (i - 1) % k = (j - 1) % k
    BY <1>1, <1>2, <1>4
  <2> QED BY <1>2, <2>1
<1>5. ASSUME NEW a \in 1..n, NEW d \in 1..k
      PROVE  \E i \in 1..n * k : <<n - ((i - 1) \div k), k - ((i - 1) % k)>> = <<a, d>>
  <2>1. PICK i : i = k * (n - a) + (k - d) + 1
    OBVIOUS
  <2>2. n - a \in 0..n - 1 /\ k - d \in 0..k - 1
    BY <1>1
  <2>3. k * (n - a) \in Nat /\ k * (n - a) + k <= n * k
    <3>1. \A e \in 0..n - 1 : k * e \in Nat /\ k * e + k <= n * k
      BY <1>1
    <3> QED BY <2>2, <3>1
  <2>4. i \in 1..n * k
    BY <1>1, <2>1, <2>2, <2>3
  <2>5. (i - 1) \div k = n - a /\ (i - 1) % k = k - d
    <3>1. PICK a0 \in Nat, b0 \in 0..k - 1, c0 \in Int : a0 = n - a /\ b0 = k - d /\ c0 = i - 1
      BY <1>1, <2>2, <2>4
    <3>2. c0 = k * a0 + b0
      BY <2>1, <2>2, <2>3, <3>1
    <3>3. c0 \div k = a0 /\ c0 % k = b0
      BY <1>1, <3>2, DivModOf
    <3> QED BY <3>1, <3>3
  <2> QED BY <1>1, <2>4, <2>5
<1>6. \A p \in (1..n) \X (1..k) : \E i \in 1..n * k : <<n - ((i - 1) \div k), k - ((i - 1) % k)>> = p
  BY <1>5
<1> QED BY <1>3, <1>4, <1>6 DEF ClosingPart, Parts, CpusUsed, n, k

LEMMA CloseConnectionsHost ==
  ASSUME IInv, Typed, NEW h \in Hosts, CloseClientConnections(h), HostInv(h)
  PROVE  HostInv(h)'
<1>0. how.cpus * how.devs \in Nat /\ 0 \in Threads /\ 0 \notin CpusUsed /\ CpusUsed \subseteq Threads
  BY Ways_, PartsFinite, NetAssumption DEF IInv, Threads, Cpus
<1>1. main[h] = "stop" /\ main'[h] = "close" /\ Send /\ failed' = failed /\ ~Fresh(h) /\ ~Short(h)
  BY ShortOff DEF CloseClientConnections, AllLeft, Goto, Typed, Fresh
<1>2. /\ \A s \in Threads : tpc'[h][s] = IF s = 0 THEN "close" ELSE tpc[h][s]
      /\ ios'[h][0] = how.cpus * how.devs
  BY <1>0 DEF CloseClientConnections, TGoto, Typed, IInv, Client
<1>3. Silent(h) /\ how' = how
  BY SilentStep, ConnSilent DEF CloseClientConnections, IInv
<1>4. Live(h) => main[h] \in {"run", "stop", "close"}
  BY <1>1
<1>5. ClosingInv(h) => ClosingInv(h)'
  BY <1>0, <1>1, <1>2, <1>3, HowKept DEF ClosingInv
<1>6. ToClose(h)' \subseteq ToClose(h)
  <2>1. ToClose(h) = Parts
    BY <1>1 DEF ToClose
  <2>2. ToClose(h)' = {ClosingPart(i) : i \in 1..how.cpus * how.devs}
    BY <1>0, <1>1, <1>2, <1>3, HowKept DEF ToClose, Remaining, ClosingPart
  <2> QED BY <2>1, <2>2, ClosingParts DEF IInv
<1>7. /\ \A s \in Threads : tpc'[h][s] = "run" => tpc[h][s] = "run"
      /\ \A s \in Threads : s > how.cpus /\ tpc[h][s] = "none" => tpc'[h][s] = "none"
  <2>1. ~(0 > how.cpus)
    BY Ways_ DEF IInv
  <2> QED BY <1>1, <1>2, <2>1
<1>8. \A cl : AckInv(h, cl) => AckInv(h, cl)'
  <2> SUFFICES ASSUME NEW cl, AckInv(h, cl) PROVE AckInv(h, cl)'
    OBVIOUS
  <2>1. SameAcks(h)
    BY <1>3, ConnSilent DEF CloseClientConnections, IInv, Silent
  <2>2. \A x \in ConnsOf(h) : ~(conn[x].acks > 0)
    BY <1>1 DEF AckInv, Answers
  <2>3. Answers(h, cl)'
    BY <1>3, <2>1, <2>2 DEF Answers, Silent, SameLines, SameAcks
  <2>4. Taking(h, cl)'
    BY <1>0, <1>2, <1>3 DEF Taking
  <2> QED BY <2>3, <2>4 DEF AckInv
<1> QED BY <1>1, <1>3, <1>4, <1>5, <1>6, <1>7, <1>8, EndKept DEF EndInv

(* With send, main goes on when the answer to its close is there, so that    *)
(* the close was taken: all of them cannot be, as the last ends the session. *)
LEMMA AckClosing ==
  ASSUME IInv, Typed, NEW h \in Hosts, NEW t \in Threads, NEW op \in SUBSET Parts, NEW cl \in SUBSET Parts,
         WaitAnswer(h, t) \/ NoAnswer(h, t) \/ CloseAnswered(h, t) \/ AllClosed(h, t),
         LiveInv(h, op, cl), EndInv(h, op, cl)
  PROVE  AckInv(h, cl)'
<1> SUFFICES ASSUME Send PROVE Answers(h, cl)' /\ Taking(h, cl)'
  <2>1. how' = how
    BY DEF WaitAnswer, NoAnswer, CloseAnswered, AllClosed, Closed
  <2> QED BY <2>1, HowKept DEF AckInv
<1>0. /\ ClosingInv(h) /\ Answers(h, cl) /\ Taking(h, cl)
      /\ tpc[h][t] \in {"close", "check", "closing"} /\ 0 \in Threads /\ how.cpus * how.devs \in Nat
  BY Ways_, NetAssumption
     DEF EndInv, AckInv, WaitAnswer, NoAnswer, CloseAnswered, AllClosed, Closed, Threads, IInv
<1>1. t = 0 /\ main[h] = "close" /\ ios[h][0] \in 0..how.cpus * how.devs
  BY <1>0, LiveEnding DEF ClosingInv
<1>2. /\ run' = run /\ how' = how /\ main' = main
      /\ ios \in [Hosts -> [Threads -> Int]] /\ tpc \in [Hosts -> [Threads -> Labels]]
  BY DEF WaitAnswer, NoAnswer, CloseAnswered, AllClosed, Closed, IInv, Client, Typed
<1>3. \A i : ClosingPart(i)' = ClosingPart(i) /\ LineOf(h, ClosingPart(i))' = LineOf(h, ClosingPart(i))
  BY <1>2, HowKept DEF ClosingPart, LineOf
<1>4. CASE WaitAnswer(h, t)
  <2>1. conn' = conn /\ ios' = ios /\ tpc[h][0] = "check" /\ tpc'[h][0] = "closing"
    BY <1>0, <1>1, <1>2, <1>4 DEF WaitAnswer, TGoto
  <2> QED BY <1>0, <1>2, <1>3, <2>1 DEF Answers, Taking, ConnsOf
<1>5. ~NoAnswer(h, t)
  BY <1>0, <1>1 DEF NoAnswer, Taking
<1>6. CASE CloseAnswered(h, t)
  <2>1. PICK n, a : n = ios[h][0] /\ a = ClosingConn(h, 0)
    OBVIOUS
  <2>2. /\ tpc[h][0] = "closing" /\ Answered(a) /\ tpc'[h][0] = "close" /\ ios'[h][0] = n - 1
        /\ \E cs : conn' = Shut(cs, TakeAnswer(a)) \/ conn' = TakeAnswer(a)
    BY <1>0, <1>1, <1>2, <1>6, <2>1 DEF CloseAnswered, Closed, TGoto
  <2>3. n \in 1..how.cpus * how.devs /\ ClosingPart(n) \in Parts
    BY <1>0, <1>1, <2>1, <2>2, ClosingParts DEF ClosingInv, IInv
  <2>4. a = LineOf(h, ClosingPart(n)) /\ a \in DOMAIN conn /\ a \in ConnsOf(h)
    <3>1. a = LineOf(h, ClosingPart(n))
      BY <2>1 DEF ClosingConn, ClosingDev, ConnOf, LineOf, ClosingPart
    <3>2. a \in DOMAIN conn
      BY <2>3, <3>1 DEF LiveInv, LinesInv, EndInv
    <3> QED BY <3>1, <3>2, LineOfHost DEF ConnsOf
  <2>5. conn[a].acks = 1 /\ ClosingPart(n) \in cl
    BY <1>0, <2>1, <2>2, <2>4 DEF Answered, Answers
  <2>6. \A x \in ConnsOf(h) : x # a => ~(conn[x].acks > 0)
    BY <1>0, <2>1, <2>4 DEF Answers
  <2>7. ConnsOf(h)' = ConnsOf(h) /\ \A x \in ConnsOf(h) : conn'[x].acks = TakeAnswer(a)[x].acks
    <3>1. DOMAIN TakeAnswer(a) = DOMAIN conn /\ Conns(TakeAnswer(a))
      BY AnswerSame, AnswerConns DEF IInv
    <3>2. PICK f : f = TakeAnswer(a)
      OBVIOUS
    <3>3. /\ DOMAIN f = DOMAIN conn /\ Conns(f)
          /\ \E cs : conn' = Shut(cs, f) \/ conn' = f
      BY <2>2, <3>1, <3>2
    <3>4. DOMAIN conn' = DOMAIN f /\ \A x \in DOMAIN f : conn'[x].acks = f[x].acks
      BY <3>3, ShutSame
    <3> QED BY <3>2, <3>3, <3>4 DEF ConnsOf
  <2>8. Answers(h, cl)'
    <3>1. \A x \in ConnsOf(h) : TakeAnswer(a)[x].acks = IF x = a THEN conn[x].acks - 1 ELSE conn[x].acks
      BY AnswerSame DEF IInv, ConnsOf
    <3>2. \A x \in ConnsOf(h) : ~(conn'[x].acks > 0)
      BY <2>5, <2>6, <2>7, <3>1
    <3> QED BY <2>7, <3>2 DEF Answers
  <2>9. Taking(h, cl)'
    <3>1. \A i \in 1..how.cpus * how.devs : i > n => ClosingPart(i) \in cl
      BY <1>0, <1>1, <2>1 DEF Taking
    <3>2. \A i \in 1..how.cpus * how.devs : i > n - 1 => ClosingPart(i) \in cl
      BY <2>3, <2>5, <3>1
    <3> QED BY <1>2, <1>3, <2>2, <3>2 DEF Taking
  <2> QED BY <2>8, <2>9
<1>7. ~AllClosed(h, t)
  <2> SUFFICES ASSUME AllClosed(h, t) PROVE FALSE
    OBVIOUS
  <2>1. ios[h][0] = 0
    BY <1>1 DEF AllClosed
  <2>2. \A i \in 1..how.cpus * how.devs : ClosingPart(i) \in cl
    BY <1>0, <1>1, <2>1 DEF Taking
  <2>3. Parts \subseteq cl
    BY <2>2, ClosingParts DEF IInv
  <2> QED BY <2>3 DEF LiveInv
<1> QED BY <1>4, <1>5, <1>6, <1>7

(* The steps of a close behind the message: ios goes down when the answer is *)
(* there, or missed.                                                         *)
LEMMA ClosingHost ==
  ASSUME IInv, Typed, NEW h \in Hosts, NEW t \in Threads,
         WaitAnswer(h, t) \/ NoAnswer(h, t) \/ CloseAnswered(h, t) \/ AllClosed(h, t), HostInv(h)
  PROVE  HostInv(h)'
<1>0. 0 \in Threads /\ 0 \notin CpusUsed /\ CpusUsed \subseteq Threads
  BY PartsFinite, NetAssumption DEF IInv, Threads, Cpus
<1>1. main' = main /\ failed' = failed /\ run' = run /\ sent' = sent /\ UNCHANGED server /\ how' = how
  BY DEF WaitAnswer, NoAnswer, CloseAnswered, AllClosed, Closed
<1>2. SameLines(h) /\ SameAccepted(h)
  BY ConnSilent DEF WaitAnswer, NoAnswer, CloseAnswered, AllClosed, Closed, IInv
<1>3. Silent(h)
  BY <1>1, <1>2, SilentStep DEF IInv
<1>4. /\ ios \in [Hosts -> [Threads -> Int]] /\ ios[h][t] \in Int
      /\ \A s \in Threads : s # t => tpc'[h][s] = tpc[h][s] /\ ios'[h][s] = ios[h][s]
      /\ \/ tpc[h][t] = "check" /\ tpc'[h][t] = "closing" /\ ios'[h][t] = ios[h][t]
         \/ tpc[h][t] \in {"check", "closing"} /\ tpc'[h][t] = "close" /\ ios'[h][t] = ios[h][t] - 1
         \/ tpc[h][t] = "close" /\ ios[h][t] = 0 /\ tpc'[h][t] = "left" /\ ios'[h][t] = 0
  <2>1. ios \in [Hosts -> [Threads -> Int]] /\ tpc \in [Hosts -> [Threads -> Labels]]
    BY DEF IInv, Client, Typed
  <2>2. CASE WaitAnswer(h, t)
    BY <2>1, <2>2 DEF WaitAnswer, TGoto
  <2>3. CASE NoAnswer(h, t)
    BY <2>1, <2>3 DEF NoAnswer, Closed, TGoto
  <2>4. CASE CloseAnswered(h, t)
    BY <2>1, <2>4 DEF CloseAnswered, Closed, TGoto
  <2>5. CASE AllClosed(h, t)
    BY <2>1, <2>5 DEF AllClosed, TGoto
  <2> QED BY <2>1, <2>2, <2>3, <2>4, <2>5
<1>5. ~Fresh(h) /\ ~Short(h) /\ (Live(h) => main[h] \in {"run", "stop", "close"})
  BY <1>4, ShortOff, LiveEnding DEF Fresh, Live
<1>6. ClosingInv(h) => ClosingInv(h)'
  <2>1. \A s \in Threads : s # t => tpc'[h][s] = tpc[h][s] /\ ios'[h][s] = ios[h][s]
    BY <1>4
  <2>2. ClosingInv(h) => (t = 0 <=> Send) \/ (t \notin CpusUsed /\ t # 0)
    BY <1>4 DEF ClosingInv
  <2>3. \A n \in Int, m \in Nat : n \in 0..m /\ n > 0 => n - 1 \in 0..m
    OBVIOUS
  <2>4. how.devs \in Nat /\ how.cpus * how.devs \in Nat
    BY Ways_ DEF IInv
  <2> QED BY <1>0, <1>1, <1>4, <2>2, <2>3, <2>4, HowKept DEF ClosingInv
<1>7. ToClose(h)' = ToClose(h)
  <2>1. \A s \in Threads : Remaining(h, s)' = Remaining(h, s)
    BY <1>4 DEF Remaining
  <2>2. \A s \in Threads : tpc'[h][s] = "run" <=> tpc[h][s] = "run"
    BY <1>4
  <2>3. \A q \in Parts : q[1] \in Threads
    BY <1>0 DEF Parts
  <2>4. Send => ToClose(h)' = ToClose(h)
    <3>1. Remaining(h, 0)' = Remaining(h, 0)
      BY <1>0, <2>1
    <3> QED BY <1>1, <3>1, HowKept DEF ToClose, ClosingPart
  <2>5. ~Send => ToClose(h)' = ToClose(h)
    <3>1. \A q \in Parts : (tpc[h][q[1]] = "run" \/ q[2] <= Remaining(h, q[1]))'
                           <=> (tpc[h][q[1]] = "run" \/ q[2] <= Remaining(h, q[1]))
      BY <2>1, <2>2, <2>3
    <3>2. Parts' = Parts /\ Send' = Send
      BY <1>1, HowKept
    <3> QED BY <3>1, <3>2 DEF ToClose
  <2> QED BY <2>4, <2>5
<1>8. /\ \A s \in Threads : tpc'[h][s] = "run" => tpc[h][s] = "run"
      /\ \A s \in Threads : s > how.cpus /\ tpc[h][s] = "none" => tpc'[h][s] = "none"
  BY <1>4
<1>9. ASSUME NEW op \in SUBSET Parts, NEW cl \in SUBSET Parts, LiveInv(h, op, cl), EndInv(h, op, cl)
      PROVE  AckInv(h, cl)'
  BY <1>9, AckClosing
<1> QED BY <1>1, <1>3, <1>5, <1>6, <1>7, <1>8, <1>9, EndKept

-----------------------------------------------------------------------------
(* The steps that open.                                                      *)
LEMMA UnblockHost ==
  ASSUME IInv, Typed, NEW h \in Hosts, Unblock(h), HostInv(h)
  PROVE  HostInv(h)'
<1>0. 0 \in Threads /\ 0 \notin CpusUsed /\ CpusUsed \subseteq Threads
  BY PartsFinite, NetAssumption DEF IInv, Threads, Cpus
<1>1. /\ main[h] \in {"tracers", "stopped"} /\ failed' = failed
      /\ main'[h] = IF main[h] = "tracers" /\ failed[h] = {} THEN "run" ELSE "stop"
      /\ \A t \in Threads : tpc'[h][t] = IF tpc[h][t] = "ready" THEN "run" ELSE tpc[h][t]
      /\ ios' = ios /\ how' = how
  BY DEF Unblock, Goto, Typed
<1>2. Silent(h)
  BY SilentStep, ConnSilent DEF Unblock, IInv
<1>3. CASE Void(h)
  BY <1>1, <1>2, <1>3, VoidKept DEF Void
<1>4. ASSUME NEW op \in SUBSET Parts, NEW cl \in SUBSET Parts, LiveInv(h, op, cl)
      PROVE  HostInv(h)'
  <2>1. main[h] = "tracers" /\ StartInv(h, op, cl) /\ failed[h] = {}
    BY <1>1, <1>4 DEF LiveInv, ClientInv
  <2>2. \A t \in CpusUsed : tpc[h][t] = "ready"
    BY <2>1 DEF Unblock, AllReady, StartInv, OpeningInv
  <2>3. op = Parts
    <3>1. \A t \in CpusUsed, d \in 1..how.devs : <<t, d>> \in op
      BY <2>1, <2>2 DEF StartInv, OpeningInv
    <3> QED BY <3>1 DEF Parts
  <2>4. \A t \in CpusUsed : ios[h][t] \in 0..how.devs
    <3>1. \A t \in CpusUsed : ios[h][t] \in 1..how.devs
      BY <2>1 DEF StartInv, OpeningInv
    <3>2. \A i \in 1..how.devs : i \in 0..how.devs
      BY Ways_ DEF IInv
    <3> QED BY <3>1, <3>2
  <2>5. ClosingInv(h)'
    BY <1>0, <1>1, <2>1, <2>2, <2>4, HowKept DEF ClosingInv, StartInv
  <2>6. \A q \in Parts : Unclosed(h, cl, q)
    BY <2>1 DEF StartInv, OnlyOpens, Unclosed
  <2>7. \A q \in ToClose(h)' : Unclosed(h, cl, q)'
    <3>1. ToClose(h)' \subseteq Parts
      BY <1>1, <2>1, HowKept DEF ToClose
    <3> QED BY <2>6, <3>1, <1>2, UnclosedFrame DEF Silent
  <2>10. AckInv(h, cl)'
    <3>1. ASSUME NEW x \in ConnsOf(h), conn[x].acks > 0 PROVE FALSE
      <4>1. PICK q \in Parts : x = LineOf(h, q)
        BY <1>4 DEF LiveInv, LinesInv
      <4>2. x[3] \in CpusUsed
        BY <4>1, LineOfHost DEF Parts
      <4> QED BY <2>1, <2>2, <3>1, <4>2 DEF StartInv, OpeningInv
    <3>2. SameAcks(h) /\ SameLines(h)
      BY <1>2, ConnSilent DEF Unblock, IInv, Silent
    <3>3. Answers(h, cl)'
      BY <3>1, <3>2 DEF Answers, SameAcks, SameLines
    <3>4. Taking(h, cl)'
      BY <1>1, <2>1 DEF Taking
    <3> QED BY <3>3, <3>4 DEF AckInv
  <2>8. ClientInv(h, op, cl)'
    BY <1>1, <2>1, <2>3, <2>5, <2>7, <2>10, HowKept DEF ClientInv, EndInv
  <2>9. \A t \in Threads : t > how.cpus => tpc'[h][t] = "none"
    BY <1>1, <1>4 DEF LiveInv
  <2> QED BY <1>1, <1>2, <1>4, <2>8, <2>9, LiveKept
<1> QED BY <1>1, <1>3, <1>4, ShortOff DEF HostInv, Live, Fresh, Over

LEMMA AnsweredHost ==
  ASSUME IInv, Typed, NEW h \in Hosts, NEW t \in Threads, OpenAnswered(h, t), HostInv(h)
  PROVE  HostInv(h)'
<1> DEFINE a == ConnOf(h, t, ios[h][t])
<1>1. /\ tpc[h][t] = "answer" /\ Answered(a) /\ conn' = TakeAnswer(a)
      /\ main' = main /\ failed' = failed /\ how' = how /\ done' = done /\ run' = run
  BY DEF OpenAnswered
<1>2. /\ \A s \in Threads : s # t => tpc'[h][s] = tpc[h][s] /\ ios'[h][s] = ios[h][s]
      /\ IF ios[h][t] < how.devs THEN tpc'[h][t] = "open" /\ ios'[h][t] = ios[h][t] + 1
                                 ELSE tpc'[h][t] = "ready" /\ ios'[h][t] = ios[h][t]
  <2>1. ios \in [Hosts -> [Threads -> Int]] /\ tpc \in [Hosts -> [Threads -> Labels]]
    BY DEF IInv, Client, Typed
  <2>2. CASE ios[h][t] < how.devs
    BY <2>1, <2>2 DEF OpenAnswered, Opened, TGoto
  <2>3. CASE ~(ios[h][t] < how.devs)
    BY <2>1, <2>3 DEF OpenAnswered, Opened, TGoto
  <2> QED BY <2>2, <2>3
<1>3. Silent(h)
  BY SilentStep, ConnSilent DEF OpenAnswered, IInv
<1>4. CASE Void(h)
  BY <1>1, <1>3, <1>4, VoidKept DEF Void
<1>5. CASE Over(h)
  <2>1. Cpus \subseteq Threads
    BY NetAssumption DEF Cpus, Threads
  <2> QED BY <1>1, <1>2, <1>3, <1>5, <2>1, OverKept DEF Over
<1>6. ASSUME NEW op \in SUBSET Parts, NEW cl \in SUBSET Parts, LiveInv(h, op, cl)
      PROVE  HostInv(h)'
  <2>0. how.devs \in Nat \ {0} /\ how.cpus \in Nat \ {0} /\ CpusUsed \subseteq Threads
    BY Ways_, PartsFinite, NetAssumption DEF IInv, Cpus, Threads
  <2>1. t \in CpusUsed \/ t = 0
    BY <1>1, <1>6, <2>0 DEF LiveInv, CpusUsed, Threads
  <2>2. StartInv(h, op, cl) /\ main[h] = "tracers" /\ t \in CpusUsed
    BY <1>1, <1>6, <2>1 DEF LiveInv, ClientInv, EndInv, ClosingInv, StartInv
  <2>3. OpeningInv(h, t, op) /\ ios[h][t] \in 1..how.devs
    BY <2>2 DEF StartInv, OpeningInv
  <2>4. a = LineOf(h, <<t, ios[h][t]>>)
    BY <1>6 DEF ConnOf, LineOf, LiveInv
  <2>5. a \in DOMAIN conn /\ conn[a].acks = 1 /\ <<t, ios[h][t]>> \in op
    <3>1. a \in DOMAIN conn /\ a[1] = h /\ a[3] = t
      BY <1>1, <2>3, <2>4, LineOfHost DEF OpeningInv
    <3> QED BY <1>1, <2>3, <3>1 DEF OpeningInv, Answered, ConnsOf
  <2>6. /\ ConnsOf(h)' = ConnsOf(h)
        /\ \A c \in ConnsOf(h) : conn'[c].acks = IF c = a THEN conn[c].acks - 1 ELSE conn[c].acks
    BY <1>1, AnswerSame DEF ConnsOf, IInv
  <2>7. \A c \in ConnsOf(h) : c[3] = t => ~(conn'[c].acks > 0)
    BY <2>3, <2>4, <2>5, <2>6 DEF OpeningInv
  <2>8. \A q : Untouched(h, op, q) => Untouched(h, op, q)'
    BY <1>3, UntouchedFrame DEF Silent
  <2>9. OpeningInv(h, t, op)'
    <3>1. \A d \in 1..how.devs : d <= ios[h][t] => <<t, d>> \in op
      BY <2>3, <2>5 DEF OpeningInv
    <3>2. \A d \in 1..how.devs : d > ios[h][t] => Untouched(h, op, <<t, d>>)'
      BY <1>1, <2>3, <2>8 DEF OpeningInv
    <3>3. tpc'[h][t] \in {"open", "ready"} /\ ios'[h][t] \in 1..how.devs
      BY <1>2, <2>0, <2>3
    <3>4. \A d \in 1..how.devs : d < ios'[h][t] \/ tpc'[h][t] = "ready" => <<t, d>> \in op
      BY <1>2, <2>0, <2>3, <3>1
    <3>5. \A d \in 1..how.devs : tpc'[h][t] = "open" /\ d >= ios'[h][t] => Untouched(h, op, <<t, d>>)'
      BY <1>2, <2>0, <2>3, <3>2
    <3> QED BY <1>1, <2>6, <2>7, <3>3, <3>4, <3>5 DEF OpeningInv
  <2>10. ASSUME NEW s \in CpusUsed, s # t PROVE OpeningInv(h, s, op)'
    <3>1. OpeningInv(h, s, op) /\ s \in Threads
      BY <2>0, <2>2 DEF StartInv
    <3>2. tpc'[h][s] = tpc[h][s] /\ ios'[h][s] = ios[h][s]
      BY <1>2, <2>10, <3>1
    <3>3. \A q : LineOf(h, q)' = LineOf(h, q) /\ (LineOf(h, q) \in DOMAIN conn' <=> LineOf(h, q) \in DOMAIN conn)
      BY <1>1, HowKept, AnswerSame DEF IInv
    <3>4. \A c \in ConnsOf(h) : c[3] = s => conn'[c].acks = conn[c].acks
      BY <2>4, <2>6, <2>10, LineOfHost
    <3> QED BY <1>1, <2>6, <2>8, <3>1, <3>2, <3>3, <3>4 DEF OpeningInv
  <2>11. OnlyOpens(h)'
    BY <1>3, <2>2 DEF StartInv, OnlyOpens, Silent, SameLines
  <2>12. Unconnected(h)' = Unconnected(h) /\ (NoneOf(h, sent) => NoneOf(h, sent)')
    BY <1>3, UnconnectedFrame, NoneFrame DEF Silent
  <2>13. tpc'[h][0] = "none"
    BY <1>2, <2>1, <2>2, NetAssumption, PartsFinite DEF StartInv, Threads, IInv
  <2>14. StartInv(h, op, cl)'
    BY <1>1, <2>2, <2>9, <2>10, <2>11, <2>12, <2>13, HowKept DEF StartInv
  <2>15. \A s \in Threads : s > how.cpus => tpc'[h][s] = "none"
    BY <1>2, <1>6, <2>0, <2>2 DEF LiveInv, CpusUsed
  <2>16. ClientInv(h, op, cl)'
    BY <1>1, <2>2, <2>14 DEF ClientInv
  <2> QED BY <1>1, <1>3, <1>6, <2>15, <2>16, LiveKept
<1> QED BY <1>1, <1>4, <1>5, <1>6, ShortOff DEF HostInv, Live, Fresh

-----------------------------------------------------------------------------
(* The steps that send: connection c grows, and its queue becomes u.         *)
Grown(h, c, u) ==
  /\ run'[h] = run[h]
  /\ ConnsOf(h)' = ConnsOf(h) \cup {c}
  /\ \A x \in ConnsOf(h) : x # c => conn'[x] = conn[x]
  /\ conn'[c].up = u
  /\ IF c \in ConnsOf(h)
     THEN conn'[c].accepted = conn[c].accepted /\ conn'[c].acks = conn[c].acks
     ELSE conn'[c].accepted = FALSE /\ conn'[c].acks = 0

LEMMA GrownSent ==
  ASSUME Conns(conn), NEW h, NEW c \in ConnsOf(h), NEW m, run'[h] = run[h], conn' = Sent(c, m)
  PROVE  Grown(h, c, Append(conn[c].up, m))
<1>1. conn[c] \in SomeConnection /\ c \in DOMAIN conn
  BY DEF Conns, ConnsOf
<1>2. ASSUME NEW x \in SomeConnection
      PROVE  LET y == [x EXCEPT !.up = Append(@, m)]
             IN y.up = Append(x.up, m) /\ y.acks = x.acks /\ y.accepted = x.accepted
  BY DEF SomeConnection
<1>3. conn' = [conn EXCEPT ![c] = [conn[c] EXCEPT !.up = Append(@, m)]]
  BY <1>1 DEF Sent
<1> QED BY <1>1, <1>2, <1>3 DEF Grown, ConnsOf

LEMMA GrownAdded ==
  ASSUME NEW h, NEW c, c[1] = h, c \notin ConnsOf(h), NEW u, run'[h] = run[h],
         conn' = Added(conn, c, NewConn(u))
  PROVE  Grown(h, c, u)
<1>1. c \notin DOMAIN conn
  BY DEF ConnsOf
<1> QED BY <1>1 DEF Grown, ConnsOf, Added, NewConn

LEMMA LinesGrown ==
  ASSUME how' = how, NEW h, NEW c, NEW u, Grown(h, c, u), SameCount(h), c[1] = h, \E q \in Parts : c = LineOf(h, q),
         NEW op, NEW cl, LinesInv(h, op, cl),
         \A i \in DOMAIN u : MessageInv(h, op, cl, c, u[i]), QueueInv(u)
  PROVE  LinesInv(h, op, cl)'
<1>1. \A x, m : MessageInv(h, op, cl, x, m)' <=> MessageInv(h, op, cl, x, m)
  BY HowKept DEF MessageInv, Grown
<1>2. \A v : QueueInv(v)' <=> QueueInv(v)
  BY DEF QueueInv
<1>3. \A q : /\ LineOf(h, q) \in DOMAIN conn <=> LineOf(h, q) \in ConnsOf(h)
             /\ LineOf(h, q) \in DOMAIN conn' <=> LineOf(h, q) \in ConnsOf(h)'
             /\ LineOf(h, q)' = LineOf(h, q)
  BY HowKept, LineOfHost DEF ConnsOf, Grown
<1>4. \A x \in ConnsOf(h) : conn'[x].accepted = conn[x].accepted
  BY DEF Grown
<1>5. ASSUME NEW x \in ConnsOf(h)'
      PROVE  /\ \E q \in Parts : x = LineOf(h, q)
             /\ conn'[x].accepted => h \in DOMAIN ch
             /\ \A i \in DOMAIN conn'[x].up : MessageInv(h, op, cl, x, conn'[x].up[i])
             /\ QueueInv(conn'[x].up)
  <2>1. CASE x = c
    BY <2>1 DEF Grown, LinesInv
  <2>2. CASE x # c
    BY <1>5, <2>2 DEF Grown, LinesInv
  <2> QED BY <2>1, <2>2
<1>6. \A q \in op : LineOf(h, q) \in DOMAIN conn' /\ conn'[LineOf(h, q)].accepted
  BY <1>3, <1>4 DEF LinesInv, Grown
<1> QED BY <1>1, <1>2, <1>3, <1>5, <1>6, HowKept DEF LinesInv, SameCount

(* A message for the part q is sent, the last so far.                        *)
Posted(h, q, m) == Grown(h, LineOf(h, q), Append(Up(h, q), m)) /\ m.dev = q[2]

LEMMA UpSeq ==
  ASSUME Conns(conn), NEW h, NEW q
  PROVE  Up(h, q) \in Seq(Message)
<1>1. <<>> \in Seq(Message)
  OBVIOUS
<1> QED BY <1>1 DEF Up, Conns, SomeConnection

LEMMA LinesPosted ==
  ASSUME IInv, how' = how, NEW h, NEW q \in Parts, NEW m \in Message, Posted(h, q, m), SameCount(h),
         NEW op, NEW cl, LinesInv(h, op, cl), q \notin cl,
         m.type = "open" => /\ q \notin op
                            /\ \A i \in DOMAIN Up(h, q) : Up(h, q)[i].dev # q[2],
         m.type = "data" => q \in op,
         m.type = "close" => op = Parts,
         \A i \in DOMAIN Up(h, q) : Up(h, q)[i].dev = q[2] => Up(h, q)[i].type # "close"
  PROVE  LinesInv(h, op, cl)'
<1> DEFINE c == LineOf(h, q)
           v == Up(h, q)
           u == Append(v, m)
<1>1. v \in Seq(Message)
  BY UpSeq DEF IInv
<1>2. /\ Len(u) = Len(v) + 1 /\ DOMAIN u = 1..Len(v) + 1 /\ DOMAIN v = 1..Len(v) /\ Len(v) \in Nat
      /\ u[Len(v) + 1] = m /\ \A i \in DOMAIN v : u[i] = v[i]
  BY <1>1
<1>3. MessageInv(h, op, cl, c, m)
  <2>1. <<c[3], m.dev>> = q
    BY LineOfHost DEF Posted, Parts
  <2> QED BY <2>1 DEF MessageInv
<1>4. \A i \in DOMAIN v : MessageInv(h, op, cl, c, v[i])
  BY LineOfHost DEF Up, LinesInv, ConnsOf
<1>5. QueueInv(v)
  <2>1. CASE c \in DOMAIN conn
    BY <2>1, LineOfHost DEF Up, LinesInv, ConnsOf
  <2>2. CASE c \notin DOMAIN conn
    BY <2>2 DEF Up, QueueInv
  <2> QED BY <2>1, <2>2
<1>6. m.dev = q[2] /\ Grown(h, c, u) /\ c[1] = h
  BY LineOfHost DEF Posted
<1>7. \A i \in DOMAIN v : v[i].dev = q[2] => v[i].type # "close" /\ m.type # "open"
  OBVIOUS
<1> HIDE DEF u, v, c
<1>8. \A i \in DOMAIN u : MessageInv(h, op, cl, c, u[i])
  BY <1>2, <1>3, <1>4
<1>9. QueueInv(u)
  <2> SUFFICES ASSUME NEW i \in DOMAIN u, NEW j \in DOMAIN u, i < j, u[i].dev = u[j].dev
               PROVE  u[i].type # "close" /\ u[j].type # "open"
    BY DEF QueueInv
  <2>1. i \in DOMAIN v /\ u[i] = v[i]
    BY <1>2
  <2>2. CASE j \in DOMAIN v
    BY <1>2, <1>5, <2>1, <2>2 DEF QueueInv
  <2>3. CASE j = Len(v) + 1
    BY <1>2, <1>6, <1>7, <2>1, <2>3
  <2> QED BY <1>2, <2>2, <2>3
<1>10. \E p \in Parts : c = LineOf(h, p)
  BY DEF c
<1> QED BY <1>6, <1>8, <1>9, <1>10, LinesGrown

LEMMA PartPair == \A p, q \in Parts : p[1] = q[1] /\ p[2] = q[2] => p = q
BY DEF Parts

LEMMA SameLine ==
  \A h : \A p, q \in Parts : LineOf(h, p) = LineOf(h, q) => p[1] = q[1] /\ (~Send => p = q)
<1> SUFFICES ASSUME NEW h, NEW p \in Parts, NEW q \in Parts, LineOf(h, p) = LineOf(h, q)
             PROVE  p[1] = q[1] /\ (~Send => p = q)
  OBVIOUS
<1>1. p[1] = q[1]
  BY LineOfHost
<1>2. ~Send => p[2] = q[2]
  BY DEF LineOf
<1> QED BY <1>1, <1>2, PartPair

LEMMA UpPosted ==
  ASSUME how' = how, NEW h, NEW q \in Parts, NEW m, Posted(h, q, m), NEW p
  PROVE  Up(h, p)' = IF LineOf(h, p) = LineOf(h, q) THEN Append(Up(h, p), m) ELSE Up(h, p)
<1>1. LineOf(h, p)' = LineOf(h, p) /\ LineOf(h, p)[1] = h
  BY HowKept, LineOfHost DEF Posted, Grown
<1>2. CASE LineOf(h, p) = LineOf(h, q)
  BY <1>1, <1>2 DEF Up, Posted, Grown, ConnsOf
<1>3. CASE LineOf(h, p) # LineOf(h, q)
  BY <1>1, <1>3 DEF Up, Posted, Grown, ConnsOf
<1> QED BY <1>2, <1>3

LEMMA BytesPosted ==
  ASSUME IInv, how' = how, NEW h, NEW q \in Parts, NEW m \in Message, Posted(h, q, m), BytesInv(h),
         \A p \in Parts : FiledOf(h, p)' = FiledOf(h, p)
                          /\ SentOf(h, p)' = IF p = q THEN SentOf(h, p) + Share(m, q[2]) ELSE SentOf(h, p)
  PROVE  BytesInv(h)'
<1>1. ASSUME NEW p \in Parts PROVE AddsUp(Up(h, p)', p[2], FiledOf(h, p), SentOf(h, p)')
  <2>1. AddsUp(Up(h, p), p[2], FiledOf(h, p), SentOf(h, p)) /\ Up(h, p) \in Seq(Message)
    BY UpSeq DEF BytesInv, IInv
  <2>2. SentOf(h, p) \in Int
    BY <2>1 DEF AddsUp
  <2>3. CASE LineOf(h, p) = LineOf(h, q)
    <3>1. AddsUp(Append(Up(h, p), m), p[2], FiledOf(h, p), SentOf(h, p) + Share(m, p[2]))
      BY <2>1, AddsUpAppend
    <3>2. SentOf(h, p)' = SentOf(h, p) + Share(m, p[2])
      <4>1. CASE p = q
        BY <4>1
      <4>2. CASE p # q
        <5>1. p[2] # q[2]
          BY <2>3, <4>2, SameLine, PartPair
        <5>2. Share(m, p[2]) = 0
          BY <5>1 DEF Posted, Share
        <5> QED BY <2>2, <4>2, <5>2
      <4> QED BY <4>1, <4>2
    <3> QED BY <2>3, <3>1, <3>2, UpPosted
  <2>4. CASE LineOf(h, p) # LineOf(h, q)
    <3>1. p # q
      BY <2>4
    <3> QED BY <2>1, <2>4, <3>1, UpPosted
  <2> QED BY <2>3, <2>4
<1>2. \A u, d, a, b : AddsUp(u, d, a, b)' <=> AddsUp(u, d, a, b)
  BY DEF AddsUp, Share
<1> QED BY <1>1, <1>2, HowKept DEF BytesInv

LEMMA UntouchedPosted ==
  ASSUME IInv, how' = how, NEW h, NEW q \in Parts, NEW m \in Message, Posted(h, q, m),
         NEW op, NEW p \in Parts, p # q, Untouched(h, op, p)
  PROVE  Untouched(h, op, p)'
<1> DEFINE c == LineOf(h, q)
           v == Up(h, q)
           u == Append(v, m)
<1>1. v \in Seq(Message)
  BY UpSeq DEF IInv
<1>2. c[3] = q[1] /\ c[1] = h /\ Grown(h, c, u) /\ m.dev = q[2]
  BY LineOfHost DEF Posted
<1>3. q[1] = p[1] => \A i \in DOMAIN v : v[i].dev # p[2]
  BY <1>2 DEF Up, Untouched, ConnsOf
<1>4. q[1] = p[1] => q[2] # p[2]
  BY PartPair
<1>5. \A i \in DOMAIN u : u[i] = m \/ \E j \in DOMAIN v : u[i] = v[j]
  BY <1>1
<1>6. ~Send => LineOf(h, p) \notin DOMAIN conn' /\ LineOf(h, p)' = LineOf(h, p)
  <2>1. LineOf(h, p)[1] = h /\ (~Send => LineOf(h, p) # c) /\ LineOf(h, p)' = LineOf(h, p)
    BY <1>2, LineOfHost, SameLine, HowKept DEF Grown
  <2> QED BY <1>2, <2>1 DEF Untouched, Grown, ConnsOf
<1> HIDE DEF c, v, u
<1>7. ASSUME NEW x \in ConnsOf(h)', x[3] = p[1], NEW i \in DOMAIN conn'[x].up
      PROVE  conn'[x].up[i].dev # p[2]
  <2>1. CASE x = c
    BY <1>2, <1>3, <1>4, <1>5, <1>7, <2>1 DEF Grown
  <2>2. CASE x # c
    BY <1>2, <1>7, <2>2 DEF Grown, Untouched
  <2> QED BY <2>1, <2>2
<1> QED BY <1>6, <1>7, HowKept DEF Untouched

LEMMA UnclosedPosted ==
  ASSUME IInv, how' = how, NEW h, NEW q \in Parts, NEW m \in Message, Posted(h, q, m),
         NEW cl, NEW p \in Parts, p # q \/ m.type # "close", Unclosed(h, cl, p)
  PROVE  Unclosed(h, cl, p)'
<1> DEFINE c == LineOf(h, q)
           v == Up(h, q)
           u == Append(v, m)
<1>1. v \in Seq(Message)
  BY UpSeq DEF IInv
<1>2. c[3] = q[1] /\ c[1] = h /\ Grown(h, c, u) /\ m.dev = q[2]
  BY LineOfHost DEF Posted
<1>3. q[1] = p[1] => \A i \in DOMAIN v : v[i].dev = p[2] => v[i].type # "close"
  BY <1>2 DEF Up, Unclosed, ConnsOf
<1>4. q[1] = p[1] /\ q[2] = p[2] => m.type # "close"
  BY PartPair
<1>5. \A i \in DOMAIN u : u[i] = m \/ \E j \in DOMAIN v : u[i] = v[j]
  BY <1>1
<1> HIDE DEF c, v, u
<1>6. ASSUME NEW x \in ConnsOf(h)', x[3] = p[1], NEW i \in DOMAIN conn'[x].up, conn'[x].up[i].dev = p[2]
      PROVE  conn'[x].up[i].type # "close"
  <2>1. CASE x = c
    BY <1>2, <1>3, <1>4, <1>5, <1>6, <2>1 DEF Grown
  <2>2. CASE x # c
    BY <1>2, <1>6, <2>2 DEF Grown, Unclosed
  <2> QED BY <2>1, <2>2
<1> QED BY <1>6 DEF Unclosed

(* A set of numbers that is not empty has a least one.                       *)
LEMMA MinIn ==
  ASSUME NEW S \in SUBSET Nat, S # {}
  PROVE  Min(S) \in S
<1> DEFINE R == OpToRel(<, Nat)
<1>1. IsWellFoundedOn(R, Nat)
  BY NatLessThanWellFounded
<1>2. \A x, y \in Nat : <<x, y>> \in R <=> x < y
  BY DEF OpToRel
<1> HIDE DEF R
<1>3. PICK x \in S : \A y \in S : ~(<<y, x>> \in R)
  BY <1>1, WFMin
<1>4. \A y \in S : x <= y
  <2> SUFFICES ASSUME NEW y \in S PROVE x <= y
    OBVIOUS
  <2>1. ~(y < x)
    BY <1>2, <1>3, x \in Nat, y \in Nat, Zenon
  <2> QED BY <2>1
<1> QED BY <1>3, <1>4 DEF Min

LEMMA VoidStays ==
  ASSUME NEW h, Void(h), how' = how, run'[h] = run[h], failed'[h] # {}, sent' = sent
  PROVE  HostInv(h)'
BY DEF Void, HostInv, NoneOf

(* main opens the next connection, of the first CPU that has none.           *)
LEMMA ConnectHost ==
  ASSUME IInv, Typed, NEW h \in Hosts, OpenClientConnection(h), HostInv(h)
  PROVE  HostInv(h)'
<1> DEFINE t == Min(Unconnected(h))
           c == <<h, run[h], t, 0>>
<1>1. /\ main[h] = "connect" /\ conn' = Added(conn, c, NewConn(<<>>))
      /\ main'[h] = IF Cardinality(Unconnected(h)) = 1 THEN "tracers" ELSE "connect"
      /\ how' = how /\ run' = run /\ done' = done /\ tpc' = tpc /\ ios' = ios /\ failed' = failed
      /\ sent' = sent /\ ch' = ch /\ filed' = filed /\ ended' = ended
  BY DEF OpenClientConnection, Goto, Typed, server
<1>2. CASE Void(h)
  BY <1>1, <1>2, VoidStays DEF Void
<1>3. ASSUME NEW op \in SUBSET Parts, NEW cl \in SUBSET Parts, LiveInv(h, op, cl)
      PROVE  HostInv(h)'
  <2>1. /\ StartInv(h, op, cl) /\ run[h] # 0 /\ Send /\ Unconnected(h) # {}
        /\ \A s \in CpusUsed : tpc[h][s] = "open" /\ ios[h][s] = 1
    BY <1>1, <1>3 DEF LiveInv, ClientInv, StartInv
  <2>2. t \in Unconnected(h)
    <3>1. Unconnected(h) \in SUBSET Nat
      BY DEF Unconnected, CpusUsed
    <3> QED BY <2>1, <3>1, MinIn
  <2>3. t \in CpusUsed /\ c \notin DOMAIN conn /\ c[1] = h /\ c[3] = t
    BY <2>2 DEF Unconnected
  <2>4. \A d : c = LineOf(h, <<t, d>>)
    BY <2>1 DEF LineOf
  <2>5. <<t, 1>> \in Parts /\ how.devs \in Nat \ {0}
    BY <2>3, Ways_ DEF Parts, IInv
  <2> HIDE DEF c, t
  <2>6. Grown(h, c, <<>>)
    <3>1. c \notin ConnsOf(h)
      BY <2>3 DEF ConnsOf
    <3> QED BY <1>1, <2>3, <3>1, GrownAdded
  <2>7. LinesInv(h, op, cl)'
    <3>1. SameCount(h)
      BY <1>1 DEF SameCount
    <3>2. QueueInv(<<>>)
      BY DEF QueueInv
    <3>3. \A i \in DOMAIN <<>> : MessageInv(h, op, cl, c, <<>>[i])
      OBVIOUS
    <3>4. \E q \in Parts : c = LineOf(h, q)
      BY <2>4, <2>5
    <3> QED BY <1>1, <1>3, <2>3, <2>6, <3>1, <3>2, <3>3, <3>4, LinesGrown DEF LiveInv
  <2>8. \A q : Up(h, q)' = Up(h, q)
    <3>1. \A q : LineOf(h, q)' = LineOf(h, q) /\ LineOf(h, q)[1] = h
      BY <1>1, HowKept, LineOfHost
    <3> QED BY <2>3, <2>6, <3>1 DEF Up, Grown, ConnsOf
  <2>9. BytesInv(h)' /\ KeysInv(h)' /\ NoneOf(h, sent)'
    <3>1. \A u, d, a, b : AddsUp(u, d, a, b)' <=> AddsUp(u, d, a, b)
      BY DEF AddsUp, Share
    <3>2. \A q : SentOf(h, q)' = SentOf(h, q) /\ FiledOf(h, q)' = FiledOf(h, q)
      BY <1>1 DEF SentOf, FiledOf, Bytes
    <3> QED BY <1>1, <1>3, <2>1, <2>8, <3>1, <3>2, HowKept DEF LiveInv, BytesInv, KeysInv, StartInv, NoneOf
  <2>10. \A q : Untouched(h, op, q) => Untouched(h, op, q)'
    <3>1. \A x \in ConnsOf(h)' : x = c \/ (x \in ConnsOf(h) /\ conn'[x] = conn[x])
      BY <2>6 DEF Grown
    <3>2. conn'[c].up = <<>> /\ Send' = Send
      BY <1>1, <2>6, HowKept DEF Grown
    <3> QED BY <2>1, <3>1, <3>2 DEF Untouched
  <2>11. \A s \in CpusUsed : OpeningInv(h, s, op)'
    <3> SUFFICES ASSUME NEW s \in CpusUsed PROVE OpeningInv(h, s, op)'
      OBVIOUS
    <3>1. OpeningInv(h, s, op) /\ tpc[h][s] = "open"
      BY <2>1 DEF StartInv
    <3>2. \A x \in ConnsOf(h)' : x[3] = s => ~(conn'[x].acks > 0)
      BY <2>6, <3>1 DEF Grown, OpeningInv
    <3> QED BY <1>1, <2>10, <3>1, <3>2 DEF OpeningInv
  <2>12. OnlyOpens(h)'
    BY <2>1, <2>6 DEF StartInv, OnlyOpens, Grown
  <2>13. Unconnected(h)' = Unconnected(h) \ {t}
    <3>1. DOMAIN conn' = DOMAIN conn \cup {c}
      BY <1>1 DEF Added
    <3>2. \A s : <<h, run[h], s, 0>> = c <=> s = t
      BY DEF c
    <3> QED BY <1>1, <3>1, <3>2, HowKept DEF Unconnected
  <2>14. IF Cardinality(Unconnected(h)) = 1 THEN Unconnected(h)' = {} ELSE Unconnected(h)' # {}
    <3>1. IsFiniteSet(Unconnected(h))
      BY PartsFinite, FS_Subset DEF Unconnected, IInv
    <3>2. Cardinality(Unconnected(h)) = 1 <=> \E x : Unconnected(h) = {x}
      BY <3>1, FS_Singleton
    <3> QED BY <2>2, <2>13, <3>2
  <2>15. StartInv(h, op, cl)'
    BY <1>1, <2>1, <2>9, <2>11, <2>12, <2>14, HowKept DEF StartInv
  <2>16. LiveInv(h, op, cl)'
    BY <1>1, <1>3, <2>7, <2>9, <2>15, HowKept DEF LiveInv, ClientInv, Threads
  <2> QED BY <1>1, <2>16, HowKept DEF HostInv, Live
<1> QED BY <1>1, <1>2, <1>3, ShortOff DEF HostInv, Live, Fresh, Over

(* What a message of the part q's client does to the rest: nothing.          *)
LEMMA PostedSent ==
  ASSUME IInv, NEW h, NEW q, NEW m, m.dev = q[2], run'[h] = run[h],
         \/ LineOf(h, q) \in DOMAIN conn /\ conn' = Sent(LineOf(h, q), m)
         \/ LineOf(h, q) \notin DOMAIN conn /\ conn' = Added(conn, LineOf(h, q), NewConn(<<m>>))
  PROVE  Posted(h, q, m)
<1>1. LineOf(h, q)[1] = h /\ (LineOf(h, q) \in DOMAIN conn <=> LineOf(h, q) \in ConnsOf(h))
  BY LineOfHost DEF ConnsOf
<1>2. CASE LineOf(h, q) \in DOMAIN conn /\ conn' = Sent(LineOf(h, q), m)
  BY <1>1, <1>2, GrownSent DEF Posted, Up, IInv
<1>3. CASE LineOf(h, q) \notin DOMAIN conn /\ conn' = Added(conn, LineOf(h, q), NewConn(<<m>>))
  <2>1. Append(<<>>, m) = <<m>>
    OBVIOUS
  <2> QED BY <1>1, <1>3, <2>1, GrownAdded DEF Posted, Up
<1> QED BY <1>2, <1>3

LEMMA NothingFiled ==
  ASSUME NEW h, run'[h] = run[h], sent' = sent, filed' = filed
  PROVE  \A p : SentOf(h, p)' = SentOf(h, p) /\ FiledOf(h, p)' = FiledOf(h, p)
BY DEF SentOf, FiledOf, Bytes

LEMMA OpenHost ==
  ASSUME IInv, Typed, NEW h \in Hosts, NEW t \in Threads, OpenIo(h, t), HostInv(h)
  PROVE  HostInv(h)'
<1>0. PICK d : d = ios[h][t]
  OBVIOUS
<1> DEFINE q == <<t, d>>
           m == Header("open", d, 0)
<1>1. /\ main[h] \in {"tracers", "stopped"} /\ t # 0 /\ tpc[h][t] = "open"
      /\ main' = main /\ how' = how /\ run' = run /\ done' = done /\ failed' = failed
      /\ sent' = sent /\ ch' = ch /\ filed' = filed /\ ended' = ended
  BY DEF OpenIo, Opening, server
<1>2. CASE Void(h)
  BY <1>1, <1>2, VoidStays DEF Void
<1>3. ASSUME NEW op \in SUBSET Parts, NEW cl \in SUBSET Parts, LiveInv(h, op, cl)
      PROVE  HostInv(h)'
  <2>0. how.devs \in Nat \ {0} /\ how.cpus \in Nat \ {0} /\ CpusUsed \subseteq Threads
    BY Ways_, PartsFinite, NetAssumption DEF IInv, Cpus, Threads
  <2>1. StartInv(h, op, cl) /\ main[h] = "tracers" /\ run[h] # 0 /\ ~done[h]
    BY <1>1, <1>3 DEF LiveInv, ClientInv, StartInv
  <2>2. t \in CpusUsed
    BY <1>1, <1>3, <2>0 DEF LiveInv, CpusUsed, Threads
  <2>3. OpeningInv(h, t, op) /\ d \in 1..how.devs /\ q \in Parts
    BY <1>0, <2>1, <2>2 DEF StartInv, OpeningInv, Parts
  <2>4. Untouched(h, op, q)
    BY <1>0, <1>1, <2>0, <2>3 DEF OpeningInv
  <2>5. m \in Message /\ m.dev = q[2] /\ m.type = "open"
    BY <2>3 DEF Header, Message
  <2>6. /\ ios' = ios
        /\ \A s \in Threads : tpc'[h][s] = IF s = t THEN "answer" ELSE tpc[h][s]
    BY <2>1 DEF OpenIo, TGoto, Typed
  <2>7. ConnOf(h, t, d) = LineOf(h, q)
    BY <2>1 DEF ConnOf, LineOf
  <2>8. Posted(h, q, m)
    <3>1. CASE Send
      <4>1. LineOf(h, q) \in DOMAIN conn
        BY <2>1, <2>2, <3>1 DEF StartInv, Unconnected, LineOf
      <4> QED BY <1>0, <2>5, <2>7, <3>1, <4>1, PostedSent DEF OpenIo
    <3>2. CASE ~Send
      <4>1. LineOf(h, q) \notin DOMAIN conn
        BY <2>4, <3>2 DEF Untouched
      <4> QED BY <1>0, <2>5, <2>7, <3>2, <4>1, PostedSent DEF OpenIo
    <3> QED BY <3>1, <3>2
  <2> HIDE DEF q, m
  <2> DEFINE c == LineOf(h, q)
             u == Append(Up(h, q), m)
  <2>9. Grown(h, c, u) /\ c[1] = h /\ c[3] = t /\ q[1] = t /\ q[2] = d
    BY <2>8, LineOfHost DEF Posted, q
  <2> HIDE DEF c, u
  <2>10. \A i \in DOMAIN Up(h, q) : Up(h, q)[i].dev # q[2]
    BY <2>4, <2>9 DEF Up, Untouched, ConnsOf, c
  <2>11. LinesInv(h, op, cl)'
    <3>1. SameCount(h) /\ q \notin cl
      BY <1>1, <2>1 DEF SameCount, StartInv
    <3> QED BY <1>1, <1>3, <2>3, <2>4, <2>5, <2>8, <2>10, <3>1, LinesPosted DEF LiveInv, Untouched
  <2>12. BytesInv(h)' /\ KeysInv(h)' /\ NoneOf(h, sent)'
    <3>1. Share(m, q[2]) = 0
      BY <2>5 DEF Share
    <3>2. \A p \in Parts : SentOf(h, p) \in Int
      BY <1>3 DEF LiveInv, BytesInv, AddsUp
    <3>3. \A p : SentOf(h, p)' = SentOf(h, p) /\ FiledOf(h, p)' = FiledOf(h, p)
      BY <1>1, NothingFiled
    <3>4. \A p \in Parts : /\ FiledOf(h, p)' = FiledOf(h, p)
                           /\ SentOf(h, p)' = IF p = q THEN SentOf(h, p) + Share(m, q[2]) ELSE SentOf(h, p)
      BY <3>1, <3>2, <3>3
    <3>5. BytesInv(h)'
      BY <1>1, <1>3, <2>3, <2>5, <2>8, <3>4, BytesPosted DEF LiveInv
    <3> QED BY <1>1, <1>3, <2>1, <3>5, HowKept DEF LiveInv, KeysInv, StartInv, NoneOf
  <2>13. \A p \in Parts : p # q /\ Untouched(h, op, p) => Untouched(h, op, p)'
    BY <1>1, <2>3, <2>5, <2>8, UntouchedPosted
  <2>14. \A x \in ConnsOf(h)' :
           \/ x = c /\ (conn'[x].acks = 0 \/ (x \in ConnsOf(h) /\ conn'[x].acks = conn[x].acks))
           \/ x # c /\ x \in ConnsOf(h) /\ conn'[x] = conn[x]
    <3> SUFFICES ASSUME NEW x \in ConnsOf(h)'
                 PROVE  \/ x = c /\ (conn'[x].acks = 0 \/ (x \in ConnsOf(h) /\ conn'[x].acks = conn[x].acks))
                        \/ x # c /\ x \in ConnsOf(h) /\ conn'[x] = conn[x]
      OBVIOUS
    <3>1. CASE x = c
      BY <2>9, <3>1 DEF Grown
    <3>2. CASE x # c
      BY <2>9, <3>2 DEF Grown
    <3> QED BY <3>1, <3>2
  <2>15. \A p : LineOf(h, p) \in DOMAIN conn \/ p = q => LineOf(h, p) \in DOMAIN conn'
    BY <2>9, LineOfHost DEF Grown, ConnsOf, c
  <2>16. ASSUME NEW s \in CpusUsed PROVE OpeningInv(h, s, op)'
    <3>0. OpeningInv(h, s, op) /\ s \in Threads
      BY <2>0, <2>1 DEF StartInv
    <3>1. \A e \in 1..how.devs : <<s, e>> \in Parts /\ (<<s, e>> = q <=> s = t /\ e = d)
      BY DEF Parts, q
    <3>2. CASE s = t
      <4>1. \A e \in 1..how.devs : e > d => Untouched(h, op, <<s, e>>)'
        BY <1>0, <1>1, <2>0, <2>3, <2>13, <3>1, <3>2 DEF OpeningInv
      <4>2. \A x \in ConnsOf(h)' : x[3] = s => ~(conn'[x].acks > 0)
        BY <1>1, <2>14, <3>0, <3>2 DEF OpeningInv
      <4>3. tpc'[h][s] = "answer" /\ ios'[h][s] = d /\ <<s, d>> = q
        BY <1>0, <2>6, <3>0, <3>2 DEF q
      <4>4. LineOf(h, <<s, d>>)' \in DOMAIN conn'
        BY <1>1, <2>15, <4>3, HowKept
      <4>5. \A e \in 1..how.devs : e < d => <<s, e>> \in op
        BY <1>0, <2>3, <3>2 DEF OpeningInv
      <4> QED BY <1>1, <2>3, <4>1, <4>2, <4>3, <4>4, <4>5 DEF OpeningInv
    <3>3. CASE s # t
      <4>1. tpc'[h][s] = tpc[h][s] /\ ios'[h][s] = ios[h][s]
        BY <2>6, <3>0, <3>3
      <4>2. \A e \in 1..how.devs : Untouched(h, op, <<s, e>>) => Untouched(h, op, <<s, e>>)'
        BY <2>13, <3>1, <3>3
      <4>3. \A x \in ConnsOf(h)' : x[3] = s => x \in ConnsOf(h) /\ conn'[x] = conn[x]
        BY <2>9, <2>14, <3>3
      <4>4. \A p : LineOf(h, p)' = LineOf(h, p)
        BY <1>1, HowKept
      <4> QED BY <1>1, <2>15, <3>0, <4>1, <4>2, <4>3, <4>4 DEF OpeningInv
    <3> QED BY <3>2, <3>3
  <2>17. OnlyOpens(h)'
    <3>1. \A i \in DOMAIN u : u[i] = m \/ \E j \in DOMAIN Up(h, q) : u[i] = Up(h, q)[j]
      BY UpSeq DEF IInv, u
    <3>2. \A j \in DOMAIN Up(h, q) : Up(h, q)[j].type = "open"
      BY <2>1, <2>9 DEF StartInv, OnlyOpens, Up, ConnsOf, c
    <3>3. \A i \in DOMAIN u : u[i].type = "open"
      BY <2>5, <3>1, <3>2
    <3> QED BY <2>1, <2>9, <2>14, <3>3 DEF StartInv, OnlyOpens, Grown
  <2>18. Send => Unconnected(h)' = {}
    <3>1. ConnsOf(h) \subseteq ConnsOf(h)'
      BY <2>9 DEF Grown
    <3> QED BY <1>1, <2>1, <3>1, HowKept DEF StartInv, Unconnected, ConnsOf
  <2>19. tpc'[h][0] = "none" /\ \A s \in Threads : s > how.cpus => tpc'[h][s] = "none"
    BY <1>1, <1>3, <2>0, <2>1, <2>2, <2>6, NetAssumption DEF StartInv, LiveInv, CpusUsed, Threads
  <2>20. StartInv(h, op, cl)'
    BY <1>1, <2>1, <2>12, <2>16, <2>17, <2>18, <2>19, HowKept DEF StartInv
  <2>21. LiveInv(h, op, cl)'
    BY <1>1, <1>3, <2>1, <2>11, <2>12, <2>19, <2>20, HowKept DEF LiveInv, ClientInv, Threads
  <2> QED BY <1>1, <2>21, HowKept DEF HostInv, Live
<1> QED BY <1>1, <1>2, <1>3, ShortOff DEF HostInv, Live, Fresh, Over

LEMMA CountedAt ==
  ASSUME NEW f, NEW h, NEW r, NEW t, NEW d, NEW len, NEW p
  PROVE  Bytes(Counted(f, h, r, t, d, len), h, r, p[1], p[2]) =
           IF p[1] = t /\ p[2] = d THEN Bytes(f, h, r, t, d) + len ELSE Bytes(f, h, r, p[1], p[2])
<1>1. CASE p[1] = t /\ p[2] = d
  BY <1>1 DEF Counted, Bytes
<1>2. CASE ~(p[1] = t /\ p[2] = d)
  <2>1. <<h, r, p[1], p[2]>> # <<h, r, t, d>>
    BY <1>2
  <2> QED BY <1>2, <2>1 DEF Counted, Bytes
<1> QED BY <1>1, <1>2

LEMMA SendHost ==
  ASSUME IInv, Typed, NEW h \in Hosts, NEW t \in Cpus, NEW d \in Devs, NEW len \in Lens,
         SendData(h, t, d, len), HostInv(h)
  PROVE  HostInv(h)'
<1> DEFINE q == <<t, d>>
           m == Piece(d, len, len)
<1>1. /\ failed[h] = {} /\ (IF Send THEN main[h] \in {"run", "stop"} ELSE tpc[h][t] = "run") /\ d <= how.devs
      /\ main' = main /\ how' = how /\ run' = run /\ tpc' = tpc /\ ios' = ios /\ failed' = failed
      /\ ch' = ch /\ filed' = filed /\ ended' = ended
      /\ sent' = Counted(sent, h, run[h], t, d, len)
      /\ ConnOf(h, t, d) \in DOMAIN conn /\ conn' = Sent(ConnOf(h, t, d), m)
  BY DEF SendData, MaySend, server
<1>2. t \in Threads
  BY NetAssumption DEF Cpus, Threads
<1>3. ConnOf(h, t, d) \in ConnsOf(h)
  BY <1>1, ConnOfHost DEF ConnsOf
<1>4. ASSUME NEW op \in SUBSET Parts, NEW cl \in SUBSET Parts, LiveInv(h, op, cl)
      PROVE  HostInv(h)'
  <2>1. EndInv(h, op, cl) /\ op = Parts
    <3>1. CASE Send
      BY <1>1, <1>4, <3>1 DEF LiveInv, ClientInv, EndInv
    <3>2. CASE ~Send
      BY <1>1, <1>2, <1>4, <3>2, LiveEnding DEF EndInv, LiveInv
    <3> QED BY <3>1, <3>2
  <2>2. ConnOf(h, t, d) = LineOf(h, q)
    BY <2>1 DEF ConnOf, LineOf
  <2>3. q \in Parts
    <3>1. PICK p \in Parts : ConnOf(h, t, d) = LineOf(h, p)
      BY <1>3, <1>4 DEF LiveInv, LinesInv
    <3>2. p[1] = t
      BY <3>1, LineOfHost DEF ConnOf
    <3>3. t \in CpusUsed
      BY <3>1, <3>2 DEF Parts
    <3>4. d \in 1..how.devs
      BY <1>1, Ways_, NetAssumption DEF Devs, IInv
    <3> QED BY <3>3, <3>4 DEF Parts
  <2>4. m \in Message /\ m.dev = q[2] /\ m.type = "data" /\ m.len = len
    BY MmapAssumption DEF Piece, Message, Lens
  <2>5. Posted(h, q, m)
    BY <1>1, <2>2, <2>4, PostedSent
  <2>6. q \in ToClose(h)
    BY <1>1, <2>3 DEF ToClose
  <2>7. Unclosed(h, cl, q)
    BY <2>1, <2>6 DEF EndInv
  <2>8. q[1] = t /\ q[2] = d
    OBVIOUS
  <2> HIDE DEF q, m
  <2>9. \A i \in DOMAIN Up(h, q) : Up(h, q)[i].dev = q[2] => Up(h, q)[i].type # "close"
    BY <2>7, LineOfHost DEF Up, Unclosed, ConnsOf
  <2>10. LinesInv(h, op, cl)'
    <3>1. SameCount(h) /\ q \notin cl /\ q \in op
      BY <1>1, <2>1, <2>3, <2>7 DEF SameCount, Unclosed
    <3> QED BY <1>1, <1>4, <2>3, <2>4, <2>5, <2>9, <3>1, LinesPosted DEF LiveInv
  <2>11. BytesInv(h)'
    <3>1. Share(m, q[2]) = len
      BY <2>4 DEF Share
    <3>2. \A p \in Parts : p = q <=> p[1] = t /\ p[2] = d
      BY <2>3, <2>8, PartPair
    <3>3. \A p \in Parts : SentOf(h, p)' = IF p = q THEN SentOf(h, p) + Share(m, q[2]) ELSE SentOf(h, p)
      BY <1>1, <2>1, <2>8, <3>1, <3>2, CountedAt DEF SentOf
    <3>4. \A p : FiledOf(h, p)' = FiledOf(h, p)
      BY <1>1 DEF FiledOf, Bytes
    <3> QED BY <1>1, <1>4, <2>3, <2>4, <2>5, <3>3, <3>4, BytesPosted DEF LiveInv
  <2>12. KeysInv(h)'
    <3>1. \A x \in DOMAIN sent' : x \in DOMAIN sent \/ x = <<h, run[h], q[1], q[2]>>
      BY <1>1, <2>1, <2>8, CountedElsewhere
    <3> QED BY <1>1, <1>4, <2>3, <3>1, HowKept DEF LiveInv, KeysInv
  <2>13. EndInv(h, op, cl)'
    <3>1. ToClose(h)' = ToClose(h) /\ ToClose(h) \subseteq Parts
      <4>1. ToClose(h)' = ToClose(h)
        BY <1>1, HowKept DEF ToClose, Remaining, ClosingPart
      <4>2. Send => main[h] # "close"
        BY <1>1
      <4> QED BY <4>1, <4>2 DEF ToClose
    <3>2. \A p \in ToClose(h) : Unclosed(h, cl, p)'
      BY <1>1, <2>1, <2>3, <2>4, <2>5, <3>1, UnclosedPosted DEF EndInv
    <3>3. ClosingInv(h)'
      BY <1>1, <2>1, HowKept DEF EndInv, ClosingInv
    <3>4. AckInv(h, cl)'
      <4> SUFFICES ASSUME Send PROVE Answers(h, cl)' /\ Taking(h, cl)'
        BY <1>1, HowKept DEF AckInv
      <4>1. Grown(h, LineOf(h, q), Append(Up(h, q), m)) /\ LineOf(h, q) \in ConnsOf(h)
        BY <1>3, <2>2, <2>5, <2>8 DEF Posted, q
      <4>2. main[h] # "close" /\ main'[h] # "close"
        BY <1>1
      <4>3. \A x \in ConnsOf(h) : ~(conn[x].acks > 0)
        BY <2>1, <4>2 DEF EndInv, AckInv, Answers
      <4>4. ConnsOf(h)' = ConnsOf(h) /\ \A x \in ConnsOf(h) : conn'[x].acks = conn[x].acks
        BY <4>1 DEF Grown
      <4> QED BY <4>2, <4>3, <4>4 DEF Answers, Taking
    <3> QED BY <1>1, <2>1, <3>1, <3>2, <3>3, <3>4, HowKept DEF EndInv
  <2>14. main[h] \in {"run", "stop", "close"}
    BY <1>1, <1>2, <1>4, LiveEnding
  <2>15. LiveInv(h, op, cl)'
    BY <1>1, <1>4, <2>10, <2>11, <2>12, <2>13, <2>14, HowKept DEF LiveInv, ClientInv, Threads
  <2> QED BY <1>1, <2>15, HowKept DEF HostInv, Live
<1>5. ~Fresh(h) /\ ~Over(h) /\ ~Void(h) /\ ~Short(h)
  BY <1>1, <1>2, <1>3, ShortOff DEF Fresh, Over, Void
<1> QED BY <1>4, <1>5 DEF HostInv, Live

LEMMA SendCloseHost ==
  ASSUME IInv, Typed, NEW h \in Hosts, NEW t \in Threads, SendClose(h, t), HostInv(h)
  PROVE  HostInv(h)'
<1>1. /\ tpc[h][t] = "close" /\ ios[h][t] > 0
      /\ main' = main /\ how' = how /\ run' = run /\ ios' = ios /\ failed' = failed
      /\ sent' = sent /\ ch' = ch /\ filed' = filed /\ ended' = ended /\ exited' = exited
      /\ conn' = Sent(ClosingConn(h, t), Header("close", ClosingDev(h, t), 1))
      /\ \A s \in Threads : tpc'[h][s] = IF s = t THEN "check" ELSE tpc[h][s]
  BY DEF SendClose, server, TGoto, Typed
<1>2. CASE Void(h)
  BY <1>1, <1>2, VoidStays DEF Void
<1>3. CASE Over(h)
  <2>1. ClosingConn(h, t) \notin DOMAIN conn
    BY <1>3, ConnOfHost DEF Over, ConnsOf, ClosingConn
  <2>2. Silent(h)
    BY <1>1, <2>1, SilentStep, ConnSilent DEF Sent, IInv, server
  <2>3. Cpus \subseteq Threads
    BY NetAssumption DEF Cpus, Threads
  <2> QED BY <1>1, <1>3, <2>2, <2>3, OverKept DEF Over
<1>4. ASSUME NEW op \in SUBSET Parts, NEW cl \in SUBSET Parts, LiveInv(h, op, cl)
      PROVE  HostInv(h)'
  <2>0. /\ how.devs \in Nat \ {0} /\ how.cpus \in Nat \ {0} /\ how.cpus * how.devs \in Nat
        /\ CpusUsed \subseteq Threads /\ 0 \notin CpusUsed /\ ios[h][t] \in Int
    BY Ways_, PartsFinite, NetAssumption DEF IInv, Cpus, Threads, Client
  <2>1. /\ EndInv(h, op, cl) /\ op = Parts /\ ClosingInv(h) /\ (t \in CpusUsed \/ t = 0)
        /\ main[h] \in {"run", "stop", "close"}
    BY <1>1, <1>4, LiveEnding DEF EndInv, LiveInv
  <2>2. (t = 0 <=> Send) /\ (Send => main[h] = "close")
    BY <1>1, <2>0, <2>1 DEF ClosingInv
  <2>3. PICK n : n = ios[h][t]
    OBVIOUS
  <2>4. n \in Int /\ n > 0 /\ (IF Send THEN n \in 1..how.cpus * how.devs ELSE n \in 1..how.devs)
    BY <1>1, <2>0, <2>1, <2>2, <2>3 DEF ClosingInv
  <2>5. PICK q : q = IF Send THEN ClosingPart(n) ELSE <<t, n>>
    OBVIOUS
  <2>6. q \in Parts
    <3>1. Send => q \in Parts
      BY <2>4, <2>5, ClosingParts DEF IInv
    <3>2. ~Send => q \in Parts
      BY <2>1, <2>2, <2>4, <2>5, <2>0 DEF Parts
    <3> QED BY <3>1, <3>2
  <2>7. ClosingDev(h, t) = q[2] /\ ClosingConn(h, t) = LineOf(h, q)
    <3>1. ClosingDev(h, t) = q[2]
      BY <2>2, <2>3, <2>5 DEF ClosingDev, ClosingPart
    <3>2. q[1] = IF t = 0 THEN how.cpus - ((ios[h][0] - 1) \div how.devs) ELSE t
      BY <2>2, <2>3, <2>5 DEF ClosingPart
    <3> QED BY <2>1, <3>1, <3>2 DEF ClosingConn, ConnOf, LineOf
  <2>8. PICK m : m = Header("close", q[2], 1)
    OBVIOUS
  <2>9. m \in Message /\ m.dev = q[2] /\ m.type = "close"
    <3>1. q[2] \in Int
      BY <2>0, <2>6 DEF Parts
    <3> QED BY <2>8, <3>1 DEF Header, Message
  <2>10. Posted(h, q, m)
    <3>1. LineOf(h, q) \in DOMAIN conn
      BY <1>4, <2>1, <2>6 DEF LiveInv, LinesInv
    <3> QED BY <1>1, <2>7, <2>8, <2>9, <3>1, PostedSent
  <2>11. q \in ToClose(h)
    <3>1. CASE Send
      <4>1. Remaining(h, 0) = n
        BY <1>1, <2>2, <2>3, <3>1 DEF Remaining
      <4> QED BY <2>2, <2>4, <2>5, <3>1, <4>1 DEF ToClose
    <3>2. CASE ~Send
      <4>1. Remaining(h, t) = n
        BY <1>1, <2>3 DEF Remaining
      <4> QED BY <2>4, <2>5, <2>6, <3>2, <4>1 DEF ToClose
    <3> QED BY <3>1, <3>2
  <2>12. Unclosed(h, cl, q)
    BY <2>1, <2>11 DEF EndInv
  <2>13. ToClose(h)' \subseteq ToClose(h) \ {q} /\ ToClose(h) \subseteq Parts
    <3>0. Remaining(h, t) = n /\ Remaining(h, t)' = n - 1
      BY <1>1, <2>3 DEF Remaining
    <3>1. CASE Send
      <4>1. ToClose(h) = {ClosingPart(i) : i \in 1..n}
        BY <2>2, <3>0, <3>1 DEF ToClose
      <4>2. ToClose(h)' = {ClosingPart(i) : i \in 1..n - 1}
        BY <1>1, <2>2, <3>0, <3>1, HowKept DEF ToClose, ClosingPart
      <4>3. \A i \in 1..n - 1 : i \in 1..n /\ i # n
        BY <2>4
      <4>4. \A i \in 1..n : i \in 1..how.cpus * how.devs
        BY <2>0, <2>4, <3>1
      <4>5. \A i \in 1..n - 1 : ClosingPart(i) # q
        <5>1. n \in 1..how.cpus * how.devs
          BY <2>4, <3>1
        <5> QED BY <2>5, <3>1, <4>3, <4>4, <5>1, ClosingParts DEF IInv
      <4> QED BY <4>1, <4>2, <4>3, <4>4, <4>5, ClosingParts DEF IInv
    <3>2. CASE ~Send
      <4>1. ASSUME NEW p \in Parts, tpc'[h][p[1]] = "run" \/ p[2] <= Remaining(h, p[1])'
            PROVE  p # q /\ (tpc[h][p[1]] = "run" \/ p[2] <= Remaining(h, p[1]))
        <5>1. p[1] \in Threads /\ p[2] \in Int
          BY <2>0 DEF Parts
        <5>2. CASE p[1] = t
          BY <1>1, <2>4, <2>5, <3>0, <3>2, <4>1, <5>1, <5>2
        <5>3. CASE p[1] # t
          <6>1. tpc'[h][p[1]] = tpc[h][p[1]] /\ Remaining(h, p[1])' = Remaining(h, p[1])
            BY <1>1, <5>1, <5>3 DEF Remaining
          <6>2. q[1] = t
            BY <2>5, <3>2
          <6> QED BY <4>1, <5>3, <6>1, <6>2
        <5> QED BY <5>2, <5>3
      <4>2. ToClose(h)' = {p \in Parts : tpc'[h][p[1]] = "run" \/ p[2] <= Remaining(h, p[1])'}
        BY <1>1, <3>2, HowKept DEF ToClose
      <4> QED BY <3>2, <4>1, <4>2 DEF ToClose
    <3> QED BY <3>1, <3>2
  <2>14. \A i \in DOMAIN Up(h, q) : Up(h, q)[i].dev = q[2] => Up(h, q)[i].type # "close"
    BY <2>12, LineOfHost DEF Up, Unclosed, ConnsOf
  <2>15. LinesInv(h, op, cl)'
    <3>1. SameCount(h) /\ q \notin cl
      BY <1>1, <2>12 DEF SameCount, Unclosed
    <3> QED BY <1>1, <1>4, <2>1, <2>6, <2>9, <2>10, <2>14, <3>1, LinesPosted DEF LiveInv
  <2>16. BytesInv(h)' /\ KeysInv(h)'
    <3>1. Share(m, q[2]) = 0
      BY <2>9 DEF Share
    <3>2. \A p \in Parts : SentOf(h, p) \in Int
      BY <1>4 DEF LiveInv, BytesInv, AddsUp
    <3>3. \A p : SentOf(h, p)' = SentOf(h, p) /\ FiledOf(h, p)' = FiledOf(h, p)
      BY <1>1, NothingFiled
    <3>4. \A p \in Parts : /\ FiledOf(h, p)' = FiledOf(h, p)
                           /\ SentOf(h, p)' = IF p = q THEN SentOf(h, p) + Share(m, q[2]) ELSE SentOf(h, p)
      BY <3>1, <3>2, <3>3
    <3>5. BytesInv(h)'
      BY <1>1, <1>4, <2>6, <2>9, <2>10, <3>4, BytesPosted DEF LiveInv
    <3> QED BY <1>1, <1>4, <3>5, HowKept DEF LiveInv, KeysInv
  <2>17. EndInv(h, op, cl)'
    <3>1. \A p \in ToClose(h)' : Unclosed(h, cl, p)'
      <4> SUFFICES ASSUME NEW p \in ToClose(h)' PROVE Unclosed(h, cl, p)'
        OBVIOUS
      <4>1. p \in ToClose(h) /\ p # q /\ p \in Parts /\ Unclosed(h, cl, p)
        BY <2>1, <2>13 DEF EndInv
      <4> QED BY <1>1, <2>6, <2>9, <2>10, <4>1, UnclosedPosted
    <3>2. ClosingInv(h)'
      <4>1. CASE Send
        <5>1. \A s \in CpusUsed : tpc'[h][s] = tpc[h][s]
          BY <1>1, <2>0, <2>2, <4>1
        <5>2. tpc'[h][0] = "check" /\ ios'[h][0] = ios[h][0] /\ ios[h][0] > 0 /\ main'[h] = "close"
          BY <1>1, <2>2, <4>1
        <5> QED BY <1>1, <2>1, <2>2, <4>1, <5>1, <5>2, HowKept DEF ClosingInv
      <4>2. CASE ~Send
        <5>1. tpc'[h][0] = tpc[h][0] /\ main'[h] # "close"
          BY <1>1, <2>1, <2>2, <4>2, NetAssumption DEF ClosingInv, Threads
        <5>2. \A s \in CpusUsed : IF s = t THEN tpc'[h][s] = "check" /\ ios[h][s] > 0 ELSE tpc'[h][s] = tpc[h][s]
          BY <1>1, <2>0
        <5> QED BY <1>1, <2>1, <4>2, <5>1, <5>2, HowKept DEF ClosingInv
      <4> QED BY <4>1, <4>2
    <3>3. AckInv(h, cl)'
      <4> SUFFICES ASSUME Send PROVE Answers(h, cl)' /\ Taking(h, cl)'
        BY <1>1, HowKept DEF AckInv
      <4>1. /\ t = 0 /\ 0 \in Threads /\ tpc'[h][0] = "check" /\ ~done'[h]
            /\ main' = main /\ ios' = ios /\ how' = how /\ run' = run
        BY <1>1, <2>2 DEF SendClose, Typed
      <4>2. \A i : ClosingPart(i)' = ClosingPart(i)
        BY <4>1 DEF ClosingPart
      <4>3. \A x \in ConnsOf(h) : ~(conn[x].acks > 0)
        BY <1>1, <2>1, <4>1 DEF EndInv, AckInv, Answers
      <4>4. \A x \in ConnsOf(h)' : ~(conn'[x].acks > 0)
        BY <2>10, <4>3 DEF Posted, Grown
      <4>5. Taking(h, cl)
        BY <2>1 DEF EndInv, AckInv
      <4> QED BY <4>1, <4>2, <4>4, <4>5 DEF Answers, Taking
    <3> QED BY <1>1, <2>1, <3>1, <3>2, <3>3, HowKept DEF EndInv
  <2>18. \A s \in Threads : s > how.cpus => tpc'[h][s] = "none"
    BY <1>1, <1>4 DEF LiveInv
  <2>19. LiveInv(h, op, cl)'
    BY <1>1, <1>4, <2>1, <2>15, <2>16, <2>17, <2>18, HowKept DEF LiveInv, ClientInv, Threads
  <2> QED BY <1>1, <2>19, HowKept DEF HostInv, Live
<1>5. ~Fresh(h) /\ ~Short(h)
  BY <1>1, ShortOff DEF Fresh
<1> QED BY <1>2, <1>3, <1>4, <1>5 DEF HostInv, Live

-----------------------------------------------------------------------------
(* The server.  A connection is accepted.                                    *)
LEMMA AddHost ==
  ASSUME IInv, Typed, AddConnection, NEW h \in Hosts, HostInv(h)
  PROVE  HostInv(h)'
<1> DEFINE c == Head(backlog)
<1>1. /\ conn' = [conn EXCEPT ![c].accepted = TRUE] /\ ch' = Added(ch, c[1], NewHost)
      /\ how' = how /\ UNCHANGED client /\ filed' = filed /\ ended' = ended
  BY DEF AddConnection
<1> HIDE DEF c
<1>2. ASSUME NEW x \in SomeConnection
      PROVE  LET y == [x EXCEPT !.accepted = TRUE] IN y.up = x.up /\ y.acks = x.acks /\ y.accepted = TRUE
  BY DEF SomeConnection
<1>3. /\ ConnsOf(h)' = ConnsOf(h)
      /\ \A x \in ConnsOf(h) : /\ conn'[x].up = conn[x].up /\ conn'[x].acks = conn[x].acks
                               /\ conn'[x].accepted = IF x = c THEN TRUE ELSE conn[x].accepted
  BY <1>1, <1>2 DEF ConnsOf, IInv, Conns
<1>4. SameLines(h) /\ SameAcks(h) /\ SameClient(h) /\ SameData(h) /\ SameEnded(h)
  BY <1>1, <1>3 DEF SameLines, SameAcks, SameClient, SameData, SameEnded, client
<1>5. /\ c[1] = h => h \in DOMAIN ch'
      /\ h \in DOMAIN ch => h \in DOMAIN ch' /\ ch'[h] = ch[h]
      /\ h \notin DOMAIN ch /\ h \in DOMAIN ch' => ch'[h].cl_opens = 0 /\ ch'[h].devs = <<>>
  BY <1>1 DEF Added, NewHost
<1>51. Empty(h) => Empty(h)'
  BY <1>5 DEF Empty
<1>6. CASE Fresh(h)
  <2>1. Fresh(h)'
    BY <1>1, <1>3, <1>4, <1>51, <1>6, NoneFrame DEF Fresh, client, Threads
  <2> QED BY <2>1 DEF HostInv
<1>7. CASE Void(h)
  BY <1>1, <1>7, VoidStays DEF Void, client
<1>8. CASE Over(h)
  <2>1. Over(h)'
    BY <1>1, <1>3, <1>4, <1>51, <1>8, HowKept, KeysFrame, DataFrame DEF Over, client, Cpus
  <2> QED BY <2>1 DEF HostInv
<1>9. ASSUME NEW op, NEW cl, LinesInv(h, op, cl), cl \subseteq op
      PROVE  LinesInv(h, op, cl)'
  <2>1. LinesInv(h, op, cl) /\ cl \subseteq op
    BY <1>9
  <2>2. h \notin DOMAIN ch => op = {} /\ cl = {}
    BY <2>1, LineOfHost DEF LinesInv, ConnsOf
  <2>3. h \in DOMAIN ch' => ch'[h].cl_opens = Cardinality(op) - Cardinality(cl)
    <3>1. Cardinality({}) - Cardinality({}) = 0
      BY FS_EmptySet
    <3> QED BY <1>5, <2>1, <2>2, <3>1 DEF LinesInv
  <2>4. \A x \in ConnsOf(h) : conn'[x].accepted => h \in DOMAIN ch'
    BY <1>3, <1>5, <2>1 DEF LinesInv, ConnsOf
  <2>5. \A q \in op : LineOf(h, q) \in DOMAIN conn' /\ conn'[LineOf(h, q)].accepted
    <3>1. \A q \in op : LineOf(h, q) \in ConnsOf(h) /\ conn[LineOf(h, q)].accepted
      BY <2>1, LineOfHost DEF LinesInv, ConnsOf
    <3>2. ConnsOf(h) \subseteq DOMAIN conn'
      BY <1>3 DEF ConnsOf
    <3> QED BY <1>3, <3>1, <3>2
  <2>6. \A x, m : MessageInv(h, op, cl, x, m)' <=> MessageInv(h, op, cl, x, m)
    BY <1>1, <1>4, HowKept DEF MessageInv, SameLines
  <2>7. \A v : QueueInv(v)' <=> QueueInv(v)
    BY DEF QueueInv
  <2>8. \A q : LineOf(h, q)' = LineOf(h, q)
    BY <1>1, <1>4, HowKept DEF SameLines
  <2> QED BY <1>1, <1>3, <2>1, <2>3, <2>4, <2>5, <2>6, <2>7, <2>8, HowKept DEF LinesInv
<1>10. ASSUME NEW op \in SUBSET Parts, NEW cl \in SUBSET Parts, LiveInv(h, op, cl)
       PROVE  HostInv(h)'
  <2>1. LinesInv(h, op, cl)'
    BY <1>9, <1>10 DEF LiveInv
  <2>2. LiveInv(h, op, cl)'
    BY <1>1, <1>4, <1>10, <2>1, BytesFrame, KeysFrame, ClientFrame, HowKept DEF LiveInv, client, Threads
  <2> QED BY <1>1, <2>2, HowKept DEF HostInv, Live
<1>11. ASSUME NEW op \in SUBSET Parts, NEW cl \in SUBSET Parts, NEW q \in Parts, ShortInv(h, op, cl, q)
       PROVE  HostInv(h)'
  <2>1. LinesInv(h, op, cl)'
    BY <1>9, <1>11 DEF ShortInv
  <2>2. ShortInv(h, op, cl, q)'
    BY <1>1, <1>4, <1>11, <2>1, UnclosedFrame DEF ShortInv, client, Threads
  <2> QED BY <1>1, <2>2, HowKept DEF HostInv, Short
<1> QED BY <1>6, <1>7, <1>8, <1>10, <1>11 DEF HostInv, Live, Short

(* A message is taken: what is left of the queues.                           *)
Smaller(h) ==
  /\ run'[h] = run[h] /\ ConnsOf(h)' = ConnsOf(h)
  /\ \A x \in ConnsOf(h) : \A i \in DOMAIN conn'[x].up :
       \E j \in DOMAIN conn[x].up : conn'[x].up[i] = conn[x].up[j]
TakenFrom(h, c, n) ==
  /\ c \in ConnsOf(h) /\ conn[c].up \in Seq(Message) /\ conn[c].up # <<>> /\ conn[c].accepted
  /\ run'[h] = run[h] /\ ConnsOf(h)' = ConnsOf(h)
  /\ \A x \in ConnsOf(h) : x # c => conn'[x] = conn[x]
  /\ conn'[c].up = Tail(conn[c].up) /\ conn'[c].acks = conn[c].acks + n
  /\ conn'[c].accepted = conn[c].accepted
PartOf(c) == <<c[3], NextMessage(c).dev>>

LEMMA TakenIs ==
  ASSUME IInv, NEW c \in DOMAIN conn, NEW n, run' = run, conn' = Taken(c, n), conn[c].up # <<>>, conn[c].accepted
  PROVE  TakenFrom(c[1], c, n)
<1>1. conn[c].up \in Seq(Message)
  BY DEF IInv, Conns, SomeConnection
<1> QED BY <1>1 DEF Taken, TakenFrom, ConnsOf

LEMMA SmallerTaken ==
  ASSUME NEW h, NEW c, NEW n, TakenFrom(h, c, n)
  PROVE  Smaller(h)
<1>1. PICK u \in Seq(Message) : u = conn[c].up /\ u # <<>>
  BY DEF TakenFrom
<1>2. \A i \in 1..Len(Tail(u)) : i + 1 \in 1..Len(u) /\ Tail(u)[i] = u[i + 1]
  <2>1. Len(u) \in Nat \ {0} /\ Len(Tail(u)) = Len(u) - 1
    BY <1>1
  <2>2. \A i \in 1..(Len(u) - 1) : Tail(u)[i] = u[i + 1]
    BY <1>1
  <2> QED BY <2>1, <2>2
<1>3. \A i \in DOMAIN Tail(u) : i + 1 \in DOMAIN u /\ Tail(u)[i] = u[i + 1]
  <2>1. DOMAIN u = 1..Len(u) /\ DOMAIN Tail(u) = 1..Len(Tail(u))
    BY <1>1
  <2> QED BY <1>2, <2>1
<1>4. ASSUME NEW x \in ConnsOf(h), NEW i \in DOMAIN conn'[x].up
      PROVE  \E j \in DOMAIN conn[x].up : conn'[x].up[i] = conn[x].up[j]
  <2>1. CASE x = c
    <3>1. conn'[x].up = Tail(u)
      BY <1>1, <2>1 DEF TakenFrom
    <3> QED BY <1>1, <1>3, <1>4, <2>1, <3>1
  <2>2. CASE x # c
    BY <1>4, <2>2 DEF TakenFrom
  <2> QED BY <2>1, <2>2
<1> QED BY <1>4 DEF TakenFrom, Smaller

LEMMA UntouchedSmaller ==
  ASSUME how' = how, NEW h, Smaller(h), NEW op, NEW new, NEW p, Untouched(h, op, p), p \notin new
  PROVE  Untouched(h, new, p)'
<1>1. LineOf(h, p)' = LineOf(h, p) /\ LineOf(h, p)[1] = h
  BY HowKept, LineOfHost DEF Smaller
<1> QED BY <1>1, HowKept DEF Untouched, Smaller, ConnsOf

LEMMA UnclosedSmaller ==
  ASSUME NEW h, Smaller(h), NEW cl, NEW new, NEW p, Unclosed(h, cl, p), p \notin new
  PROVE  Unclosed(h, new, p)'
BY DEF Unclosed, Smaller

(* The messages left are as before, and none of them opens the part of the   *)
(* one that was taken, or follows its close.                                 *)
LEMMA MessagesLeft ==
  ASSUME NEW h, NEW c, NEW n, TakenFrom(h, c, n), NEW op, NEW cl, LinesInv(h, op, cl),
         NEW x \in ConnsOf(h)
  PROVE  /\ QueueInv(conn'[x].up)
         /\ \A i \in DOMAIN conn'[x].up :
              /\ MessageInv(h, op, cl, x, conn'[x].up[i])
              /\ <<x[3], conn'[x].up[i].dev>> = PartOf(c) =>
                   NextMessage(c).type # "close" /\ conn'[x].up[i].type # "open"
<1>1. QueueInv(conn[x].up) /\ \A i \in DOMAIN conn[x].up : MessageInv(h, op, cl, x, conn[x].up[i])
  BY DEF LinesInv
<1>2. 1 \in DOMAIN conn[c].up /\ c = LineOf(h, PartOf(c))
  <2>1. 1 \in DOMAIN conn[c].up
    BY DEF TakenFrom
  <2>2. MessageInv(h, op, cl, c, conn[c].up[1])
    BY <2>1 DEF LinesInv, TakenFrom
  <2> QED BY <2>1, <2>2 DEF MessageInv, PartOf, NextMessage
<1>3. CASE x = c
  <2>1. /\ conn'[c].up = Tail(conn[c].up) /\ \A i \in DOMAIN conn'[c].up : i \in Nat /\ i >= 1
        /\ \A i \in DOMAIN conn'[c].up : i + 1 \in DOMAIN conn[c].up /\ conn'[c].up[i] = conn[c].up[i + 1]
    BY HeadTailProperties DEF TakenFrom
  <2>2. QueueInv(conn'[c].up)
    BY <1>1, <1>3, <2>1 DEF QueueInv
  <2>3. ASSUME NEW i \in DOMAIN conn'[c].up, conn'[c].up[i].dev = NextMessage(c).dev
        PROVE  NextMessage(c).type # "close" /\ conn'[c].up[i].type # "open"
    <3>1. 1 < i + 1
      BY <2>1
    <3> QED BY <1>1, <1>2, <1>3, <2>1, <2>3, <3>1 DEF QueueInv, NextMessage
  <2> QED BY <1>1, <1>3, <2>1, <2>2, <2>3 DEF PartOf
<1>4. CASE x # c
  <2>1. conn'[x] = conn[x]
    BY <1>4 DEF TakenFrom
  <2>2. ASSUME NEW i \in DOMAIN conn[x].up PROVE <<x[3], conn[x].up[i].dev>> # PartOf(c)
    BY <1>1, <1>2, <1>4 DEF MessageInv
  <2> QED BY <1>1, <2>1, <2>2
<1> QED BY <1>3, <1>4

LEMMA TakenPart ==
  ASSUME NEW h, NEW c, NEW n, TakenFrom(h, c, n), NEW op, NEW cl, LinesInv(h, op, cl)
  PROVE  /\ NextMessage(c) \in Message /\ MessageInv(h, op, cl, c, NextMessage(c))
         /\ PartOf(c) \in Parts \ cl /\ c = LineOf(h, PartOf(c)) /\ h \in DOMAIN ch
<1>1. 1 \in DOMAIN conn[c].up /\ NextMessage(c) = conn[c].up[1] /\ conn[c].up[1] \in Message
  BY DEF TakenFrom, NextMessage
<1>2. MessageInv(h, op, cl, c, NextMessage(c))
  BY <1>1 DEF LinesInv, TakenFrom
<1> QED BY <1>1, <1>2 DEF MessageInv, PartOf, LinesInv, TakenFrom

LEMMA BytesTaken ==
  ASSUME IInv, how' = how, NEW h, NEW c, NEW n, TakenFrom(h, c, n), NEW op, NEW cl, LinesInv(h, op, cl), BytesInv(h),
         \A p \in Parts : SentOf(h, p)' = SentOf(h, p) /\
           FiledOf(h, p)' = IF p = PartOf(c) THEN FiledOf(h, p) + Share(NextMessage(c), p[2]) ELSE FiledOf(h, p)
  PROVE  BytesInv(h)'
<1> DEFINE m == NextMessage(c)
           q == PartOf(c)
<1>1. q \in Parts /\ c = LineOf(h, q) /\ q[2] = m.dev /\ c \in DOMAIN conn /\ conn[c].up[1] = m
  <2>1. q \in Parts /\ c = LineOf(h, q)
    BY TakenPart
  <2>2. q[2] = m.dev /\ c \in DOMAIN conn /\ conn[c].up[1] = m
    BY DEF PartOf, TakenFrom, ConnsOf, NextMessage
  <2> QED BY <2>1, <2>2
<1> HIDE DEF m, q
<1>2. ASSUME NEW p \in Parts PROVE AddsUp(Up(h, p)', p[2], FiledOf(h, p)', SentOf(h, p))
  <2>0. LineOf(h, p)' = LineOf(h, p) /\ LineOf(h, p)[1] = h
    BY HowKept, LineOfHost DEF TakenFrom
  <2>1. AddsUp(Up(h, p), p[2], FiledOf(h, p), SentOf(h, p))
    BY DEF BytesInv
  <2>2. FiledOf(h, p) \in Int
    <3>1. Len(Up(h, p)) \in Nat
      BY UpSeq DEF IInv
    <3> QED BY <2>1, <3>1 DEF AddsUp
  <2>3. CASE LineOf(h, p) = c
    <3>1. Up(h, p) = conn[c].up /\ Up(h, p)' = Tail(conn[c].up)
      BY <1>1, <2>0, <2>3 DEF Up, TakenFrom, ConnsOf
    <3>2. AddsUp(Tail(conn[c].up), p[2], FiledOf(h, p) + Share(m, p[2]), SentOf(h, p))
      BY <1>1, <2>1, <3>1, AddsUpTail DEF TakenFrom
    <3>3. FiledOf(h, p)' = FiledOf(h, p) + Share(m, p[2])
      <4>1. CASE p = q
        BY <4>1 DEF m, q
      <4>2. CASE p # q
        <5>1. p[2] # m.dev
          BY <1>1, <2>3, <4>2, SameLine, PartPair
        <5>2. Share(m, p[2]) = 0
          BY <5>1 DEF Share
        <5> QED BY <2>2, <4>2, <5>2 DEF q
      <4> QED BY <4>1, <4>2
    <3> QED BY <3>1, <3>2, <3>3
  <2>4. CASE LineOf(h, p) # c
    <3>1. Up(h, p)' = Up(h, p)
      BY <2>0, <2>4 DEF Up, TakenFrom, ConnsOf
    <3>2. p # q
      BY <1>1, <2>4
    <3> QED BY <2>1, <3>1, <3>2 DEF q
  <2> QED BY <2>3, <2>4
<1>3. \A u, d, a, b : AddsUp(u, d, a, b)' <=> AddsUp(u, d, a, b)
  BY DEF AddsUp, Share
<1> QED BY <1>2, <1>3, HowKept DEF BytesInv


LEMMA OpensHost ==
  ASSUME IInv, Typed, NEW c \in DOMAIN conn, ClientOpens(c), NEW h, h = c[1], HostInv(h)
  PROVE  HostInv(h)'
<1> DEFINE m == NextMessage(c)
           q == PartOf(c)
<1>1. /\ m.type = "open" /\ conn[c].up # <<>> /\ conn[c].accepted /\ conn' = Taken(c, 1) /\ Counting(c, 1)
      /\ how' = how /\ UNCHANGED client /\ filed' = filed /\ ended' = ended
  BY DEF ClientOpens, Received
<1>2. TakenFrom(h, c, 1)
  BY <1>1, TakenIs DEF client
<1>3. ~Fresh(h) /\ ~Over(h)
  BY <1>2 DEF TakenFrom, Fresh, Over
<1>4. CASE Void(h)
  BY <1>1, <1>4, VoidStays DEF Void, client
<1>5. ASSUME NEW op \in SUBSET Parts, NEW cl \in SUBSET Parts, LinesInv(h, op, cl), cl \subseteq op,
             NEW new, new = op \cup {q}
      PROVE  new \in SUBSET Parts /\ LinesInv(h, new, cl)'
  <2>1. LinesInv(h, op, cl)
    BY <1>5
  <2>2. /\ m \in Message /\ q \in Parts \ cl /\ c = LineOf(h, q) /\ h \in DOMAIN ch /\ q \notin op
        /\ q[1] = c[3] /\ q[2] = m.dev
    BY <1>1, <1>2, <2>1, TakenPart DEF MessageInv, PartOf
  <2>3. Smaller(h) /\ c \in ConnsOf(h)
    BY <1>2, SmallerTaken DEF TakenFrom
  <2>4. new = op \cup {q}
    BY <1>5
  <2>5. new \in SUBSET Parts /\ cl \subseteq new /\ Cardinality(new) = Cardinality(op) + 1
    <3>1. IsFiniteSet(op)
      BY PartsFinite DEF IInv
    <3>2. q \in Parts /\ q \notin op
      BY <2>2
    <3> HIDE DEF q
    <3>3. Cardinality(op \cup {q}) = Cardinality(op) + 1
      BY <3>1, <3>2, FS_AddElement
    <3>4. new \in SUBSET Parts /\ cl \subseteq new
      BY <1>5, <2>4, <3>2
    <3> QED BY <2>4, <3>3, <3>4
  <2>6. \A x \in ConnsOf(h) : QueueInv(conn'[x].up) /\
          \A i \in DOMAIN conn'[x].up : MessageInv(h, new, cl, x, conn'[x].up[i])
    <3>1. ASSUME NEW x \in ConnsOf(h), NEW i \in DOMAIN conn'[x].up
          PROVE  MessageInv(h, new, cl, x, conn'[x].up[i])
      <4>1. /\ MessageInv(h, op, cl, x, conn'[x].up[i])
            /\ <<x[3], conn'[x].up[i].dev>> = q => conn'[x].up[i].type # "open"
        BY <1>2, <2>1, MessagesLeft
      <4>2. op # Parts
        BY <2>2
      <4> HIDE DEF q
      <4> QED BY <2>4, <4>1, <4>2 DEF MessageInv
    <3> QED BY <1>2, <2>1, <3>1, MessagesLeft
  <2>7. h \in DOMAIN ch' /\ ch'[h].cl_opens = ch[h].cl_opens + 1
    BY <1>1, <2>2 DEF Counting
  <2>8. LinesInv(h, new, cl)'
    <3>1. \A x, w : MessageInv(h, new, cl, x, w)' <=> MessageInv(h, new, cl, x, w)
      BY <1>1, HowKept DEF MessageInv, client
    <3>2. \A v : QueueInv(v)' <=> QueueInv(v)
      BY DEF QueueInv
    <3>3. ConnsOf(h)' = ConnsOf(h) /\ \A x \in ConnsOf(h) : conn'[x].accepted = conn[x].accepted
      BY <1>2 DEF TakenFrom
    <3>4. \A p \in new : LineOf(h, p) \in DOMAIN conn' /\ conn'[LineOf(h, p)].accepted
      <4>1. \A p \in new : LineOf(h, p) \in ConnsOf(h) /\ conn[LineOf(h, p)].accepted
        BY <1>1, <2>1, <2>2, <2>3, <2>4, LineOfHost DEF LinesInv, ConnsOf
      <4>2. ConnsOf(h) \subseteq DOMAIN conn'
        BY <3>3 DEF ConnsOf
      <4> QED BY <3>3, <4>1, <4>2
    <3>5. \A x \in ConnsOf(h) : \E p \in Parts : x = LineOf(h, p)
      BY <2>1 DEF LinesInv
    <3>6. ch'[h].cl_opens = Cardinality(new) - Cardinality(cl)
      <4>1. Cardinality(op) \in Nat /\ Cardinality(cl) \in Nat
        BY PartsFinite DEF IInv
      <4> QED BY <2>1, <2>2, <2>5, <2>7, <4>1 DEF LinesInv
    <3>7. \A p : LineOf(h, p)' = LineOf(h, p)
      BY <1>1, HowKept DEF client
    <3> QED BY <1>1, <2>6, <2>7, <3>1, <3>2, <3>3, <3>4, <3>5, <3>6, <3>7, HowKept DEF LinesInv
  <2> QED BY <2>4, <2>5, <2>8
<1>6. ASSUME NEW op \in SUBSET Parts, NEW cl \in SUBSET Parts, LiveInv(h, op, cl)
      PROVE  HostInv(h)'
  <2>1. LinesInv(h, op, cl) /\ BytesInv(h) /\ KeysInv(h) /\ ClientInv(h, op, cl) /\ cl \subseteq op
    BY <1>6 DEF LiveInv
  <2>2. /\ q \in Parts \ cl /\ c = LineOf(h, q) /\ q \notin op
        /\ q[1] = c[3] /\ q[2] = m.dev
    BY <1>1, <1>2, <2>1, TakenPart DEF MessageInv, PartOf
  <2>3. Smaller(h) /\ c \in ConnsOf(h)
    BY <1>2, SmallerTaken DEF TakenFrom
  <2>4. PICK new : new = op \cup {q}
    OBVIOUS
  <2>5. new \in SUBSET Parts /\ cl \subseteq new
    BY <2>1, <2>2, <2>4
  <2>8. LinesInv(h, new, cl)'
    BY <1>5, <2>1, <2>4
  <2>9. BytesInv(h)' /\ KeysInv(h)' /\ (NoneOf(h, sent) => NoneOf(h, sent)')
    <3>1. \A p : SentOf(h, p)' = SentOf(h, p) /\ FiledOf(h, p)' = FiledOf(h, p)
      BY <1>1, NothingFiled DEF client
    <3>2. \A p : Share(m, p[2]) = 0
      BY <1>1 DEF Share
    <3>3. \A p \in Parts : FiledOf(h, p) \in Int
      <4>1. \A p : Len(Up(h, p)) \in Nat
        BY UpSeq DEF IInv
      <4> QED BY <2>1, <4>1 DEF BytesInv, AddsUp
    <3>4. BytesInv(h)'
      BY <1>1, <1>2, <2>1, <3>1, <3>2, <3>3, BytesTaken
    <3> QED BY <1>1, <2>1, <3>4, HowKept DEF KeysInv, NoneOf, client
  <2>10. ~EndInv(h, op, cl)
    BY <2>2 DEF EndInv
  <2>11. ASSUME StartInv(h, op, cl) PROVE StartInv(h, new, cl)'
    <3>1. OnlyOpens(h)'
      BY <2>3, <2>11 DEF StartInv, OnlyOpens, Smaller
    <3>2. Unconnected(h)' = Unconnected(h)
      <4>1. DOMAIN conn' = DOMAIN conn
        BY <1>1 DEF Taken
      <4> QED BY <1>1, <4>1, HowKept DEF Unconnected, client
    <3>3. \A p : p # q /\ Untouched(h, op, p) => Untouched(h, new, p)'
      <4> SUFFICES ASSUME NEW p, p # q, Untouched(h, op, p) PROVE Untouched(h, new, p)'
        OBVIOUS
      <4>1. p \notin new
        BY <2>4 DEF Untouched
      <4> QED BY <1>1, <2>3, <4>1, UntouchedSmaller
    <3>4. ~Untouched(h, op, q)
      <4>1. 1 \in DOMAIN conn[c].up /\ conn[c].up[1] = m
        BY <1>2 DEF TakenFrom, NextMessage
      <4> QED BY <2>2, <2>3, <4>1 DEF Untouched
    <3>5. \A s \in CpusUsed : OpeningInv(h, s, new)'
      <4> SUFFICES ASSUME NEW s \in CpusUsed PROVE OpeningInv(h, s, new)'
        OBVIOUS
      <4>1. OpeningInv(h, s, op) /\ how.devs \in Nat \ {0}
        BY <2>11, Ways_ DEF StartInv, IInv
      <4>2. \A p : LineOf(h, p)' = LineOf(h, p) /\ (LineOf(h, p) \in DOMAIN conn' <=> LineOf(h, p) \in DOMAIN conn)
        BY <1>1, HowKept DEF Taken, client
      <4>3. ASSUME s = c[3] PROVE tpc[h][s] = "answer" /\ <<s, ios[h][s]>> = q
        <5>1. q = <<s, q[2]>> /\ q[2] \in 1..how.devs
          BY <2>2, <4>3 DEF Parts, PartOf
        <5>2. ~Untouched(h, op, <<s, q[2]>>) /\ <<s, q[2]>> \notin op
          BY <2>2, <3>4, <5>1
        <5> HIDE DEF q
        <5> QED BY <4>1, <5>1, <5>2 DEF OpeningInv
      <4>4. ASSUME NEW x \in ConnsOf(h), x[3] = s, conn'[x].acks > 0
            PROVE  tpc[h][s] = "answer" /\ conn'[x].acks = 1 /\ x = LineOf(h, <<s, ios[h][s]>>) /\ <<s, ios[h][s]>> \in new
        <5>1. CASE x = c
          <6>1. conn'[x].acks = conn[c].acks + 1 /\ conn[c].acks \in Int
            BY <1>2, <5>1 DEF TakenFrom, IInv, Conns, SomeConnection
          <6>2. tpc[h][s] = "answer" /\ <<s, ios[h][s]>> = q
            BY <4>3, <4>4, <5>1
          <6>3. ~(conn[c].acks > 0)
            BY <2>2, <2>3, <4>1, <4>4, <5>1, <6>2 DEF OpeningInv
          <6> QED BY <2>2, <2>4, <4>4, <5>1, <6>1, <6>2, <6>3
        <5>2. CASE x # c
          <6>1. conn'[x] = conn[x]
            BY <1>2, <5>2 DEF TakenFrom
          <6> QED BY <2>4, <4>1, <4>4, <6>1 DEF OpeningInv
        <5> QED BY <5>1, <5>2
      <4>5. \A p : p \in op \/ p = q => p \in new
        BY <2>4
      <4>6. \A p : Untouched(h, op, p) => Untouched(h, new, p)'
        BY <3>3, <3>4
      <4>7. tpc' = tpc /\ ios' = ios /\ ConnsOf(h)' = ConnsOf(h)
        BY <1>1, <1>2 DEF client, TakenFrom
      <4> HIDE DEF q
      <4> QED BY <1>1, <4>1, <4>2, <4>4, <4>5, <4>6, <4>7 DEF OpeningInv
    <3> QED BY <1>1, <2>9, <2>11, <3>1, <3>2, <3>5, HowKept DEF StartInv, client
  <2>12. LiveInv(h, new, cl)'
    BY <1>1, <1>6, <2>5, <2>8, <2>9, <2>10, <2>11, HowKept DEF LiveInv, ClientInv, client, Threads
  <2> QED BY <1>1, <2>5, <2>12, HowKept DEF HostInv, Live
<1>7. ASSUME NEW op \in SUBSET Parts, NEW cl \in SUBSET Parts, NEW p \in Parts, ShortInv(h, op, cl, p)
      PROVE  HostInv(h)'
  <2>1. PICK new : new = op \cup {q}
    OBVIOUS
  <2>2. new \in SUBSET Parts /\ cl \subseteq new /\ LinesInv(h, new, cl)'
    BY <1>5, <1>7, <2>1 DEF ShortInv
  <2>3. Unclosed(h, cl, p)'
    BY <1>2, <1>7, SmallerTaken, UnclosedSmaller DEF ShortInv, Unclosed
  <2>4. ShortInv(h, new, cl, p)'
    BY <1>1, <1>7, <2>2, <2>3 DEF ShortInv, client, Threads
  <2> QED BY <1>1, <2>2, <2>4, HowKept DEF HostInv, Short
<1> QED BY <1>3, <1>4, <1>6, <1>7 DEF HostInv, Live, Short

LEMMA LinesTaken ==
  ASSUME how' = how, NEW h, NEW c, NEW n, TakenFrom(h, c, n), NEW op, NEW cl, NEW new, LinesInv(h, op, cl),
         new = cl \/ (NextMessage(c).type = "close" /\ new = cl \cup {PartOf(c)}),
         h \in DOMAIN ch' /\ ch'[h].cl_opens = Cardinality(op) - Cardinality(new)
  PROVE  LinesInv(h, op, new)'
<1>1. ConnsOf(h)' = ConnsOf(h) /\ \A x \in ConnsOf(h) : conn'[x].accepted = conn[x].accepted
  BY DEF TakenFrom
<1>2. \A x \in ConnsOf(h) : QueueInv(conn'[x].up) /\
        \A i \in DOMAIN conn'[x].up : MessageInv(h, op, new, x, conn'[x].up[i])
  <2>1. ASSUME NEW x \in ConnsOf(h), NEW i \in DOMAIN conn'[x].up
        PROVE  MessageInv(h, op, new, x, conn'[x].up[i])
    <3>1. /\ MessageInv(h, op, cl, x, conn'[x].up[i])
          /\ <<x[3], conn'[x].up[i].dev>> = PartOf(c) => NextMessage(c).type # "close"
      BY MessagesLeft
    <3>2. <<x[3], conn'[x].up[i].dev>> \notin new
      BY <3>1 DEF MessageInv
    <3> QED BY <3>1, <3>2 DEF MessageInv
  <2> QED BY <2>1, MessagesLeft
<1>3. \A x, w : MessageInv(h, op, new, x, w)' <=> MessageInv(h, op, new, x, w)
  BY HowKept DEF MessageInv, TakenFrom
<1>4. \A v : QueueInv(v)' <=> QueueInv(v)
  BY DEF QueueInv
<1>5. \A p \in op : LineOf(h, p) \in DOMAIN conn' /\ conn'[LineOf(h, p)].accepted
  <2>1. \A p \in op : LineOf(h, p) \in ConnsOf(h) /\ conn[LineOf(h, p)].accepted
    BY LineOfHost DEF LinesInv, ConnsOf
  <2>2. ConnsOf(h) \subseteq DOMAIN conn'
    BY <1>1 DEF ConnsOf
  <2> QED BY <1>1, <2>1, <2>2
<1>6. \A x \in ConnsOf(h) : \E p \in Parts : x = LineOf(h, p)
  BY DEF LinesInv
<1>7. \A p : LineOf(h, p)' = LineOf(h, p)
  BY HowKept DEF TakenFrom
<1> QED BY <1>1, <1>2, <1>3, <1>4, <1>5, <1>6, <1>7, HowKept DEF LinesInv

LEMMA EndTaken ==
  ASSUME how' = how, NEW h, Smaller(h), UNCHANGED client, NEW op, NEW cl, NEW new,
         EndInv(h, op, cl), AckInv(h, new)', \A p \in ToClose(h) : p \notin new
  PROVE  EndInv(h, op, new)'
<1>1. main' = main /\ tpc' = tpc /\ ios' = ios
  BY DEF client
<1>2. ToClose(h)' = ToClose(h)
  BY <1>1, HowKept DEF ToClose, Remaining, ClosingPart
<1>3. \A p \in ToClose(h) : Unclosed(h, new, p)'
  <2> SUFFICES ASSUME NEW p \in ToClose(h) PROVE Unclosed(h, new, p)'
    OBVIOUS
  <2>1. Unclosed(h, cl, p)
    BY DEF EndInv
  <2> QED BY <2>1, UnclosedSmaller
<1>4. ClosingInv(h)'
  BY <1>1, HowKept DEF EndInv, ClosingInv
<1> QED BY <1>2, <1>3, <1>4, HowKept DEF EndInv

LEMMA ReadHost ==
  ASSUME IInv, Typed, NEW c \in DOMAIN conn, ReadData(c), NEW h, h = c[1], HostInv(h)
  PROVE  HostInv(h)'
<1> DEFINE m == NextMessage(c)
           q == PartOf(c)
<1>1. /\ m.type = "data" /\ conn[c].up # <<>> /\ conn[c].accepted /\ conn' = Taken(c, 0)
      /\ how' = how /\ UNCHANGED client /\ ended' = ended
      /\ filed' = Counted(filed, c[1], c[2], c[3], m.dev, m.len)
      /\ DOMAIN ch' = DOMAIN ch /\ (h \in DOMAIN ch => ch'[h].cl_opens = ch[h].cl_opens)
  <2> DEFINE devs == [FindDpp(ch[c[1]].devs, m.dev, c[2]) EXCEPT ![m.dev] = Filled(@, c, m.told, m.len)]
  <2>1. ch' = [ch EXCEPT ![c[1]].devs = devs]
    BY DEF ReadData
  <2> HIDE DEF devs
  <2>2. h \in DOMAIN ch => ch[h] \in Host
    BY DEF IInv, HostsSound
  <2>3. DOMAIN ch' = DOMAIN ch /\ (h \in DOMAIN ch => ch'[h].cl_opens = ch[h].cl_opens)
    BY <2>1, <2>2 DEF Host
  <2> QED BY <2>3 DEF ReadData, Received
<1>2. TakenFrom(h, c, 0)
  BY <1>1, TakenIs DEF client
<1>3. ~Fresh(h) /\ ~Over(h)
  BY <1>2 DEF TakenFrom, Fresh, Over
<1>4. CASE Void(h)
  BY <1>1, <1>4, VoidStays DEF Void, client
<1>5. ASSUME NEW op \in SUBSET Parts, NEW cl \in SUBSET Parts, LiveInv(h, op, cl)
      PROVE  HostInv(h)'
  <2>1. LinesInv(h, op, cl) /\ BytesInv(h) /\ KeysInv(h) /\ ClientInv(h, op, cl)
    BY <1>5 DEF LiveInv
  <2>2. /\ m \in Message /\ q \in Parts \ cl /\ c = LineOf(h, q) /\ h \in DOMAIN ch
        /\ q[1] = c[3] /\ q[2] = m.dev /\ c[1] = h /\ c[2] = run[h]
    <3>1. m \in Message /\ q \in Parts \ cl /\ c = LineOf(h, q) /\ h \in DOMAIN ch
      BY <1>2, <2>1, TakenPart
    <3>2. c[1] = h /\ c[2] = run[h]
      <4> HIDE DEF q
      <4> QED BY <3>1, LineOfHost
    <3> QED BY <3>1, <3>2 DEF PartOf
  <2>3. Smaller(h)
    BY <1>2, SmallerTaken
  <2>4. LinesInv(h, op, cl)'
    <3>1. ch'[h].cl_opens = Cardinality(op) - Cardinality(cl)
      BY <1>1, <2>1, <2>2 DEF LinesInv
    <3> QED BY <1>1, <1>2, <2>1, <2>2, <3>1, LinesTaken
  <2>5. BytesInv(h)' /\ KeysInv(h)'
    <3>1. \A p : SentOf(h, p)' = SentOf(h, p)
      BY <1>1 DEF client, SentOf, Bytes
    <3>2. \A p \in Parts : p = q <=> p[1] = c[3] /\ p[2] = m.dev
      BY <2>2, PartPair
    <3>3. Share(m, q[2]) = m.len
      BY <1>1, <2>2 DEF Share
    <3> HIDE DEF m, q
    <3>4. \A p \in Parts : FiledOf(h, p)' = IF p = q THEN FiledOf(h, p) + Share(m, p[2]) ELSE FiledOf(h, p)
      BY <1>1, <2>2, <3>2, <3>3, CountedAt DEF FiledOf, client
    <3>5. BytesInv(h)'
      BY <1>1, <1>2, <2>1, <3>1, <3>4, BytesTaken DEF m, q
    <3> QED BY <1>1, <2>1, <3>5, HowKept DEF KeysInv, client
  <2>6. ~StartInv(h, op, cl)
    <3>1. 1 \in DOMAIN conn[c].up /\ conn[c].up[1] = m /\ c \in ConnsOf(h)
      BY <1>2 DEF TakenFrom, NextMessage
    <3> QED BY <1>1, <3>1 DEF StartInv, OnlyOpens
  <2>7. EndInv(h, op, cl) => EndInv(h, op, cl)'
    <3> SUFFICES ASSUME EndInv(h, op, cl) PROVE EndInv(h, op, cl)'
      OBVIOUS
    <3>1. \A p \in ToClose(h) : p \notin cl
      BY DEF EndInv, Unclosed
    <3>2. AckInv(h, cl)'
      <4>1. ConnsOf(h)' = ConnsOf(h) /\ \A x \in ConnsOf(h) : conn'[x].acks = conn[x].acks
        <5>1. conn[c].acks \in Int
          BY DEF IInv, Conns, SomeConnection
        <5> QED BY <1>2, <5>1 DEF TakenFrom
      <4>2. \A i : ClosingPart(i)' = ClosingPart(i) /\ LineOf(h, ClosingPart(i))' = LineOf(h, ClosingPart(i))
        BY <1>1, HowKept DEF ClosingPart, LineOf, client
      <4>3. Answers(h, cl) => Answers(h, cl)'
        BY <1>1, <4>1, <4>2 DEF Answers, client
      <4>4. Taking(h, cl) => Taking(h, cl)'
        BY <1>1, <4>2 DEF Taking, client
      <4> QED BY <1>1, <4>3, <4>4, HowKept DEF EndInv, AckInv
    <3> QED BY <1>1, <2>3, <3>1, <3>2, EndTaken
  <2>8. LiveInv(h, op, cl)'
    BY <1>1, <1>5, <2>4, <2>5, <2>6, <2>7, HowKept DEF LiveInv, ClientInv, client, Threads
  <2> QED BY <1>1, <2>8, HowKept DEF HostInv, Live
<1>6. ASSUME NEW op \in SUBSET Parts, NEW cl \in SUBSET Parts, NEW p \in Parts, ShortInv(h, op, cl, p)
      PROVE  HostInv(h)'
  <2>1. LinesInv(h, op, cl) /\ h \in DOMAIN ch
    BY <1>2, <1>6, TakenPart DEF ShortInv
  <2>2. ch'[h].cl_opens = Cardinality(op) - Cardinality(cl)
    BY <1>1, <2>1 DEF LinesInv
  <2>3. LinesInv(h, op, cl)'
    BY <1>1, <1>2, <2>1, <2>2, LinesTaken
  <2>4. Unclosed(h, cl, p)'
    BY <1>2, <1>6, SmallerTaken, UnclosedSmaller DEF ShortInv, Unclosed
  <2>5. ShortInv(h, op, cl, p)'
    BY <1>1, <1>6, <2>3, <2>4 DEF ShortInv, client, Threads
  <2> QED BY <1>1, <2>5, HowKept DEF HostInv, Short
<1> QED BY <1>3, <1>4, <1>5, <1>6 DEF HostInv, Live, Short

(* The last close of a host: every queue but the one it came from is empty.  *)
LEMMA LastOfAll ==
  ASSUME IInv, NEW h, NEW op, NEW cl, LinesInv(h, op, cl), BytesInv(h),
         NEW c \in ConnsOf(h), conn[c].up # <<>>, NextMessage(c).type = "close",
         Parts \subseteq cl \cup {PartOf(c)}
  PROVE  \A p \in Parts : SentOf(h, p) = FiledOf(h, p)
<1> DEFINE q == PartOf(c)
<1>1. \A x \in ConnsOf(h) : conn[x].up \in Seq(Message)
  BY DEF IInv, Conns, SomeConnection, ConnsOf
<1>2. \A x \in ConnsOf(h) : \A i \in DOMAIN conn[x].up :
        /\ <<x[3], conn[x].up[i].dev>> = q
        /\ x = LineOf(h, q)
  <2> SUFFICES ASSUME NEW x \in ConnsOf(h), NEW i \in DOMAIN conn[x].up
               PROVE  <<x[3], conn[x].up[i].dev>> = q /\ x = LineOf(h, q)
    OBVIOUS
  <2>1. MessageInv(h, op, cl, x, conn[x].up[i])
    BY DEF LinesInv
  <2>2. <<x[3], conn[x].up[i].dev>> \in Parts \ cl /\ x = LineOf(h, <<x[3], conn[x].up[i].dev>>)
    BY <2>1 DEF MessageInv
  <2>3. <<x[3], conn[x].up[i].dev>> = q
    BY <2>2
  <2> HIDE DEF q
  <2> QED BY <2>2, <2>3
<1>3. 1 \in DOMAIN conn[c].up /\ conn[c].up[1].type = "close" /\ Len(conn[c].up) \in Nat
  BY <1>1 DEF NextMessage
<1>4. Len(conn[c].up) = 1
  <2> SUFFICES ASSUME Len(conn[c].up) # 1 PROVE FALSE
    OBVIOUS
  <2>1. 2 \in DOMAIN conn[c].up
    <3>1. PICK n \in Nat : Len(conn[c].up) = n
      BY <1>3
    <3>2. DOMAIN conn[c].up = 1..n
      BY <1>1, <3>1
    <3> HIDE DEF q
    <3> QED BY <1>3, <3>1, <3>2
  <2>2. conn[c].up[1].dev = conn[c].up[2].dev
    <3>1. <<c[3], conn[c].up[1].dev>> = <<c[3], conn[c].up[2].dev>>
      BY <1>2, <1>3, <2>1
    <3> QED BY <3>1
  <2>3. QueueInv(conn[c].up)
    BY DEF LinesInv
  <2> QED BY <1>3, <2>1, <2>2, <2>3 DEF QueueInv
<1> HIDE DEF q
<1>5. c = LineOf(h, q)
  BY <1>2, <1>3
<1> SUFFICES ASSUME NEW p \in Parts PROVE SentOf(h, p) = FiledOf(h, p)
  OBVIOUS
<1>6. AddsUp(Up(h, p), p[2], FiledOf(h, p), SentOf(h, p))
  BY DEF BytesInv
<1>7. CASE LineOf(h, p) = c
  <2>1. Up(h, p) = conn[c].up
    BY <1>7 DEF Up, ConnsOf
  <2>2. Len(conn[c].up) = 1 /\ conn[c].up[1].type # "data" /\ conn[c].up \in Seq(Message)
    BY <1>1, <1>3, <1>4
  <2> QED BY <1>6, <2>1, <2>2, AddsUpOne
<1>8. CASE LineOf(h, p) # c
  <2>1. Up(h, p) = <<>>
    <3>1. CASE LineOf(h, p) \in DOMAIN conn
      <4>1. LineOf(h, p) \in ConnsOf(h)
        BY <3>1, LineOfHost DEF ConnsOf
      <4>2. conn[LineOf(h, p)].up \in Seq(Message) /\ DOMAIN conn[LineOf(h, p)].up = {}
        BY <1>1, <1>2, <1>5, <1>8, <4>1
      <4>3. \A u \in Seq(Message) : DOMAIN u = {} => u = <<>>
        OBVIOUS
      <4> QED BY <3>1, <4>2, <4>3 DEF Up
    <3>2. CASE LineOf(h, p) \notin DOMAIN conn
      BY <3>2 DEF Up
    <3> QED BY <3>1, <3>2
  <2> QED BY <1>6, <2>1, AddsUpEmpty
<1> QED BY <1>7, <1>8

(* A close is taken that is not the last: with send it is the one that main  *)
(* waits for, and no other answer is under way.                              *)
LEMMA AckTaken ==
  ASSUME IInv, Typed, NEW h \in Hosts, NEW op, NEW cl, EndInv(h, op, cl), NEW q \in Parts, q \notin cl,
         ~Unclosed(h, cl, q), NEW new, new = cl \cup {q}, TakenFrom(h, LineOf(h, q), 1),
         how' = how, UNCHANGED client
  PROVE  AckInv(h, new)'
<1> SUFFICES ASSUME Send PROVE Answers(h, new)' /\ Taking(h, new)'
  BY HowKept DEF AckInv
<1>1. /\ ClosingInv(h) /\ Answers(h, cl) /\ Taking(h, cl) /\ how.cpus * how.devs \in Nat
      /\ main' = main /\ tpc' = tpc /\ ios' = ios /\ done' = done /\ run' = run
  BY Ways_ DEF EndInv, AckInv, IInv, client
<1>2. q \notin ToClose(h)
  BY DEF EndInv
<1>3. main[h] = "close"
  BY <1>2 DEF ToClose
<1>4. PICK n \in 0..how.cpus * how.devs : n = ios[h][0]
  BY <1>1, <1>3 DEF ClosingInv
<1>5. PICK j \in 1..how.cpus * how.devs : q = ClosingPart(j)
  BY ClosingParts DEF IInv
<1>6. j <= n /\ ~(j \in 1..Remaining(h, 0))
  BY <1>1, <1>2, <1>3, <1>4, <1>5 DEF Taking, ToClose
<1>7. j = n /\ tpc[h][0] \in {"check", "closing"}
  <2>1. tpc[h][0] \in {"close", "check", "closing"}
    BY <1>1, <1>3 DEF ClosingInv, Taking
  <2>2. CASE tpc[h][0] = "close"
    <3>1. Remaining(h, 0) = n
      BY <1>4, <2>2 DEF Remaining
    <3> QED BY <1>1, <1>6, <3>1
  <2>3. CASE tpc[h][0] \in {"check", "closing"}
    <3>1. Remaining(h, 0) = n - 1
      BY <1>4, <2>3 DEF Remaining
    <3> QED BY <1>1, <1>6, <2>3, <3>1
  <2> QED BY <2>1, <2>2, <2>3
<1>8. \A x \in ConnsOf(h) : ~(conn[x].acks > 0)
  BY <1>1, <1>4, <1>5, <1>7 DEF Answers
<1>9. PICK c : c = LineOf(h, q)
  OBVIOUS
<1>10. /\ ConnsOf(h)' = ConnsOf(h) /\ conn'[c].acks = conn[c].acks + 1
       /\ \A x \in ConnsOf(h) : x # c => conn'[x] = conn[x]
  BY <1>9 DEF TakenFrom
<1>11. conn[c].acks \in Int /\ c \in ConnsOf(h)
  BY <1>9 DEF TakenFrom, ConnsOf, IInv, Conns, SomeConnection
<1>12. \A x \in ConnsOf(h) : conn'[x].acks > 0 => x = c /\ conn'[x].acks = 1
  BY <1>8, <1>10, <1>11
<1>13. \A i : ClosingPart(i)' = ClosingPart(i) /\ LineOf(h, ClosingPart(i))' = LineOf(h, ClosingPart(i))
  BY <1>1, HowKept DEF ClosingPart, LineOf
<1>14. Answers(h, new)'
  BY <1>1, <1>3, <1>4, <1>5, <1>7, <1>9, <1>10, <1>12, <1>13 DEF Answers
<1>15. Taking(h, new)'
  BY <1>1, <1>13 DEF Taking
<1> QED BY <1>14, <1>15

LEMMA ClosesHost ==
  ASSUME IInv, Typed, NEW c \in DOMAIN conn, ClientCloses(c), NEW h, h = c[1], HostInv(h)
  PROVE  HostInv(h)'
<1> DEFINE m == NextMessage(c)
           q == PartOf(c)
<1>1. /\ m.type = "close" /\ conn[c].up # <<>> /\ conn[c].accepted
      /\ how' = how /\ UNCHANGED client /\ filed' = filed
  BY DEF ClientCloses, Received
<1>2. c \in ConnsOf(h) /\ 1 \in DOMAIN conn[c].up /\ conn[c].up[1] = m
  BY <1>1 DEF ConnsOf, NextMessage, IInv, Conns, SomeConnection
<1>3. ~Fresh(h) /\ ~Over(h)
  BY <1>2 DEF Fresh, Over
<1>4. CASE Void(h)
  BY <1>1, <1>4, VoidStays DEF Void, client
<1>5. ASSUME NEW op \in SUBSET Parts, NEW cl \in SUBSET Parts, LiveInv(h, op, cl)
      PROVE  HostInv(h)'
  <2>1. LinesInv(h, op, cl) /\ BytesInv(h) /\ KeysInv(h) /\ ClientInv(h, op, cl)
    BY <1>5 DEF LiveInv
  <2>2. m \in Message /\ q \in Parts \ cl /\ c = LineOf(h, q) /\ h \in DOMAIN ch /\ op = Parts
    <3>1. MessageInv(h, op, cl, c, m)
      BY <1>2, <2>1 DEF LinesInv
    <3>2. m \in Message
      BY <1>2 DEF IInv, Conns, SomeConnection
    <3> QED BY <1>1, <1>2, <2>1, <3>1, <3>2 DEF MessageInv, PartOf, LinesInv
  <2>3. PICK new : new = cl \cup {q}
    OBVIOUS
  <2>4. new \in SUBSET Parts /\ cl \subseteq new /\ Cardinality(new) = Cardinality(cl) + 1
    <3>1. IsFiniteSet(cl)
      BY PartsFinite DEF IInv
    <3> QED BY <2>2, <2>3, <3>1, FS_AddElement
  <2>5. Cardinality(op) \in Nat /\ Cardinality(cl) \in Nat /\ ch[h].cl_opens = Cardinality(op) - Cardinality(cl)
    BY <2>1, <2>2, PartsFinite DEF IInv, LinesInv
  <2>6. ~StartInv(h, op, cl)
    BY <1>1, <1>2 DEF StartInv, OnlyOpens
  <2>7. ASSUME EndInv(h, op, cl) PROVE \A p \in ToClose(h) : p \notin new
    <3> SUFFICES ASSUME NEW p \in ToClose(h), p \in new PROVE FALSE
      OBVIOUS
    <3>1. Unclosed(h, cl, p)
      BY <2>7 DEF EndInv
    <3>2. p = q
      BY <2>3, <3>1 DEF Unclosed
    <3>3. q[1] = c[3] /\ q[2] = m.dev
      BY DEF PartOf
    <3> QED BY <1>1, <1>2, <3>1, <3>2, <3>3 DEF Unclosed
  <2>8. CASE ~LastClose(h)
    <3>1. conn' = Taken(c, 1) /\ Counting(c, -1) /\ ended' = ended
      BY <2>8 DEF ClientCloses
    <3>2. TakenFrom(h, c, 1)
      BY <1>1, <3>1, TakenIs DEF client
    <3>3. h \in DOMAIN ch' /\ ch'[h].cl_opens = Cardinality(op) - Cardinality(new)
      <4>1. h \in DOMAIN ch' /\ ch'[h].cl_opens = ch[h].cl_opens - 1
        BY <2>2, <3>1 DEF Counting
      <4> QED BY <2>4, <2>5, <4>1
    <3>4. LinesInv(h, op, new)'
      BY <1>1, <2>1, <2>3, <3>2, <3>3, LinesTaken
    <3>5. BytesInv(h)' /\ KeysInv(h)'
      <4>1. \A p : SentOf(h, p)' = SentOf(h, p) /\ FiledOf(h, p)' = FiledOf(h, p)
        BY <1>1, NothingFiled DEF client
      <4>2. \A p : Share(m, p[2]) = 0
        BY <1>1 DEF Share
      <4>3. \A p \in Parts : FiledOf(h, p) \in Int
        <5>1. \A p : Len(Up(h, p)) \in Nat
          BY UpSeq DEF IInv
        <5> QED BY <2>1, <5>1 DEF BytesInv, AddsUp
      <4>4. BytesInv(h)'
        BY <1>1, <2>1, <3>2, <4>1, <4>2, <4>3, BytesTaken
      <4> QED BY <1>1, <2>1, <4>4, HowKept DEF KeysInv, client
    <3>6. EndInv(h, op, cl) => EndInv(h, op, new)'
      <4> SUFFICES ASSUME EndInv(h, op, cl) PROVE EndInv(h, op, new)'
        OBVIOUS
      <4>1. h \in Hosts
        BY DEF Typed
      <4>2. ~Unclosed(h, cl, q)
        <5>1. q[1] = c[3] /\ q[2] = m.dev
          BY DEF PartOf
        <5> QED BY <1>1, <1>2, <5>1 DEF Unclosed
      <4>3. AckInv(h, new)'
        <5> HIDE DEF q
        <5> QED BY <1>1, <2>2, <2>3, <3>2, <4>1, <4>2, AckTaken
      <4> QED BY <1>1, <2>7, <3>2, <4>3, SmallerTaken, EndTaken
    <3>8. new # Parts'
      <4>1. ch[h].cl_opens # 1
        BY <2>8 DEF LastClose
      <4>2. new # Parts
        BY <2>2, <2>4, <2>5, <4>1
      <4> QED BY <1>1, <4>2, HowKept
    <3>7. LiveInv(h, op, new)'
      BY <1>1, <1>5, <2>2, <2>4, <2>6, <3>1, <3>4, <3>5, <3>6, <3>8 DEF LiveInv, ClientInv, client, Threads
    <3> QED BY <1>1, <2>4, <3>7, HowKept DEF HostInv, Live
  <2>9. CASE LastClose(h)
    <3>1. conn' = [x \in {y \in DOMAIN conn : y[1] # h \/ ~conn[y].accepted} |-> conn[x]]
      BY <2>9 DEF ClientCloses
    <3>2. new = Parts
      <4>1. Cardinality(new) = Cardinality(Parts)
        BY <2>2, <2>4, <2>5, <2>9 DEF LastClose
      <4>2. IsFiniteSet(Parts)
        BY PartsFinite DEF IInv
      <4> QED BY <2>4, <4>1, <4>2, FS_Subset
    <3>3. ConnsOf(h)' = {}
      <4>1. \A x \in ConnsOf(h) : conn[x].accepted
        BY <2>1, <2>2 DEF LinesInv
      <4> QED BY <3>1, <4>1 DEF ConnsOf
    <3>4. \A p \in Parts : SentOf(h, p)' = FiledOf(h, p)'
      <4>1. \A p \in Parts : SentOf(h, p) = FiledOf(h, p)
        BY <1>1, <1>2, <2>1, <2>3, <3>2, LastOfAll
      <4> QED BY <1>1, <4>1, NothingFiled DEF client
    <3>5. KeysInv(h)'
      BY <1>1, <2>1, HowKept DEF KeysInv, client
    <3>6. /\ main[h] \in {"run", "stop", "close", "off"}
          /\ IF Send THEN main[h] \in {"close", "off"} ELSE \A t \in Cpus : tpc[h][t] # "run"
      <4>1. Cpus \subseteq Threads
        BY NetAssumption DEF Cpus, Threads
      <4>2. CASE EndInv(h, op, cl) /\ main[h] \in {"run", "stop", "close"}
        <5>1. \A p \in Parts : p \notin ToClose(h)
          BY <2>7, <3>2, <4>2
        <5>2. ASSUME ~Send, NEW t \in Cpus, tpc[h][t] = "run" PROVE FALSE
          <6>1. t \in CpusUsed
            <7>1. t \in Threads /\ t # 0 /\ h \in Hosts
              BY <4>1, NetAssumption DEF Cpus, Typed
            <7> QED BY <1>5, <5>2, <7>1, LiveEnding
          <6>2. <<t, 1>> \in Parts
            BY <6>1, Ways_ DEF Parts, IInv
          <6> QED BY <5>1, <5>2, <6>2 DEF ToClose
        <5>3. ASSUME Send, main[h] # "close" PROVE FALSE
          BY <2>2, <5>1, <5>3 DEF ToClose
        <5> QED BY <4>2, <5>2, <5>3
      <4>3. CASE main[h] = "off" /\ \A t \in Threads : tpc[h][t] = "none"
        BY <4>1, <4>3
      <4> QED BY <2>1, <2>6, <4>2, <4>3 DEF ClientInv
    <3>9. Empty(h)'
      BY <2>9 DEF ClientCloses, Empty
    <3>7. Over(h)'
      BY <1>1, <1>5, <3>3, <3>4, <3>5, <3>6, <3>9, HowKept DEF Over, LiveInv, client, Cpus
    <3> QED BY <3>7 DEF HostInv
  <2> QED BY <2>8, <2>9
<1>6. ASSUME NEW op \in SUBSET Parts, NEW cl \in SUBSET Parts, NEW p \in Parts, ShortInv(h, op, cl, p)
      PROVE  HostInv(h)'
  <2>1. LinesInv(h, op, cl) /\ Unclosed(h, cl, p)
    BY <1>6 DEF ShortInv
  <2>2. q \in Parts \ cl /\ h \in DOMAIN ch /\ op = Parts /\ q[1] = c[3] /\ q[2] = m.dev
    <3>1. MessageInv(h, op, cl, c, m)
      BY <1>2, <2>1 DEF LinesInv
    <3> QED BY <1>1, <1>2, <2>1, <3>1 DEF MessageInv, PartOf, LinesInv
  <2>3. p # q /\ p \notin cl
    BY <1>1, <1>2, <2>1, <2>2 DEF Unclosed
  <2>4. PICK new : new = cl \cup {q}
    OBVIOUS
  <2>5. /\ new \in SUBSET Parts /\ p \notin new /\ Cardinality(new) \in Nat
        /\ Cardinality(cl) \in Nat /\ Cardinality(new) = Cardinality(cl) + 1
        /\ Cardinality(Parts) \in Nat /\ Cardinality(new) < Cardinality(Parts)
    <3>1. IsFiniteSet(cl) /\ IsFiniteSet(Parts)
      BY PartsFinite DEF IInv
    <3>2. new \in SUBSET Parts /\ p \notin new /\ Cardinality(new) = Cardinality(cl) + 1
      BY <2>2, <2>3, <2>4, <3>1, FS_AddElement
    <3>3. Cardinality(new) \in Nat /\ Cardinality(cl) \in Nat /\ Cardinality(Parts) \in Nat
      BY <3>2, PartsFinite DEF IInv
    <3>4. Cardinality(new) <= Cardinality(Parts) /\ Cardinality(new) # Cardinality(Parts)
      BY <3>1, <3>2, FS_Subset
    <3> QED BY <3>2, <3>3, <3>4
  <2>6. ~LastClose(h)
    BY <2>1, <2>2, <2>5 DEF LinesInv, LastClose
  <2>7. conn' = Taken(c, 1) /\ Counting(c, -1) /\ ended' = ended
    BY <2>6 DEF ClientCloses
  <2>8. TakenFrom(h, c, 1)
    BY <1>1, <2>7, TakenIs DEF client
  <2>9. h \in DOMAIN ch' /\ ch'[h].cl_opens = Cardinality(op) - Cardinality(new)
    <3>1. h \in DOMAIN ch' /\ ch'[h].cl_opens = ch[h].cl_opens - 1
      BY <2>2, <2>7 DEF Counting
    <3> QED BY <2>1, <2>2, <2>5, <3>1 DEF LinesInv
  <2>10. LinesInv(h, op, new)'
    BY <1>1, <2>1, <2>4, <2>8, <2>9, LinesTaken
  <2>11. Unclosed(h, new, p)'
    BY <2>1, <2>5, <2>8, SmallerTaken, UnclosedSmaller
  <2>12. ShortInv(h, op, new, p)'
    BY <1>1, <1>6, <2>2, <2>5, <2>7, <2>10, <2>11 DEF ShortInv, client, Threads
  <2> QED BY <1>1, <2>5, <2>12, HowKept DEF HostInv, Short
<1> QED BY <1>3, <1>4, <1>5, <1>6 DEF HostInv, Live, Short

-----------------------------------------------------------------------------
OwnConns(h, f) ==
  \A x \in DOMAIN f : x[1] = h => x[2] = run[h] /\ (f[x].accepted => h \in DOMAIN ch)
LEMMA OwnConnsKept ==
  ASSUME NEW h, NEW f, Conns(f), OwnConns(h, f)
  PROVE  /\ \A cs : OwnConns(h, Shut(cs, f)) /\ OwnConns(h, Killed(cs, f))
         /\ f = conn =>
              \A x : /\ OwnConns(h, TakeAnswer(x))
                     /\ \A m : OwnConns(h, Sent(x, m))
                     /\ x[2] = run[h] => \A u : OwnConns(h, Added(conn, x, NewConn(u)))
<1>1. ASSUME NEW cs PROVE OwnConns(h, Shut(cs, f)) /\ OwnConns(h, Killed(cs, f))
  BY ShutSame, KilledSame DEF OwnConns
<1>2. ASSUME f = conn, NEW x PROVE OwnConns(h, TakeAnswer(x))
  BY <1>2, AnswerSame DEF OwnConns
<1>3. ASSUME f = conn, NEW x, NEW m PROVE OwnConns(h, Sent(x, m))
  <2>1. \A y \in SomeConnection : [y EXCEPT !.up = Append(@, m)].accepted = y.accepted
    BY DEF SomeConnection
  <2> QED BY <1>3, <2>1 DEF OwnConns, Sent, Conns
<1>4. ASSUME f = conn, NEW x, NEW u, x[2] = run[h] PROVE OwnConns(h, Added(conn, x, NewConn(u)))
  BY <1>4 DEF OwnConns, Added, NewConn
<1> QED BY <1>1, <1>2, <1>3, <1>4

(* The runs that the connections, the devices and the histories of a host    *)
(* are of: a step of its client, which keeps to its run ...                  *)
LEMMA OwnClient ==
  ASSUME IInv, NEW h \in Hosts, ClientStep(h), ~StartRun(h), OwnInv(h)
  PROVE  OwnInv(h)'
<1>1. run' = run
  BY DEF ClientStep, Main, Stop, Die, OpenClientConnection, ConnectFails, Unblock, CloseClientConnections, Exit,
         Gone, Tracer, OpenIo, OpenAnswered, TraceFileFails, SetupClientFails, Leave, SendClose,
         WaitAnswer, NoAnswer, CloseAnswered, Closed, AllClosed, SendData
<1>2. run[h] \in Nat
  BY DEF IInv, Client
<1>3. OwnConns(h, conn')
  <2>1. Conns(conn) /\ OwnConns(h, conn)
    BY DEF IInv, OwnInv, OwnConns, ConnsOf
  <2>2. \A t, d : ConnOf(h, t, d)[2] = run[h]
    BY DEF ConnOf
  <2>3. CASE Main(h) \/ Stop(h) \/ Die(h)
    <3>1. CASE OpenClientConnection(h)
      <4>1. PICK x, m : conn' = Added(conn, x, NewConn(m)) /\ x[2] = run[h]
        BY <3>1 DEF OpenClientConnection
      <4> QED BY <2>1, <4>1, OwnConnsKept
    <3>2. CASE conn' = conn
      BY <2>1, <3>2
    <3>3. ASSUME NEW cs, conn' = Shut(cs, conn) \/ conn' = Killed(cs, conn) PROVE OwnConns(h, conn')
      BY <2>1, <3>3, OwnConnsKept
    <3> QED BY <2>3, <3>1, <3>2, <3>3 DEF Main, Stop, Die, ConnectFails, Unblock, CloseClientConnections, Exit, Gone
  <2>4. ASSUME NEW t \in Threads, Tracer(h, t) PROVE OwnConns(h, conn')
    <3>1. CASE OpenIo(h, t)
      <4>1. PICK x, m : (conn' = Added(conn, x, NewConn(<<m>>)) \/ conn' = Sent(x, m)) /\ x[2] = run[h]
        <5>1. PICK x : x = ConnOf(h, t, ios[h][t]) /\ x[2] = run[h]
          BY <2>2
        <5> QED BY <3>1, <5>1 DEF OpenIo
      <4> QED BY <2>1, <4>1, OwnConnsKept
    <3>2. CASE conn' = conn
      BY <2>1, <3>2
    <3>3. ASSUME NEW x, NEW m, conn' = Sent(x, m) \/ conn' = TakeAnswer(x) PROVE OwnConns(h, conn')
      BY <2>1, <3>3, OwnConnsKept
    <3>4. ASSUME NEW f, f = conn \/ \E x : f = TakeAnswer(x), Closed(h, t, f) PROVE OwnConns(h, conn')
      <4>1. Conns(f) /\ OwnConns(h, f)
        BY <2>1, <3>4, OwnConnsKept, AnswerConns
      <4>2. conn' = f \/ \E cs : conn' = Shut(cs, f)
        BY <3>4 DEF Closed
      <4> QED BY <4>1, <4>2, OwnConnsKept
    <3>5. NoAnswer(h, t) \/ CloseAnswered(h, t) => OwnConns(h, conn')
      BY <3>4 DEF NoAnswer, CloseAnswered
    <3> QED BY <2>4, <3>1, <3>2, <3>3, <3>5
            DEF Tracer, OpenAnswered, TraceFileFails, SetupClientFails, Leave, SendClose, WaitAnswer, AllClosed
  <2>5. ASSUME NEW t \in Cpus, NEW d \in Devs, NEW len \in Lens, SendData(h, t, d, len)
        PROVE  OwnConns(h, conn')
    <3>1. PICK x, m : conn' = Sent(x, m)
      BY <2>5 DEF SendData
    <3> QED BY <2>1, <3>1, OwnConnsKept
  <2> QED BY <2>3, <2>4, <2>5 DEF ClientStep
<1>4. \A x \in DOMAIN sent' :
        (x \in DOMAIN sent /\ sent'[x] = sent[x]) \/ x[2] = run[h]
  <2>1. CASE sent' = sent
    BY <2>1
  <2>2. ASSUME NEW t, NEW d, NEW len, sent' = Counted(sent, h, run[h], t, d, len)
        PROVE  \A x \in DOMAIN sent' : (x \in DOMAIN sent /\ sent'[x] = sent[x]) \/ x[2] = run[h]
    BY <2>2 DEF Counted
  <2> QED BY <2>1, <2>2, ClientSent
<1>5. ch' = ch /\ filed' = filed /\ ended' = ended
  BY ClientSent
<1>6. RunsUpTo(h, ended)' /\ RunsUpTo(h, DOMAIN sent)' /\ RunsUpTo(h, DOMAIN filed)'
  BY <1>1, <1>2, <1>4, <1>5 DEF OwnInv, RunsUpTo
<1> QED BY <1>1, <1>3, <1>4, <1>5, <1>6 DEF OwnInv, OwnConns, ConnsOf

(* ... the acceptance of a connection ...                                    *)
LEMMA OwnAdd ==
  ASSUME IInv, AddConnection, NEW h \in Hosts, OwnInv(h)
  PROVE  OwnInv(h)'
<1>1. /\ DOMAIN conn' = DOMAIN conn /\ run' = run /\ sent' = sent /\ filed' = filed /\ ended' = ended
      /\ ch' = Added(ch, Head(backlog)[1], NewHost)
  BY DEF AddConnection, client
<1>2. h \in DOMAIN ch' => (h \in DOMAIN ch /\ ch'[h] = ch[h]) \/ ch'[h].devs = <<>>
  BY <1>1 DEF Added, NewHost
<1>3. \A x \in ConnsOf(h) : conn'[x].accepted => h \in DOMAIN ch'
  <2> SUFFICES ASSUME NEW x \in ConnsOf(h), conn'[x].accepted PROVE h \in DOMAIN ch'
    OBVIOUS
  <2>1. CASE x = Head(backlog)
    BY <1>1, <2>1 DEF Added, ConnsOf
  <2>2. CASE x # Head(backlog)
    <3>1. conn'[x] = conn[x]
      BY <2>2 DEF AddConnection, ConnsOf
    <3> QED BY <1>1, <3>1 DEF Added, OwnInv
  <2> QED BY <2>1, <2>2
<1> QED BY <1>1, <1>2, <1>3 DEF OwnInv, RunsUpTo, ConnsOf

(* ... and a message that the server takes: of the run of its connection.    *)
LEMMA OwnHandle ==
  ASSUME IInv, NEW h \in Hosts, NEW c \in ConnsOf(h), Serve(c), OwnInv(h)
  PROVE  OwnInv(h)'
<1>1. c \in DOMAIN conn /\ c[1] = h /\ c[2] = run[h] /\ run[h] \in Nat /\ run[h] \in 0..run[h]
  BY DEF ConnsOf, OwnInv, IInv, Client
<1>2. run' = run /\ sent' = sent
  BY DEF Serve, ClientOpens, ReadData, ClientCloses, client
<1>4. PICK d : d = NextMessage(c).dev
  OBVIOUS
<1>5. ASSUME h \in DOMAIN ch, NEW e \in DOMAIN FindDpp(ch[h].devs, d, c[2])
      PROVE  FindDpp(ch[h].devs, d, c[2])[e].id = run[h] /\ FindDpp(ch[h].devs, d, c[2])[e].runs \subseteq {run[h]}
  BY <1>1, <1>5 DEF FindDpp, Added, NewDev, OwnInv
<1>6. ASSUME NEW n, Counting(c, n)
      PROVE  h \in DOMAIN ch' => h \in DOMAIN ch /\ ch'[h].devs = FindDpp(ch[h].devs, d, c[2])
  BY <1>1, <1>4, <1>6 DEF Counting
<1>7. h \in DOMAIN ch' => \A e \in DOMAIN ch'[h].devs : ch'[h].devs[e].id = run[h]
                                                     /\ ch'[h].devs[e].runs \subseteq {run[h]}
  <2>1. CASE ClientOpens(c)
    BY <1>5, <1>6, <2>1 DEF ClientOpens
  <2>2. CASE ReadData(c)
    <3>1. PICK devs, told, len :
            devs = FindDpp(ch[h].devs, d, c[2]) /\ told = NextMessage(c).told /\ len = NextMessage(c).len
      OBVIOUS
    <3>2. ch' = [ch EXCEPT ![h].devs = [devs EXCEPT ![d] = Filled(@, c, told, len)]]
      BY <1>1, <1>4, <2>2, <3>1 DEF ReadData
    <3> SUFFICES ASSUME h \in DOMAIN ch', NEW e \in DOMAIN ch'[h].devs
                 PROVE  ch'[h].devs[e].id = run[h] /\ ch'[h].devs[e].runs \subseteq {run[h]}
      OBVIOUS
    <3>3. h \in DOMAIN ch /\ ch[h] \in Host
      BY <3>2 DEF IInv, HostsSound
    <3>4. ch'[h].devs = [devs EXCEPT ![d] = Filled(@, c, told, len)]
      BY <3>2, <3>3 DEF Host
    <3>5. e \in DOMAIN devs /\ devs[e].id = run[h] /\ devs[e].runs \subseteq {run[h]}
      BY <1>5, <3>1, <3>3, <3>4
    <3>6. CASE e = d
      <4>1. ch'[h].devs[e] = Filled(devs[d], c, told, len)
        BY <3>4, <3>5, <3>6
      <4> QED BY <1>1, <3>5, <3>6, <4>1 DEF Filled
    <3>7. CASE e # d
      BY <3>4, <3>5, <3>7
    <3> QED BY <3>6, <3>7
  <2>3. CASE ClientCloses(c) /\ LastClose(h)
    BY <1>1, <2>3 DEF ClientCloses
  <2>4. CASE ClientCloses(c) /\ ~LastClose(h)
    BY <1>1, <1>5, <1>6, <2>4 DEF ClientCloses
  <2> QED BY <2>1, <2>2, <2>3, <2>4 DEF Serve
<1>8. RunsUpTo(h, ended)'
  <2>1. CASE ended' = ended
    BY <1>2, <2>1 DEF OwnInv, RunsUpTo
  <2>2. CASE ClientCloses(c) /\ LastClose(h)
    <3>1. ended' = ended \cup {<<h, ch[h].devs[e].id>> : e \in DOMAIN ch[h].devs}
      BY <1>1, <2>2 DEF ClientCloses
    <3>2. h \in DOMAIN ch
      BY <2>2 DEF Received, ClientCloses, OwnInv
    <3>3. \A e \in DOMAIN ch[h].devs : ch[h].devs[e].id = run[h]
      BY <3>2 DEF OwnInv
    <3>4. \A x \in ended' : x \in ended \/ x = <<h, run[h]>>
      BY <3>1, <3>3
    <3>5. \A x \in ended' : x[1] = h => x[2] \in 0..run[h]
      BY <1>1, <3>4 DEF OwnInv, RunsUpTo
    <3> QED BY <1>2, <3>5 DEF RunsUpTo
  <2> QED BY <1>1, <2>1, <2>2 DEF Serve, ClientOpens, ReadData, ClientCloses
<1>9. \/ filed' = filed
      \/ \E len : filed' = Counted(filed, h, run[h], c[3], d, len)
  BY <1>1, <1>4 DEF Serve, ClientOpens, ReadData, ClientCloses
<1>10. RunsUpTo(h, DOMAIN filed)'
  BY <1>1, <1>2, <1>9 DEF OwnInv, RunsUpTo, Counted
<1>11. \A r, t, e : r # run[h] => Bytes(filed', h, r, t, e) = Bytes(filed, h, r, t, e)
  <2>1. CASE filed' = filed
    BY <2>1
  <2>2. ASSUME NEW len, filed' = Counted(filed, h, run[h], c[3], d, len), NEW r, NEW t, NEW e, r # run[h]
        PROVE  Bytes(filed', h, r, t, e) = Bytes(filed, h, r, t, e)
    <3>1. <<h, r, t, e>> # <<h, run[h], c[3], d>>
      BY <2>2
    <3> QED BY <2>2, <3>1 DEF Counted, Bytes
  <2> QED BY <1>9, <2>1, <2>2
<1>12. \A x \in ConnsOf(h)' : x \in ConnsOf(h) /\ (conn'[x].accepted => h \in DOMAIN ch')
  <2>1. CASE ClientCloses(c) /\ LastClose(h)
    <3>1. conn' = [x \in {y \in DOMAIN conn : y[1] # h \/ ~conn[y].accepted} |-> conn[x]]
      BY <1>1, <2>1 DEF ClientCloses
    <3> QED BY <3>1 DEF ConnsOf
  <2>2. CASE ClientOpens(c) \/ ReadData(c) \/ (ClientCloses(c) /\ ~LastClose(h))
    <3>1. PICK n : conn' = Taken(c, n)
      BY <1>1, <2>2 DEF ClientOpens, ReadData, ClientCloses
    <3>2. DOMAIN conn' = DOMAIN conn /\ \A x \in DOMAIN conn : conn'[x].accepted = conn[x].accepted
      BY <3>1 DEF Taken
    <3>3. DOMAIN ch' = DOMAIN ch
      BY <1>1, <2>2 DEF ClientOpens, ReadData, ClientCloses, Counting
    <3> QED BY <3>2, <3>3 DEF ConnsOf, OwnInv
  <2> QED BY <2>1, <2>2 DEF Serve
<1> QED BY <1>2, <1>7, <1>8, <1>10, <1>11, <1>12 DEF OwnInv, RunsUpTo

(* A message of a killed client is lost or cut short: the part that it is of *)
(* is not closed any more, since nothing follows it.                         *)
LEMMA ShortQueue ==
  ASSUME NEW u \in Seq(Message), u # <<>>, QueueInv(u), NEW v \in Seq(Message), ShortOf(u, v)
  PROVE  /\ QueueInv(v)
         /\ \A j \in DOMAIN v : v[j].dev = u[Len(u)].dev => v[j].type # "close"
         /\ \A j \in DOMAIN v :
              \E i \in DOMAIN u : /\ v[j].dev = u[i].dev
                                  /\ v[j].type = u[i].type \/ v[j].type = "cut"
<1>1. PICK n \in Nat \ {0} : n = Len(u) /\ DOMAIN u = 1..n
  OBVIOUS
<1>2. /\ Front(u) \in Seq(Message) /\ Len(Front(u)) = n - 1 /\ DOMAIN Front(u) = 1..n - 1
      /\ \A i \in 1..n - 1 : Front(u)[i] = u[i]
  BY <1>1, FrontOf
<1>3. \A i \in 1..n - 1 : u[i].dev = u[n].dev => u[i].type # "close"
  BY <1>1 DEF QueueInv
<1>4. CASE v = Front(u)
  BY <1>1, <1>2, <1>3, <1>4 DEF QueueInv
<1>5. ASSUME NEW cut \in Message, v = Append(Front(u), cut), cut.dev = u[n].dev,
             cut.type \notin {"open", "close"}, cut.type = "data" => u[n].type = "data"
      PROVE  /\ QueueInv(v)
             /\ \A j \in DOMAIN v : v[j].dev = u[n].dev => v[j].type # "close"
             /\ \A j \in DOMAIN v :
                  \E i \in DOMAIN u : /\ v[j].dev = u[i].dev
                                      /\ v[j].type = u[i].type \/ v[j].type = "cut"
  <2>1. DOMAIN v = 1..n /\ v[n] = cut /\ \A i \in 1..n - 1 : v[i] = u[i]
    BY <1>2, <1>5
  <2>2. cut.type = "data" \/ cut.type = "cut"
    BY <1>5 DEF Message
  <2>3. \A i, j \in 1..n : i < j => i \in 1..n - 1 /\ (j = n \/ j \in 1..n - 1)
    OBVIOUS
  <2>4. QueueInv(v)
    <3> SUFFICES ASSUME NEW i \in 1..n, NEW j \in 1..n, i < j, v[i].dev = v[j].dev
                 PROVE  v[i].type # "close" /\ v[j].type # "open"
      BY <2>1 DEF QueueInv
    <3>1. CASE j = n
      BY <1>3, <1>5, <2>1, <2>3, <3>1
    <3>2. CASE j \in 1..n - 1
      BY <1>1, <2>1, <2>3, <3>2 DEF QueueInv
    <3> QED BY <2>3, <3>1, <3>2
  <2>5. ASSUME NEW j \in 1..n
        PROVE  /\ v[j].dev = u[n].dev => v[j].type # "close"
               /\ \E i \in 1..n : v[j].dev = u[i].dev /\ (v[j].type = u[i].type \/ v[j].type = "cut")
    <3>1. CASE j = n
      BY <1>5, <2>1, <2>2, <3>1
    <3>2. CASE j # n
      <4>1. j \in 1..n - 1
        BY <3>2
      <4> QED BY <1>3, <2>1, <4>1
    <3> QED BY <3>1, <3>2
  <2> QED BY <1>1, <2>1, <2>4, <2>5
<1>6. CASE \E cut \in Message : /\ v = Append(Front(u), cut) /\ cut.dev = u[n].dev
                                /\ cut.type \notin {"open", "close"}
                                /\ cut.type = "data" => u[n].type = "data"
  <2>1. PICK cut \in Message : /\ v = Append(Front(u), cut) /\ cut.dev = u[n].dev
                               /\ cut.type \notin {"open", "close"}
                               /\ cut.type = "data" => u[n].type = "data"
    BY <1>6
  <2>2. cut \in Message /\ v = Append(Front(u), cut) /\ cut.dev = u[n].dev
        /\ cut.type \notin {"open", "close"} /\ (cut.type = "data" => u[n].type = "data")
    BY <2>1
  <2> HIDE DEF ShortOf
  <2> QED BY <1>1, <1>5, <2>2
<1> QED BY <1>1, <1>4, <1>6 DEF ShortOf

LEMMA LoseHost ==
  ASSUME IInv, Typed, KilledInv, NEW c \in DOMAIN conn, Lose(c), NEW h, h = c[1], HostInv(h), OwnInv(h)
  PROVE  HostInv(h)' /\ OwnInv(h)'
<1>1. /\ how' = how /\ UNCHANGED client /\ run' = run /\ ch' = ch /\ filed' = filed /\ ended' = ended
      /\ sent' = sent
  BY DEF Lose, server, client
<1>2. Conns(conn) /\ c \in DOMAIN conn
  BY DEF IInv
<1>3. PICK u, v \in Seq(Message) : /\ u = conn[c].up /\ u # <<>> /\ conn[c].client = "killed"
                                   /\ ShortOf(u, v) /\ conn' = [conn EXCEPT ![c].up = v]
  BY <1>2, LoseQueue
<1>4. h \in how.dies /\ main[h] = "off" /\ run[h] # 0 /\ c \in ConnsOf(h)
  BY <1>3 DEF KilledInv, KilledIn, ConnsOf
<1>5. /\ ConnsOf(h)' = ConnsOf(h) /\ conn'[c].up = v /\ conn'[c].accepted = conn[c].accepted
      /\ \A x \in ConnsOf(h) : x # c => conn'[x] = conn[x]
  <2>1. \A x \in SomeConnection : LET y == [x EXCEPT !.up = v] IN y.up = v /\ y.accepted = x.accepted
    BY DEF SomeConnection
  <2> QED BY <1>2, <1>3, <1>4, <2>1 DEF ConnsOf, Conns
<1>6. OwnInv(h)'
  BY <1>1, <1>5 DEF OwnInv, RunsUpTo
<1>7. CASE Void(h)
  BY <1>1, <1>6, <1>7, VoidStays DEF Void, client
<1>8. ~Fresh(h) /\ ~Over(h)
  BY <1>4 DEF Fresh, Over
<1>9. ASSUME NEW op \in SUBSET Parts, NEW cl \in SUBSET Parts, LinesInv(h, op, cl)
      PROVE  /\ LinesInv(h, op, cl)'
             /\ <<c[3], u[Len(u)].dev>> \in Parts /\ Unclosed(h, cl, <<c[3], u[Len(u)].dev>>)'
             /\ \A q : Unclosed(h, cl, q) => Unclosed(h, cl, q)'
  <2> DEFINE d == u[Len(u)].dev
  <2>1. /\ QueueInv(u) /\ \A i \in DOMAIN u : MessageInv(h, op, cl, c, u[i])
        /\ Len(u) \in DOMAIN u
    BY <1>3, <1>4, <1>9, FrontOf DEF LinesInv
  <2>2. /\ QueueInv(v) /\ \A j \in DOMAIN v : v[j].dev = d => v[j].type # "close"
        /\ \A j \in DOMAIN v : \E i \in DOMAIN u : /\ v[j].dev = u[i].dev
                                                   /\ v[j].type = u[i].type \/ v[j].type = "cut"
    <3> HIDE DEF d
    <3>1. d = u[Len(u)].dev
      BY DEF d
    <3> QED BY <1>3, <2>1, <3>1, ShortQueue
  <2>3. \A j \in DOMAIN v : MessageInv(h, op, cl, c, v[j])
    <3> SUFFICES ASSUME NEW j \in DOMAIN v PROVE MessageInv(h, op, cl, c, v[j])
      OBVIOUS
    <3>1. PICK i \in DOMAIN u : v[j].dev = u[i].dev /\ (v[j].type = u[i].type \/ v[j].type = "cut")
      BY <2>2
    <3>2. MessageInv(h, op, cl, c, u[i])
      BY <2>1
    <3> QED BY <3>1, <3>2 DEF MessageInv
  <2>4. \A x, m : MessageInv(h, op, cl, x, m)' <=> MessageInv(h, op, cl, x, m)
    BY <1>1, HowKept DEF MessageInv
  <2>5. \A q : LineOf(h, q)' = LineOf(h, q) /\ (LineOf(h, q) \in DOMAIN conn' <=> LineOf(h, q) \in DOMAIN conn)
    BY <1>1, <1>3, HowKept
  <2>6. \A x \in ConnsOf(h) : conn'[x].accepted = conn[x].accepted
    BY <1>5
  <2>7. \A q \in op : LineOf(h, q) \in DOMAIN conn' /\ conn'[LineOf(h, q)].accepted
    BY <1>9, <2>5, <2>6, LineOfHost DEF LinesInv, ConnsOf
  <2>8. \A w : QueueInv(w)' <=> QueueInv(w)
    BY DEF QueueInv
  <2>9. ASSUME NEW x \in ConnsOf(h)
        PROVE  /\ \E q \in Parts : x = LineOf(h, q)
               /\ conn'[x].accepted => h \in DOMAIN ch
               /\ \A i \in DOMAIN conn'[x].up : MessageInv(h, op, cl, x, conn'[x].up[i])
               /\ QueueInv(conn'[x].up)
    <3>1. CASE x = c
      BY <1>5, <1>9, <2>2, <2>3, <3>1 DEF LinesInv
    <3>2. CASE x # c
      BY <1>5, <1>9, <3>2 DEF LinesInv
    <3> QED BY <3>1, <3>2
  <2>10. LinesInv(h, op, cl)'
    BY <1>1, <1>5, <1>9, <2>4, <2>5, <2>7, <2>8, <2>9, HowKept DEF LinesInv
  <2>11. <<c[3], d>> \in Parts \ cl /\ c = LineOf(h, <<c[3], d>>)
    BY <2>1 DEF MessageInv
  <2>12. Unclosed(h, cl, <<c[3], d>>)'
    <3> SUFFICES ASSUME NEW x \in ConnsOf(h), x[3] = c[3], NEW i \in DOMAIN conn'[x].up, conn'[x].up[i].dev = d
                 PROVE  conn'[x].up[i].type # "close"
      BY <1>5, <2>11 DEF Unclosed
    <3>1. MessageInv(h, op, cl, x, conn'[x].up[i])
      BY <2>9
    <3>2. x = c
      BY <2>11, <3>1 DEF MessageInv
    <3> QED BY <1>5, <2>2, <3>2
  <2>13. ASSUME NEW q, Unclosed(h, cl, q) PROVE Unclosed(h, cl, q)'
    <3> SUFFICES ASSUME NEW x \in ConnsOf(h), x[3] = q[1], NEW i \in DOMAIN conn'[x].up,
                        conn'[x].up[i].dev = q[2], conn'[x].up[i].type = "close"
                 PROVE  FALSE
      BY <1>5, <2>13 DEF Unclosed
    <3>1. CASE x = c
      <4>1. PICK k \in DOMAIN u : v[i].dev = u[k].dev /\ (v[i].type = u[k].type \/ v[i].type = "cut")
        BY <1>5, <2>2, <3>1
      <4>2. u[k].dev = q[2] /\ u[k].type = "close" /\ k \in DOMAIN conn[c].up /\ u = conn[c].up
        BY <1>3, <1>5, <3>1, <4>1
      <4> QED BY <1>4, <2>13, <3>1, <4>2 DEF Unclosed
    <3>2. CASE x # c
      BY <1>5, <2>13, <3>2 DEF Unclosed
    <3> QED BY <3>1, <3>2
  <2> QED BY <2>10, <2>11, <2>12, <2>13
<1>10. ASSUME NEW op \in SUBSET Parts, NEW cl \in SUBSET Parts, LiveInv(h, op, cl)
       PROVE  HostInv(h)'
  <2>1. LinesInv(h, op, cl) /\ how.runs <= 1 /\ \A t \in Threads : tpc[h][t] = "none"
    BY <1>4, <1>10 DEF LiveInv, ClientInv
  <2>2. PICK q \in Parts : Unclosed(h, cl, q)' /\ LinesInv(h, op, cl)'
    BY <1>9, <2>1
  <2>3. ShortInv(h, op, cl, q)'
    BY <1>1, <1>4, <1>10, <2>1, <2>2 DEF ShortInv, LiveInv, client, Threads
  <2> QED BY <1>1, <2>3, HowKept DEF HostInv, Short
<1>11. ASSUME NEW op \in SUBSET Parts, NEW cl \in SUBSET Parts, NEW q \in Parts, ShortInv(h, op, cl, q)
       PROVE  HostInv(h)'
  <2>1. LinesInv(h, op, cl)' /\ Unclosed(h, cl, q)'
    BY <1>9, <1>11 DEF ShortInv
  <2>2. ShortInv(h, op, cl, q)'
    BY <1>1, <1>11, <2>1 DEF ShortInv, client, Threads
  <2> QED BY <1>1, <2>2, HowKept DEF HostInv, Short
<1> QED BY <1>6, <1>7, <1>8, <1>10, <1>11 DEF HostInv, Live, Short

LEMMA LoseElsewhere ==
  ASSUME IInv, Typed, NEW c \in DOMAIN conn, Lose(c)
  PROVE  Typed' /\ \A g \in Hosts \ {c[1]} : (HostInv(g) => HostInv(g)') /\ (OwnInv(g) => OwnInv(g)')
<1> DEFINE h == c[1]
<1>1. /\ how' = how /\ UNCHANGED client /\ run' = run /\ sent' = sent /\ filed' = filed /\ ended' = ended
      /\ ch' = ch /\ backlog' = backlog
  BY DEF Lose, server, client
<1>2. PICK v : conn' = [conn EXCEPT ![c].up = v]
  BY LoseQueue DEF IInv
<1>3. ConnElsewhere(h, conn') /\ DOMAIN conn' = DOMAIN conn
  BY <1>2 DEF ConnElsewhere
<1>4. \A g \in Hosts \ {h} : SameLines(g) /\ SameAccepted(g) /\ SameAcks(g)
  BY <1>1, <1>3, ConnElsewhereSame
<1>5. \A g : SameCount(g) /\ SameData(g) /\ SameClient(g) /\ SameEnded(g)
  BY <1>1 DEF SameCount, SameData, SameClient, SameEnded, client
<1>6. Typed'
  BY <1>1, <1>3 DEF Typed, client, Threads, Queued
<1> QED BY <1>1, <1>4, <1>5, <1>6, HostFrame, OwnFrame

(* Which connections are those of killed clients: a client's own step ...    *)
LEMMA KilledSub ==
  ASSUME Conns(conn)
  PROVE  /\ \A c, m : KilledIn(Sent(c, m)) \subseteq KilledIn(conn)
         /\ \A c : KilledIn(TakeAnswer(c)) \subseteq KilledIn(conn)
         /\ \A c, m : KilledIn(Added(conn, c, NewConn(m))) \subseteq KilledIn(conn)
         /\ \A f, cs : Conns(f) => KilledIn(Shut(cs, f)) \subseteq KilledIn(f)
         /\ \A cs : KilledIn(Killed(cs, conn)) \subseteq KilledIn(conn) \cup cs
<1>1. ASSUME NEW x \in SomeConnection
      PROVE  /\ \A m : [x EXCEPT !.up = Append(@, m)].client = x.client
             /\ [x EXCEPT !.acks = @ - 1].client = x.client
             /\ [x EXCEPT !.client = "closed"].client = "closed"
  BY DEF SomeConnection
<1>2. \A c, m : KilledIn(Sent(c, m)) \subseteq KilledIn(conn)
  BY <1>1 DEF KilledIn, Sent, Conns
<1>3. \A c : KilledIn(TakeAnswer(c)) \subseteq KilledIn(conn)
  BY <1>1 DEF KilledIn, TakeAnswer, Conns
<1>4. \A c, m : KilledIn(Added(conn, c, NewConn(m))) \subseteq KilledIn(conn)
  BY DEF KilledIn, Added, NewConn
<1>5. \A f, cs : Conns(f) => KilledIn(Shut(cs, f)) \subseteq KilledIn(f)
  BY <1>1 DEF KilledIn, Shut, Conns
<1>6. \A cs : KilledIn(Killed(cs, conn)) \subseteq KilledIn(conn) \cup cs
  BY DEF KilledIn, Killed
<1> QED BY <1>2, <1>3, <1>4, <1>5, <1>6

LEMMA KilledClient ==
  ASSUME Orderly, IInv, Typed, KilledInv, NEW h \in Hosts, ClientStep(h)
  PROVE  KilledInv'
<1>0. /\ OneClient(h) /\ Conns(conn) /\ how' = how
      /\ \A c \in ConnsOf(h) : c[1] = h
      /\ \A c \in KilledIn(conn) : c[1] \in Hosts
  BY ClientVars, ClientSent DEF IInv, ConnsOf, KilledIn, Typed
<1>1. \A g \in Hosts \ {h} : main'[g] = main[g] /\ run'[g] = run[g]
  BY <1>0 DEF OneClient, Typed, IInv, Client
<1>2. CASE StartRun(h)
  <2>1. run[h] \in Nat /\ run'[h] = run[h] + 1 /\ run[h] < how.runs /\ conn' = conn
    BY <1>2 DEF StartRun, IInv, Client
  <2>2. run[h] = 0 \/ how.dies = {}
    <3>1. how \in Ways /\ how \in Way
      BY NetAssumption DEF IInv
    <3>2. how.runs \in Nat /\ (how.runs <= 1 \/ how.dies = {})
      BY <3>1 DEF Orderly, Way
    <3> QED BY <2>1, <3>2
  <2>3. \A c \in KilledIn(conn) : c[1] # h
    BY <2>2 DEF KilledInv
  <2>4. run'[h] # 0 /\ KilledIn(conn') = KilledIn(conn)
    BY <2>1 DEF KilledIn
  <2> QED BY <1>0, <1>1, <2>3, <2>4 DEF KilledInv
<1>3. CASE Die(h)
  <2>1. h \in how.dies /\ main[h] # "off" /\ main'[h] = "off" /\ run' = run /\ conn' = Killed(ConnsOf(h), conn)
    BY <1>3 DEF Die, Gone, Goto, Typed
  <2>2. KilledIn(conn') \subseteq KilledIn(conn) \cup ConnsOf(h)
    BY <1>0, <2>1, KilledSub
  <2> QED BY <1>0, <1>1, <2>1, <2>2 DEF KilledInv
<1>4. ASSUME run' = run, main[h] # "off" \/ main' = main, KilledIn(conn') \subseteq KilledIn(conn)
      PROVE  KilledInv'
  BY <1>0, <1>1, <1>4 DEF KilledInv
<1>5. CASE Main(h) \/ Stop(h)
  <2>1. run' = run /\ main[h] # "off"
    BY <1>5 DEF Main, Stop, OpenClientConnection, ConnectFails, Unblock, CloseClientConnections, Exit, AllLeft, Gone
  <2>2. \/ conn' = conn \/ \E c, m : conn' = Added(conn, c, NewConn(m))
        \/ \E cs : conn' = Shut(cs, conn)
    BY <1>5 DEF Main, Stop, OpenClientConnection, ConnectFails, Unblock, CloseClientConnections, Exit, Gone
  <2>3. KilledIn(conn') \subseteq KilledIn(conn)
    BY <1>0, <2>2, KilledSub
  <2> QED BY <1>4, <2>1, <2>3
<1>6. ASSUME NEW t \in Threads, Tracer(h, t) PROVE KilledInv'
  <2>1. run' = run /\ main' = main
    BY <1>6 DEF Tracer, OpenIo, OpenAnswered, TraceFileFails, SetupClientFails, Leave, SendClose,
                WaitAnswer, NoAnswer, CloseAnswered, Closed, AllClosed
  <2>2. \/ \E c, m : conn' = Sent(c, m) \/ conn' = Added(conn, c, NewConn(<<m>>))
        \/ \E f, cs : (f = conn \/ \E c : f = TakeAnswer(c)) /\ (conn' = f \/ conn' = Shut(cs, f))
    <3>1. CASE OpenIo(h, t)
      <4>1. PICK c, m : conn' = Sent(c, m) \/ conn' = Added(conn, c, NewConn(<<m>>))
        BY <3>1 DEF OpenIo
      <4> QED BY <4>1
    <3>2. CASE SendClose(h, t)
      <4>1. PICK c, m : conn' = Sent(c, m)
        BY <3>2 DEF SendClose
      <4> QED BY <4>1
    <3>3. ASSUME NEW f, f = conn \/ \E c : f = TakeAnswer(c), conn' = f \/ Closed(h, t, f)
          PROVE  \E cs : conn' = f \/ conn' = Shut(cs, f)
      BY <3>3 DEF Closed
    <3>4. CASE OpenAnswered(h, t) \/ CloseAnswered(h, t)
      <4>1. PICK f : (\E c : f = TakeAnswer(c)) /\ (conn' = f \/ Closed(h, t, f))
        BY <3>4 DEF OpenAnswered, CloseAnswered
      <4> QED BY <3>3, <4>1
    <3>5. CASE NoAnswer(h, t)
      BY <3>3, <3>5 DEF NoAnswer
    <3>6. CASE TraceFileFails(h, t) \/ SetupClientFails(h, t) \/ Leave(h, t) \/ WaitAnswer(h, t) \/ AllClosed(h, t)
      BY <3>6 DEF TraceFileFails, SetupClientFails, Leave, WaitAnswer, AllClosed
    <3> QED BY <1>6, <3>1, <3>2, <3>4, <3>5, <3>6 DEF Tracer
  <2>3. KilledIn(conn') \subseteq KilledIn(conn)
    <3>1. ASSUME NEW f, f = conn \/ \E c : f = TakeAnswer(c), NEW cs, conn' = f \/ conn' = Shut(cs, f)
          PROVE  KilledIn(conn') \subseteq KilledIn(conn)
      <4>1. Conns(f) /\ KilledIn(f) \subseteq KilledIn(conn)
        BY <1>0, <3>1, AnswerConns, KilledSub
      <4> QED BY <1>0, <3>1, <4>1, KilledSub
    <3> QED BY <1>0, <2>2, <3>1, KilledSub
  <2> QED BY <1>4, <2>1, <2>3
<1>7. ASSUME NEW t \in Cpus, NEW d \in Devs, NEW len \in Lens, SendData(h, t, d, len)
      PROVE  KilledInv'
  <2>1. run' = run /\ main' = main /\ \E c, m : conn' = Sent(c, m)
    BY <1>7 DEF SendData
  <2>2. KilledIn(conn') \subseteq KilledIn(conn)
    BY <1>0, <2>1, KilledSub
  <2> QED BY <1>4, <2>1, <2>2
<1> QED BY <1>2, <1>3, <1>5, <1>6, <1>7 DEF ClientStep

(* ... and the others, which take none away and add none.                    *)
LEMMA KilledOthers ==
  ASSUME IInv, KilledInv, UNCHANGED <<how, client>>,
         AddConnection \/ (\E c \in DOMAIN conn : Serve(c) \/ Lose(c)) \/ conn' = conn
  PROVE  KilledInv'
<1>1. how' = how /\ run' = run /\ main' = main
  BY DEF client
<1>2. \A x \in SomeConnection : \A v : /\ [x EXCEPT !.accepted = TRUE].client = x.client
                                       /\ [x EXCEPT !.up = v].client = x.client
  BY DEF SomeConnection
<1>3. KilledIn(conn') \subseteq KilledIn(conn)
  <2>1. CASE AddConnection
    BY <1>2, <2>1 DEF AddConnection, KilledIn, IInv, Conns
  <2>2. ASSUME NEW c \in DOMAIN conn, Lose(c) PROVE KilledIn(conn') \subseteq KilledIn(conn)
    <3>1. PICK v : conn' = [conn EXCEPT ![c].up = v]
      BY <2>2, LoseQueue DEF IInv
    <3> QED BY <1>2, <3>1 DEF KilledIn, IInv, Conns
  <2>3. ASSUME NEW c \in DOMAIN conn, NEW n, conn' = Taken(c, n) PROVE KilledIn(conn') \subseteq KilledIn(conn)
    BY <2>3 DEF KilledIn, Taken
  <2>4. ASSUME NEW c \in DOMAIN conn, Serve(c) PROVE KilledIn(conn') \subseteq KilledIn(conn)
    <3>1. CASE \E n : conn' = Taken(c, n)
      BY <2>3, <3>1
    <3>2. CASE \E S \in SUBSET DOMAIN conn : conn' = [x \in S |-> conn[x]]
      BY <3>2 DEF KilledIn
    <3>3. CASE ClientCloses(c) /\ LastClose(c[1])
      <4>1. PICK S \in SUBSET DOMAIN conn : S = {y \in DOMAIN conn : y[1] # c[1] \/ ~conn[y].accepted}
        OBVIOUS
      <4>2. conn' = [x \in S |-> conn[x]]
        BY <3>3, <4>1 DEF ClientCloses
      <4> QED BY <3>2, <4>2
    <3> QED BY <2>4, <3>1, <3>3 DEF Serve, ClientOpens, ReadData, ClientCloses
  <2>5. CASE conn' = conn
    BY <2>5 DEF KilledIn
  <2> QED BY <2>1, <2>2, <2>4, <2>5
<1> QED BY <1>1, <1>3 DEF KilledInv

LEMMA InitSession == Init => SessionInv
<1> SUFFICES ASSUME Init PROVE SessionInv
  OBVIOUS
<1>1. IInv
  BY InitInv
<1>2. Typed
  <2>1. <<>> \in Seq({})
    OBVIOUS
  <2>2. Queued
    <3>1. PICK S : S = {}
      OBVIOUS
    <3>2. backlog \in Seq(S) /\ \A c \in S : c[1] \in Hosts
      BY <2>1, <3>1 DEF Init
    <3> QED BY <3>2 DEF Queued
  <2> QED BY <2>2 DEF Init, Typed, Mains, Labels
<1>3. ASSUME NEW h \in Hosts PROVE Fresh(h)
  BY DEF Init, Fresh, ConnsOf, NoneOf, Empty
<1>4. ASSUME NEW h \in Hosts PROVE OwnInv(h)
  BY DEF Init, OwnInv, ConnsOf, RunsUpTo
<1>5. KilledInv /\ ~exited
  BY DEF Init, KilledInv, KilledIn
<1> QED BY <1>1, <1>2, <1>3, <1>4, <1>5 DEF SessionInv, RunningInv, HostInv

LEMMA AddTyped ==
  ASSUME Typed, AddConnection
  PROVE  Typed'
<1>1. DOMAIN conn' = DOMAIN conn
  BY DEF AddConnection
<1>2. PICK S : backlog \in Seq(S) /\ \A c \in S : c[1] \in Hosts
  BY DEF Typed, Queued
<1>3. Head(backlog) \in S /\ Tail(backlog) \in Seq(S)
  BY <1>2 DEF AddConnection
<1>4. Queued'
  BY <1>2, <1>3 DEF AddConnection, Queued
<1>5. \A h \in DOMAIN ch' : h \in Hosts
  BY <1>2, <1>3 DEF AddConnection, Added, Typed
<1> QED BY <1>1, <1>4, <1>5 DEF Typed, AddConnection, client, Mains, Labels, Threads

LEMMA StillHost ==
  ASSUME UNCHANGED vars, NEW h, HostInv(h), OwnInv(h)
  PROVE  HostInv(h)' /\ OwnInv(h)'
<1>1. /\ how' = how /\ run' = run /\ main' = main /\ done' = done /\ tpc' = tpc /\ ios' = ios
      /\ failed' = failed /\ conn' = conn /\ ch' = ch /\ sent' = sent /\ filed' = filed /\ ended' = ended
  BY DEF vars, client, server
<1>2. /\ SameLines(h) /\ SameAccepted(h) /\ SameAcks(h) /\ SameCount(h) /\ SameData(h)
      /\ SameClient(h) /\ SameEnded(h)
  BY <1>1 DEF SameLines, SameAccepted, SameAcks, SameCount, SameData, SameClient, SameEnded, ConnsOf
<1> QED BY <1>1, <1>2, HostFrame, OwnFrame

LEMMA ClientKeepsHost ==
  ASSUME Orderly, IInv, Typed, NEW h \in Hosts, HostInv(h), OwnInv(h), ClientStep(h), ~exited
  PROVE  HostInv(h)' /\ OwnInv(h)'
<1>1. ASSUME StartRun(h) \/ Main(h) \/ Stop(h) \/ Die(h)
      PROVE  HostInv(h)'
  <2>1. CASE StartRun(h)
    BY <2>1, StartHost
  <2>2. CASE OpenClientConnection(h)
    BY <2>2, ConnectHost
  <2>3. CASE ConnectFails(h) \/ Exit(h) \/ Die(h)
    BY <2>3, GoneHost
  <2>4. CASE Unblock(h)
    BY <2>4, UnblockHost
  <2>5. CASE CloseClientConnections(h)
    BY <2>5, CloseConnectionsHost
  <2>6. CASE Stop(h)
    BY <2>6, StopHost
  <2> QED BY <1>1, <2>1, <2>2, <2>3, <2>4, <2>5, <2>6 DEF Main
<1>2. ASSUME NEW t \in Threads, Tracer(h, t)
      PROVE  HostInv(h)'
  BY <1>2, OpenHost, AnsweredHost, FailsHost, LeaveHost, SendCloseHost, ClosingHost DEF Tracer
<1>3. ASSUME NEW t \in Cpus, NEW d \in Devs, NEW len \in Lens, SendData(h, t, d, len)
      PROVE  HostInv(h)'
  BY <1>3, SendHost
<1>4. HostInv(h)'
  BY <1>1, <1>2, <1>3 DEF ClientStep
<1>5. OwnInv(h)'
  BY StartHost, OwnClient
<1> QED BY <1>4, <1>5

(* While the server runs.                                                    *)
RunningStep ==
  \/ \E h \in Hosts : ClientStep(h)
  \/ AddConnection
  \/ \E c \in DOMAIN conn : Serve(c) \/ Lose(c)
  \/ UNCHANGED vars
LEMMA RunningKept ==
  ASSUME Orderly, IInv, RunningInv, ~exited, RunningStep
  PROVE  RunningInv' /\ exited' = exited
<1> USE DEF RunningInv
<1>1. ASSUME NEW h \in Hosts, ClientStep(h)
      PROVE  RunningInv' /\ exited' = exited
  <2>1. Typed' /\ \A g \in Hosts \ {h} : HostInv(g)' /\ OwnInv(g)'
    BY <1>1, ClientElsewhere
  <2>2. HostInv(h)' /\ OwnInv(h)'
    BY <1>1, ClientKeepsHost
  <2>3. KilledInv' /\ exited' = exited
    BY <1>1, KilledClient, ClientSent
  <2> QED BY <2>1, <2>2, <2>3
<1>2. ASSUME NEW c \in DOMAIN conn, Serve(c)
      PROVE  RunningInv' /\ exited' = exited
  <2>1. Typed' /\ \A g \in Hosts \ {c[1]} : HostInv(g)' /\ OwnInv(g)'
    BY <1>2, HandleElsewhere
  <2>2. HostInv(c[1])' /\ OwnInv(c[1])'
    <3>1. PICK h \in Hosts : h = c[1]
      BY <1>2 DEF Typed
    <3>2. HostInv(h) /\ OwnInv(h) /\ c \in ConnsOf(h)
      BY <1>2, <3>1 DEF ConnsOf
    <3>3. HostInv(h)'
      BY <1>2, <3>1, <3>2, OpensHost, ReadHost, ClosesHost DEF Serve
    <3>4. OwnInv(h)'
      BY <1>2, <3>2, OwnHandle
    <3> QED BY <3>1, <3>3, <3>4
  <2>3. how' = how /\ UNCHANGED client /\ exited' = exited
    BY <1>2 DEF Serve, ClientOpens, ReadData, ClientCloses
  <2>4. KilledInv'
    BY <1>2, <2>3, KilledOthers
  <2> QED BY <2>1, <2>2, <2>3, <2>4
<1>3. ASSUME NEW c \in DOMAIN conn, Lose(c)
      PROVE  RunningInv' /\ exited' = exited
  <2>1. Typed' /\ \A g \in Hosts \ {c[1]} : HostInv(g)' /\ OwnInv(g)'
    BY <1>3, LoseElsewhere
  <2>2. HostInv(c[1])' /\ OwnInv(c[1])'
    <3>1. PICK h \in Hosts : h = c[1]
      BY <1>3 DEF Typed
    <3> QED BY <1>3, <3>1, LoseHost
  <2>3. how' = how /\ UNCHANGED client /\ exited' = exited
    BY <1>3 DEF Lose, server
  <2>4. KilledInv'
    BY <1>3, <2>3, KilledOthers
  <2> QED BY <2>1, <2>2, <2>3, <2>4
<1>4. CASE AddConnection
  <2>1. Typed'
    BY <1>4, AddTyped
  <2>2. ASSUME NEW h \in Hosts PROVE HostInv(h)' /\ OwnInv(h)'
    BY <1>4, <2>2, AddHost, OwnAdd
  <2>3. how' = how /\ UNCHANGED client /\ exited' = exited
    BY <1>4 DEF AddConnection
  <2>4. KilledInv'
    BY <1>4, <2>3, KilledOthers
  <2> QED BY <2>1, <2>2, <2>3, <2>4
<1>5. CASE UNCHANGED vars
  <2>1. Typed'
    BY <1>5 DEF Typed, Queued, vars, client, server, Mains, Labels, Threads
  <2>2. ASSUME NEW h \in Hosts PROVE HostInv(h)' /\ OwnInv(h)'
    BY <1>5, <2>2, StillHost
  <2>3. how' = how /\ UNCHANGED client /\ exited' = exited /\ conn' = conn
    BY <1>5 DEF vars, server
  <2>4. KilledInv'
    BY <2>3, KilledOthers
  <2> QED BY <2>1, <2>2, <2>3, <2>4
<1> QED BY <1>1, <1>2, <1>3, <1>4, <1>5 DEF RunningStep

LEMMA RunningComplete ==
  ASSUME RunningInv
  PROVE  EndOfRunComplete
<1> SUFFICES ASSUME NEW f \in DOMAIN sent, <<f[1], f[2]>> \in ended
             PROVE  sent[f] = Bytes(filed, f[1], f[2], f[3], f[4])
  BY DEF EndOfRunComplete
<1>1. PICK h \in Hosts : h = f[1]
  BY DEF RunningInv, Typed
<1>2. HostInv(h) /\ OwnInv(h)
  BY DEF RunningInv
<1>3. CASE f[2] # run[h]
  BY <1>1, <1>2, <1>3 DEF OwnInv
<1>4. CASE f[2] = run[h]
  <2>1. ~NoneOf(h, sent)
    BY <1>1, <1>4 DEF NoneOf
  <2>2. PICK x \in ended : x = <<h, run[h]>>
    BY <1>1, <1>4
  <2>3. ~Live(h) /\ ~Short(h)
    BY <2>2 DEF Live, LiveInv, Short, ShortInv
  <2>4. KeysInv(h) /\ \A q \in Parts : SentOf(h, q) = FiledOf(h, q)
    BY <1>2, <2>1, <2>3 DEF HostInv, Fresh, Void, Over
  <2>5. PICK q \in Parts : f = <<h, run[h], q[1], q[2]>>
    BY <1>1, <1>4, <2>4 DEF KeysInv
  <2>6. sent[f] = SentOf(h, q) /\ Bytes(filed, f[1], f[2], f[3], f[4]) = FiledOf(h, q)
    BY <2>5 DEF SentOf, FiledOf, Bytes
  <2> QED BY <2>4, <2>6
<1> QED BY <1>3, <1>4

(* When the server has exited, nothing can be opened or sent.                *)
LEMMA ExitedKept ==
  ASSUME ExitedInv, exited, [Next]_vars
  PROVE  ExitedInv' /\ exited' = exited
<1> USE DEF ExitedInv
<1>1. ASSUME sent' = sent, filed' = filed, ended' = ended PROVE EndOfRunComplete'
  BY <1>1 DEF EndOfRunComplete, Bytes
<1>2. \A c, message : DOMAIN Sent(c, message) = {} /\ DOMAIN TakeAnswer(c) = {}
  BY DEF Sent, TakeAnswer
<1>3. \A cs, f : DOMAIN f = {} => DOMAIN Shut(cs, f) = {} /\ DOMAIN Killed(cs, f) = {}
  BY DEF Shut, Killed
<1>4. ASSUME NEW h \in Hosts, ClientStep(h) PROVE ExitedInv' /\ exited' = exited
  <2>1. ch' = ch /\ filed' = filed /\ ended' = ended /\ exited' = exited
    BY <1>4, ClientSent
  <2>2. ASSUME NEW f, Gone(h, f), DOMAIN f = {}
        PROVE  DOMAIN conn' = {} /\ backlog' = backlog /\ sent' = sent
    BY <2>2 DEF Gone
  <2>3. CASE Main(h) \/ Die(h)
    BY <1>1, <1>3, <2>1, <2>2, <2>3
       DEF Main, Die, OpenClientConnection, ConnectFails, Unblock, CloseClientConnections, Exit
  <2>4. CASE StartRun(h) \/ Stop(h)
    BY <1>1, <2>1, <2>4 DEF StartRun, Stop
  <2>5. ASSUME NEW t \in Threads, Tracer(h, t) PROVE ExitedInv'
    <3>1. ASSUME NEW f, Closed(h, t, f), DOMAIN f = {}
          PROVE  DOMAIN conn' = {} /\ backlog' = backlog /\ sent' = sent
      BY <1>3, <3>1 DEF Closed
    <3>2. CASE OpenIo(h, t) \/ OpenAnswered(h, t) \/ SendClose(h, t)
      BY <1>1, <1>2, <2>1, <3>2 DEF OpenIo, OpenAnswered, SendClose
    <3>3. CASE NoAnswer(h, t) \/ CloseAnswered(h, t)
      BY <1>1, <1>2, <2>1, <3>1, <3>3 DEF NoAnswer, CloseAnswered
    <3>4. CASE TraceFileFails(h, t) \/ SetupClientFails(h, t) \/ Leave(h, t) \/ WaitAnswer(h, t) \/ AllClosed(h, t)
      BY <1>1, <2>1, <3>4 DEF TraceFileFails, SetupClientFails, Leave, WaitAnswer, AllClosed
    <3> QED BY <2>5, <3>2, <3>3, <3>4 DEF Tracer
  <2>6. ASSUME NEW t \in Cpus, NEW d \in Devs, NEW len \in Lens, SendData(h, t, d, len)
        PROVE  FALSE
    BY <2>6 DEF SendData
  <2> QED BY <1>4, <2>1, <2>3, <2>4, <2>5, <2>6 DEF ClientStep
<1>5. ~AddConnection
  BY DEF AddConnection
<1>6. CASE UNCHANGED vars
  BY <1>1, <1>6 DEF vars, client, server
<1> QED BY <1>4, <1>5, <1>6 DEF Next, ClientStep

LEMMA NextSession ==
  ASSUME Orderly
  PROVE  SessionInv /\ [Next]_vars => SessionInv'
<1> SUFFICES ASSUME SessionInv, [Next]_vars PROVE SessionInv'
  OBVIOUS
<1>1. IInv'
  BY NextInv DEF SessionInv
<1>2. CASE exited
  BY <1>1, <1>2, ExitedKept DEF SessionInv
<1>3. CASE ~exited
  <2>1. RunningStep \/ \E c \in DOMAIN conn : ServerExits(c)
    BY DEF Next, Handle, Serve, ClientStep, RunningStep
  <2>2. CASE RunningStep
    BY <1>1, <1>3, <2>2, RunningKept DEF SessionInv
  <2>3. ASSUME NEW c \in DOMAIN conn, ServerExits(c) PROVE SessionInv'
    <3>1. /\ conn' = <<>> /\ ch' = <<>> /\ backlog' = <<>> /\ exited'
          /\ sent' = sent /\ filed' = filed /\ ended' = ended
      BY <2>3 DEF ServerExits, client
    <3>2. EndOfRunComplete'
      BY <1>3, <3>1, RunningComplete DEF SessionInv, EndOfRunComplete, Bytes
    <3>3. DOMAIN conn' = {} /\ DOMAIN ch' = {}
      BY <3>1
    <3> QED BY <1>1, <3>1, <3>2, <3>3 DEF SessionInv, ExitedInv
  <2> QED BY <2>1, <2>2, <2>3
<1> QED BY <1>2, <1>3

(* "len == 1 means that the other end signalled end-of-run": when the server  *)
(* ends the session of a host, by the last close header, every byte that the *)
(* client had sent is in the files: for every number of hosts, CPUs and       *)
(* devices and both ways of sending, when no client is stopped before it     *)
(* traces; whatever clients fail or are killed when each runs once, and      *)
(* however often a client runs over send if none fails or is killed.         *)
THEOREM SessionsComplete ==
  ASSUME Orderly
  PROVE  Spec => []EndOfRunComplete
<1>1. SessionInv => EndOfRunComplete
  BY RunningComplete DEF SessionInv, ExitedInv
<1> QED BY <1>1, InitSession, NextSession, PTL DEF Spec

(* No file of the server holds data of two runs, on the same assumptions: a  *)
(* client that runs again over send has waited for the answer to each of its *)
(* closes (net_send_close), so that the server has ended its session.        *)
THEOREM OneRunInEachFile ==
  ASSUME Orderly
  PROVE  Spec => []OneRunPerFile
<1>1. SessionInv => OneRunPerFile
  <2> SUFFICES ASSUME SessionInv, NEW h \in DOMAIN ch, NEW d \in DOMAIN ch[h].devs
               PROVE  ch[h].devs[d].runs \subseteq {ch[h].devs[d].id}
    BY DEF OneRunPerFile
  <2>1. RunningInv /\ h \in Hosts
    BY DEF SessionInv, ExitedInv, RunningInv, Typed
  <2> QED BY <2>1 DEF RunningInv, OwnInv
<1> QED BY <1>1, InitSession, NextSession, PTL DEF Spec

(* open_ios: "This ensures that the server knows about all connections &     *)
(* devices before _any_ closes": when the server takes a close header from   *)
(* an orderly client, it has accepted every connection of that client and    *)
(* taken every open header: on the same assumptions.                         *)
THEOREM AllKnownBeforeCloses ==
  ASSUME Orderly
  PROVE  Spec => KnownBeforeCloses
<1> DEFINE Known ==
      \A c \in DOMAIN conn :
       ClientCloses(c) /\ failed[c[1]] = {} /\ c[1] \notin how.dies =>
         \A t \in CpusUsed, d \in 1..how.devs :
           LET o == <<c[1], c[2], t, IF Send THEN 0 ELSE d>> IN
           /\ o \in DOMAIN conn
           /\ conn[o].accepted
           /\ ~\E i \in DOMAIN conn[o].up : conn[o].up[i].type = "open"
<1>1. SessionInv => Known
  <2> SUFFICES ASSUME SessionInv, NEW c \in DOMAIN conn, ClientCloses(c), failed[c[1]] = {},
                      c[1] \notin how.dies, NEW t \in CpusUsed, NEW d \in 1..how.devs,
                      NEW o, o = <<c[1], c[2], t, IF Send THEN 0 ELSE d>>
               PROVE  /\ o \in DOMAIN conn
                      /\ conn[o].accepted
                      /\ ~\E i \in DOMAIN conn[o].up : conn[o].up[i].type = "open"
    OBVIOUS
  <2>0. RunningInv
    BY DEF SessionInv, ExitedInv
  <2>1. PICK h \in Hosts : h = c[1]
    BY <2>0 DEF RunningInv, Typed
  <2>2. c \in ConnsOf(h) /\ 1 \in DOMAIN conn[c].up /\ conn[c].up[1].type = "close"
    BY <2>1 DEF ClientCloses, Received, NextMessage, ConnsOf, SessionInv, IInv, Conns, SomeConnection
  <2>3. Live(h)
    BY <2>0, <2>1, <2>2, ShortOff DEF RunningInv, HostInv, Fresh, Void, Over
  <2>4. PICK op, cl \in SUBSET Parts : LiveInv(h, op, cl)
    BY <2>3 DEF Live
  <2>5. op = Parts /\ \E q \in Parts : c = LineOf(h, q)
    BY <2>2, <2>4 DEF LiveInv, LinesInv, MessageInv
  <2>6. o = LineOf(h, <<t, d>>) /\ <<t, d>> \in Parts
    BY <2>1, <2>5, LineOfHost DEF LineOf, Parts
  <2>7. o \in DOMAIN conn /\ conn[o].accepted /\ o \in ConnsOf(h)
    BY <2>4, <2>5, <2>6, LineOfHost DEF LiveInv, LinesInv, ConnsOf
  <2>8. \A i \in DOMAIN conn[o].up : conn[o].up[i].type # "open"
    BY <2>4, <2>5, <2>7 DEF LiveInv, LinesInv, MessageInv
  <2> QED BY <2>7, <2>8
<1>2. SessionInv => [Known]_vars
  BY <1>1
<1> HIDE DEF Known
<1>3. Spec => [][Known]_vars
  BY <1>2, InitSession, NextSession, PTL DEF Spec
<1> QED BY <1>3 DEF KnownBeforeCloses, Known
=============================================================================
