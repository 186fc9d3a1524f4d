------------------------------- MODULE Quinn_proofs -------------------------------
(***************************************************************************)
(* What holds of the quinn client and server, and of the script and the    *)
(* test that drive them, for any number of clients, experiments and health *)
(* checks, and any sizes.                                                  *)
(***************************************************************************)
EXTENDS MCQuinn, TLAPS

-----------------------------------------------------------------------------
(***************************************************************************)
(* The inductive invariant.                                                *)
(***************************************************************************)
Servers == {"off", "starting", "listening"} \cup Over

\* The exchange of a client: its whole request is on the stream from `reading` on.
ExchangeInv(e) ==
  /\ e \in Exchanges
  /\ e.written <= e.size
  /\ e.delivered <= e.written
  /\ e.client \in {"idle", "invalid", "connecting", "connected", "writing"} => e.header # "whole"
  /\ e.client \in {"reading", "ok"} => e.header = "whole"

ConnInv ==
  /\ conn \in [Clients -> Exchanges]
  /\ \A c \in Clients : ExchangeInv(conn[c])

\* From the launch on, a container that is not on its way out is the experiment's; from
\* the teardown on, one that is not being stopped had not been found running.
ScriptInv ==
  /\ script = "wait" /\ container \notin {"none", "removing"} => launched = experiment
  /\ script \in {"client", "running"} => launched = experiment
  /\ script = "stopping all" /\ ~late => container \in {"stopping", "none", "removing"}
  /\ script = "exited" /\ ~late => container \in {"none", "removing"}

IInv ==
  /\ server \in Servers
  /\ ConnInv
  /\ ScriptTypeOK /\ ScriptInv
  /\ TestTypeOK

-----------------------------------------------------------------------------
(***************************************************************************)
(* What PerfExchange sees of an exchange, and of a step from e to f.       *)
(***************************************************************************)
Phase(e) ==
  IF ~(e.header = "whole") THEN "idle"
  ELSE IF e.client \in {"failed", "dropped"} THEN "lost" ELSE "open"

Requested(e) == IF e.header = "whole" THEN e.size ELSE 0

Unseen(e, f) ==
  /\ Phase(f) = Phase(e) /\ Requested(f) = Requested(e) /\ f.delivered = e.delivered
  /\ f.client = "ok" <=> e.client = "ok"

Requests(e, f) ==
  /\ Phase(e) = "idle" /\ Phase(f) = "open" /\ Requested(f) \in Sizes
  /\ f.delivered = e.delivered
  /\ e.client # "ok" /\ f.client # "ok"

Succeeds(e, f) ==
  /\ Phase(e) = "open" /\ Phase(f) = "open" /\ Requested(f) = Requested(e)
  /\ f.delivered = Requested(e) /\ f.delivered \in e.delivered .. Requested(e)
  /\ e.client # "ok" /\ f.client = "ok"

Loses(e, f) ==
  /\ Phase(e) = "open" /\ Phase(f) = "lost" /\ Requested(f) = Requested(e)
  /\ f.delivered \in e.delivered .. Requested(e)
  /\ e.client # "ok" /\ f.client # "ok"

\* The exchange of c goes on, and no other does.
Moves(c) ==
  \E f : /\ conn' = [conn EXCEPT ![c] = f]
         /\ ExchangeInv(f)
         /\ \/ Unseen(conn[c], f) \/ Requests(conn[c], f)
            \/ Succeeds(conn[c], f) \/ Loses(conn[c], f)

\* No exchange goes on.
Rests ==
  /\ conn' \in [Clients -> Exchanges]
  /\ \A c \in Clients : ExchangeInv(conn'[c]) /\ Unseen(conn[c], conn'[c])

ConnStep == Rests \/ \E c \in Clients : Moves(c)

LEMMA SizeNat == \A n \in Sizes : n \in Nat
BY SizesAssumption

\* A blob size survives Request::to_bytes and Blob::try_from.
LEMMA HeaderRoundTrip ==
  ASSUME ConnInv, NEW c \in Clients
  PROVE  BlobSize(c) = conn[c].size
<1> DEFINE n == conn[c].size
<1>1. n \in Sizes
  BY DEF ConnInv, Exchanges
<1>2. n \in Nat /\ Base \in Nat /\ Base > 0
  BY <1>1, SizeNat, BaseAssumption
<1> HIDE DEF n
<1>3. n = Base * (n \div Base) + (n % Base) /\ n \div Base \in Nat /\ n % Base \in Nat
  BY <1>2, Z3
<1>4. (n \div Base) * Base + (n % Base) = n
  BY <1>2, <1>3
<1>5. QED
  BY <1>4 DEF n, BlobSize, ToBytes, FromBytes

LEMMA Resting ==
  ASSUME ConnInv, conn' = conn
  PROVE  Rests
BY DEF ConnInv, Rests, Unseen

LEMMA ConnStepInv ==
  ASSUME ConnInv, ConnStep
  PROVE  ConnInv'
BY DEF ConnInv, ConnStep, Rests, Moves, ExchangeInv

-----------------------------------------------------------------------------
(***************************************************************************)
(* The steps of the clients and the server.                                *)
(***************************************************************************)
\* A client that fails or is dropped loses an exchange that it has requested; what its
\* stream still carries then is not a request.
LEMMA Leaving ==
  ASSUME NEW c \in Clients, NEW f, ExchangeInv(conn[c]), ExchangeInv(f),
         conn[c].client \in {"connecting", "connected", "writing", "reading"},
         f.client \in {"failed", "dropped"}, f.header = "whole" <=> conn[c].header = "whole",
         f.size = conn[c].size, f.delivered = conn[c].delivered,
         conn' = [conn EXCEPT ![c] = f]
  PROVE  Moves(c)
<1> DEFINE e == conn[c]
<1>1. e.client # "ok" /\ f.client # "ok"
  OBVIOUS
<1>2. CASE e.header # "whole"
  <2>1. Phase(e) = "idle" /\ Phase(f) = "idle" /\ Requested(e) = 0 /\ Requested(f) = 0
    BY <1>2 DEF Phase, Requested
  <2>2. Unseen(e, f)
    BY <1>1, <2>1 DEF Unseen
  <2>3. QED
    BY <2>2 DEF Moves
<1>3. CASE e.header = "whole"
  <2>1. Phase(e) = "open" /\ Phase(f) = "lost" /\ Requested(e) = e.size /\ Requested(f) = e.size
    BY <1>3 DEF Phase, Requested
  <2>2. e.delivered \in e.delivered .. e.size
    BY SizeNat DEF Exchanges, ExchangeInv
  <2>3. Loses(e, f)
    BY <1>1, <2>1, <2>2 DEF Loses
  <2>4. QED
    BY <2>3 DEF Moves
<1>4. QED
  BY <1>2, <1>3

LEMMA ClientMoves ==
  ASSUME ConnInv, NEW c \in Clients,
         \/ StartClient(c) \/ Connected(c) \/ ClientFails(c) \/ DropClient(c)
         \/ OpenBi(c) \/ WriteSome(c) \/ SendRequest(c)
  PROVE  Moves(c)
<1> DEFINE e == conn[c]
<1>1. ExchangeInv(e) /\ e \in Exchanges /\ e.size \in Sizes
  BY DEF ConnInv, Exchanges
<1>2. CASE StartClient(c)
  <2>1. PICK place \in {"invalid", "connecting"} : conn' = [conn EXCEPT ![c].client = place]
    BY <1>2 DEF StartClient
  <2> DEFINE f == [e EXCEPT !.client = place]
  <2>2. conn' = [conn EXCEPT ![c] = f]
    BY <2>1
  <2>3. ExchangeInv(f) /\ Unseen(e, f)
    BY <1>1, <1>2 DEF StartClient, ClientIn, ExchangeInv, Exchanges, Places, Unseen, Phase,
                      Requested
  <2>4. QED
    BY <2>2, <2>3 DEF Moves
<1>3. ASSUME NEW place \in {"connected", "writing"}, e.client \in {"connecting", "connected"},
             conn' = [conn EXCEPT ![c].client = place]
      PROVE  Moves(c)
  <2> DEFINE f == [e EXCEPT !.client = place]
  <2>1. conn' = [conn EXCEPT ![c] = f]
    BY <1>3
  <2>2. ExchangeInv(f) /\ Unseen(e, f)
    BY <1>1, <1>3 DEF ExchangeInv, Exchanges, Places, Unseen, Phase, Requested
  <2>3. QED
    BY <2>1, <2>2 DEF Moves
<1>4. CASE Connected(c) \/ OpenBi(c)
  BY <1>3, <1>4 DEF Connected, OpenBi, ClientIn
<1>5. ASSUME NEW place \in {"failed", "dropped"}, Running(c),
             conn' = [conn EXCEPT ![c].client = place]
      PROVE  Moves(c)
  <2> DEFINE f == [e EXCEPT !.client = place]
  <2>1. conn' = [conn EXCEPT ![c] = f]
    BY <1>5
  <2>2. e.client \in {"connecting", "connected", "writing", "reading"}
    BY <1>5 DEF Running, ClientIn
  <2>3. /\ f.client = place /\ f.header = e.header /\ f.size = e.size
        /\ f.delivered = e.delivered /\ ExchangeInv(f)
    BY <1>1, <1>5 DEF ExchangeInv, Exchanges, Places
  <2> HIDE DEF f
  <2>4. QED
    BY <1>1, <1>5, <2>1, <2>2, <2>3, Leaving
<1>6. ASSUME NEW header \in {"partial", "short", "whole"}
      PROVE  /\ Carries(e, header) \in Exchanges /\ Carries(e, header).header = header
             /\ Carries(e, header).client = e.client /\ Carries(e, header).size = e.size
             /\ Carries(e, header).delivered = e.delivered
             /\ Carries(e, header).written = e.written
  BY <1>1 DEF Carries, Exchanges
<1>7. CASE WriteSome(c)
  <2> DEFINE f == Carries(e, "partial")
  <2>1. conn' = [conn EXCEPT ![c] = f] /\ e.client = "writing" /\ e.header = "none"
    BY <1>7 DEF WriteSome, ClientIn
  <2>2. f \in Exchanges /\ f.header = "partial" /\ f.client = e.client /\ f.size = e.size
        /\ f.delivered = e.delivered /\ f.written = e.written
    BY <1>6
  <2> HIDE DEF f
  <2>3. ExchangeInv(f) /\ Unseen(e, f)
    BY <1>1, <2>1, <2>2 DEF ExchangeInv, Unseen, Phase, Requested
  <2>4. QED
    BY <2>1, <2>3 DEF Moves
<1>8. CASE SendRequest(c)
  <2> DEFINE g == Carries(e, "whole")
             f == [g EXCEPT !.client = "reading"]
  <2>1. conn' = [conn EXCEPT ![c] = f] /\ e.client = "writing" /\ e.header # "whole"
    BY <1>1, <1>8 DEF SendRequest, ClientIn, ExchangeInv
  <2>2. g \in Exchanges /\ g.header = "whole" /\ g.size = e.size
        /\ g.delivered = e.delivered /\ g.written = e.written
    BY <1>6
  <2> HIDE DEF g
  <2>3. f \in Exchanges /\ f.header = "whole" /\ f.client = "reading" /\ f.size = e.size
        /\ f.delivered = e.delivered /\ f.written = e.written
    BY <2>2 DEF Exchanges, Places
  <2> HIDE DEF f
  <2>4. ExchangeInv(f)
    BY <1>1, <2>3 DEF ExchangeInv
  <2>5. Requests(e, f)
    BY <1>1, <2>1, <2>3 DEF Requests, Phase, Requested
  <2>6. QED
    BY <2>1, <2>4, <2>5 DEF Moves
<1>9. CASE ClientFails(c)
  BY <1>5, <1>9 DEF ClientFails
<1>10. CASE DropClient(c)
  <2>1. CASE conn' = [conn EXCEPT ![c].client = "dropped"]
    BY <1>5, <1>10, <2>1 DEF DropClient
  <2>2. ASSUME ClientIn(c, {"writing"}),
               conn' = [conn EXCEPT ![c] = [Carries(conn[c], "short") EXCEPT !.client = "dropped"]]
        PROVE  Moves(c)
    <3> DEFINE g == Carries(e, "short")
               f == [g EXCEPT !.client = "dropped"]
    <3>1. conn' = [conn EXCEPT ![c] = f] /\ e.client = "writing" /\ e.header # "whole"
      BY <1>1, <2>2 DEF ClientIn, ExchangeInv
    <3>2. g \in Exchanges /\ g.header = "short" /\ g.size = e.size
          /\ g.delivered = e.delivered /\ g.written = e.written
      BY <1>6
    <3> HIDE DEF g
    <3>3. f \in Exchanges /\ f.header = "short" /\ f.client = "dropped" /\ f.size = e.size
          /\ f.delivered = e.delivered /\ f.written = e.written
      BY <3>2 DEF Exchanges, Places
    <3> HIDE DEF f
    <3>4. ExchangeInv(f)
      BY <1>1, <3>3 DEF ExchangeInv
    <3>5. QED
      BY <1>1, <3>1, <3>3, <3>4, Leaving
  <2>3. QED
    BY <1>10, <2>1, <2>2 DEF DropClient
<1>11. QED
  BY <1>2, <1>4, <1>7, <1>8, <1>9, <1>10

\* read_to_end hands over what was written before the end of the stream; run succeeds
\* if that is the whole blob.
LEMMA ReadToEndMoves ==
  ASSUME ConnInv, NEW c \in Clients, ReadToEnd(c)
  PROVE  Moves(c)
<1> DEFINE e == conn[c]
           f == [e EXCEPT !.delivered = e.written, !.client = RunResult(c)]
<1>1. ExchangeInv(e) /\ e \in Exchanges /\ e.client = "reading" /\ e.header = "whole"
  BY DEF ConnInv, ExchangeInv, ReadToEnd, ClientIn
<1>2. conn' = [conn EXCEPT ![c] = f]
  BY DEF ReadToEnd
<1>3. RunResult(c) = IF e.written = e.size THEN "ok" ELSE "failed"
  BY DEF RunResult
<1>4. /\ e.written \in Nat /\ e.size \in Nat /\ e.delivered \in Nat
      /\ e.written <= e.size /\ e.delivered <= e.written
  BY <1>1, SizeNat DEF Exchanges, ExchangeInv
<1>5. /\ f.client = RunResult(c) /\ f.delivered = e.written /\ f.header = e.header
      /\ f.size = e.size /\ f.written = e.written
  BY <1>1 DEF Exchanges
<1>6. ExchangeInv(f)
  <2>1. RunResult(c) \in {"ok", "failed"}
    BY <1>3
  <2>2. f \in Exchanges
    BY <1>1, <1>4, <2>1 DEF Exchanges, Places
  <2>3. QED
    BY <1>1, <1>4, <1>5, <2>1, <2>2 DEF ExchangeInv
<1>7. f.delivered \in e.delivered .. e.size
  BY <1>4, <1>5
<1> HIDE DEF f
<1>8. CASE e.written = e.size
  <2>1. Succeeds(e, f)
    BY <1>1, <1>3, <1>5, <1>7, <1>8 DEF Succeeds, Phase, Requested
  <2>2. QED
    BY <1>2, <1>6, <2>1 DEF Moves
<1>9. CASE e.written # e.size
  <2>1. Loses(e, f)
    BY <1>1, <1>3, <1>5, <1>7, <1>9 DEF Loses, Phase, Requested
  <2>2. QED
    BY <1>2, <1>6, <2>1 DEF Moves
<1>10. QED
  BY <1>8, <1>9

\* The tasks of the server and the network change nothing that a client is handed.
LEMMA TaskMoves ==
  ASSUME ConnInv, NEW c \in Clients,
         Accept(c) \/ ConnectionTask(c) \/ RequestTask(c) \/ LoseConnection(c)
  PROVE  Moves(c)
<1> DEFINE e == conn[c]
<1>1. ExchangeInv(e) /\ e \in Exchanges
  BY DEF ConnInv
<1>2. ASSUME NEW t \in {"incoming", "accepting", "over"}, conn' = [conn EXCEPT ![c].task = t]
      PROVE  Moves(c)
  <2> DEFINE f == [e EXCEPT !.task = t]
  <2>1. ExchangeInv(f) /\ Unseen(e, f)
    BY <1>1 DEF ExchangeInv, Exchanges, Unseen, Phase, Requested
  <2>2. QED
    BY <1>2, <2>1 DEF Moves
<1>3. CASE Accept(c) \/ Established(c) \/ HandshakeFails(c) \/ ConnectionEnds(c)
  BY <1>2, <1>3 DEF Accept, Established, HandshakeFails, ConnectionEnds, AcceptError
<1>4. ASSUME NEW r \in {"reading", "serving", "over"}, conn' = [conn EXCEPT ![c].request = r]
      PROVE  Moves(c)
  <2> DEFINE f == [e EXCEPT !.request = r]
  <2>1. ExchangeInv(f) /\ Unseen(e, f)
    BY <1>1 DEF ExchangeInv, Exchanges, Unseen, Phase, Requested
  <2>2. QED
    BY <1>4, <2>1 DEF Moves
<1>5. CASE WriteChunk(c)
  <2>1. PICK n \in conn[c].written + 1 .. BlobSize(c) : conn' = [conn EXCEPT ![c].written = n]
    BY <1>5 DEF WriteChunk
  <2>2. n \in Nat /\ n <= e.size /\ e.written <= n /\ e.written \in Nat /\ e.delivered \in Nat
    BY <1>1, SizeNat, HeaderRoundTrip DEF Exchanges
  <2> DEFINE f == [e EXCEPT !.written = n]
  <2>3. ExchangeInv(f) /\ Unseen(e, f)
    BY <1>1, <2>2 DEF ExchangeInv, Exchanges, Unseen, Phase, Requested
  <2>4. QED
    BY <2>1, <2>3 DEF Moves
<1>6. CASE Finish(c) \/ ShortRequest(c)
  <2> DEFINE f == [e EXCEPT !.fin = TRUE, !.request = "over"]
  <2>1. ExchangeInv(f) /\ Unseen(e, f)
    BY <1>1 DEF ExchangeInv, Exchanges, Unseen, Phase, Requested
  <2>2. conn' = [conn EXCEPT ![c] = f]
    BY <1>6 DEF Finish, ShortRequest
  <2>3. QED
    BY <2>1, <2>2 DEF Moves
<1>7. CASE AcceptBi(c) \/ ReadRequest(c) \/ RequestFails(c)
  BY <1>4, <1>7 DEF AcceptBi, ReadRequest, RequestFails
<1>8. CASE LoseConnection(c)
  <2> DEFINE f == [e EXCEPT !.lost = TRUE]
  <2>1. ExchangeInv(f) /\ Unseen(e, f)
    BY <1>1 DEF ExchangeInv, Exchanges, Unseen, Phase, Requested
  <2>2. QED
    BY <1>8, <2>1 DEF LoseConnection, Moves
<1>9. QED
  BY <1>3, <1>5, <1>6, <1>7, <1>8 DEF ConnectionTask, RequestTask

\* Nor does the end of the server's process.
LEMMA ServerEndsRests ==
  ASSUME ConnInv, NEW how, NEW flushed, ServerEnds(how, flushed)
  PROVE  Rests
<1> DEFINE next(c) ==
      [conn[c] EXCEPT
         !.task = IF @ \in {"incoming", "accepting"} THEN "over" ELSE @,
         !.request = IF @ \in {"reading", "serving"} THEN "over" ELSE @,
         !.fin = @ \/ (c \in flushed /\ RequestIn(c, {"reading", "serving"})),
         !.lost = @ \/ Running(c)]
<1>1. conn' = [c \in Clients |-> next(c)]
  BY DEF ServerEnds
<1>2. ASSUME NEW c \in Clients PROVE ExchangeInv(next(c)) /\ Unseen(conn[c], next(c))
  <2>1. ExchangeInv(conn[c]) /\ conn[c] \in Exchanges
    BY DEF ConnInv
  <2>2. (conn[c].fin \/ (c \in flushed /\ RequestIn(c, {"reading", "serving"}))) \in BOOLEAN
    OBVIOUS
  <2>3. (conn[c].lost \/ Running(c)) \in BOOLEAN
    OBVIOUS
  <2>4. /\ next(c).client = conn[c].client /\ next(c).header = conn[c].header
        /\ next(c).size = conn[c].size /\ next(c).written = conn[c].written
        /\ next(c).delivered = conn[c].delivered
    BY <2>1 DEF Exchanges
  <2>5. next(c) \in Exchanges
    BY <2>1, <2>2, <2>3 DEF Exchanges
  <2> HIDE DEF next
  <2>6. ExchangeInv(next(c))
    BY <2>1, <2>4, <2>5 DEF ExchangeInv
  <2>7. Unseen(conn[c], next(c))
    BY <2>4 DEF Unseen, Phase, Requested
  <2>8. QED
    BY <2>6, <2>7
<1> HIDE DEF next
<1>3. \A c \in Clients : next(c) \in Exchanges
  BY <1>2 DEF ExchangeInv
<1>4. QED
  BY <1>1, <1>2, <1>3 DEF Rests

LEMMA QuinnSteps ==
  ASSUME ConnInv, server \in Servers, QuinnNext
  PROVE  ConnStep /\ server' \in Servers
<1>1. CASE Listen
  BY <1>1, Resting DEF Listen, ConnStep, Servers, Over
<1>2. ASSUME NEW c \in Clients, QuinnTasks(c) \/ LoseConnection(c)
      PROVE  Moves(c) /\ server' = server
  <2>1. Moves(c)
    BY <1>2, ClientMoves, ReadToEndMoves, TaskMoves DEF QuinnTasks, RunClient
  <2>2. server' = server
    BY <1>2
    DEF QuinnTasks, RunClient, ConnectionTask, RequestTask, LoseConnection, Accept, Established,
        HandshakeFails, AcceptBi, ConnectionEnds, ReadRequest, ShortRequest, WriteChunk, Finish,
        RequestFails, Connected, ClientFails, OpenBi, WriteSome, SendRequest, ReadToEnd
  <2>3. QED
    BY <2>1, <2>2
<1>3. QED
  BY <1>1, <1>2 DEF QuinnNext, ConnStep

-----------------------------------------------------------------------------
(***************************************************************************)
(* The steps of the script and the test.                                   *)
(***************************************************************************)
LEMMA ScriptSide ==
  ASSUME ScriptTypeOK, ScriptInv, ScriptNext
  PROVE  ScriptTypeOK' /\ ScriptInv'
<1>1. Experiments \in Nat
  BY ExperimentsAssumption
<1> DEFINE numbers == experiment' \in 1 .. Experiments /\ launched' \in 0 .. Experiments
<1>2. CASE RunExperiment
  <2>1. ScriptTypeOK'
    <3>1. CASE RunServer
      <4>1. /\ launched' = launched \/ launched' = experiment
            /\ experiment' = experiment /\ container' \in {container, "creating"}
        BY <3>1 DEF RunServer
      <4>2. experiment \in 1 .. Experiments /\ launched \in 0 .. Experiments
        BY DEF ScriptTypeOK
      <4>3. numbers
        BY <1>1, <4>1, <4>2
      <4>4. QED
        BY <3>1, <4>1, <4>3 DEF ScriptTypeOK, RunServer
    <3>2. CASE WaitForTerm
      <4>1. /\ experiment' = experiment \/ (experiment < Experiments /\ experiment' = experiment + 1)
            /\ script' \in {"launch", "teardown"} /\ launched' = launched
        BY <3>2 DEF WaitForTerm
      <4>2. experiment \in 1 .. Experiments /\ launched \in 0 .. Experiments
        BY DEF ScriptTypeOK
      <4>3. numbers
        BY <1>1, <4>1, <4>2
      <4>4. QED
        BY <3>2, <4>1, <4>3 DEF ScriptTypeOK, WaitForTerm
    <3>3. CASE WaitForLaunch \/ StartClientContainer \/ ClientReturns \/ KillNesquic \/ Stopped
      BY <3>3
      DEF ScriptTypeOK, WaitForLaunch, StartClientContainer, ClientReturns, KillNesquic, Stopped
    <3>4. QED
      BY <1>2, <3>1, <3>2, <3>3 DEF RunExperiment
  <2>2. ScriptInv'
    BY <1>2
    DEF ScriptTypeOK, ScriptInv, RunExperiment, RunServer, WaitForLaunch, StartClientContainer,
        ClientReturns, KillNesquic, Stopped, WaitForTerm, Command
  <2>3. QED
    BY <2>1, <2>2
<1>3. CASE Trapped \/ Teardown \/ Exit \/ Interrupt \/ Docker \/ ContainerFails \/ Signalled
  <2>1. ScriptTypeOK'
    BY <1>3
    DEF ScriptTypeOK, Trapped, Teardown, Exit, Interrupt, Docker, ContainerStarts, Kill,
        ContainerExits, ContainerRemoved, ContainerFails, Signalled, scriptVars
  <2>2. ScriptInv'
    BY <1>3
    DEF ScriptTypeOK, ScriptInv, Trapped, Teardown, Exit, Interrupt, Docker, ContainerStarts, Kill,
        ContainerExits, ContainerRemoved, ContainerFails, Signalled, scriptVars
  <2>3. QED
    BY <2>1, <2>2
<1>4. QED
  BY <1>2, <1>3 DEF ScriptNext, ScriptSteps

LEMMA ScriptOnQuinn ==
  ASSUME ConnInv, server \in Servers, ScriptTypeOK, ScriptNext
  PROVE  ConnStep /\ server' \in Servers
<1>1. CASE Kill \/ Signalled
  <2>1. ASSUME NEW how \in {"killed", "cancelled"}, NEW flushed, ServerEnds(how, flushed)
        PROVE  ConnStep /\ server' \in Servers
    <3>1. server' \in Servers
      BY <2>1 DEF ServerEnds, Servers, Over
    <3>2. QED
      BY <2>1, <3>1, ServerEndsRests DEF ConnStep
  <2>2. ASSUME NEW c \in Clients, DropClient(c) PROVE ConnStep /\ server' \in Servers
    BY <2>2, ClientMoves DEF ConnStep, DropClient
  <2>3. QED
    BY <1>1, <2>1, <2>2 DEF Kill, Signalled, CancelServer
<1>2. CASE StartClientContainer
  <2>1. experiment \in Clients
    BY ExperimentsAssumption DEF ScriptTypeOK
  <2>2. StartClient(experiment) /\ server' = server
    BY <1>2 DEF StartClientContainer, StartClient
  <2>3. QED
    BY <2>1, <2>2, ClientMoves DEF ConnStep
<1>3. CASE ~(Kill \/ Signalled \/ StartClientContainer)
  <2>1. conn' = conn /\ server' \in {server, "off", "starting"}
    BY <1>3
    DEF ScriptNext, ScriptSteps, RunExperiment, RunServer, WaitForLaunch, ClientReturns,
        KillNesquic, Stopped, WaitForTerm, Trapped, Teardown, Exit, Interrupt, Docker,
        ContainerStarts, ContainerExits, ContainerRemoved, ContainerFails, quinnVars
  <2>2. QED
    BY <2>1, Resting DEF ConnStep, Servers
<1>4. QED
  BY <1>1, <1>2, <1>3

LEMMA TestSide ==
  ASSUME TestTypeOK, TestNext
  PROVE  TestTypeOK'
<1>1. Attempts \in Nat \ {0}
  BY AttemptsAssumption
<1>2. QED
  BY <1>1
  DEF TestTypeOK, TestNext, TestSteps, StartServer, HealthCheck, Healthy, Unhealthy, NextAttempt,
      Run, RunReturns, CheckTimesOut, RunTimesOut

LEMMA TestOnQuinn ==
  ASSUME ConnInv, server \in Servers, TestTypeOK, TestNext
  PROVE  ConnStep /\ server' \in Servers
<1>1. attempt \in Clients /\ Final \in Clients
  BY AttemptsAssumption DEF TestTypeOK, Final
<1>2. CASE HealthCheck \/ Healthy \/ CheckTimesOut \/ Run \/ RunTimesOut
  <2>1. PICK c \in Clients : StartClient(c) \/ DropClient(c)
    BY <1>1, <1>2 DEF HealthCheck, Healthy, CheckTimesOut, Run, RunTimesOut
  <2>2. server' = server
    BY <2>1 DEF StartClient, DropClient
  <2>3. QED
    BY <2>1, <2>2, ClientMoves DEF ConnStep
<1>3. CASE StartServer \/ Unhealthy \/ RunReturns
  <2>1. conn' = conn /\ server' \in {server, "starting"}
    BY <1>3 DEF StartServer, Unhealthy, RunReturns, quinnVars
  <2>2. QED
    BY <2>1, Resting DEF ConnStep, Servers
<1>4. QED
  BY <1>2, <1>3 DEF TestNext, TestSteps

-----------------------------------------------------------------------------
(***************************************************************************)
(* The theorems.                                                           *)
(***************************************************************************)
LEMMA InitInv == Init => IInv
<1> SUFFICES ASSUME Init PROVE IInv
  OBVIOUS
<1>1. server \in Servers
  BY DEF Init, QuinnInit, Servers
<1>2. ConnInv
  BY SizeNat DEF Init, QuinnInit, ConnInv, ExchangeInv, Exchanges, Places
<1>3. ScriptTypeOK /\ ScriptInv
  <2>1. 1 \in 1 .. Experiments /\ 0 \in 0 .. Experiments
    BY ExperimentsAssumption
  <2>2. /\ experiment = 1 /\ launched = 0 /\ trap = FALSE /\ late = FALSE
        /\ script \in {"launch", "exited"} /\ container \in {"none", "running"}
        /\ script = "exited" => container = "none"
    BY DEF Init, ScriptInit
  <2>3. QED
    BY <2>1, <2>2 DEF ScriptTypeOK, ScriptInv
<1>4. TestTypeOK
  BY AttemptsAssumption DEF Init, TestInit, TestTypeOK
<1>5. QED
  BY <1>1, <1>2, <1>3, <1>4 DEF IInv

\* Every step moves at most one exchange on, whoever drives it.
LEMMA EveryStep ==
  ASSUME IInv, [Next]_vars
  PROVE  ConnStep /\ server' \in Servers
<1>1. CASE ByScript(ScriptNext)
  BY <1>1, ScriptOnQuinn DEF IInv, ByScript
<1>2. CASE ByTest(TestNext)
  BY <1>2, TestOnQuinn DEF IInv, ByTest
<1>3. CASE ByQuinn(QuinnNext)
  BY <1>3, QuinnSteps DEF IInv, ByQuinn
<1>4. CASE UNCHANGED vars
  BY <1>4, Resting DEF IInv, vars, quinnVars, ConnStep
<1>5. QED
  BY <1>1, <1>2, <1>3, <1>4 DEF Next

LEMMA StepInv == IInv /\ [Next]_vars => IInv'
<1> SUFFICES ASSUME IInv, [Next]_vars PROVE IInv'
  OBVIOUS
<1>1. ConnInv' /\ server' \in Servers
  BY EveryStep, ConnStepInv DEF IInv
<1>2. UNCHANGED scriptVars \/ ScriptNext
  BY DEF Next, ByScript, ByTest, ByQuinn, vars
<1>3. UNCHANGED testVars \/ TestNext
  BY DEF Next, ByScript, ByTest, ByQuinn, vars
<1>4. ScriptTypeOK' /\ ScriptInv'
  BY <1>2, ScriptSide DEF IInv, ScriptTypeOK, ScriptInv, scriptVars
<1>5. TestTypeOK'
  BY <1>3, TestSide DEF IInv, TestTypeOK, testVars
<1>6. QED
  BY <1>1, <1>4, <1>5 DEF IInv, Servers

LEMMA Invariance == Spec => []IInv
BY InitInv, StepInv, PTL DEF Spec

\* Server, exchanges, script and test keep their types, and no stream carries more than
\* its client has asked for.
THEOREM TypeCorrect == Spec => []TypeOK
<1>1. IInv => TypeOK
  BY DEF IInv, ConnInv, ExchangeInv, Servers, TypeOK, QuinnTypeOK
<1>2. QED
  BY <1>1, Invariance, PTL

\* wait_for_launch never takes a container that another experiment or another run of
\* the script has left for the one that run_server has launched.
THEOREM ServerIsFresh == Spec => []FreshServer
<1>1. IInv => FreshServer
  BY DEF IInv, ScriptInv, FreshServer
<1>2. QED
  BY <1>1, Invariance, PTL

\* teardown leaves no server behind but one that docker ps does not show yet.
THEOREM ScriptCleansUp == Spec => []NothingLeftRunning
<1>1. IInv => NothingLeftRunning
  BY DEF IInv, ScriptInv, NothingLeftRunning
<1>2. QED
  BY <1>1, Invariance, PTL

-----------------------------------------------------------------------------
(***************************************************************************)
(* The refinement of PerfExchange.                                         *)
(***************************************************************************)
LEMMA MovesSeen ==
  ASSUME ConnInv, NEW c \in Clients, Moves(c)
  PROVE  [Exchange!Next]_Exchange!vars
<1> DEFINE phase == [d \in Clients |-> Phase(conn[d])]
           requested == [d \in Clients |-> Requested(conn[d])]
           delivered == [d \in Clients |-> conn[d].delivered]
           finished == [d \in Clients |-> conn[d].client \in {"ok"}]
<1>1. PICK f : /\ conn' = [conn EXCEPT ![c] = f]
               /\ ExchangeInv(f)
               /\ \/ Unseen(conn[c], f) \/ Requests(conn[c], f)
                  \/ Succeeds(conn[c], f) \/ Loses(conn[c], f)
  BY DEF Moves
<1>2. conn'[c] = f /\ \A d \in Clients \ {c} : conn'[d] = conn[d]
  BY <1>1 DEF ConnInv
<1>3. CASE Unseen(conn[c], f)
  <2>1. UNCHANGED <<phase, requested, delivered, finished>>
    BY <1>2, <1>3 DEF Unseen
  <2>2. QED
    BY <2>1 DEF Phase, Requested, RequestSent, ClientIn, Exchange!vars
<1>4. CASE Requests(conn[c], f)
  <2>1. phase[c] = "idle" /\ phase' = [phase EXCEPT ![c] = "open"]
    BY <1>2, <1>4 DEF Requests
  <2>2. requested' = [requested EXCEPT ![c] = Requested(f)] /\ Requested(f) \in Sizes
    BY <1>2, <1>4 DEF Requests
  <2>3. UNCHANGED <<delivered, finished>>
    BY <1>2, <1>4 DEF Requests
  <2>4. Exchange!Request(c)
    BY <2>1, <2>2, <2>3 DEF Phase, Requested, RequestSent, ClientIn, Exchange!Request
  <2>5. QED
    BY <2>4 DEF Exchange!Next
<1>5. CASE Succeeds(conn[c], f)
  <2>1. phase[c] = "open" /\ UNCHANGED <<phase, requested>>
    BY <1>2, <1>5 DEF Succeeds
  <2>2. /\ f.delivered \in delivered[c] .. requested[c] /\ f.delivered = requested[c]
        /\ delivered' = [delivered EXCEPT ![c] = f.delivered]
    BY <1>2, <1>5 DEF Succeeds
  <2>3. ~finished[c] /\ finished' = [finished EXCEPT ![c] = TRUE]
    BY <1>2, <1>5 DEF Succeeds
  <2>4. Exchange!Deliver(c)
    BY <2>1, <2>2, <2>3 DEF Phase, Requested, RequestSent, ClientIn, Exchange!Deliver
  <2>5. QED
    BY <2>4 DEF Exchange!Next
<1>6. CASE Loses(conn[c], f)
  <2>1. phase[c] = "open" /\ phase' = [phase EXCEPT ![c] = "lost"] /\ UNCHANGED requested
    BY <1>2, <1>6 DEF Loses
  <2>2. /\ f.delivered \in delivered[c] .. requested[c]
        /\ delivered' = [delivered EXCEPT ![c] = f.delivered]
    BY <1>2, <1>6 DEF Loses
  <2>3. UNCHANGED finished
    BY <1>2, <1>6 DEF Loses
  <2>4. Exchange!Lose(c)
    BY <2>1, <2>2, <2>3 DEF Phase, Requested, RequestSent, ClientIn, Exchange!Lose
  <2>5. QED
    BY <2>4 DEF Exchange!Next
<1>7. QED
  BY <1>1, <1>3, <1>4, <1>5, <1>6

LEMMA RestsSeen ==
  ASSUME ConnInv, Rests
  PROVE  UNCHANGED Exchange!vars
<1> DEFINE phase == [d \in Clients |-> Phase(conn[d])]
           requested == [d \in Clients |-> Requested(conn[d])]
           delivered == [d \in Clients |-> conn[d].delivered]
           finished == [d \in Clients |-> conn[d].client \in {"ok"}]
<1>1. UNCHANGED <<phase, requested, delivered, finished>>
  BY DEF Rests, Unseen
<1>2. QED
  BY <1>1 DEF Phase, Requested, RequestSent, ClientIn, Exchange!vars

\* Every step of clients, server, script and test is one that the protocol allows, or
\* none that a caller of run can tell: run succeeds only with exactly the bytes it asked
\* for, whoever ends the server and whenever.
THEOREM Refinement == Spec => ImplementsExchange
<1>1. ASSUME Init PROVE Exchange!Init
  <2>1. \A c \in Clients :
          conn[c].header = "none" /\ conn[c].client = "idle" /\ conn[c].delivered = 0
    <3>1. PICK size \in Sizes :
            conn = [c \in Clients |->
              [client |-> "idle", header |-> "none", task |-> "none", request |-> "none",
               size |-> size, written |-> 0, fin |-> FALSE, delivered |-> 0, lost |-> FALSE]]
      BY <1>1 DEF Init, QuinnInit
    <3>2. QED
      BY <3>1
  <2>2. ASSUME NEW c \in Clients
        PROVE  ~RequestSent(c) /\ ClientIn(c, {"ok"}) = FALSE /\ conn[c].delivered = 0
    <3>1. ~RequestSent(c) /\ conn[c].delivered = 0
      BY <2>1 DEF RequestSent
    <3>2. ClientIn(c, {"ok"}) = FALSE
      BY <2>1, SMT DEF ClientIn
    <3>3. QED
      BY <3>1, <3>2
  <2>3. QED
    BY <2>2 DEF Exchange!Init
<1>2. IInv /\ [Next]_vars => [Exchange!Next]_Exchange!vars
  BY EveryStep, MovesSeen, RestsSeen DEF IInv, ConnStep
<1>3. QED
  BY <1>1, <1>2, Invariance, PTL DEF Spec, Exchange!Spec, ImplementsExchange
=============================================================================
