------------------------------ MODULE TcpServer ------------------------------
(* TcpServer with its Acceptor and its EventLoopWorkers: the owner's loop   *)
(* accepts connections and deals them out to the worker loops, every        *)
(* connection tells the owner when it closes, and the destructor takes the  *)
(* connections down and joins the threads.  The server is destroyed after   *)
(* its owner's loop has ended, as in all of examples/, where both are on    *)
(* the stack.  EventLoop is the loop of module EventLoop with one flag for  *)
(* the wakeup descriptor; of TcpConnection only its life is kept.           *)
EXTENDS Integers, Sequences, FiniteSets

CONSTANTS MaxThreads,   \* bound on threadNums
          MaxPeers,     \* bound on the peers that ever connect
          MaxFds        \* descriptors the process may open, beside the fixed ones

ASSUME ServerAssumption ==
  MaxThreads \in Nat /\ MaxPeers \in Nat \ {0} /\ MaxFds \in Nat \ {0}

Conns == 1..MaxPeers     \* connection ids, given in the order of accept
Loops == 0..MaxThreads   \* 0 is the owner's loop, the others are workers
acceptorChannel == 0     \* the Acceptor among the channels of loop 0
none == -1

VARIABLES threadNums,  \* the constructor's parameter
          owner,       \* the owner's thread outside its loop: [pc, k, todo]
          loops,       \* EventLoop and EventLoopThread of each loop
          held,        \* TcpServer::connections
          nextId, nextIndex, idle,  \* idle: idleFd is a descriptor
          conns,       \* each connection: [loop, state, watched]
          peers, eof   \* peers left to connect; backlog; ids the peer has closed

vars == <<threadNums, owner, loops, held, nextId, nextIndex, idle, conns, peers, eof>>

----------------------------------------------------------------- \* helpers
Task(op, id) == [op |-> op, id |-> id]
workerloops == IF threadNums = 0 THEN <<0>> ELSE [i \in 1..threadNums |-> i]

\* A bound shared_ptr keeps a connection alive; removeConnectionInLoop binds
\* the server and a number.
Refers(t, id) == t.op # "remove" /\ t.id = id
Alive(id) == \/ id \in held
             \/ \E l \in Loops, q \in {"pending", "batch"} :
                  \E i \in DOMAIN loops[l][q] : Refers(loops[l][q][i], id)
openFds == Cardinality({id \in Conns : Alive(id)}) + (IF idle THEN 1 ELSE 0)

Running(l) == loops[l].pc \in {"poll", "events", "tasks"}

\* queueInLoop(l, t) in the record of all loops; the wakeup is not written
\* when l's own thread queues outside its batch.
Queue(ls, l, t, self) ==
  [ls EXCEPT ![l].pending = Append(@, t), ![l].wake = @ \/ ~self]

\* TcpConnection::onConnection and removeItself
Opened(id) == [conns EXCEPT ![id].state = "connected", ![id].watched = TRUE]
Removed(id) == [conns EXCEPT ![id].state = "disconnected", ![id].watched = FALSE]

NextIndex == IF nextIndex + 1 >= Len(workerloops) THEN 0 ELSE nextIndex + 1

------------------------------------------------------- \* the owner: listen()
Init ==
  /\ threadNums \in 0..MaxThreads
  /\ owner = [pc |-> "start", k |-> 1, todo |-> {}]
  /\ loops = [l \in Loops |-> [pc |-> "off", active |-> {}, cur |-> none, batch |-> <<>>,
                               at |-> 1, pending |-> <<>>, wake |-> FALSE, quit |-> FALSE]]
  /\ held = {} /\ nextId = 1 /\ nextIndex = 0 /\ idle = TRUE
  /\ conns = [id \in Conns |-> [loop |-> 0, state |-> "connecting", watched |-> FALSE]]
  /\ peers = [left |-> MaxPeers, backlog |-> 0] /\ eof = {}

\* EventLoopWorkers::start, startLoop: create the thread, wait for the latch.
StartLoop ==
  /\ owner.pc = "start" /\ owner.k <= threadNums
  /\ owner' = [owner EXCEPT !.pc = "latch"]
  /\ loops' = [loops EXCEPT ![owner.k].pc = "starting"]
  /\ UNCHANGED <<threadNums, held, nextId, nextIndex, idle, conns, peers, eof>>

\* EventLoopThread::start up to loop(): isLooping = true, countDown
ThreadStart(l) ==
  /\ loops[l].pc = "starting"
  /\ loops' = [loops EXCEPT ![l].pc = "poll"]
  /\ UNCHANGED <<threadNums, owner, held, nextId, nextIndex, idle, conns, peers, eof>>

LatchWait ==
  /\ owner.pc = "latch" /\ Running(owner.k)
  /\ owner' = [owner EXCEPT !.pc = "start", !.k = @ + 1]
  /\ UNCHANGED <<threadNums, loops, held, nextId, nextIndex, idle, conns, peers, eof>>

\* Acceptor::listen, and the application calls loop() on the owner's loop.
Listen ==
  /\ owner.pc = "start" /\ owner.k > threadNums
  /\ owner' = [owner EXCEPT !.pc = "loop", !.k = 1]
  /\ loops' = [loops EXCEPT ![0].pc = "poll"]
  /\ UNCHANGED <<threadNums, held, nextId, nextIndex, idle, conns, peers, eof>>

-------------------------------------------------------------- \* the outside
Listening == owner.pc \notin {"start", "latch", "gone"}

PeerConnect ==
  /\ Listening /\ peers.left > 0
  /\ peers' = [left |-> peers.left - 1, backlog |-> peers.backlog + 1]
  /\ UNCHANGED <<threadNums, owner, loops, held, nextId, nextIndex, idle, conns, eof>>

PeerClose(id) ==
  /\ id < nextId /\ id \notin eof
  /\ eof' = eof \cup {id}
  /\ UNCHANGED <<threadNums, owner, loops, held, nextId, nextIndex, idle, conns, peers>>

\* Somebody calls quit() on the owner's loop.
Quit ==
  /\ Running(0) /\ ~loops[0].quit
  /\ loops' = [loops EXCEPT ![0].quit = TRUE, ![0].wake = TRUE]
  /\ UNCHANGED <<threadNums, owner, held, nextId, nextIndex, idle, conns, peers, eof>>

-------------------------------------------------------------- \* every loop
Ready(l) == {id \in eof : conns[id].watched /\ conns[id].loop = l}
              \cup (IF l = 0 /\ peers.backlog > 0 THEN {acceptorChannel} ELSE {})

Poll(l) ==
  /\ loops[l].pc = "poll"
  /\ loops[l].wake \/ Ready(l) # {}
  /\ loops' = [loops EXCEPT ![l].pc = "events", ![l].active = Ready(l), ![l].wake = FALSE]
  /\ UNCHANGED <<threadNums, owner, held, nextId, nextIndex, idle, conns, peers, eof>>

\* handleRead of 0 bytes: handleClose, removeItself, the tie, and
\* removeConnection of the server.  The handler goes on using the connection
\* until it returns (HandlerReturns).
Mutant_Close(l, id) ==          \* without the tie
  IF l = 0 THEN [loops EXCEPT ![l].active = @ \ {id}, ![l].cur = id]
  ELSE Queue([loops EXCEPT ![l].active = @ \ {id}, ![l].cur = id], 0, Task("remove", id), FALSE)

Close(l, id) ==
  LET tied == Queue([loops EXCEPT ![l].active = @ \ {id}, ![l].cur = id],
                    l, Task("tie", id), TRUE)
  IN IF l = 0 THEN tied ELSE Queue(tied, 0, Task("remove", id), FALSE)

HandleClose(l, id) ==
  /\ loops[l].pc = "events" /\ loops[l].cur = none
  /\ id \in loops[l].active \ {acceptorChannel}
  /\ IF conns[id].state = "disconnected"
     THEN /\ loops' = [loops EXCEPT ![l].active = @ \ {id}]
          /\ UNCHANGED <<conns, held>>
     ELSE /\ loops' = Close(l, id)
          /\ conns' = Removed(id)
          /\ held' = IF l = 0 THEN held \ {id} ELSE held
  /\ UNCHANGED <<threadNums, owner, nextId, nextIndex, idle, peers, eof>>

HandlerReturns(l) ==
  /\ loops[l].cur # none
  /\ loops' = [loops EXCEPT ![l].cur = none]
  /\ UNCHANGED <<threadNums, owner, held, nextId, nextIndex, idle, conns, peers, eof>>

DoPendingTasks(l) ==
  /\ loops[l].pc = "events" /\ loops[l].active = {} /\ loops[l].cur = none
  /\ loops' = [loops EXCEPT ![l].pc = "tasks", ![l].batch = loops[l].pending,
                            ![l].at = 1, ![l].pending = <<>>]
  /\ UNCHANGED <<threadNums, owner, held, nextId, nextIndex, idle, conns, peers, eof>>

Mutant_removeConnectionInLoop(id) == held \ {id - 1}
removeConnectionInLoop(id) == held \ {id}

RunTask(l) ==
  /\ loops[l].pc = "tasks" /\ loops[l].at <= Len(loops[l].batch)
  /\ loops' = [loops EXCEPT ![l].at = @ + 1]
  /\ LET t == loops[l].batch[loops[l].at]
     IN /\ conns' = CASE t.op = "onConnection" -> Opened(t.id)
                      [] t.op = "removeItself" -> Removed(t.id)
                      [] OTHER                 -> conns
        /\ held' = IF t.op = "remove" THEN removeConnectionInLoop(t.id) ELSE held
  /\ UNCHANGED <<threadNums, owner, nextId, nextIndex, idle, peers, eof>>

\* The batch is destroyed; a worker that was told to quit returns from
\* loop(), and its EventLoop is destroyed with what is still queued.
EndTasks(l) ==
  /\ loops[l].pc = "tasks" /\ loops[l].at > Len(loops[l].batch)
  /\ loops' = [loops EXCEPT ![l].pc = IF loops[l].quit THEN "ended" ELSE "poll",
                            ![l].batch = <<>>,
                            ![l].pending = IF loops[l].quit /\ l # 0 THEN <<>> ELSE @]
  /\ UNCHANGED <<threadNums, owner, held, nextId, nextIndex, idle, conns, peers, eof>>

---------------------------------------------------------------- \* accepting
\* One turn of Acceptor::handleRead's loop that gets a descriptor, with
\* TcpServer::onConnection.
Mutant_Hold(id) == held         \* the queued task is the only reference
Hold(id) == held \cup {id}

Accept ==
  /\ loops[0].pc = "events" /\ acceptorChannel \in loops[0].active /\ loops[0].cur = none
  /\ openFds < MaxFds /\ peers.backlog > 0
  /\ peers' = [peers EXCEPT !.backlog = @ - 1]
  /\ LET worker == workerloops[nextIndex + 1] id == nextId
     IN /\ held' = Hold(id)
        /\ IF worker = 0
           THEN /\ conns' = Opened(id)
                /\ UNCHANGED loops
           ELSE /\ conns' = [conns EXCEPT ![id].loop = worker]
                /\ loops' = Queue(loops, worker, Task("onConnection", id), FALSE)
  /\ nextId' = nextId + 1 /\ nextIndex' = NextIndex
  /\ UNCHANGED <<threadNums, owner, idle, eof>>

\* The turn that gets none, and ends the loop: EAGAIN, or EMFILE.  Then the
\* idle descriptor makes room to accept one peer and drop it, and is opened
\* again; nobody else opens descriptors in between.
Mutant_EmFile == [idle |-> idle, backlog |-> peers.backlog]      \* leaves the peer
EmFile ==
  LET room == (IF idle THEN openFds - 1 ELSE openFds) < MaxFds
  IN [idle |-> room, backlog |-> IF room /\ peers.backlog > 0 THEN peers.backlog - 1
                                 ELSE peers.backlog]

AcceptFails ==
  /\ loops[0].pc = "events" /\ acceptorChannel \in loops[0].active /\ loops[0].cur = none
  /\ openFds >= MaxFds \/ peers.backlog = 0
  /\ loops' = [loops EXCEPT ![0].active = @ \ {acceptorChannel}]
  /\ IF openFds >= MaxFds
     THEN idle' = EmFile.idle /\ peers' = [peers EXCEPT !.backlog = EmFile.backlog]
     ELSE UNCHANGED <<idle, peers>>
  /\ UNCHANGED <<threadNums, owner, held, nextId, nextIndex, conns, eof>>

------------------------------------------------------------ \* the destructor
Destroy ==
  /\ owner.pc = "loop" /\ loops[0].pc = "ended"
  /\ owner' = [owner EXCEPT !.pc = "remove", !.todo = held]
  /\ UNCHANGED <<threadNums, loops, held, nextId, nextIndex, idle, conns, peers, eof>>

\* The body: runInLoop(removeItself) for one connection of the map.
RemoveOne(id) ==
  /\ owner.pc = "remove" /\ id \in owner.todo
  /\ owner' = [owner EXCEPT !.todo = @ \ {id}]
  /\ IF conns[id].loop = 0
     THEN conns' = Removed(id) /\ UNCHANGED loops
     ELSE /\ loops' = Queue(loops, conns[id].loop, Task("removeItself", id), FALSE)
          /\ UNCHANGED conns
  /\ UNCHANGED <<threadNums, held, nextId, nextIndex, idle, peers, eof>>

\* The members, last first: the map, and the threads one after the other.
DestroyMap ==
  /\ owner.pc = "remove" /\ owner.todo = {}
  /\ held' = {} /\ owner' = [owner EXCEPT !.pc = "quit"]
  /\ UNCHANGED <<threadNums, loops, nextId, nextIndex, idle, conns, peers, eof>>

\* ~EventLoopThread: quit, which wakes the loop, and join
Mutant_quitLoop(l) == [loops EXCEPT ![l].quit = TRUE]           \* no wakeup
quitLoop(l) == [loops EXCEPT ![l].quit = TRUE, ![l].wake = TRUE]

QuitWorker ==
  /\ owner.pc = "quit" /\ owner.k <= threadNums
  /\ loops' = IF Running(owner.k) THEN quitLoop(owner.k) ELSE loops
  /\ owner' = [owner EXCEPT !.pc = "join"]
  /\ UNCHANGED <<threadNums, held, nextId, nextIndex, idle, conns, peers, eof>>

Join ==
  /\ owner.pc = "join" /\ loops[owner.k].pc = "ended"
  /\ owner' = [owner EXCEPT !.pc = "quit", !.k = @ + 1]
  /\ UNCHANGED <<threadNums, loops, held, nextId, nextIndex, idle, conns, peers, eof>>

\* ~Acceptor, and then the owner's EventLoop with what is still queued there
DestroyAcceptor ==
  /\ owner.pc = "quit" /\ owner.k > threadNums
  /\ idle' = FALSE /\ owner' = [owner EXCEPT !.pc = "gone"]
  /\ loops' = [loops EXCEPT ![0].pending = <<>>]
  /\ UNCHANGED <<threadNums, held, nextId, nextIndex, conns, peers, eof>>

------------------------------------------------------------- \* specification
OwnerStep == \/ StartLoop \/ LatchWait \/ Listen \/ Destroy \/ DestroyMap \/ QuitWorker
             \/ Join \/ DestroyAcceptor \/ \E id \in Conns : RemoveOne(id)
LoopStep(l) == \/ ThreadStart(l) \/ Poll(l) \/ HandlerReturns(l) \/ DoPendingTasks(l)
               \/ RunTask(l) \/ EndTasks(l) \/ \E id \in Conns : HandleClose(l, id)
AcceptorStep == Accept \/ AcceptFails
Environment == PeerConnect \/ Quit \/ \E id \in Conns : PeerClose(id)

Next == OwnerStep \/ AcceptorStep \/ Environment \/ \E l \in Loops : LoopStep(l)

\* Every thread goes on; peers and the application's quit need not come.
Spec == /\ Init /\ [][Next]_vars
        /\ WF_vars(OwnerStep)
        /\ WF_vars(AcceptorStep \/ LoopStep(0))
        /\ \A l \in 1..MaxThreads : WF_vars(LoopStep(l))

---------------------------------------------------------------- \* properties
\* One type invariant.
TypeOK ==
  /\ threadNums \in 0..MaxThreads /\ nextIndex \in 0..Len(workerloops) - 1
  /\ owner.pc \in {"start", "latch", "loop", "remove", "quit", "join", "gone"}
  /\ \A l \in Loops : loops[l].pc \in {"off", "starting", "poll", "events", "tasks", "ended"}
  /\ held \subseteq 1..(nextId - 1) /\ nextId \in 1..(MaxPeers + 1) /\ idle \in BOOLEAN
  /\ \A id \in Conns : conns[id].state \in {"connecting", "connected", "disconnected"}

\* Nothing is used that is gone: a connection whose handler has not returned
\* or that a running loop watches exists, though the owner may have dropped
\* it from the map meanwhile (TcpConnection.cpp:320); and while a worker runs,
\* which may call removeConnection, so does the server (TcpServer.cpp:65).
UsedIsAlive ==
  /\ \A l \in Loops : loops[l].cur # none => Alive(loops[l].cur)
  /\ \A id \in Conns : conns[id].watched /\ Running(conns[id].loop) => Alive(id)
  /\ (\E l \in 1..MaxThreads : Running(l)) => owner.pc # "gone"

Dies(id) == id < nextId /\ Alive(id) /\ ~Alive(id)'

\* While the server's loop runs, no connection is destroyed before it is
\* disconnected, whatever thread drops the last reference.
NoEarlyDestruction ==
  [][owner.pc = "loop" => \A id \in Conns : Dies(id) => conns'[id].state = "disconnected"]_vars

\* ~TcpConnection's assertion, at all times (TcpConnection.cpp:30).
DestroyedDisconnected ==
  [][\A id \in Conns : Dies(id) => conns'[id].state = "disconnected"]_vars

\* A connection that its peer closes is given up, its descriptor with it:
\* the worker notices, the owner forgets it, and the last task ends.
ClosedEventually == \A id \in Conns : id \in eof ~> ~Alive(id)

\* Peers that wait are accepted, or dropped when there are no descriptors
\* left, as long as the owner's loop goes on (Acceptor.cpp:41-50).
BacklogDrains == peers.backlog > 0 ~> peers.backlog = 0 \/ loops[0].quit

\* Once its loop has been told to quit, the server's destructor returns: no
\* thread that it joins sleeps on (EventLoopThread.cpp:10-14).
DestructorReturns == loops[0].quit ~> owner.pc = "gone"

==============================================================================
