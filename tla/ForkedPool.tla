----------------------------- MODULE ForkedPool -----------------------------
(***************************************************************************)
(* The fork-after-load pool of one conversion: ForkedPoolLeader on the Go  *)
(* side (internal/worker/pool.go) and pool_loop_forked with its children   *)
(* on the C++ side (worker_cpp/pool.cpp), joined by the leader's stdin and *)
(* stdout pipes and by one socketpair per child.                           *)
(*                                                                         *)
(* Go: every RenderChunk call takes a sequence number, registers a         *)
(* one-place reply channel under it, writes its command, and waits for the *)
(* reply or for its timer.  One reader goroutine demultiplexes stdout.     *)
(* C++: the leader loads the document, forks, then polls stdin and the     *)
(* children's sockets; a render command goes to the first child that is    *)
(* not busy, or else the leader renders it itself, polling nothing.        *)
(***************************************************************************)
EXTENDS RenderPool

CONSTANT Loader     \* the caller of LoadDocument, which owns seq 0

NumChildren == PoolSize - 1     \* the leader renders too

ASSUME ForkedPoolAssumption == Loader \notin Chunks

Children == 1..NumChildren
Workers  == 0..NumChildren              \* the leader is worker 0
Callers  == Chunks \cup {Loader}

Status   == {"ok", "oom", "error"}      \* status, with code 137 read as oom
Command  == [op : {"load", "render", "quit"}, seq : Nat, who : Callers]
Reply    == [seq : Nat, status : Status]

LoadCmd == [op |-> "load", seq |-> 0, who |-> Loader]
QuitCmd == [op |-> "quit", seq |-> 0, who |-> Loader]

VARIABLES
    \* Go, one goroutine per caller
    pool,       \* "loading", "open", "closing", "closed"
    pc,         \* pc[c]: where caller c is, or how its call returned
    seq,        \* l.seq, the last sequence number handed out
    seqOf,      \* seqOf[c]: the number c took (its local variable)
    pending,    \* l.pending: registered seq -> the caller whose channel it is
    chan,       \* chan[c]: contents of c's reply channel, a Seq of length <= 1
    \* Go, the stdout reader goroutine
    reader,     \* "read", "deliver" (between unlock and send), "eof" (returned)
    hand,       \* the caller and reply it is about to send, when "deliver"
    \* the pipes
    stdin, stdout,
    \* C++, the leader
    leader,     \* "boot", "poll", "render", "reap", "exiting", "exited", "killed"
    lines,      \* stdin lines drained by this poll round, not yet handled
    quitting,
    busy,       \* ChildSlot.busy
    \* C++, the children, and their socketpairs
    child,      \* "none" (not forked), "idle", "render", "exiting", "dead"
    toChild, fromChild,
    cur,        \* cur[w]: the command worker w is rendering
    \* the files
    work        \* work[c]: what the workers have done to c's output file

goVars     == <<pool, pc, seq, seqOf, pending, chan, reader, hand>>
leaderVars == <<leader, lines, quitting, busy>>
childVars  == <<child, toChild, fromChild>>
vars       == <<goVars, stdin, stdout, leaderVars, childVars, cur, work>>

CallerState == {"idle", "numbered", "registered", "await", "ok", "oom", "error"}
Returned    == {"ok", "oom", "error"}
LeaderLive  == leader \notin {"exited", "killed"}
ChildLive(k) == child[k] \in {"idle", "render", "exiting"}

Init == /\ pool = "loading"
        /\ pc = [c \in Callers |-> IF c = Loader THEN "numbered" ELSE "idle"]
        /\ seq = 0
        /\ seqOf = [c \in Callers |-> 0]
        /\ pending = [s \in {} |-> Loader]
        /\ chan = [c \in Callers |-> <<>>]
        /\ reader = "read"
        /\ hand = [to |-> Loader, reply |-> [seq |-> 0, status |-> "ok"]]
        /\ stdin = <<>> /\ stdout = <<>>
        /\ leader = "boot"
        /\ lines = <<>>
        /\ quitting = FALSE
        /\ busy = [k \in Children |-> FALSE]
        /\ child = [k \in Children |-> "none"]
        /\ toChild = [k \in Children |-> <<>>]
        /\ fromChild = [k \in Children |-> <<>>]
        /\ cur = [w \in Workers |-> QuitCmd]
        /\ work = [c \in Chunks |-> "none"]

-----------------------------------------------------------------------------
(* Go: LoadDocument and RenderChunk.                                       *)

\* Mutant: l.seq++ outside the mutex, so that an increment can get lost.
TakeSeqUnlocked(c) ==
    /\ pool = "open" /\ pc[c] = "idle"
    /\ seq' \in {seq, seq + 1}
    /\ seqOf' = [seqOf EXCEPT ![c] = seq + 1]
    /\ pc' = [pc EXCEPT ![c] = "numbered"]
    /\ UNCHANGED <<pool, pending, chan, reader, hand, stdin, stdout,
                   leaderVars, childVars, cur, work>>

\* l.mu.Lock(); l.seq++; seq := l.seq; l.mu.Unlock()
TakeSeq(c) ==
    /\ pool = "open" /\ pc[c] = "idle"
    /\ seq' = seq + 1
    /\ seqOf' = [seqOf EXCEPT ![c] = seq + 1]
    /\ pc' = [pc EXCEPT ![c] = "numbered"]
    /\ UNCHANGED <<pool, pending, chan, reader, hand, stdin, stdout,
                   leaderVars, childVars, cur, work>>

PendingWith(s, c) == [t \in DOMAIN pending \cup {s} |-> IF t = s THEN c ELSE pending[t]]
\* Mutant: the delete from the map is forgotten.
KeepsEntry(S) == pending
PendingWithout(S) == [t \in DOMAIN pending \ S |-> pending[t]]

Register(c) ==
    /\ pc[c] = "numbered"
    /\ pending' = PendingWith(seqOf[c], c)
    /\ pc' = [pc EXCEPT ![c] = "registered"]
    /\ UNCHANGED <<pool, seq, seqOf, chan, reader, hand, stdin, stdout,
                   leaderVars, childVars, cur, work>>

\* The call returns r; its deferred unregister runs.
ReturnAs(c, r) ==
    /\ pc' = [pc EXCEPT ![c] = r]
    /\ pending' = PendingWithout({seqOf[c]})


\* l.write.  A leader that has exited closed the read end: EPIPE.
Write(c) ==
    /\ pc[c] = "registered"
    /\ IF LeaderLive
       THEN /\ stdin' = Append(stdin, IF c = Loader THEN LoadCmd
                        ELSE [op |-> "render", seq |-> seqOf[c], who |-> c])
            /\ pc' = [pc EXCEPT ![c] = "await"]
            /\ UNCHANGED pending
       ELSE /\ ReturnAs(c, "error")
            /\ UNCHANGED stdin
    /\ UNCHANGED <<pool, seq, seqOf, chan, reader, hand, stdout,
                   leaderVars, childVars, cur, work>>

\* awaitSeq: the reply arrived (raiseError turns code 137 into an OOM error) ...
Receive(c) ==
    /\ pc[c] = "await" /\ chan[c] # <<>>
    /\ chan' = [chan EXCEPT ![c] = <<>>]
    /\ ReturnAs(c, Head(chan[c]).status)
    /\ UNCHANGED <<pool, seq, seqOf, reader, hand, stdin, stdout,
                   leaderVars, childVars, cur, work>>

\* Mutant: the wait has no timer.
TimerNotArmed(c) == FALSE

\* ... or the timer did.  Nothing is killed; a late reply finds no entry.
Timeout(c) ==
    /\ "timeout" \in Faults
    /\ pc[c] = "await"
    /\ ReturnAs(c, "error")
    /\ UNCHANGED <<pool, seq, seqOf, chan, reader, hand, stdin, stdout,
                   leaderVars, childVars, cur, work>>

-----------------------------------------------------------------------------
(* Go: the readStdout goroutine.                                           *)

\* One line: look the seq up and delete it, under the mutex.  Unknown: logged.
ReadLine ==
    /\ reader = "read" /\ stdout # <<>>
    /\ LET r == Head(stdout) IN
         /\ IF r.seq \in DOMAIN pending
            THEN /\ reader' = "deliver"
                 /\ hand' = [to |-> pending[r.seq], reply |-> r]
            ELSE UNCHANGED <<reader, hand>>
         /\ pending' = PendingWithout({r.seq})
    /\ stdout' = Tail(stdout)
    /\ UNCHANGED <<pool, pc, seq, seqOf, chan, stdin, leaderVars, childVars, cur, work>>

\* ch <- data, outside the mutex.  The channel holds one reply: a second would block.
Deliver ==
    /\ reader = "deliver" /\ chan[hand.to] = <<>>
    /\ chan' = [chan EXCEPT ![hand.to] = <<hand.reply>>]
    /\ reader' = "read"
    /\ UNCHANGED <<pool, pc, seq, seqOf, pending, hand, stdin, stdout,
                   leaderVars, childVars, cur, work>>

\* EOF: failAllPending, holding the mutex, sends an error to every registered
\* channel.  It would block, mutex held, if one of them were full.
ReadEof ==
    /\ reader = "read" /\ stdout = <<>> /\ ~LeaderLive
    /\ \A s \in DOMAIN pending : chan[pending[s]] = <<>>
    /\ chan' = [c \in Callers |->
                  IF \E s \in DOMAIN pending : pending[s] = c
                  THEN <<[seq |-> seqOf[c], status |-> "error"]>> ELSE chan[c]]
    /\ pending' = PendingWithout(DOMAIN pending)
    /\ reader' = "eof"
    /\ UNCHANGED <<pool, pc, seq, seqOf, hand, stdin, stdout, leaderVars, childVars, cur, work>>

-----------------------------------------------------------------------------
(* Go: NewForkedWorkerPool's result, and Close.                            *)

Kill == leader' = IF LeaderLive THEN "killed" ELSE leader

\* The load failed: leader.kill(), then Wait.
OpenFails ==
    /\ pool = "loading" /\ pc[Loader] \in {"oom", "error"}
    /\ pool' = "closed"
    /\ Kill
    /\ UNCHANGED <<pc, seq, seqOf, pending, chan, reader, hand, stdin, stdout,
                   lines, quitting, busy, childVars, cur, work>>

OpenSucceeds ==
    /\ pool = "loading" /\ pc[Loader] = "ok"
    /\ pool' = "open"
    /\ UNCHANGED <<pc, seq, seqOf, pending, chan, reader, hand, stdin, stdout,
                   leaderVars, childVars, cur, work>>

\* renderAll has returned: no call is under way and none will begin.
BeginClose ==
    /\ pool = "open"
    /\ \A c \in Chunks : pc[c] \in Returned \cup {"idle"}
    /\ pool' = "closing"
    /\ stdin' = IF LeaderLive THEN Append(stdin, QuitCmd) ELSE stdin
    /\ UNCHANGED <<pc, seq, seqOf, pending, chan, reader, hand, stdout,
                   leaderVars, childVars, cur, work>>

CloseWaited ==
    /\ pool = "closing" /\ ~LeaderLive
    /\ pool' = "closed"
    /\ UNCHANGED <<pc, seq, seqOf, pending, chan, reader, hand, stdin, stdout,
                   leaderVars, childVars, cur, work>>

\* The 10 s grace period is over: Process.Kill, which reaches the leader only.
CloseKills ==
    /\ pool = "closing" /\ LeaderLive
    /\ pool' = "closed"
    /\ Kill
    /\ UNCHANGED <<pc, seq, seqOf, pending, chan, reader, hand, stdin, stdout,
                   lines, quitting, busy, childVars, cur, work>>

-----------------------------------------------------------------------------
(* C++: the leader.                                                        *)

\* Mutant: the catch block answers like the try block.
EmitAlwaysOk(s, st) == stdout' = Append(stdout, [seq |-> s, status |-> "ok"])

Emit(s, st) == stdout' = Append(stdout, [seq |-> s, status |-> st])

\* A boot error is answered without a seq, which the reader takes for 0.  A bad
\* licence is reported before any command is read; a failed load or fork after
\* it.  Children forked before a failed fork stay until they see EOF.
LeaderBootFails ==
    /\ "bootFails" \in Faults
    /\ leader = "boot"
    /\ \/ /\ Emit(0, "error")
          /\ UNCHANGED <<stdin, child>>
       \/ /\ stdin # <<>>
          /\ stdin' = Tail(stdin)
          /\ \E st \in {"oom", "error"} : Emit(0, st)
          /\ UNCHANGED child
       \/ /\ stdin # <<>>
          /\ stdin' = Tail(stdin)
          /\ Emit(0, "error")
          /\ \E n \in Children :
                child' = [k \in Children |-> IF k < n THEN "idle" ELSE "none"]
    /\ leader' = "exiting"
    /\ UNCHANGED <<goVars, lines, quitting, busy, toChild, fromChild, cur, work>>

LeaderExits ==
    /\ leader = "exiting"
    /\ leader' = "exited"
    /\ UNCHANGED <<goVars, stdin, stdout, lines, quitting, busy, childVars, cur, work>>

LeaderLoads ==
    /\ leader = "boot" /\ stdin # <<>>
    /\ stdin' = Tail(stdin)
    /\ child' = [k \in Children |-> "idle"]
    /\ Emit(0, "ok")
    /\ leader' = "poll"
    /\ UNCHANGED <<goVars, lines, quitting, busy, toChild, fromChild, cur, work>>

\* One poll round drains every complete line of stdin.
LeaderDrainsStdin ==
    /\ leader = "poll" /\ ~quitting /\ lines = <<>> /\ stdin # <<>>
    /\ lines' = stdin
    /\ stdin' = <<>>
    /\ UNCHANGED <<goVars, stdout, leader, quitting, busy, childVars, cur, work>>

LeaderQuits ==
    /\ leader = "poll" /\ lines # <<>> /\ Head(lines).op = "quit"
    /\ quitting' = TRUE
    /\ lines' = <<>>
    /\ UNCHANGED <<goVars, stdin, stdout, leader, busy, childVars, cur, work>>

\* Mutant: the child's own busy flag is not looked at.
FirstListed(k) == \A j \in 1..(k - 1) : busy[j]

FirstIdle(k) == ~busy[k] /\ \A j \in 1..(k - 1) : busy[j]

\* try_assign, first half: the first child that is not busy gets the line, even
\* one whose socket is closed; that write raises SIGPIPE in the leader.
LeaderAssignsChild(k) ==
    /\ leader = "poll" /\ lines # <<>> /\ Head(lines).op = "render"
    /\ FirstIdle(k)
    /\ busy' = [busy EXCEPT ![k] = TRUE]
    /\ IF ChildLive(k)
       THEN /\ toChild' = [toChild EXCEPT ![k] = Append(@, Head(lines))]
            /\ lines' = Tail(lines)
            /\ UNCHANGED leader
       ELSE /\ leader' = "killed"
            /\ UNCHANGED <<toChild, lines>>
    /\ UNCHANGED <<goVars, stdin, stdout, quitting, child, fromChild, cur, work>>

\* try_assign, second half: all children busy, so the leader renders inline.
\* leader_busy is FALSE whenever try_assign is entered, so it never refuses and
\* the pending deque stays empty.
LeaderStartsInline ==
    /\ leader = "poll" /\ lines # <<>> /\ Head(lines).op = "render"
    /\ \A k \in Children : busy[k]
    /\ leader' = "render"
    /\ cur' = [cur EXCEPT ![0] = Head(lines)]
    /\ work' = [work EXCEPT ![Head(lines).who] = "rendering"]
    /\ lines' = Tail(lines)
    /\ UNCHANGED <<goVars, stdin, stdout, quitting, busy, childVars>>

\* Unlike a child, the leader survives bad_alloc.
LeaderFinishesInline ==
    /\ leader = "render"
    /\ \E st \in Status :
         /\ st = "oom" => "oom" \in Faults
         /\ work' = [work EXCEPT ![cur[0].who] = st]
         /\ Emit(cur[0].seq, st)
    /\ leader' = "poll"
    /\ UNCHANGED <<goVars, stdin, lines, quitting, busy, childVars, cur>>

\* A child's reply is forwarded verbatim and the child is free again.
LeaderForwards(k) ==
    /\ leader = "poll" /\ lines = <<>> /\ fromChild[k] # <<>>
    /\ stdout' = Append(stdout, Head(fromChild[k]))
    /\ fromChild' = [fromChild EXCEPT ![k] = Tail(@)]
    /\ busy' = [busy EXCEPT ![k] = FALSE]
    /\ UNCHANGED <<goVars, stdin, leader, lines, quitting, child, toChild, cur, work>>

\* EOF on a child's socket: only busy is reset, the slot stays eligible.
LeaderSeesChildEof(k) ==
    /\ leader = "poll" /\ lines = <<>> /\ fromChild[k] = <<>>
    /\ child[k] = "dead" /\ busy[k]
    /\ busy' = [busy EXCEPT ![k] = FALSE]
    /\ UNCHANGED <<goVars, stdin, stdout, leader, lines, quitting, childVars, cur, work>>

\* Quitting and every child idle: tell each child to quit.  Writing that line to
\* a child that is gone raises SIGPIPE here too.
LeaderShutsDown ==
    /\ leader = "poll" /\ quitting /\ lines = <<>>
    /\ \A k \in Children : ~busy[k]
    /\ IF \A k \in Children : ChildLive(k)
       THEN /\ leader' = "reap"
            /\ toChild' = [k \in Children |-> Append(toChild[k], QuitCmd)]
       ELSE /\ leader' = "killed"
            /\ UNCHANGED toChild
    /\ UNCHANGED <<goVars, stdin, stdout, lines, quitting, busy, child, fromChild, cur, work>>

\* waitpid on every child.
LeaderReaps ==
    /\ leader = "reap"
    /\ \A k \in Children : child[k] = "dead"
    /\ leader' = "exited"
    /\ UNCHANGED <<goVars, stdin, stdout, lines, quitting, busy, childVars, cur, work>>

LeaderKilled ==
    /\ "leaderKilled" \in Faults
    /\ LeaderLive
    /\ leader' = "killed"
    /\ UNCHANGED <<goVars, stdin, stdout, lines, quitting, busy, childVars, cur, work>>

-----------------------------------------------------------------------------
(* C++: child_render_loop.                                                 *)

ChildTakes(k) ==
    /\ child[k] = "idle" /\ toChild[k] # <<>>
    /\ LET cmd == Head(toChild[k]) IN
         IF cmd.op = "quit"
         THEN /\ child' = [child EXCEPT ![k] = "dead"]
              /\ UNCHANGED <<cur, work>>
         ELSE /\ child' = [child EXCEPT ![k] = "render"]
              /\ cur' = [cur EXCEPT ![k] = cmd]
              /\ work' = [work EXCEPT ![cmd.who] = "rendering"]
    /\ toChild' = [toChild EXCEPT ![k] = Tail(@)]
    /\ UNCHANGED <<goVars, stdin, stdout, leaderVars, fromChild>>

\* The file is finished, then the reply is written.  Out of memory, the child
\* replies and then exits; with the leader gone the write itself kills it.
ChildFinishes(k) ==
    /\ child[k] = "render"
    /\ \E st \in Status :
         /\ st = "oom" => "oom" \in Faults
         /\ work' = [work EXCEPT ![cur[k].who] = st]
         /\ IF LeaderLive
            THEN /\ fromChild' = [fromChild EXCEPT ![k] =
                                    Append(@, [seq |-> cur[k].seq, status |-> st])]
                 /\ child' = [child EXCEPT ![k] = IF st = "oom" THEN "exiting" ELSE "idle"]
            ELSE /\ child' = [child EXCEPT ![k] = "dead"]
                 /\ UNCHANGED fromChild
    /\ UNCHANGED <<goVars, stdin, stdout, leaderVars, toChild, cur>>

\* What a dead child had not read is lost; what it wrote is not.
ChildDies(k) ==
    /\ child' = [child EXCEPT ![k] = "dead"]
    /\ toChild' = [toChild EXCEPT ![k] = <<>>]
    /\ UNCHANGED <<goVars, stdin, stdout, leaderVars, fromChild, cur, work>>

\* Mutant: a read of no bytes is taken for a short read and tried again.
ChildSpinsOnEof(k) ==
    \/ child[k] = "exiting" /\ ChildDies(k)
    \/ child[k] = "idle" /\ toChild[k] = <<>> /\ ~LeaderLive /\ UNCHANGED vars

\* _exit after OOM, or EOF on the socket once the leader is gone.
ChildExits(k) ==
    /\ \/ child[k] = "exiting"
       \/ child[k] = "idle" /\ toChild[k] = <<>> /\ ~LeaderLive
    /\ ChildDies(k)

ChildKilled(k) == "childKilled" \in Faults /\ ChildLive(k) /\ ChildDies(k)

-----------------------------------------------------------------------------
CallerStep(c) == Register(c) \/ Write(c) \/ Receive(c) \/ Timeout(c)
ReaderStep    == ReadLine \/ Deliver \/ ReadEof
PoolStep      == OpenFails \/ OpenSucceeds \/ BeginClose \/ CloseWaited \/ CloseKills
LeaderStep    == \/ LeaderBootFails \/ LeaderExits \/ LeaderLoads \/ LeaderDrainsStdin
                 \/ LeaderQuits \/ LeaderStartsInline \/ LeaderFinishesInline
                 \/ LeaderShutsDown \/ LeaderReaps
LeaderChildStep(k) == LeaderAssignsChild(k) \/ LeaderForwards(k) \/ LeaderSeesChildEof(k)
ChildStep(k)  == ChildTakes(k) \/ ChildFinishes(k) \/ ChildExits(k)

\* The pool's life is over: the only state in which nothing more happens.
Terminated ==
    /\ pool = "closed" /\ reader = "eof" /\ ~LeaderLive
    /\ \A k \in Children : ~ChildLive(k)
    /\ UNCHANGED vars

Next == \/ \E c \in Chunks : TakeSeq(c)
        \/ \E c \in Callers : CallerStep(c)
        \/ ReaderStep
        \/ PoolStep
        \/ LeaderStep
        \/ \E k \in Children : LeaderChildStep(k) \/ ChildStep(k) \/ ChildKilled(k)
        \/ LeaderKilled
        \/ Terminated

Spec == Init /\ [][Next]_vars

\* Every live process keeps running and every render ends; nothing is ever
\* forced to be killed.
WorkerFairness ==
    /\ WF_vars(LeaderStep)
    /\ \A k \in Children : WF_vars(LeaderChildStep(k)) /\ WF_vars(ChildStep(k))

-----------------------------------------------------------------------------
(* Properties.                                                             *)

GoTypeOK ==
    /\ pool \in {"loading", "open", "closing", "closed"}
    /\ pc \in [Callers -> CallerState]
    /\ seq \in Nat
    /\ seqOf \in [Callers -> Nat]
    /\ DOMAIN pending \subseteq Nat
    /\ pending \in [DOMAIN pending -> Callers]
    /\ chan \in [Callers -> Seq(Reply)]
    /\ reader \in {"read", "deliver", "eof"}
    /\ hand \in [to : Callers, reply : Reply]

LeaderTypeOK ==
    /\ stdin \in Seq(Command) /\ stdout \in Seq(Reply)
    /\ leader \in {"boot", "poll", "render", "reap", "exiting", "exited", "killed"}
    /\ lines \in Seq(Command)
    /\ quitting \in BOOLEAN
    /\ busy \in [Children -> BOOLEAN]

ChildTypeOK ==
    /\ child \in [Children -> {"none", "idle", "render", "exiting", "dead"}]
    /\ toChild \in [Children -> Seq(Command)]
    /\ fromChild \in [Children -> Seq(Reply)]
    /\ cur \in [Workers -> Command]
    /\ work \in [Chunks -> {"none", "rendering"} \cup Status]

TypeOK == GoTypeOK /\ LeaderTypeOK /\ ChildTypeOK

\* The pool is the renderer the orchestrator takes it for: whatever times out,
\* crashes or arrives late, RenderChunk hands back a path only when that chunk's
\* own file is complete, blames memory only on the chunk that ran out of it, and
\* no worker touches a file after it has been handed back.
callView == [c \in Chunks |-> CASE pc[c] = "idle" -> "idle"
                                [] pc[c] \in Returned -> pc[c]
                                [] OTHER -> "running"]
Renderer == INSTANCE ChunkRenderer WITH call <- callView
ImplementsChunkRenderer == Renderer!Spec

\* readStdout never blocks on a reply channel: not when it sends a reply after
\* dropping the mutex, although the caller may have timed out in between, and
\* not in failAllPending, which sends with the mutex held and would stop every
\* caller that wants to register or unregister.
ReaderNeverBlocks ==
    /\ reader = "deliver" => chan[hand.to] = <<>>
    /\ \A s \in DOMAIN pending : chan[pending[s]] = <<>>

\* Once the reader has seen EOF and returned, nobody is left waiting for it: a
\* caller still in awaitSeq already has its reply.  (A call that registers after
\* EOF gets EPIPE from its write.)
EofWakesEveryone ==
    reader = "eof" => \A c \in Callers : pc[c] = "await" => chan[c] # <<>>

\* The leader never queues a render behind another one: while it serves, a child
\* owes at most one reply, so a chunk's timer never covers two renders of a child.
OneRenderPerChild ==
    leader \in {"poll", "render"} =>
        \A k \in Children :
            Len(toChild[k]) + Len(fromChild[k]) + (IF child[k] = "render" THEN 1 ELSE 0) <= 1

\* After Close has returned, no worker process survives for ever, unless it hangs:
\* a child that outlived a killed leader finishes its render, sees EOF or SIGPIPE,
\* and goes.
NoProcessLeaks ==
    WorkerFairness =>
        pool = "closed" ~> ~LeaderLive /\ \A k \in Children : ~ChildLive(k)

\* What pool.cpp says of a child's death, "OOM is fatal for the child": the
\* leader itself keeps serving until the orchestrator closes the pool.
LeaderSurvivesChildDeath == pool # "closed" => leader # "killed"
=============================================================================
