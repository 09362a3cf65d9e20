-------------------------- MODULE WorkerPoolProofs --------------------------
(***************************************************************************)
(* For any number of chunks and workers: no worker of the legacy pool is   *)
(* lost, shared or left running, and RenderChunk keeps the weaker promise  *)
(* of ChunkRenderer.                                                       *)
(***************************************************************************)
EXTENDS WorkerPool, FiniteSetTheorems, TLAPS

Command   == [op : {"load", "render", "quit"}, who : SUBSET Chunks]
LoadCmd   == [op |-> "load", who |-> {}]
RenderCmd(c) == [op |-> "render", who |-> {c}]
QuitCmd   == [op |-> "quit", who |-> {}]
ProcState == {"none", "up", "render", "exiting", "doomed", "dead"}

TypeOK ==
    /\ pool \in {"loading", "failed", "open", "closing", "closed"}
    /\ load \in [Workers -> {"spawn", "send", "await", "ok", "failed"}]
    /\ available \in Seq(Workers)
    /\ pc \in [Chunks -> {"idle", "select", "send", "await"} \cup Returned]
    /\ held \in [Chunks -> {0} \cup Workers]
    /\ cancelled \in BOOLEAN
    /\ toQuit \in {0} \cup Workers
    /\ proc \in [Workers -> ProcState]
    /\ stdin \in [Workers -> Seq(Command)]
    /\ resp \in [Workers -> Seq(Status)]
    /\ work \in [Chunks -> {"none", "rendering"} \cup Status]

Running == {"open", "closing", "closed"}

\* A call holds a worker from Checkout to its return, alone, and off the channel;
\* no worker is missing.
CheckoutSound ==
    /\ \A c \in Chunks : held[c] # 0 <=> pc[c] \in {"send", "await"}
    /\ \A c, d \in Chunks : held[c] = held[d] /\ held[c] # 0 => c = d
    /\ \A i \in 1..Len(available), c \in Chunks : available[i] # held[c]
    /\ \A i, k \in 1..Len(available) : available[i] = available[k] => i = k
    /\ pool \in Running => \A w \in Workers :
          (\E c \in Chunks : held[c] = w) \/ (\E i \in 1..Len(available) : available[i] = w)
    /\ pool \notin Running => available = <<>> /\ \A c \in Chunks : pc[c] = "idle"

\* What start and close have done to the processes so far.
CloseSound ==
    /\ pool \in Running => \A w \in Workers : load[w] = "ok"
    /\ pool = "failed" => \A w \in Workers :
          load[w] \in {"ok", "failed"} /\ proc[w] \in {"none", "dead"}
    /\ pool \in {"closing", "closed"} =>
          \A c \in Chunks : pc[c] \in Returned \cup {"idle"}
    /\ pool = "closing" => toQuit # 0 /\ \A w \in 1..(toQuit - 1) : proc[w] = "dead"
    /\ pool = "closed" => \A w \in Workers : proc[w] = "dead"

\* One load command, and one reply to it, while a worker boots.
BootSound(w) ==
    /\ load[w] = "spawn" => proc[w] = "none" /\ stdin[w] = <<>> /\ resp[w] = <<>>
    /\ load[w] = "send" => /\ stdin[w] = <<>>
                           /\ resp[w] # <<>> => resp[w] = <<"error">> /\ proc[w] # "up"
    /\ load[w] = "await" =>
          \/ stdin[w] = <<LoadCmd>> /\ (resp[w] # <<>> => resp[w] = <<"error">> /\ proc[w] # "up")
          \/ stdin[w] = <<>> /\ \E st \in Status : resp[w] = <<st>>
    /\ load[w] = "ok" /\ pool = "loading" => stdin[w] = <<>> /\ resp[w] = <<>>
    /\ load[w] = "failed" => proc[w] \in {"none", "dead"}
    /\ pool = "loading" => proc[w] # "render"

Awaits(c, w) == pc[c] = "await" /\ held[c] = w
AnyFailed    == \E d \in Chunks : pc[d] \in {"oom", "error"}

\* A process that reads commands has only the one of the call that awaits its
\* reply, or has answered it.  A reply that nobody awaits, or that meets the wrong
\* call, was left behind by a call that timed out, and its process reads no more.
ServeSound(w) ==
    pool \in Running =>
        /\ proc[w] = "up" =>
              \/ /\ \A c \in Chunks : ~Awaits(c, w)
                 /\ resp[w] = <<>>
                 /\ stdin[w] = <<>> \/ (stdin[w] = <<QuitCmd>> /\ pool # "open" /\ w <= toQuit)
              \/ \E c \in Chunks : /\ Awaits(c, w) /\ work[c] = "none"
                                   /\ stdin[w] = <<RenderCmd(c)>> /\ resp[w] = <<>>
              \/ \E c \in Chunks : /\ Awaits(c, w) /\ work[c] \in Status
                                   /\ stdin[w] = <<>> /\ resp[w] = <<work[c]>>
        /\ proc[w] = "render" =>
              \E c \in Chunks : /\ Awaits(c, w) /\ work[c] = "rendering"
                                /\ stdin[w] = <<RenderCmd(c)>> /\ resp[w] = <<>>
        /\ resp[w] # <<>> =>
              /\ \E st \in Status : resp[w] = <<st>>
              /\ \/ AnyFailed
                 \/ \E c \in Chunks : Awaits(c, w)
              /\ \A c \in Chunks : Awaits(c, w) =>
                    resp[w] = <<work[c]>> \/ (work[c] = "none" /\ AnyFailed)

\* No process touches a chunk before its command has been written.
FreshSound == \A c \in Chunks : pc[c] \in {"idle", "select", "send"} => work[c] = "none"

PoolInv ==
    /\ TypeOK /\ CheckoutSound /\ CloseSound /\ FreshSound
    /\ \A w \in Workers : BootSound(w) /\ ServeSound(w)

-----------------------------------------------------------------------------
(* Queues, commands and frames.                                            *)

\* A queue of one line.
LEMMA OneLine ==
    ASSUME NEW S, NEW x \in S
    PROVE  /\ <<x>> \in Seq(S) /\ <<x>> # <<>> /\ Append(<<>>, x) = <<x>>
           /\ Head(<<x>>) = x /\ Tail(<<x>>) = <<>> /\ <<>> \in Seq(S)
  OBVIOUS

\* A line is written to, or read from, a queue.
LEMMA QueueType ==
    ASSUME NEW S, NEW q \in Seq(S)
    PROVE  /\ \A x \in S : Append(q, x) \in Seq(S)
           /\ q # <<>> => Tail(q) \in Seq(S) /\ Head(q) \in S
  OBVIOUS

\* Commands are told apart by their op, and a render command names its chunk.
LEMMA Commands ==
    /\ LoadCmd \in Command /\ QuitCmd \in Command
    /\ LoadCmd.op = "load" /\ QuitCmd.op = "quit"
    /\ \A c \in Chunks : /\ RenderCmd(c) \in Command
                         /\ RenderCmd(c).op = "render" /\ RenderCmd(c).who = {c}
  BY DEF Command, LoadCmd, QuitCmd, RenderCmd

\* No worker has the number 0.
LEMMA WorkerNumbers == 0 \notin Workers /\ 1 \in Workers /\ Workers \subseteq Nat
  BY RenderPoolAssumption DEF Workers

\* A step that does not concern a worker that boots, and the end of all booting.
LEMMA BootFrame ==
    ASSUME NEW w \in Workers, BootSound(w),
           pool' = pool, load'[w] = load[w], proc'[w] = proc[w],
           stdin'[w] = stdin[w], resp'[w] = resp[w]
    PROVE  BootSound(w)'
  BY DEF BootSound

\* A worker that has loaded, once the pool is no longer loading, has booted for good.
LEMMA BootOver ==
    ASSUME NEW w \in Workers, load'[w] = "ok", pool' # "loading"
    PROVE  BootSound(w)'
  BY DEF BootSound

\* A step that does not concern worker w or the call that awaits its reply.
LEMMA ServeFrame ==
    ASSUME NEW w \in Workers, ServeSound(w), pool' = pool, toQuit' = toQuit,
           proc'[w] = proc[w], stdin'[w] = stdin[w], resp'[w] = resp[w],
           \A c \in Chunks : Awaits(c, w)' <=> Awaits(c, w),
           \A c \in Chunks : Awaits(c, w) => work'[c] = work[c],
           AnyFailed => AnyFailed'
    PROVE  ServeSound(w)'
  <1> SUFFICES ASSUME pool' \in Running PROVE ServeSound(w)'
    BY DEF ServeSound
  <1>1. proc'[w] = "up" =>
              \/ /\ \A c \in Chunks : ~Awaits(c, w)'
                 /\ resp'[w] = <<>>
                 /\ stdin'[w] = <<>> \/ (stdin'[w] = <<QuitCmd>> /\ pool' # "open" /\ w <= toQuit')
              \/ \E c \in Chunks : /\ Awaits(c, w)' /\ work'[c] = "none"
                                   /\ stdin'[w] = <<RenderCmd(c)>> /\ resp'[w] = <<>>
              \/ \E c \in Chunks : /\ Awaits(c, w)' /\ work'[c] \in Status
                                   /\ stdin'[w] = <<>> /\ resp'[w] = <<work'[c]>>
    BY Zenon DEF ServeSound
  <1>2. proc'[w] = "render" =>
              \E c \in Chunks : /\ Awaits(c, w)' /\ work'[c] = "rendering"
                                /\ stdin'[w] = <<RenderCmd(c)>> /\ resp'[w] = <<>>
    BY DEF ServeSound
  <1>3. resp'[w] # <<>> =>
              /\ \E st \in Status : resp'[w] = <<st>>
              /\ AnyFailed' \/ \E c \in Chunks : Awaits(c, w)'
              /\ \A c \in Chunks : Awaits(c, w)' =>
                    resp'[w] = <<work'[c]>> \/ (work'[c] = "none" /\ AnyFailed')
    BY DEF ServeSound
  <1> QED BY <1>1, <1>2, <1>3 DEF ServeSound, Status

\* A call that was neither failed nor out of memory moves on.
LEMMA FailedStays ==
    ASSUME NEW b \in Chunks, NEW x, pc[b] \notin {"oom", "error"},
           TypeOK, pc' = [pc EXCEPT ![b] = x]
    PROVE  AnyFailed => AnyFailed'
  BY DEF AnyFailed, TypeOK

\* Only one call awaits a worker, and it is the one that holds it.
LEMMA OneHolder ==
    ASSUME TypeOK, CheckoutSound, NEW b \in Chunks, NEW c \in Chunks,
           pc[b] \in {"send", "await"}, Awaits(c, held[b])
    PROVE  c = b
  BY DEF CheckoutSound, Awaits

\* The worker of a call that is under way exists, and the pool is open.
LEMMA HolderOpen ==
    ASSUME PoolInv, NEW b \in Chunks, pc[b] \in {"send", "await"}
    PROVE  held[b] \in Workers /\ held[b] # 0 /\ pool = "open"
  BY DEF PoolInv, CheckoutSound, CloseSound, TypeOK, Returned, Running

\* The render command that a process is about to read.
LEMMA CommandRead ==
    ASSUME PoolInv, NEW v \in Workers, proc[v] = "up", stdin[v] # <<>>,
           Head(stdin[v]).op = "render"
    PROVE  /\ pool \in Running
           /\ \E c \in Chunks : /\ Awaits(c, v) /\ work[c] = "none"
                                /\ stdin[v] = <<RenderCmd(c)>> /\ resp[v] = <<>>
  <1>1. pool \in Running
    <2> SUFFICES ASSUME pool \notin Running PROVE FALSE OBVIOUS
    <2>1. pool = "loading" BY DEF PoolInv, TypeOK, CloseSound, Running
    <2>2. stdin[v] = <<LoadCmd>> BY <2>1 DEF PoolInv, BootSound, TypeOK
    <2>3. Head(stdin[v]) = LoadCmd BY <2>2, OneLine
    <2> QED BY <2>3, Commands
  <1>2. stdin[v] # <<QuitCmd>> BY OneLine, Commands
  <1> QED BY <1>1, <1>2 DEF PoolInv, ServeSound

\* The render that a process is in.
LEMMA CommandRendered ==
    ASSUME PoolInv, NEW v \in Workers, proc[v] = "render"
    PROVE  /\ pool \in Running
           /\ \E c \in Chunks : /\ Awaits(c, v) /\ work[c] = "rendering"
                                /\ stdin[v] = <<RenderCmd(c)>> /\ resp[v] = <<>>
  <1>1. pool \in Running BY DEF PoolInv, TypeOK, BootSound, CloseSound, Running
  <1> QED BY <1>1 DEF PoolInv, ServeSound

\* The load command is read while the worker boots.
LEMMA LoadRead ==
    ASSUME PoolInv, NEW v \in Workers, proc[v] = "up", stdin[v] # <<>>,
           Head(stdin[v]).op = "load"
    PROVE  /\ pool = "loading" /\ load[v] = "await"
           /\ stdin[v] = <<LoadCmd>> /\ resp[v] = <<>>
  <1>1. pool \notin Running
    <2> SUFFICES ASSUME pool \in Running PROVE FALSE OBVIOUS
    <2>1. stdin[v] = <<QuitCmd>> \/ \E c \in Chunks : stdin[v] = <<RenderCmd(c)>>
      BY DEF PoolInv, ServeSound
    <2>2. Head(stdin[v]).op \in {"quit", "render"} BY <2>1, OneLine, Commands
    <2> QED BY <2>2
  <1>2. pool = "loading" BY <1>1 DEF PoolInv, TypeOK, CloseSound, Running
  <1> QED BY <1>2 DEF PoolInv, BootSound, TypeOK

\* ReturnAs puts the worker of the call back, and nothing else.
LEMMA ReturnSound ==
    ASSUME PoolInv, NEW b \in Chunks, NEW r \in Returned,
           pc[b] \in {"send", "await"}, ReturnAs(b, r), pool' = pool
    PROVE  /\ CheckoutSound'
           /\ available' \in Seq(Workers)
           /\ pc' \in [Chunks -> {"idle", "select", "send", "await"} \cup Returned]
           /\ held' \in [Chunks -> {0} \cup Workers]
  <1> USE DEF PoolInv
  <1>1. held[b] \in Workers /\ pool = "open" BY HolderOpen
  <1>2. /\ available' \in Seq(Workers)
        /\ Len(available') = Len(available) + 1
        /\ \A i \in 1..Len(available) : available'[i] = available[i]
        /\ available'[Len(available) + 1] = held[b]
        /\ Len(available) \in Nat
    BY <1>1 DEF ReturnAs, TypeOK
  <1>3. /\ pc' \in [Chunks -> {"idle", "select", "send", "await"} \cup Returned]
        /\ held' \in [Chunks -> {0} \cup Workers]
        /\ held'[b] = 0 /\ pc'[b] = r
        /\ \A c \in Chunks : c # b => held'[c] = held[c] /\ pc'[c] = pc[c]
    BY DEF ReturnAs, TypeOK
  <1>4. \A c \in Chunks : held'[c] # 0 <=> pc'[c] \in {"send", "await"}
    BY <1>3 DEF CheckoutSound, Returned
  <1>5. \A c, d \in Chunks : held'[c] = held'[d] /\ held'[c] # 0 => c = d
    BY <1>3 DEF CheckoutSound
  <1>6. \A i \in 1..Len(available'), c \in Chunks : available'[i] # held'[c]
    <2> SUFFICES ASSUME NEW i \in 1..Len(available'), NEW c \in Chunks
                 PROVE  available'[i] # held'[c]
      OBVIOUS
    <2>1. CASE i \in 1..Len(available)
      BY <1>2, <1>3, <2>1, WorkerNumbers, SMTT(30) DEF CheckoutSound, TypeOK
    <2>2. CASE i = Len(available) + 1
      BY <1>1, <1>2, <1>3, <2>2, WorkerNumbers DEF CheckoutSound
    <2> QED BY <1>2, <2>1, <2>2
  <1>7. \A i, k \in 1..Len(available') : available'[i] = available'[k] => i = k
    BY <1>2 DEF CheckoutSound
  <1>8. \A w \in Workers : \/ \E c \in Chunks : held'[c] = w
                           \/ \E i \in 1..Len(available') : available'[i] = w
    <2> SUFFICES ASSUME NEW w \in Workers
                 PROVE  \/ \E c \in Chunks : held'[c] = w
                        \/ \E i \in 1..Len(available') : available'[i] = w
      OBVIOUS
    <2>1. CASE w = held[b] BY <1>2, <2>1
    <2>2. CASE \E c \in Chunks : c # b /\ held[c] = w BY <1>3, <2>2
    <2>3. CASE \E i \in 1..Len(available) : available[i] = w BY <1>2, <2>3
    <2> QED BY <1>1, <2>1, <2>2, <2>3 DEF CheckoutSound, Running
  <1>9. CheckoutSound' BY <1>1, <1>4, <1>5, <1>6, <1>7, <1>8 DEF CheckoutSound, Running
  <1> QED BY <1>2, <1>3, <1>9

-----------------------------------------------------------------------------
(* The inductive invariant.                                                *)

\* The initial state satisfies the inductive invariant.
LEMMA PoolInvInit == Init => PoolInv
  <1> SUFFICES ASSUME Init PROVE PoolInv OBVIOUS
  <1> USE DEF Init
  <1>1. TypeOK
    <2>1. /\ available \in Seq(Workers)
          /\ stdin \in [Workers -> Seq(Command)] /\ resp \in [Workers -> Seq(Status)]
      OBVIOUS
    <2> QED BY <2>1 DEF TypeOK, Returned, ProcState
  <1>2. CheckoutSound BY WorkerNumbers DEF CheckoutSound, Running
  <1>3. CloseSound BY DEF CloseSound, Running
  <1>4. FreshSound BY DEF FreshSound
  <1>5. ASSUME NEW w \in Workers PROVE BootSound(w) /\ ServeSound(w)
    BY DEF BootSound, ServeSound, Running
  <1> QED BY <1>1, <1>2, <1>3, <1>4, <1>5 DEF PoolInv

\* A step of the goroutine that loads worker v.
LEMMA LoadStepInv ==
    ASSUME PoolInv, NEW v \in Workers, LoadStep(v) PROVE PoolInv'
  <1> USE DEF PoolInv
  <1>1. /\ load[v] \in {"spawn", "send", "await"}
        /\ UNCHANGED <<pool, available, pc, held, cancelled, toQuit, work>>
        /\ \A w \in Workers : w # v =>
              /\ load'[w] = load[w] /\ proc'[w] = proc[w]
              /\ stdin'[w] = stdin[w] /\ resp'[w] = resp[w]
    BY DEF LoadStep, Spawn, SendLoad, LoadReplied, LoadGivenUp, LoadFails, TypeOK
  <1>2. pool = "loading"
    BY <1>1 DEF TypeOK, CloseSound, Running
  <1>3. CheckoutSound' BY <1>1 DEF CheckoutSound
  <1>4. CloseSound' BY <1>1, <1>2 DEF CloseSound, Running
  <1>5. FreshSound' BY <1>1 DEF FreshSound
  <1>6. \A w \in Workers : ServeSound(w)' BY <1>1, <1>2 DEF ServeSound, Running
  <1>7. \A w \in Workers : w # v => BootSound(w)' BY <1>1, BootFrame
  <1>8. TypeOK' /\ BootSound(v)'
    <2>1. CASE Spawn(v)
      <3>1. TypeOK' BY <2>1 DEF Spawn, TypeOK, ProcState
      <3>2. BootSound(v)' BY <2>1 DEF Spawn, BootSound, TypeOK
      <3> QED BY <3>1, <3>2
    <2>2. CASE SendLoad(v) /\ Writable(v)
      <3>1. stdin' = [stdin EXCEPT ![v] = <<LoadCmd>>]
        <4>1. Append(<<>>, LoadCmd) = <<LoadCmd>> BY Commands, OneLine
        <4>2. stdin[v] = <<>> BY <2>2 DEF SendLoad, BootSound
        <4> QED BY <2>2, <4>1, <4>2 DEF SendLoad, LoadCmd
      <3>2. load' = [load EXCEPT ![v] = "await"] /\ UNCHANGED <<proc, resp>>
        BY <2>2 DEF SendLoad
      <3>3. TypeOK' BY <1>1, <3>1, <3>2, Commands, OneLine DEF TypeOK
      <3>4. BootSound(v)'
        BY <1>2, <2>2, <3>1, <3>2 DEF SendLoad, BootSound, TypeOK
      <3> QED BY <3>3, <3>4
    <2>3. CASE LoadFails(v) /\ UNCHANGED <<stdin, resp>>
      <3>1. TypeOK' BY <1>1, <2>3 DEF LoadFails, TypeOK, ProcState
      <3>2. BootSound(v)' BY <2>3 DEF LoadFails, BootSound, TypeOK
      <3> QED BY <3>1, <3>2
    <2>4. CASE LoadReplied(v) /\ Head(resp[v]) = "ok"
      <3>1. resp[v] = <<"ok">> /\ stdin[v] = <<>>
        BY <1>2, <2>4, OneLine DEF LoadReplied, BootSound
      <3>2. resp' = [resp EXCEPT ![v] = <<>>] BY <2>4, <3>1, OneLine DEF LoadReplied, Status
      <3>3. load' = [load EXCEPT ![v] = "ok"] /\ UNCHANGED <<proc, stdin>>
        BY <2>4 DEF LoadReplied
      <3>4. TypeOK' BY <1>1, <3>2, <3>3 DEF TypeOK
      <3>5. BootSound(v)' BY <1>2, <3>1, <3>2, <3>3, <2>4 DEF BootSound, TypeOK
      <3> QED BY <3>4, <3>5
    <2>5. CASE LoadReplied(v) /\ LoadFails(v)
      <3>1. TypeOK' BY <2>5, QueueType DEF LoadReplied, LoadFails, TypeOK, ProcState
      <3>2. BootSound(v)' BY <2>5 DEF LoadFails, BootSound, TypeOK
      <3> QED BY <3>1, <3>2
    <2> QED BY <2>1, <2>2, <2>3, <2>4, <2>5 DEF LoadStep, SendLoad, LoadReplied, LoadGivenUp
  <1> QED BY <1>3, <1>4, <1>5, <1>6, <1>7, <1>8

\* A call takes up or gives up a place in the select, or leaves with a worker.
LEMMA SelectStepInv ==
    ASSUME PoolInv, NEW b \in Chunks, Begin(b) \/ Checkout(b) \/ CtxDone(b)
    PROVE  PoolInv'
  <1> USE DEF PoolInv
  <1>1. PICK x \in {"select", "send", "error"} :
           /\ pc' = [pc EXCEPT ![b] = x]
           /\ pc[b] \in {"idle", "select"}
           /\ UNCHANGED <<pool, load, cancelled, toQuit, procVars>>
    BY DEF Begin, Checkout, CtxDone
  <1>2. pool = "open"
    BY <1>1 DEF Begin, Checkout, CtxDone, CheckoutSound, CloseSound, TypeOK, Returned, Running
  <1>3. TypeOK' /\ CheckoutSound'
    <2>1. CASE UNCHANGED <<available, held>> /\ x # "send"
      <3>1. TypeOK' BY <1>1, <2>1 DEF TypeOK, Returned, procVars
      <3>2. CheckoutSound' BY <1>1, <1>2, <2>1 DEF CheckoutSound, TypeOK, Running
      <3> QED BY <3>1, <3>2
    <2>2. CASE Checkout(b) /\ x = "send"
      <3>1. /\ Len(available) \in Nat /\ Len(available) >= 1
            /\ Head(available) = available[1] /\ available[1] \in Workers
            /\ available' \in Seq(Workers) /\ Len(available') = Len(available) - 1
            /\ \A i \in 1..Len(available') : available'[i] = available[i + 1]
        BY <2>2 DEF Checkout, TypeOK
      <3>2. held' = [held EXCEPT ![b] = available[1]] BY <2>2, <3>1 DEF Checkout
      <3>3. TypeOK' BY <1>1, <2>2, <3>1, <3>2 DEF TypeOK, procVars
      <3>4. \A c \in Chunks : held'[c] = IF c = b THEN available[1] ELSE held[c]
        BY <3>2 DEF TypeOK
      <3>5. \A c \in Chunks : held'[c] # 0 <=> pc'[c] \in {"send", "await"}
        BY <1>1, <2>2, <3>1, <3>4, WorkerNumbers DEF CheckoutSound, TypeOK
      <3>6. \A c, d \in Chunks : held'[c] = held'[d] /\ held'[c] # 0 => c = d
        BY <3>1, <3>4 DEF CheckoutSound
      <3>7. \A i \in 1..Len(available'), c \in Chunks : available'[i] # held'[c]
        BY <3>1, <3>4 DEF CheckoutSound
      <3>8. \A i, k \in 1..Len(available') : available'[i] = available'[k] => i = k
        BY <3>1, SMTT(30) DEF CheckoutSound
      <3>9. \A w \in Workers : \/ \E c \in Chunks : held'[c] = w
                               \/ \E i \in 1..Len(available') : available'[i] = w
        <4> SUFFICES ASSUME NEW w \in Workers
                     PROVE  \/ \E c \in Chunks : held'[c] = w
                            \/ \E i \in 1..Len(available') : available'[i] = w
          OBVIOUS
        <4>1. CASE \E c \in Chunks : held[c] = w
          <5>1. held[b] = 0 BY <1>1 DEF CheckoutSound
          <5> QED BY <3>4, <4>1, <5>1, WorkerNumbers
        <4>2. CASE available[1] = w BY <3>4, <4>2
        <4>3. ASSUME NEW i \in 2..Len(available), available[i] = w
              PROVE  \E k \in 1..Len(available') : available'[k] = w
          <5>1. i - 1 \in 1..Len(available') /\ (i - 1) + 1 = i BY <3>1
          <5> QED BY <3>1, <4>3, <5>1
        <4> QED BY <1>2, <3>1, <4>1, <4>2, <4>3 DEF CheckoutSound, Running
      <3> QED BY <1>1, <1>2, <3>3, <3>5, <3>6, <3>7, <3>8, <3>9 DEF CheckoutSound, Running
    <2> QED BY <1>1, <2>1, <2>2 DEF Begin, Checkout, CtxDone, TypeOK
  <1>4. CloseSound' BY <1>1, <1>2 DEF CloseSound, Running
  <1>5. FreshSound' BY <1>1 DEF FreshSound, TypeOK, procVars
  <1>6. ASSUME NEW w \in Workers PROVE BootSound(w)'
    BY <1>1, BootFrame DEF procVars
  <1>7. ASSUME NEW w \in Workers PROVE ServeSound(w)'
    <2>1. AnyFailed => AnyFailed' BY <1>1, FailedStays
    <2>2. \A c \in Chunks : Awaits(c, w)' <=> Awaits(c, w)
      <3> SUFFICES ASSUME NEW c \in Chunks PROVE Awaits(c, w)' <=> Awaits(c, w) OBVIOUS
      <3>1. CASE c = b BY <1>1, <3>1 DEF Awaits, TypeOK
      <3>2. CASE c # b
        <4>1. held'[c] = held[c] /\ pc'[c] = pc[c]
          BY <1>1, <3>2 DEF Begin, Checkout, CtxDone, TypeOK
        <4> QED BY <4>1 DEF Awaits
      <3> QED BY <3>1, <3>2
    <2> QED BY <1>1, <2>1, <2>2, ServeFrame DEF procVars
  <1> QED BY <1>3, <1>4, <1>5, <1>6, <1>7

\* A call writes its command.
LEMMA SendInv ==
    ASSUME PoolInv, NEW b \in Chunks, Send(b), Writable(held[b]) PROVE PoolInv'
  <1> USE DEF PoolInv
  <1> DEFINE v == held[b]
  <1>1. v \in Workers /\ pool = "open" /\ pc[b] = "send" /\ work[b] = "none"
    BY HolderOpen DEF Send, FreshSound
  <1>2. /\ stdin' = [stdin EXCEPT ![v] = Append(@, RenderCmd(b))]
        /\ pc' = [pc EXCEPT ![b] = "await"]
        /\ UNCHANGED <<available, held, pool, load, cancelled, toQuit, proc, resp, work>>
    BY DEF Send, RenderCmd
  <1>3. TypeOK' BY <1>1, <1>2, Commands, QueueType DEF TypeOK
  <1>4. CheckoutSound' BY <1>1, <1>2 DEF CheckoutSound, TypeOK, Running
  <1>5. CloseSound' BY <1>1, <1>2 DEF CloseSound, Running
  <1>6. FreshSound' BY <1>2 DEF FreshSound, TypeOK
  <1>7. ASSUME NEW w \in Workers PROVE BootSound(w)'
    BY <1>1, <1>2, BootOver DEF CloseSound, Running
  <1>8. AnyFailed => AnyFailed' BY <1>1, <1>2, FailedStays
  <1>9. ASSUME NEW w \in Workers PROVE ServeSound(w)'
    <2>1. CASE w # v
      <3>1. \A c \in Chunks : Awaits(c, w)' <=> Awaits(c, w)
        BY <1>1, <1>2, <2>1 DEF Awaits, TypeOK
      <3>2. stdin'[w] = stdin[w] BY <1>2, <2>1 DEF TypeOK
      <3> QED BY <1>2, <1>8, <3>1, <3>2, ServeFrame
    <2>2. CASE w = v
      <3>1. \A c \in Chunks : ~Awaits(c, v) BY <1>1, OneHolder DEF Awaits
      <3>2. Awaits(b, v)' BY <1>1, <1>2 DEF Awaits, TypeOK
      <3>3. \A c \in Chunks : Awaits(c, v)' => c = b
        BY <1>1, <1>2 DEF Awaits, TypeOK, CheckoutSound
      <3>4. proc[v] = "up" => stdin'[v] = <<RenderCmd(b)>> /\ resp[v] = <<>>
        <4> SUFFICES ASSUME proc[v] = "up" PROVE stdin'[v] = <<RenderCmd(b)>> /\ resp[v] = <<>>
          OBVIOUS
        <4>1. stdin[v] = <<>> /\ resp[v] = <<>> BY <1>1, <3>1 DEF ServeSound, Running
        <4>2. Append(<<>>, RenderCmd(b)) = <<RenderCmd(b)>> BY OneLine, Commands
        <4> QED BY <1>1, <1>2, <4>1, <4>2 DEF TypeOK
      <3>5. proc[v] # "render" BY <1>1, <3>1 DEF ServeSound, Running
      <3>6. resp[v] # <<>> => AnyFailed /\ \E st \in Status : resp[v] = <<st>>
        BY <1>1, <3>1 DEF ServeSound, Running
      <3> QED BY <1>1, <1>2, <1>8, <2>2, <3>2, <3>3, <3>4, <3>5, <3>6 DEF ServeSound
    <2> QED BY <2>1, <2>2
  <1> QED BY <1>3, <1>4, <1>5, <1>6, <1>7, <1>9

\* A call returns: on a reply, on the end of file, on its timer, or because its
\* worker was dead before the write.
LEMMA ReturnInv ==
    ASSUME PoolInv, NEW b \in Chunks,
           \/ Receive(b) \/ ReceiveEof(b) \/ Timeout(b)
           \/ Send(b) /\ ~Writable(held[b])
    PROVE  PoolInv'
  <1> USE DEF PoolInv
  <1> DEFINE v == held[b]
  <1>1. pc[b] \in {"send", "await"} BY DEF Receive, ReceiveEof, Timeout, Send
  <1>2. v \in Workers /\ v # 0 /\ pool = "open" BY <1>1, HolderOpen
  <1>3. /\ UNCHANGED <<pool, load, cancelled, toQuit, stdin, work>>
        /\ \A w \in Workers : w # v => proc'[w] = proc[w] /\ resp'[w] = resp[w]
        /\ proc' \in [Workers -> ProcState] /\ resp' \in [Workers -> Seq(Status)]
    <2>1. CASE Receive(b) BY <1>2, <2>1, QueueType DEF Receive, TypeOK
    <2>2. CASE Timeout(b) BY <1>2, <2>2 DEF Timeout, TypeOK, ProcState
    <2> QED BY <2>1, <2>2 DEF ReceiveEof, Send, procVars, TypeOK
  <1>4. PICK r \in Returned : ReturnAs(b, r) /\ (r # "error" => Receive(b))
    <2>1. CASE Receive(b)
      <3>1. Head(resp[v]) \in Status BY <1>2, <2>1, QueueType DEF Receive, TypeOK
      <3> QED BY <2>1, <3>1 DEF Receive, Status, Returned
    <2> QED BY <2>1 DEF ReceiveEof, Timeout, Send, Returned
  <1>5. TypeOK' /\ CheckoutSound'
    BY <1>1, <1>3, <1>4, ReturnSound DEF TypeOK
  <1>6. pc' = [pc EXCEPT ![b] = r] /\ held' = [held EXCEPT ![b] = 0] BY <1>4 DEF ReturnAs
  <1>7. CloseSound' BY <1>2, <1>3 DEF CloseSound, Running
  <1>8. FreshSound' BY <1>3, <1>6 DEF FreshSound, TypeOK, Returned
  <1>9. ASSUME NEW w \in Workers PROVE BootSound(w)'
    BY <1>2, <1>3, BootOver DEF CloseSound, Running
  <1>10. AnyFailed => AnyFailed' BY <1>1, <1>6, FailedStays
  <1>11. ASSUME NEW w \in Workers PROVE ServeSound(w)'
    <2>1. CASE w # v
      <3>1. \A c \in Chunks : Awaits(c, w)' <=> Awaits(c, w)
        BY <1>2, <1>6, <2>1, WorkerNumbers DEF Awaits, TypeOK
      <3> QED BY <1>3, <1>10, <2>1, <3>1, ServeFrame
    <2>2. CASE w = v
      <3>1. \A c \in Chunks : ~Awaits(c, w)'
        BY <1>1, <1>2, <1>6, <2>2 DEF Awaits, TypeOK, CheckoutSound
      <3>2. CASE Receive(b)
        <4>1. \E st \in Status : resp[v] = <<st>>
          BY <1>2, <3>2 DEF Receive, ServeSound, Running
        <4>2. resp'[v] = <<>> BY <1>2, <3>2, <4>1, OneLine DEF Receive, TypeOK
        <4>3. proc'[v] = proc[v] /\ stdin'[v] = stdin[v] BY <3>2 DEF Receive
        <4>4. Awaits(b, v) BY <3>2 DEF Receive, Awaits
        <4>5. proc[v] # "render" /\ (proc[v] = "up" => stdin[v] = <<>>)
          BY <1>2, <3>2, <4>4 DEF Receive, ServeSound, Running
        <4> QED BY <2>2, <3>1, <4>2, <4>3, <4>5 DEF ServeSound
      <3>3. CASE ~Receive(b)
        <4>1. proc'[v] \notin {"up", "render"} /\ resp'[v] = resp[v]
          BY <1>2, <3>3 DEF ReceiveEof, Timeout, Send, Writable, Live, EOF, procVars, TypeOK
        <4>2. AnyFailed' BY <1>4, <1>6, <3>3 DEF AnyFailed, TypeOK
        <4>3. resp[v] # <<>> => \E st \in Status : resp[v] = <<st>>
          BY <1>2 DEF ServeSound, Running
        <4> QED BY <2>2, <3>1, <4>1, <4>2, <4>3 DEF ServeSound
      <3> QED BY <3>2, <3>3
    <2> QED BY <2>1, <2>2
  <1> QED BY <1>5, <1>7, <1>8, <1>9, <1>11

\* NewWorkerPool joins the loading goroutines.
LEMMA StartInv ==
    ASSUME PoolInv, StartPool PROVE PoolInv'
  <1> USE DEF PoolInv
  <1>1. /\ pool = "loading" /\ available = <<>> /\ \A c \in Chunks : pc[c] = "idle"
        /\ \A w \in Workers : load[w] \in {"ok", "failed"}
        /\ UNCHANGED <<load, pc, held, cancelled, toQuit, stdin, resp, work>>
    BY DEF StartPool, CheckoutSound, Running
  <1>2. FreshSound' BY <1>1 DEF FreshSound
  <1>3. CASE \A w \in Workers : load[w] = "ok"
    <2>1. pool' = "open" /\ available' = [i \in Workers |-> i] /\ UNCHANGED proc
      BY <1>3 DEF StartPool
    <2>2. /\ available' \in Seq(Workers) /\ Len(available') = PoolSize
          /\ \A i \in 1..Len(available') : available'[i] = i
      BY <2>1, RenderPoolAssumption DEF Workers
    <2>3. TypeOK' BY <1>1, <2>1, <2>2 DEF TypeOK
    <2>4. CheckoutSound'
      <3>1. \A c \in Chunks : held'[c] = 0 /\ pc'[c] = "idle" BY <1>1 DEF CheckoutSound
      <3>2. \A w \in Workers : w \in 1..Len(available') /\ available'[w] = w
        BY <2>2 DEF Workers
      <3> QED BY <2>1, <2>2, <3>1, <3>2 DEF CheckoutSound, Running
    <2>5. CloseSound' BY <1>1, <1>3, <2>1 DEF CloseSound, Running
    <2>6. ASSUME NEW w \in Workers PROVE BootSound(w)' BY <1>1, <1>3, <2>1, BootOver
    <2>7. ASSUME NEW w \in Workers PROVE ServeSound(w)'
      <3>1. stdin'[w] = <<>> /\ resp'[w] = <<>> /\ proc'[w] # "render"
        BY <1>1, <1>3, <2>1 DEF BootSound
      <3>2. \A c \in Chunks : ~Awaits(c, w)' BY <1>1 DEF Awaits
      <3> QED BY <3>1, <3>2 DEF ServeSound
    <2> QED BY <1>2, <2>3, <2>4, <2>5, <2>6, <2>7
  <1>4. CASE ~\A w \in Workers : load[w] = "ok"
    <2>1. /\ pool' = "failed" /\ UNCHANGED available
          /\ proc' = [w \in Workers |-> IF load[w] = "ok" THEN "dead" ELSE proc[w]]
      BY <1>4 DEF StartPool
    <2>2. \A w \in Workers : proc'[w] \in {"none", "dead"}
      BY <1>1, <2>1 DEF BootSound
    <2>3. TypeOK' BY <1>1, <2>1 DEF TypeOK, ProcState
    <2>4. CheckoutSound' BY <1>1, <2>1 DEF CheckoutSound, Running
    <2>5. CloseSound' BY <1>1, <2>1, <2>2 DEF CloseSound, Running
    <2>6. ASSUME NEW w \in Workers PROVE BootSound(w)' /\ ServeSound(w)'
      BY <1>1, <2>1, <2>2 DEF BootSound, ServeSound, Running
    <2> QED BY <1>2, <2>3, <2>4, <2>5, <2>6
  <1> QED BY <1>3, <1>4

\* Close sends quit to the first worker.
LEMMA BeginCloseInv ==
    ASSUME PoolInv, BeginClose PROVE PoolInv'
  <1> USE DEF PoolInv
  <1>1. /\ pool = "open" /\ pool' = "closing" /\ toQuit' = 1 /\ SendQuit(1)
        /\ \A c \in Chunks : pc[c] \in Returned \cup {"idle"}
        /\ UNCHANGED <<load, available, pc, held, cancelled, proc, resp, work>>
    BY DEF BeginClose
  <1>2. /\ stdin' \in [Workers -> Seq(Command)]
        /\ \A w \in Workers : \/ stdin'[w] = stdin[w]
                              \/ w = 1 /\ stdin'[w] = Append(stdin[w], QuitCmd)
    BY <1>1, Commands, QueueType DEF SendQuit, QuitCmd, TypeOK
  <1>3. TypeOK' BY <1>1, <1>2, WorkerNumbers DEF TypeOK
  <1>4. CheckoutSound' BY <1>1 DEF CheckoutSound, Running
  <1>5. CloseSound' BY <1>1 DEF CloseSound, Running
  <1>6. FreshSound' BY <1>1 DEF FreshSound
  <1>7. ASSUME NEW w \in Workers PROVE BootSound(w)'
    BY <1>1, BootOver DEF CloseSound, Running
  <1>8. ASSUME NEW w \in Workers PROVE ServeSound(w)'
    <2>1. \A c \in Chunks : ~Awaits(c, w) /\ ~Awaits(c, w)'
      BY <1>1 DEF Awaits, Returned
    <2>2. AnyFailed' <=> AnyFailed BY <1>1 DEF AnyFailed
    <2>3. proc[w] = "up" => stdin'[w] = <<>> \/ (stdin'[w] = <<QuitCmd>> /\ w <= toQuit')
      <3>1. Append(<<>>, QuitCmd) = <<QuitCmd>> BY OneLine, Commands
      <3> QED BY <1>1, <1>2, <2>1, <3>1 DEF ServeSound, Running
    <2> QED BY <1>1, <2>1, <2>2, <2>3 DEF ServeSound, Running
  <1> QED BY <1>3, <1>4, <1>5, <1>6, <1>7, <1>8

\* Close waits for one worker and turns to the next.
LEMMA QuitNextInv ==
    ASSUME PoolInv, QuitNext PROVE PoolInv'
  <1> USE DEF PoolInv
  <1>1. /\ pool = "closing" /\ toQuit \in Workers
        /\ proc' = [proc EXCEPT ![toQuit] = "dead"]
        /\ \A c \in Chunks : pc[c] \in Returned \cup {"idle"}
        /\ UNCHANGED <<load, available, pc, held, cancelled, resp, work>>
    BY DEF QuitNext, CloseSound, TypeOK
  <1>2. \/ toQuit = PoolSize /\ pool' = "closed" /\ UNCHANGED <<toQuit, stdin>>
        \/ toQuit # PoolSize /\ pool' = pool /\ toQuit' = toQuit + 1 /\ SendQuit(toQuit + 1)
    BY DEF QuitNext
  <1>3. toQuit # PoolSize => toQuit + 1 \in Workers
    BY <1>1, RenderPoolAssumption DEF Workers
  <1>4. \A w \in Workers : proc'[w] = IF w = toQuit THEN "dead" ELSE proc[w]
    BY <1>1 DEF TypeOK
  <1>5. /\ stdin' \in [Workers -> Seq(Command)]
        /\ \A w \in Workers : \/ stdin'[w] = stdin[w]
                              \/ w = toQuit + 1 /\ stdin'[w] = Append(stdin[w], QuitCmd)
    <2>1. CASE UNCHANGED stdin BY <2>1 DEF TypeOK
    <2>2. CASE toQuit # PoolSize /\ stdin' # stdin
      <3>1. stdin' = [stdin EXCEPT ![toQuit + 1] = Append(stdin[toQuit + 1], QuitCmd)]
        BY <1>2, <2>2 DEF SendQuit, QuitCmd
      <3>2. stdin \in [Workers -> Seq(Command)] /\ toQuit + 1 \in Workers
        BY <1>3, <2>2 DEF TypeOK
      <3>3. Append(stdin[toQuit + 1], QuitCmd) \in Seq(Command)
        BY <3>2, Commands, QueueType
      <3> QED BY <3>1, <3>2, <3>3
    <2> QED BY <1>2, <2>1, <2>2
  <1>6. TypeOK'
    <2>1. toQuit' \in {0} \cup Workers BY <1>1, <1>2, <1>3
    <2>2. proc' \in [Workers -> ProcState] BY <1>1 DEF TypeOK, ProcState
    <2> QED BY <1>1, <1>2, <1>5, <2>1, <2>2 DEF TypeOK
  <1>7. CheckoutSound' BY <1>1, <1>2 DEF CheckoutSound, Running
  <1>8. CloseSound'
    <2>1. \A w \in 1..toQuit : w \in Workers /\ proc'[w] = "dead"
      <3>1. toQuit \in 1..PoolSize /\ PoolSize \in Nat
        BY <1>1, RenderPoolAssumption DEF Workers
      <3>2. \A w \in 1..(toQuit - 1) : proc[w] = "dead" BY <1>1 DEF CloseSound
      <3>3. \A w \in 1..toQuit : w \in Workers /\ (w = toQuit \/ w \in 1..(toQuit - 1))
        BY <3>1 DEF Workers
      <3> QED BY <1>4, <3>2, <3>3
    <2>2. CASE toQuit = PoolSize
      BY <1>1, <1>2, <2>1, <2>2 DEF CloseSound, Running, Workers
    <2>3. CASE toQuit # PoolSize
      <3>1. pool' = "closing" /\ toQuit' # 0 /\ toQuit' - 1 = toQuit
        BY <1>1, <1>2, <2>3, WorkerNumbers
      <3> QED BY <1>1, <2>1, <3>1 DEF CloseSound, Running
    <2> QED BY <2>2, <2>3
  <1>9. FreshSound' BY <1>1 DEF FreshSound
  <1>10. ASSUME NEW w \in Workers PROVE BootSound(w)'
    BY <1>1, <1>2, BootOver DEF CloseSound, Running
  <1>11. ASSUME NEW w \in Workers PROVE ServeSound(w)'
    <2>1. \A c \in Chunks : ~Awaits(c, w) /\ ~Awaits(c, w)'
      BY <1>1 DEF Awaits, Returned
    <2>2. AnyFailed' <=> AnyFailed BY <1>1 DEF AnyFailed
    <2>3. resp'[w] = resp[w] /\ (resp[w] # <<>> => AnyFailed /\ \E st \in Status : resp[w] = <<st>>)
      BY <1>1, <2>1 DEF ServeSound, Running
    <2>4. proc'[w] # "render" BY <1>1, <1>4, <2>1 DEF ServeSound, Running
    <2>5. CASE proc'[w] = "up"
      <3>1. proc[w] = "up" /\ w # toQuit BY <1>4, <2>5
      <3>2. resp[w] = <<>> /\ (stdin[w] = <<>> \/ (stdin[w] = <<QuitCmd>> /\ w <= toQuit))
        BY <1>1, <2>1, <3>1 DEF ServeSound, Running
      <3>3. pool' # "open" BY <1>1, <1>2
      <3>4. stdin'[w] = <<>> \/ (stdin'[w] = <<QuitCmd>> /\ w <= toQuit')
        <4>1. Append(<<>>, QuitCmd) = <<QuitCmd>> BY OneLine, Commands
        <4>2. w = toQuit + 1 => stdin[w] = <<>>
          BY <1>1, <3>2, WorkerNumbers
        <4>3. w <= toQuit \/ (w = toQuit + 1 /\ toQuit # PoolSize) => w <= toQuit'
          BY <1>1, <1>2, WorkerNumbers
        <4>4. w = toQuit + 1 => toQuit # PoolSize
          BY <1>1, RenderPoolAssumption DEF Workers
        <4> QED BY <1>5, <3>2, <4>1, <4>2, <4>3, <4>4
      <3> QED BY <2>1, <2>3, <3>2, <3>3, <3>4, <2>5 DEF ServeSound
    <2>6. CASE proc'[w] # "up" BY <2>1, <2>2, <2>3, <2>4, <2>6 DEF ServeSound
    <2> QED BY <2>5, <2>6
  <1> QED BY <1>6, <1>7, <1>8, <1>9, <1>10, <1>11

\* The context is cancelled.
LEMMA CancelInv ==
    ASSUME PoolInv, Cancel PROVE PoolInv'
  <1> USE DEF PoolInv, Cancel, procVars
  <1>1. TypeOK' BY DEF TypeOK
  <1>2. CheckoutSound' /\ CloseSound' /\ FreshSound'
    BY DEF CheckoutSound, CloseSound, FreshSound
  <1>3. ASSUME NEW w \in Workers PROVE BootSound(w)' BY BootFrame
  <1>4. ASSUME NEW w \in Workers PROVE ServeSound(w)'
    BY ServeFrame DEF Awaits, AnyFailed
  <1> QED BY <1>1, <1>2, <1>3, <1>4

\* What a step of process v leaves alone, and what follows from that.
LEMMA ProcFrame ==
    ASSUME PoolInv, NEW v \in Workers, ProcStep(v)
    PROVE  /\ UNCHANGED <<goVars>> /\ CheckoutSound' /\ CloseSound'
           /\ \A w \in Workers : w # v => BootSound(w)'
           /\ \A w \in Workers : w # v =>
                 proc'[w] = proc[w] /\ stdin'[w] = stdin[w] /\ resp'[w] = resp[w]
           /\ AnyFailed' <=> AnyFailed
           /\ \A w \in Workers, c \in Chunks : Awaits(c, w)' <=> Awaits(c, w)
  <1> USE DEF PoolInv
  <1>1. UNCHANGED goVars
    BY DEF ProcStep, RefuseLicense, ReadLoad, ReadRender, FinishRender, ReadQuit, ProcDies
  <1>2. \A w \in Workers : w # v =>
           proc'[w] = proc[w] /\ stdin'[w] = stdin[w] /\ resp'[w] = resp[w]
    BY DEF ProcStep, RefuseLicense, ReadLoad, ReadRender, FinishRender, ReadQuit, ProcDies, TypeOK
  <1>3. CheckoutSound' BY <1>1 DEF CheckoutSound, goVars
  <1>4. proc[v] \notin {"none", "dead"}
    BY DEF ProcStep, RefuseLicense, ReadLoad, ReadRender, FinishRender, ReadQuit, ProcDies, Live
  <1>5. pool # "failed" /\ pool # "closed" /\ (pool = "closing" => v \notin 1..(toQuit - 1))
    BY <1>4 DEF CloseSound
  <1>6. CloseSound'
    <2>1. UNCHANGED <<pool, load, pc, toQuit>> BY <1>1 DEF goVars
    <2>2. pool = "closing" => \A w \in 1..(toQuit - 1) : w \in Workers /\ w # v
      BY <1>5, RenderPoolAssumption DEF TypeOK, Workers
    <2>3. pool = "closing" => toQuit # 0 /\ \A w \in 1..(toQuit - 1) : proc'[w] = "dead"
      BY <1>2, <2>2 DEF CloseSound
    <2> QED BY <1>5, <2>1, <2>3 DEF CloseSound
  <1>7. ASSUME NEW w \in Workers, w # v PROVE BootSound(w)'
    BY <1>1, <1>2, <1>7, BootFrame DEF goVars
  <1>8. /\ AnyFailed' <=> AnyFailed
        /\ \A w \in Workers, c \in Chunks : Awaits(c, w)' <=> Awaits(c, w)
    BY <1>1 DEF AnyFailed, Awaits, goVars
  <1> QED BY <1>1, <1>2, <1>3, <1>6, <1>7, <1>8

\* A step of process v that renders nothing: load, licence, quit and death.
LEMMA BootStepInv ==
    ASSUME PoolInv, NEW v \in Workers,
           RefuseLicense(v) \/ ReadLoad(v) \/ ReadQuit(v) \/ ProcDies(v)
    PROVE  PoolInv'
  <1> USE DEF PoolInv
  <1>1. UNCHANGED work BY DEF RefuseLicense, ReadLoad, ReadQuit, ProcDies
  <1>2. ProcStep(v) BY DEF ProcStep
  <1>3. FreshSound' BY <1>1, <1>2, ProcFrame DEF FreshSound, goVars
  <1>4. ASSUME NEW w \in Workers, w # v PROVE ServeSound(w)'
    BY <1>1, <1>2, <1>4, ProcFrame, ServeFrame DEF goVars
  <1>5. CASE RefuseLicense(v)
    <2>1. resp' = [resp EXCEPT ![v] = <<"error">>]
      <3>1. Append(<<>>, "error") = <<"error">> BY OneLine
      <3> QED BY <1>5, <3>1 DEF RefuseLicense
    <2>2. TypeOK' BY <1>1, <1>5, <2>1, OneLine DEF RefuseLicense, TypeOK, ProcState, Status, goVars
    <2>3. pool = "loading" BY <1>5 DEF RefuseLicense, CloseSound, TypeOK, Running
    <2>4. BootSound(v)'
      <3>1. resp'[v] = <<"error">> /\ proc'[v] = "exiting" /\ stdin'[v] = stdin[v] /\ load'[v] = load[v]
        BY <1>5, <2>1 DEF RefuseLicense, TypeOK, goVars
      <3>2. pool' = "loading" BY <1>5, <2>3 DEF RefuseLicense, goVars
      <3>3. load[v] \in {"send", "await"} /\ resp[v] = <<>> BY <1>5 DEF RefuseLicense
      <3>4. \A st \in Status : <<st>> # <<>> BY OneLine
      <3> QED BY <3>1, <3>2, <3>3, <3>4 DEF BootSound
    <2>5. ServeSound(v)' BY <1>5, <2>3 DEF RefuseLicense, ServeSound, goVars, Running
    <2> QED BY <1>2, <1>3, <1>4, <2>2, <2>4, <2>5, ProcFrame
  <1>6. CASE ReadLoad(v)
    <2>1. /\ pool = "loading" /\ load[v] = "await"
          /\ stdin[v] = <<LoadCmd>> /\ resp[v] = <<>>
      BY <1>6, LoadRead DEF ReadLoad
    <2>2. PICK st \in Status :
             /\ resp' = [resp EXCEPT ![v] = Append(@, st)]
             /\ proc' = [proc EXCEPT ![v] = IF st = "oom" THEN "exiting" ELSE "up"]
      BY <1>6 DEF ReadLoad
    <2>3. resp' = [resp EXCEPT ![v] = <<st>>] /\ stdin' = [stdin EXCEPT ![v] = <<>>]
      <3>1. Append(<<>>, st) = <<st>> /\ Tail(<<LoadCmd>>) = <<>> BY OneLine, Commands
      <3> QED BY <1>6, <2>1, <2>2, <3>1 DEF ReadLoad
    <2>4. TypeOK'
      <3>1. resp' \in [Workers -> Seq(Status)] /\ stdin' \in [Workers -> Seq(Command)]
        BY <2>3, OneLine DEF TypeOK
      <3>2. proc' \in [Workers -> ProcState] BY <2>2 DEF TypeOK, ProcState
      <3> QED BY <1>1, <1>6, <3>1, <3>2 DEF ReadLoad, TypeOK, goVars
    <2>5. BootSound(v)'
      <3>1. resp'[v] = <<st>> /\ stdin'[v] = <<>> /\ proc'[v] # "render" /\ load'[v] = "await"
        BY <1>6, <2>1, <2>2, <2>3 DEF ReadLoad, TypeOK, goVars
      <3> QED BY <3>1 DEF BootSound
    <2>6. ServeSound(v)' BY <1>6, <2>1 DEF ReadLoad, ServeSound, goVars, Running
    <2> QED BY <1>2, <1>3, <1>4, <2>4, <2>5, <2>6, ProcFrame
  <1>7. CASE ReadQuit(v) \/ ProcDies(v)
    <2>1. proc' = [proc EXCEPT ![v] = "dead"] /\ UNCHANGED <<goVars, stdin, resp, work>>
      BY <1>7 DEF ReadQuit, ProcDies
    <2>2. TypeOK' BY <2>1 DEF TypeOK, ProcState, goVars
    <2>3. BootSound(v)'
      <3>1. load[v] # "spawn"
        BY <1>7 DEF ReadQuit, ProcDies, Live, BootSound
      <3> QED BY <2>1, <3>1 DEF BootSound, TypeOK, goVars
    <2>4. ServeSound(v)'
      <3>1. proc'[v] = "dead" /\ resp'[v] = resp[v] /\ pool' = pool
        BY <2>1 DEF TypeOK, goVars
      <3> QED BY <1>2, <2>1, <3>1, ProcFrame DEF ServeSound
    <2> QED BY <1>2, <1>3, <1>4, <2>2, <2>3, <2>4, ProcFrame
  <1> QED BY <1>5, <1>6, <1>7

\* A step of process v that takes the render of the call b from one state to the
\* next: only b awaits v, and b's work alone changes.
LEMMA RenderStepInv ==
    ASSUME PoolInv, NEW v \in Workers, ReadRender(v) \/ FinishRender(v)
    PROVE  PoolInv'
  <1> USE DEF PoolInv
  <1>1. PICK b \in Chunks :
           /\ Awaits(b, v) /\ stdin[v] = <<RenderCmd(b)>> /\ resp[v] = <<>> /\ pool \in Running
           /\ work[b] \in {"none", "rendering"}
    BY CommandRead, CommandRendered DEF ReadRender, FinishRender
  <1>2. ProcStep(v) BY DEF ProcStep
  <1>3. Head(stdin[v]).who = {b} /\ Tail(stdin[v]) = <<>> BY <1>1, OneLine, Commands
  <1>4. \A c \in Chunks : c # b => work'[c] = work[c]
    BY <1>3 DEF ReadRender, FinishRender
  <1>5. \A w \in Workers : Awaits(b, w) => w = v BY <1>1 DEF Awaits
  <1>6. \A c \in Chunks : Awaits(c, v) => c = b
    BY <1>1, WorkerNumbers DEF Awaits, CheckoutSound
  <1>7. FreshSound'
    <2>1. pc[b] = "await" BY <1>1 DEF Awaits
    <2> QED BY <1>2, <1>4, <2>1, ProcFrame DEF FreshSound, goVars
  <1>8. ASSUME NEW w \in Workers PROVE BootSound(w)'
    BY <1>1, <1>2, ProcFrame, BootOver DEF CloseSound, goVars, Running
  <1>9. ASSUME NEW w \in Workers, w # v PROVE ServeSound(w)'
    BY <1>2, <1>4, <1>5, <1>9, ProcFrame, ServeFrame DEF goVars
  <1>10. TypeOK' /\ ServeSound(v)'
    <2>1. CASE ReadRender(v)
      <3>1. /\ proc' = [proc EXCEPT ![v] = "render"] /\ UNCHANGED <<goVars, stdin, resp>>
            /\ work' = [c \in Chunks |-> IF c \in {b} THEN "rendering" ELSE work[c]]
        BY <1>3, <2>1 DEF ReadRender
      <3>2. TypeOK' BY <3>1 DEF TypeOK, ProcState, goVars
      <3>3. /\ proc'[v] = "render" /\ work'[b] = "rendering" /\ Awaits(b, v)'
            /\ stdin'[v] = <<RenderCmd(b)>> /\ resp'[v] = <<>>
        BY <1>1, <1>2, <3>1, ProcFrame DEF TypeOK
      <3> QED BY <3>2, <3>3 DEF ServeSound
    <2>2. CASE FinishRender(v)
      <3>1. PICK st \in Status :
               /\ work' = [c \in Chunks |-> IF c \in {b} THEN st ELSE work[c]]
               /\ resp' = [resp EXCEPT ![v] = Append(@, st)]
               /\ proc' = [proc EXCEPT ![v] = IF st = "oom" THEN "exiting" ELSE "up"]
               /\ stdin' = [stdin EXCEPT ![v] = <<>>] /\ UNCHANGED goVars
        <4>1. PICK st \in Status :
                 /\ work' = [c \in Chunks |-> IF c \in Head(stdin[v]).who THEN st ELSE work[c]]
                 /\ resp' = [resp EXCEPT ![v] = Append(@, st)]
                 /\ proc' = [proc EXCEPT ![v] = IF st = "oom" THEN "exiting" ELSE "up"]
          BY <2>2 DEF FinishRender
        <4>2. stdin' = [stdin EXCEPT ![v] = <<>>] /\ UNCHANGED goVars
          BY <1>3, <2>2 DEF FinishRender
        <4>3. work' = [c \in Chunks |-> IF c \in {b} THEN st ELSE work[c]] BY <1>3, <4>1
        <4> QED BY <4>1, <4>2, <4>3
      <3>2. resp' = [resp EXCEPT ![v] = <<st>>]
        <4>1. Append(<<>>, st) = <<st>> BY OneLine
        <4> QED BY <1>1, <3>1, <4>1
      <3>3. TypeOK'
        <4>1. work' \in [Chunks -> {"none", "rendering"} \cup Status] BY <3>1 DEF TypeOK
        <4>2. resp' \in [Workers -> Seq(Status)] /\ stdin' \in [Workers -> Seq(Command)]
          BY <3>1, <3>2, OneLine DEF TypeOK
        <4>3. proc' \in [Workers -> ProcState] BY <3>1 DEF TypeOK, ProcState
        <4> QED BY <3>1, <4>1, <4>2, <4>3 DEF TypeOK, goVars
      <3>4. /\ proc'[v] \in {"exiting", "up"} /\ work'[b] = st /\ Awaits(b, v)'
            /\ stdin'[v] = <<>> /\ resp'[v] = <<st>>
            /\ \A c \in Chunks : Awaits(c, v)' => c = b
        BY <1>1, <1>2, <1>6, <3>1, <3>2, ProcFrame DEF TypeOK
      <3> QED BY <3>3, <3>4 DEF ServeSound
    <2> QED BY <2>1, <2>2
  <1> QED BY <1>2, <1>7, <1>8, <1>9, <1>10, ProcFrame

\* Every step keeps the inductive invariant.
LEMMA PoolInvStep == PoolInv /\ [Next]_vars => PoolInv'
  <1> SUFFICES ASSUME PoolInv, [Next]_vars PROVE PoolInv' OBVIOUS
  <1>1. ASSUME NEW w \in Workers, LoadStep(w) PROVE PoolInv' BY <1>1, LoadStepInv
  <1>2. ASSUME NEW w \in Workers, ProcStep(w) PROVE PoolInv'
    BY <1>2, BootStepInv, RenderStepInv DEF ProcStep
  <1>3. ASSUME NEW c \in Chunks, CallerStep(c) PROVE PoolInv'
    BY <1>3, SelectStepInv, SendInv, ReturnInv DEF CallerStep
  <1>4. CASE PoolStep BY <1>4, StartInv, BeginCloseInv, QuitNextInv DEF PoolStep
  <1>5. CASE Cancel BY <1>5, CancelInv
  <1>6. CASE UNCHANGED vars
    <2> USE DEF vars, goVars, procVars
    <2>1. TypeOK' BY <1>6 DEF PoolInv, TypeOK
    <2>2. CheckoutSound' /\ CloseSound' /\ FreshSound'
      BY <1>6 DEF PoolInv, CheckoutSound, CloseSound, FreshSound
    <2>3. ASSUME NEW w \in Workers PROVE BootSound(w)' BY <1>6, BootFrame DEF PoolInv
    <2>4. ASSUME NEW w \in Workers PROVE ServeSound(w)'
      BY <1>6, ServeFrame DEF PoolInv, Awaits, AnyFailed
    <2> QED BY <2>1, <2>2, <2>3, <2>4 DEF PoolInv
  <1> QED BY <1>1, <1>2, <1>3, <1>4, <1>5, <1>6 DEF Next, Terminated

\* The inductive invariant always holds.
LEMMA PoolInvAlways == Spec => []PoolInv
  BY PoolInvInit, PoolInvStep, PTL DEF Spec

-----------------------------------------------------------------------------
(* What the pool promises.                                                 *)

\* Whatever times out, is killed or fails, no worker of the legacy pool is lost or
\* driven by two calls, and a failed start, or Close, leaves no process.
THEOREM WorkersAlwaysAccounted == Spec => []WorkersAccounted
  <1>1. PoolInv => WorkersAccounted
    <2> SUFFICES ASSUME PoolInv, NEW w \in Workers
                 PROVE  /\ pool \in Running =>
                              Cardinality(Holding(w)) + Cardinality(Queued(w)) = 1
                        /\ pool \in {"failed", "closed"} => ~Live(w)
      BY DEF WorkersAccounted, Running
    <2> USE DEF PoolInv
    <2>1. pool \in {"failed", "closed"} => ~Live(w) BY DEF CloseSound, Live
    <2>2. DOMAIN available = 1..Len(available) BY DEF TypeOK
    <2>3. ASSUME pool \in Running
          PROVE  Cardinality(Holding(w)) + Cardinality(Queued(w)) = 1
      <3>1. CASE \E c \in Chunks : held[c] = w
        <4>1. PICK b \in Chunks : held[b] = w BY <3>1
        <4>2. Holding(w) = {b} BY <4>1, WorkerNumbers DEF Holding, CheckoutSound
        <4>3. Queued(w) = {} BY <2>2, <4>1 DEF Queued, CheckoutSound
        <4>4. Cardinality({b}) = 1 /\ Cardinality({}) = 0
          BY FS_Singleton, FS_EmptySet, Zenon
        <4> QED BY <4>2, <4>3, <4>4
      <3>2. CASE \E i \in 1..Len(available) : available[i] = w
        <4>1. PICK i \in 1..Len(available) : available[i] = w BY <3>2
        <4>2. Holding(w) = {} BY <4>1 DEF Holding, CheckoutSound
        <4>3. Queued(w) = {i} BY <2>2, <4>1 DEF Queued, CheckoutSound
        <4>4. Cardinality({i}) = 1 /\ Cardinality({}) = 0
          BY FS_Singleton, FS_EmptySet, Zenon
        <4> QED BY <4>2, <4>3, <4>4
      <3> QED BY <2>3, <3>1, <3>2 DEF CheckoutSound
    <2> QED BY <2>1, <2>3
  <1> QED BY <1>1, PoolInvAlways, PTL

\* What a caller of RenderChunk sees of a step.
LEMMA ViewValue ==
    ASSUME NEW c \in Chunks
    PROVE  /\ callView[c] = IF pc[c] \in {"select", "send", "await"} THEN "running" ELSE pc[c]
           /\ callView'[c] = IF pc'[c] \in {"select", "send", "await"} THEN "running" ELSE pc'[c]
  BY DEF callView

\* A caller sees no change when every call stays in the state it shows.
LEMMA ViewSame ==
    ASSUME \A c \in Chunks :
              pc'[c] = pc[c] \/ {pc[c], pc'[c]} \subseteq {"select", "send", "await"}
    PROVE  callView' = callView
  BY DEF callView

\* One call moves from one state it shows to another.
LEMMA ViewMoves ==
    ASSUME TypeOK, NEW b \in Chunks, NEW x, pc' = [pc EXCEPT ![b] = x]
    PROVE  callView' = [callView EXCEPT
              ![b] = IF x \in {"select", "send", "await"} THEN "running" ELSE x]
  <1>1. pc' \in [Chunks -> {"idle", "select", "send", "await", x} \cup Returned]
    BY DEF TypeOK
  <1> QED BY <1>1 DEF callView, TypeOK

\* A call that returns its own result, or a failure, returns as the abstract one.
LEMMA ReturnsAsCalled ==
    ASSUME TypeOK, NEW b \in Chunks, pc[b] \in {"select", "send", "await"},
           NEW r \in Returned, pc' = [pc EXCEPT ![b] = r], work' = work,
           r # "error" => work[b] = r
    PROVE  Renderer!Return(b)
  <1>1. callView[b] = "running" BY ViewValue
  <1>2. callView' = [callView EXCEPT ![b] = r]
    BY ViewMoves DEF Returned
  <1> QED BY <1>1, <1>2 DEF Renderer!Return, Returned

WeakStep == Renderer!Next \/ \E c \in Chunks : Renderer!Misreport(c)
renderVars == <<callView, work>>

\* A step of the call b.
LEMMA CallerRefines ==
    ASSUME PoolInv, NEW b \in Chunks, CallerStep(b)
    PROVE  [WeakStep]_renderVars
  <1> USE DEF PoolInv
  <1>1. work' = work
    BY DEF CallerStep, Begin, Checkout, CtxDone, Send, Receive, ReceiveEof, Timeout, procVars
  <1>2. CASE Begin(b)
    <2>1. callView[b] = "idle" BY <1>2, ViewValue DEF Begin
    <2>2. callView' = [callView EXCEPT ![b] = "running"] BY <1>2, ViewMoves DEF Begin
    <2>3. Renderer!Call(b) BY <1>1, <2>1, <2>2 DEF Renderer!Call
    <2> QED BY <2>3 DEF WeakStep, Renderer!Next
  <1>3. CASE Checkout(b) \/ (Send(b) /\ pc'[b] = "await")
    <2>1. /\ pc[b] \in {"select", "send"} /\ pc'[b] \in {"send", "await"}
          /\ \A c \in Chunks : c # b => pc'[c] = pc[c]
      BY <1>3 DEF Checkout, Send, ReturnAs, TypeOK
    <2>2. callView' = callView BY <2>1, ViewSame
    <2> QED BY <1>1, <2>2 DEF renderVars
  <1>4. CASE CtxDone(b) \/ (Send(b) /\ pc'[b] # "await") \/ ReceiveEof(b) \/ Timeout(b)
    <2>1. pc[b] \in {"select", "send", "await"} /\ pc' = [pc EXCEPT ![b] = "error"]
      BY <1>4 DEF CtxDone, Send, ReceiveEof, Timeout, ReturnAs, TypeOK
    <2>2. Renderer!Return(b) BY <1>1, <2>1, ReturnsAsCalled DEF Returned
    <2> QED BY <2>2 DEF WeakStep, Renderer!Next
  <1>5. CASE Receive(b)
    <2> DEFINE v == held[b]
    <2>1. v \in Workers /\ pool = "open" /\ Awaits(b, v)
      BY <1>5, HolderOpen DEF Receive, Awaits
    <2>2. PICK r \in Status : resp[v] = <<r>>
      BY <1>5, <2>1 DEF Receive, ServeSound, Running
    <2>3. Head(resp[v]) = r /\ <<r>> # <<>> BY <2>2, OneLine
    <2>4. pc[b] = "await" /\ pc' = [pc EXCEPT ![b] = r]
      BY <1>5, <2>3 DEF Receive, ReturnAs
    <2>5. resp[v] = <<work[b]>> \/ (work[b] = "none" /\ AnyFailed)
      BY <2>1, <2>2, <2>3 DEF ServeSound, Running
    <2>6. CASE resp[v] = <<work[b]>> \/ r = "error"
      <3>1. r # "error" => work[b] = r BY <2>2, <2>6
      <3>2. Renderer!Return(b)
        BY <1>1, <2>4, <3>1, ReturnsAsCalled DEF Returned, Status
      <3> QED BY <3>2 DEF WeakStep, Renderer!Next
    <2>7. CASE work[b] = "none" /\ AnyFailed /\ r # "error"
      <3>1. callView[b] = "running" BY <2>4, ViewValue
      <3>2. \E d \in Chunks : callView[d] \in {"oom", "error"}
        BY <2>7, ViewValue DEF AnyFailed
      <3>3. callView' = [callView EXCEPT ![b] = r] /\ r \in {"ok", "oom"}
        BY <2>4, <2>7, ViewMoves DEF Status
      <3>4. Renderer!Misreport(b)
        BY <1>1, <2>7, <3>1, <3>2, <3>3 DEF Renderer!Misreport
      <3> QED BY <3>4 DEF WeakStep
    <2> QED BY <2>5, <2>6, <2>7
  <1> QED BY <1>2, <1>3, <1>4, <1>5 DEF CallerStep

\* A step of process v.
LEMMA ProcRefines ==
    ASSUME PoolInv, NEW v \in Workers, ProcStep(v)
    PROVE  [WeakStep]_renderVars
  <1> USE DEF PoolInv
  <1>1. UNCHANGED goVars BY ProcFrame
  <1>2. callView' = callView BY <1>1, ViewSame DEF goVars
  <1>3. CASE ReadRender(v)
    <2>1. PICK b \in Chunks : /\ Awaits(b, v) /\ work[b] = "none"
                              /\ stdin[v] = <<RenderCmd(b)>>
      BY <1>3, CommandRead DEF ReadRender
    <2>2. Head(stdin[v]).who = {b} BY <2>1, OneLine, Commands
    <2>3. work' = [work EXCEPT ![b] = "rendering"]
      BY <1>3, <2>2 DEF ReadRender, TypeOK
    <2>4. callView[b] # "idle" BY <2>1, ViewValue DEF Awaits
    <2>5. Renderer!Start(b) BY <1>2, <2>1, <2>3, <2>4 DEF Renderer!Start
    <2> QED BY <2>5 DEF WeakStep, Renderer!Next
  <1>4. CASE FinishRender(v)
    <2>1. PICK b \in Chunks : work[b] = "rendering" /\ stdin[v] = <<RenderCmd(b)>>
      BY <1>4, CommandRendered DEF FinishRender
    <2>2. Head(stdin[v]).who = {b} BY <2>1, OneLine, Commands
    <2>3. PICK st \in Status :
             work' = [c \in Chunks |-> IF c \in Head(stdin[v]).who THEN st ELSE work[c]]
      BY <1>4 DEF FinishRender
    <2>4. work' = [work EXCEPT ![b] = st] BY <2>2, <2>3 DEF TypeOK
    <2>5. Renderer!Finish(b) BY <1>2, <2>1, <2>4 DEF Renderer!Finish, Status
    <2> QED BY <2>5 DEF WeakStep, Renderer!Next
  <1>5. CASE ~ReadRender(v) /\ ~FinishRender(v)
    <2>1. work' = work
      BY <1>5 DEF ProcStep, RefuseLicense, ReadLoad, ReadQuit, ProcDies
    <2> QED BY <1>2, <2>1 DEF renderVars
  <1> QED BY <1>3, <1>4, <1>5

\* The legacy pool keeps the weaker promise of ChunkRenderer, whatever the number
\* of chunks and workers: until a call of the pool has failed, a path is returned
\* only for a chunk its worker has completely rendered.
THEOREM LegacyPoolRefinesRenderer == Spec => ImplementsWeakChunkRenderer
  <1>1. Init => Renderer!Init
    BY DEF Init, Renderer!Init, callView
  <1>2. PoolInv /\ [Next]_vars => [WeakStep]_renderVars
    <2> SUFFICES ASSUME PoolInv, [Next]_vars PROVE [WeakStep]_renderVars OBVIOUS
    <2>1. ASSUME NEW w \in Workers, LoadStep(w) PROVE [WeakStep]_renderVars
      <3>1. UNCHANGED <<pc, work>>
        BY <2>1 DEF LoadStep, Spawn, SendLoad, LoadReplied, LoadGivenUp
      <3> QED BY <3>1 DEF renderVars, callView
    <2>2. ASSUME NEW w \in Workers, ProcStep(w) PROVE [WeakStep]_renderVars
      BY <2>2, ProcRefines
    <2>3. ASSUME NEW c \in Chunks, CallerStep(c) PROVE [WeakStep]_renderVars
      BY <2>3, CallerRefines
    <2>4. CASE PoolStep \/ Cancel \/ UNCHANGED vars
      <3>1. UNCHANGED <<pc, work>>
        BY <2>4 DEF PoolStep, StartPool, BeginClose, QuitNext, Cancel, vars, goVars, procVars
      <3> QED BY <3>1 DEF renderVars, callView
    <2> QED BY <2>1, <2>2, <2>3, <2>4 DEF Next, Terminated
  <1>3. PoolInv /\ [Next]_vars =>
           [Renderer!Next \/ \E c \in Chunks : Renderer!Misreport(c)]_(Renderer!vars)
    BY <1>2 DEF WeakStep, renderVars, Renderer!vars
  <1> QED BY <1>1, <1>3, PoolInvAlways, PTL
          DEF Spec, ImplementsWeakChunkRenderer, Renderer!WeakSpec
=============================================================================
