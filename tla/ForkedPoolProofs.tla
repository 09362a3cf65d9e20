-------------------------- MODULE ForkedPoolProofs --------------------------
(***************************************************************************)
(* The fork-after-load pool, for any number of chunks and children and     *)
(* under every fault: the reader goroutine never blocks on a reply         *)
(* channel, end-of-file on the leader's stdout wakes every caller, a child *)
(* is given one render at a time, and the pool implements ChunkRenderer.   *)
(* At the end, what WorkerPoolProofs shows of the legacy pool is carried   *)
(* over to a conversion that opens it (Pools).                             *)
(***************************************************************************)
EXTENDS Pools, TLAPS

InHand(c) == reader = "deliver" /\ hand.to = c

\* A registered channel belongs to a call that is under way, under that call's own
\* number; nothing has been sent to it and nothing is about to be.
PendingOwned ==
    \A s \in DOMAIN pending :
        /\ seqOf[pending[s]] = s
        /\ pc[pending[s]] \in {"registered", "await"}
        /\ chan[pending[s]] = <<>>
        /\ ~InHand(pending[s])

\* The reply in the reader's hand goes to an empty channel.
HandFits == reader = "deliver" => chan[hand.to] = <<>>

\* A call that has not registered has received nothing.
NothingEarly ==
    \A c \in Callers : pc[c] \in {"idle", "numbered"} => chan[c] = <<>> /\ ~InHand(c)

\* Sequence numbers are never shared: 0 is the loader's, every other call has one
\* of its own, not above the counter.
SeqsDistinct ==
    /\ seqOf[Loader] = 0 /\ pc[Loader] # "idle"
    /\ \A c \in Chunks : pc[c] # "idle" => seqOf[c] \in 1..seq
    /\ \A c, d \in Chunks : pc[c] # "idle" /\ pc[d] # "idle" /\ seqOf[c] = seqOf[d] => c = d

\* A call that waits can still be reached: it is registered, or its reply is in
\* the reader's hand or already in its channel.
WaiterReachable ==
    \A c \in Callers : pc[c] \in {"registered", "await"} =>
        \/ seqOf[c] \in DOMAIN pending /\ pending[seqOf[c]] = c
        \/ InHand(c)
        \/ chan[c] # <<>>

\* After EOF the leader is gone for good, and who registers now has yet to write.
EofFinal ==
    reader = "eof" => /\ ~LeaderLive
                      /\ \A s \in DOMAIN pending : pc[pending[s]] = "registered"

Demux == /\ PendingOwned /\ HandFits /\ NothingEarly
         /\ SeqsDistinct /\ WaiterReachable /\ EofFinal

DemuxInv == TypeOK /\ Demux

\* The loader is not a chunk, and there may be no children at all.
LEMMA PoolFacts == Loader \notin Chunks /\ IsFiniteSet(Chunks) /\ NumChildren \in Nat
  BY ForkedPoolAssumption, RenderPoolAssumption DEF NumChildren

-----------------------------------------------------------------------------
\* The messages on the pipes, and their fields.
LEMMA MessageTypes ==
    /\ LoadCmd \in Command /\ QuitCmd \in Command
    /\ \A s \in Nat, c \in Callers : [op |-> "render", seq |-> s, who |-> c] \in Command
    /\ \A s \in Nat, st \in Status : [seq |-> s, status |-> st] \in Reply
    /\ \A m \in Command : m.seq \in Nat /\ m.who \in Callers
    /\ \A m \in Reply : m.seq \in Nat /\ m.status \in Status
  BY DEF LoadCmd, QuitCmd, Command, Reply, Callers

\* What the queues between the processes hand over.
LEMMA QueueTypes ==
    ASSUME NEW S
    PROVE  /\ <<>> \in Seq(S)
           /\ \A q \in Seq(S), x \in S : Append(q, x) \in Seq(S)
           /\ \A q \in Seq(S) : q # <<>> => Head(q) \in S /\ Tail(q) \in Seq(S)
  OBVIOUS

\* The same, for the two kinds of message.
LEMMA PipeTypes ==
    /\ <<>> \in Seq(Command) /\ <<>> \in Seq(Reply)
    /\ \A q \in Seq(Command), x \in Command : Append(q, x) \in Seq(Command)
    /\ \A q \in Seq(Reply), x \in Reply : Append(q, x) \in Seq(Reply)
    /\ \A q \in Seq(Command) : q # <<>> => Head(q) \in Command /\ Tail(q) \in Seq(Command)
    /\ \A q \in Seq(Reply) : q # <<>> => Head(q) \in Reply /\ Tail(q) \in Seq(Reply)
  BY QueueTypes

\* The initial state is well-typed and satisfies the demultiplexer's invariant.
LEMMA DemuxInvInit == Init => DemuxInv
  <1> SUFFICES ASSUME Init PROVE DemuxInv OBVIOUS
  <1>1. TypeOK
    <2>1. GoTypeOK
      <3>1. pending \in [DOMAIN pending -> Callers] /\ DOMAIN pending \subseteq Nat
        BY DEF Init
      <3>2. Loader \in Callers /\ [seq |-> 0, status |-> "ok"] \in Reply
        BY MessageTypes DEF Callers, Status
      <3>3. hand \in [to : Callers, reply : Reply]
        BY <3>2 DEF Init
      <3>4. chan \in [Callers -> Seq(Reply)] BY PipeTypes DEF Init
      <3>5. pc \in [Callers -> CallerState] BY DEF Init, CallerState
      <3>6. seqOf \in [Callers -> Nat] BY DEF Init
      <3> QED BY <3>1, <3>3, <3>4, <3>5, <3>6 DEF Init, GoTypeOK
    <2>2. LeaderTypeOK
      <3>1. busy \in [Children -> BOOLEAN] BY DEF Init
      <3> QED BY <3>1, PipeTypes DEF Init, LeaderTypeOK
    <2>3. ChildTypeOK BY MessageTypes DEF Init, ChildTypeOK
    <2> QED BY <2>1, <2>2, <2>3 DEF TypeOK
  <1>2. DOMAIN pending = {} BY DEF Init
  <1>3. PendingOwned /\ HandFits /\ NothingEarly
    BY <1>2 DEF Init, PendingOwned, HandFits, NothingEarly, InHand
  <1>4. SeqsDistinct
    BY PoolFacts DEF Init, SeqsDistinct, Callers
  <1>5. WaiterReachable BY DEF Init, WaiterReachable, Callers
  <1>6. EofFinal BY DEF Init, EofFinal
  <1> QED BY <1>1, <1>3, <1>4, <1>5, <1>6 DEF DemuxInv, Demux

-----------------------------------------------------------------------------
\* Two calls that are both under way have different numbers.
LEMMA DifferentSeqs ==
    ASSUME SeqsDistinct, NEW c \in Callers, NEW d \in Callers, c # d,
           pc[c] # "idle", pc[d] # "idle"
    PROVE  seqOf[c] # seqOf[d]
  BY PoolFacts DEF SeqsDistinct, Callers

\* Every step keeps the state well-typed.
LEMMA TypeOKStep == TypeOK /\ [Next]_vars => TypeOK'
  <1> SUFFICES ASSUME TypeOK, [Next]_vars PROVE TypeOK'
    OBVIOUS
  <1> USE DEF TypeOK, goVars, leaderVars, childVars
  <1>1. ASSUME NEW c \in Chunks, TakeSeq(c) PROVE TypeOK'
    <2>1. GoTypeOK' BY <1>1, MessageTypes DEF TakeSeq, GoTypeOK, Callers, CallerState
    <2>2. LeaderTypeOK' /\ ChildTypeOK'
      BY <1>1 DEF TakeSeq, LeaderTypeOK, ChildTypeOK
    <2> QED BY <2>1, <2>2
  <1>2. ASSUME NEW c \in Callers, Register(c) PROVE TypeOK'
    <2>1. GoTypeOK' BY <1>2 DEF Register, PendingWith, GoTypeOK, CallerState
    <2>2. LeaderTypeOK' /\ ChildTypeOK'
      BY <1>2 DEF Register, LeaderTypeOK, ChildTypeOK
    <2> QED BY <2>1, <2>2
  <1>3. ASSUME NEW c \in Callers, Write(c) PROVE TypeOK'
    <2>1. GoTypeOK'
      <3>1. pc' \in [Callers -> CallerState]
        <4>1. PICK r \in CallerState : pc' = [pc EXCEPT ![c] = r]
          BY <1>3 DEF Write, ReturnAs, CallerState
        <4> QED BY <4>1 DEF GoTypeOK
      <3>2. (DOMAIN pending \subseteq Nat /\ pending \in [DOMAIN pending -> Callers])'
        <4>1. CASE LeaderLive
          <5>1. pending' = pending BY <1>3, <4>1, Zenon DEF Write
          <5> QED BY <5>1 DEF GoTypeOK
        <4>2. CASE ~LeaderLive
          <5>1. pending' = PendingWithout({seqOf[c]})
            BY <1>3, <4>2, Zenon DEF Write, ReturnAs
          <5> QED BY <5>1 DEF PendingWithout, GoTypeOK
        <4> QED BY <4>1, <4>2
      <3> QED BY <1>3, <3>1, <3>2 DEF Write, GoTypeOK
    <2>2. LeaderTypeOK'
      <3>1. (IF c = Loader THEN LoadCmd ELSE [op |-> "render", seq |-> seqOf[c], who |-> c])
              \in Command
        BY MessageTypes DEF GoTypeOK
      <3>2. stdin' \in Seq(Command) BY <1>3, <3>1, PipeTypes DEF Write, LeaderTypeOK
      <3> QED BY <1>3, <3>2 DEF Write, LeaderTypeOK
    <2>3. ChildTypeOK'
      BY <1>3 DEF Write, ChildTypeOK
    <2> QED BY <2>1, <2>2, <2>3
  <1>4. ASSUME NEW c \in Callers, Receive(c) PROVE TypeOK'
    <2>1. GoTypeOK'
      BY <1>4, MessageTypes DEF Receive, ReturnAs, PendingWithout, Status, GoTypeOK, Callers, CallerState
    <2>2. LeaderTypeOK' /\ ChildTypeOK'
      BY <1>4 DEF Receive, LeaderTypeOK, ChildTypeOK
    <2> QED BY <2>1, <2>2
  <1>5. ASSUME NEW c \in Callers, Timeout(c) PROVE TypeOK'
    <2>1. GoTypeOK' BY <1>5 DEF Timeout, ReturnAs, PendingWithout, GoTypeOK, CallerState
    <2>2. LeaderTypeOK' /\ ChildTypeOK'
      BY <1>5 DEF Timeout, LeaderTypeOK, ChildTypeOK
    <2> QED BY <2>1, <2>2
  <1>6. ASSUME ReadLine PROVE TypeOK'
    <2>0. Head(stdout) \in Reply /\ Tail(stdout) \in Seq(Reply)
      BY <1>6, PipeTypes DEF ReadLine, LeaderTypeOK
    <2>1. GoTypeOK'
      <3>1. (DOMAIN pending \subseteq Nat /\ pending \in [DOMAIN pending -> Callers])'
        BY <1>6 DEF ReadLine, PendingWithout, GoTypeOK
      <3>2. hand' \in [to : Callers, reply : Reply] /\ reader' \in {"read", "deliver", "eof"}
        <4>1. CASE Head(stdout).seq \in DOMAIN pending
          BY <1>6, <2>0, <4>1 DEF ReadLine, GoTypeOK
        <4>2. CASE Head(stdout).seq \notin DOMAIN pending
          BY <1>6, <4>2 DEF ReadLine, GoTypeOK
        <4> QED BY <4>1, <4>2
      <3> QED BY <1>6, <3>1, <3>2 DEF ReadLine, GoTypeOK
    <2>2. LeaderTypeOK' BY <1>6, <2>0 DEF ReadLine, LeaderTypeOK
    <2>3. ChildTypeOK'
      BY <1>6 DEF ReadLine, ChildTypeOK
    <2> QED BY <2>1, <2>2, <2>3
  <1>7. ASSUME Deliver PROVE TypeOK'
    <2>1. GoTypeOK' BY <1>7 DEF Deliver, GoTypeOK, CallerState
    <2>2. LeaderTypeOK' /\ ChildTypeOK'
      BY <1>7 DEF Deliver, LeaderTypeOK, ChildTypeOK
    <2> QED BY <2>1, <2>2
  <1>8. ASSUME ReadEof PROVE TypeOK'
    <2>1. GoTypeOK'
      <3>1. (DOMAIN pending \subseteq Nat /\ pending \in [DOMAIN pending -> Callers])'
        BY <1>8 DEF ReadEof, PendingWithout, GoTypeOK
      <3>2. \A c \in Callers : <<[seq |-> seqOf[c], status |-> "error"]>> \in Seq(Reply)
        <4> TAKE c \in Callers
        <4>1. [seq |-> seqOf[c], status |-> "error"] \in Reply
          BY MessageTypes DEF GoTypeOK, Status
        <4> QED BY <4>1
      <3>3. chan' \in [Callers -> Seq(Reply)] BY <1>8, <3>2 DEF ReadEof, GoTypeOK
      <3> QED BY <1>8, <3>1, <3>3 DEF ReadEof, GoTypeOK
    <2>2. LeaderTypeOK' /\ ChildTypeOK'
      BY <1>8 DEF ReadEof, LeaderTypeOK, ChildTypeOK
    <2> QED BY <2>1, <2>2
  <1>9. ASSUME OpenFails PROVE TypeOK'
    <2>1. GoTypeOK' BY <1>9 DEF OpenFails, Kill, GoTypeOK, CallerState
    <2>2. LeaderTypeOK' BY <1>9 DEF OpenFails, Kill, LeaderTypeOK
    <2>3. ChildTypeOK'
      BY <1>9 DEF OpenFails, ChildTypeOK
    <2> QED BY <2>1, <2>2, <2>3
  <1>10. ASSUME OpenSucceeds PROVE TypeOK'
    <2>1. GoTypeOK' BY <1>10 DEF OpenSucceeds, GoTypeOK, CallerState
    <2>2. LeaderTypeOK' /\ ChildTypeOK'
      BY <1>10 DEF OpenSucceeds, LeaderTypeOK, ChildTypeOK
    <2> QED BY <2>1, <2>2
  <1>11. ASSUME BeginClose PROVE TypeOK'
    <2>1. GoTypeOK' BY <1>11 DEF BeginClose, GoTypeOK, CallerState
    <2>2. LeaderTypeOK' BY <1>11, MessageTypes DEF BeginClose, LeaderTypeOK
    <2>3. ChildTypeOK'
      BY <1>11 DEF BeginClose, ChildTypeOK
    <2> QED BY <2>1, <2>2, <2>3
  <1>12. ASSUME CloseWaited PROVE TypeOK'
    <2>1. GoTypeOK' BY <1>12 DEF CloseWaited, GoTypeOK, CallerState
    <2>2. LeaderTypeOK' /\ ChildTypeOK'
      BY <1>12 DEF CloseWaited, LeaderTypeOK, ChildTypeOK
    <2> QED BY <2>1, <2>2
  <1>13. ASSUME CloseKills PROVE TypeOK'
    <2>1. GoTypeOK' BY <1>13 DEF CloseKills, Kill, GoTypeOK, CallerState
    <2>2. LeaderTypeOK' BY <1>13 DEF CloseKills, Kill, LeaderTypeOK
    <2>3. ChildTypeOK'
      BY <1>13 DEF CloseKills, ChildTypeOK
    <2> QED BY <2>1, <2>2, <2>3
  <1>14. ASSUME LeaderBootFails PROVE TypeOK'
    <2>1. LeaderTypeOK'
      <3>1. \A st \in Status : [seq |-> 0, status |-> st] \in Reply BY MessageTypes
      <3>2. stdout' \in Seq(Reply)
        <4>1. PICK st \in Status : stdout' = Append(stdout, [seq |-> 0, status |-> st])
          BY <1>14 DEF LeaderBootFails, Emit, Status
        <4> QED BY <3>1, <4>1, PipeTypes DEF LeaderTypeOK
      <3>3. stdin' \in Seq(Command) BY <1>14, PipeTypes DEF LeaderBootFails, LeaderTypeOK
      <3> QED BY <1>14, <3>2, <3>3 DEF LeaderBootFails, LeaderTypeOK
    <2>2. ChildTypeOK' BY <1>14 DEF LeaderBootFails, Emit, ChildTypeOK
    <2>3. GoTypeOK'
      BY <1>14 DEF LeaderBootFails, GoTypeOK
    <2> QED BY <2>1, <2>2, <2>3
  <1>15. ASSUME LeaderExits PROVE TypeOK'
    <2>1. LeaderTypeOK' BY <1>15 DEF LeaderExits, LeaderTypeOK
    <2>2. GoTypeOK' /\ ChildTypeOK'
      BY <1>15 DEF LeaderExits, GoTypeOK, ChildTypeOK
    <2> QED BY <2>1, <2>2
  <1>16. ASSUME LeaderLoads PROVE TypeOK'
    <2>1. LeaderTypeOK'
      <3>1. [seq |-> 0, status |-> "ok"] \in Reply BY MessageTypes DEF Status
      <3>2. stdout' \in Seq(Reply)
        BY <1>16, <3>1, PipeTypes DEF LeaderLoads, Emit, LeaderTypeOK
      <3>3. stdin' \in Seq(Command) BY <1>16, PipeTypes DEF LeaderLoads, LeaderTypeOK
      <3> QED BY <1>16, <3>2, <3>3 DEF LeaderLoads, LeaderTypeOK
    <2>2. ChildTypeOK' BY <1>16 DEF LeaderLoads, Emit, ChildTypeOK
    <2>3. GoTypeOK'
      BY <1>16 DEF LeaderLoads, GoTypeOK
    <2> QED BY <2>1, <2>2, <2>3
  <1>17. ASSUME LeaderDrainsStdin PROVE TypeOK'
    <2>1. LeaderTypeOK' BY <1>17 DEF LeaderDrainsStdin, LeaderTypeOK
    <2>2. GoTypeOK' /\ ChildTypeOK'
      BY <1>17 DEF LeaderDrainsStdin, GoTypeOK, ChildTypeOK
    <2> QED BY <2>1, <2>2
  <1>18. ASSUME LeaderQuits PROVE TypeOK'
    <2>1. LeaderTypeOK' BY <1>18 DEF LeaderQuits, LeaderTypeOK
    <2>2. GoTypeOK' /\ ChildTypeOK'
      BY <1>18 DEF LeaderQuits, GoTypeOK, ChildTypeOK
    <2> QED BY <2>1, <2>2
  <1>19. ASSUME LeaderStartsInline PROVE TypeOK'
    <2>1. LeaderTypeOK' BY <1>19 DEF LeaderStartsInline, LeaderTypeOK
    <2>0. Head(lines) \in Command BY <1>19, PipeTypes DEF LeaderStartsInline, LeaderTypeOK
    <2>2. ChildTypeOK'
      <3>1. cur' \in [Workers -> Command] BY <1>19, <2>0 DEF LeaderStartsInline, ChildTypeOK
      <3>2. work' \in [Chunks -> {"none", "rendering"} \cup Status]
        BY <1>19 DEF LeaderStartsInline, ChildTypeOK
      <3> QED BY <1>19, <3>1, <3>2 DEF LeaderStartsInline, ChildTypeOK
    <2>3. GoTypeOK'
      BY <1>19 DEF LeaderStartsInline, GoTypeOK
    <2> QED BY <2>1, <2>2, <2>3
  <1>20. ASSUME LeaderFinishesInline PROVE TypeOK'
    <2>1. LeaderTypeOK'
      <3>1. cur[0].seq \in Nat
        BY MessageTypes, PoolFacts DEF ChildTypeOK, Workers
      <3>2. PICK st \in Status : stdout' = Append(stdout, [seq |-> cur[0].seq, status |-> st])
        BY <1>20 DEF LeaderFinishesInline, Emit
      <3>3. [seq |-> cur[0].seq, status |-> st] \in Reply BY <3>1, MessageTypes
      <3>4. stdout' \in Seq(Reply) BY <3>2, <3>3, PipeTypes DEF LeaderTypeOK
      <3> QED BY <1>20, <3>4 DEF LeaderFinishesInline, LeaderTypeOK
    <2>2. ChildTypeOK' BY <1>20 DEF LeaderFinishesInline, Emit, ChildTypeOK
    <2>3. GoTypeOK'
      BY <1>20 DEF LeaderFinishesInline, GoTypeOK
    <2> QED BY <2>1, <2>2, <2>3
  <1>21. ASSUME LeaderShutsDown PROVE TypeOK'
    <2>1. LeaderTypeOK' BY <1>21 DEF LeaderShutsDown, LeaderTypeOK
    <2>2. ChildTypeOK'
      <3>1. toChild' \in [Children -> Seq(Command)]
        <4>1. \A k \in Children : Append(toChild[k], QuitCmd) \in Seq(Command)
          BY MessageTypes, PipeTypes DEF ChildTypeOK
        <4>2. [k \in Children |-> Append(toChild[k], QuitCmd)] \in [Children -> Seq(Command)]
          BY <4>1
        <4> QED BY <1>21, <4>2 DEF LeaderShutsDown, ChildTypeOK
      <3> QED BY <1>21, <3>1 DEF LeaderShutsDown, ChildTypeOK
    <2>3. GoTypeOK'
      BY <1>21 DEF LeaderShutsDown, GoTypeOK
    <2> QED BY <2>1, <2>2, <2>3
  <1>22. ASSUME LeaderReaps PROVE TypeOK'
    <2>1. LeaderTypeOK' BY <1>22 DEF LeaderReaps, LeaderTypeOK
    <2>2. GoTypeOK' /\ ChildTypeOK'
      BY <1>22 DEF LeaderReaps, GoTypeOK, ChildTypeOK
    <2> QED BY <2>1, <2>2
  <1>23. ASSUME LeaderKilled PROVE TypeOK'
    <2>1. LeaderTypeOK' BY <1>23 DEF LeaderKilled, LeaderTypeOK
    <2>2. GoTypeOK' /\ ChildTypeOK'
      BY <1>23 DEF LeaderKilled, GoTypeOK, ChildTypeOK
    <2> QED BY <2>1, <2>2
  <1>24. ASSUME NEW k \in Children, LeaderAssignsChild(k) PROVE TypeOK'
    <2>0. Head(lines) \in Command /\ Tail(lines) \in Seq(Command)
      BY <1>24, PipeTypes DEF LeaderAssignsChild, LeaderTypeOK
    <2>1. LeaderTypeOK'
      <3>1. busy' \in [Children -> BOOLEAN] BY <1>24 DEF LeaderAssignsChild, LeaderTypeOK
      <3>2. lines' \in Seq(Command) BY <1>24, <2>0 DEF LeaderAssignsChild, LeaderTypeOK
      <3>3. leader' \in {leader, "killed"} BY <1>24 DEF LeaderAssignsChild
      <3> QED BY <1>24, <3>1, <3>2, <3>3 DEF LeaderAssignsChild, LeaderTypeOK
    <2>2. ChildTypeOK'
      <3>1. Append(toChild[k], Head(lines)) \in Seq(Command)
        BY <1>24, <2>0, PipeTypes DEF ChildTypeOK
      <3>2. toChild' \in [Children -> Seq(Command)]
        BY <1>24, <3>1 DEF LeaderAssignsChild, ChildTypeOK
      <3> QED BY <1>24, <3>2 DEF LeaderAssignsChild, ChildTypeOK
    <2>3. GoTypeOK'
      BY <1>24 DEF LeaderAssignsChild, GoTypeOK
    <2> QED BY <2>1, <2>2, <2>3
  <1>25. ASSUME NEW k \in Children, LeaderForwards(k) PROVE TypeOK'
    <2>0. Head(fromChild[k]) \in Reply /\ Tail(fromChild[k]) \in Seq(Reply)
      BY <1>25, PipeTypes DEF LeaderForwards, ChildTypeOK
    <2>1. LeaderTypeOK'
      <3>1. stdout' \in Seq(Reply)
        BY <1>25, <2>0, PipeTypes DEF LeaderForwards, LeaderTypeOK
      <3>2. busy' \in [Children -> BOOLEAN] BY <1>25 DEF LeaderForwards, LeaderTypeOK
      <3> QED BY <1>25, <3>1, <3>2 DEF LeaderForwards, LeaderTypeOK
    <2>2. ChildTypeOK' BY <1>25, <2>0 DEF LeaderForwards, ChildTypeOK
    <2>3. GoTypeOK'
      BY <1>25 DEF LeaderForwards, GoTypeOK
    <2> QED BY <2>1, <2>2, <2>3
  <1>26. ASSUME NEW k \in Children, LeaderSeesChildEof(k) PROVE TypeOK'
    <2>1. LeaderTypeOK' BY <1>26 DEF LeaderSeesChildEof, LeaderTypeOK
    <2>2. GoTypeOK' /\ ChildTypeOK'
      BY <1>26 DEF LeaderSeesChildEof, GoTypeOK, ChildTypeOK
    <2> QED BY <2>1, <2>2
  <1>27. ASSUME NEW k \in Children, ChildTakes(k) PROVE TypeOK'
    <2>0. Head(toChild[k]) \in Command /\ Tail(toChild[k]) \in Seq(Command) /\ k \in Workers
     
        BY <1>27, PipeTypes, PoolFacts DEF ChildTakes, ChildTypeOK, Children, Workers
    <2>1. ChildTypeOK'
      <3>1. toChild' \in [Children -> Seq(Command)]
        BY <1>27, <2>0 DEF ChildTakes, ChildTypeOK
      <3>2. cur' \in [Workers -> Command] BY <1>27, <2>0 DEF ChildTakes, ChildTypeOK
      <3>3. work' \in [Chunks -> {"none", "rendering"} \cup Status]
        BY <1>27 DEF ChildTakes, ChildTypeOK
      <3>4. child' \in [Children -> {"none", "idle", "render", "exiting", "dead"}]
        BY <1>27 DEF ChildTakes, ChildTypeOK
      <3> QED BY <1>27, <3>1, <3>2, <3>3, <3>4 DEF ChildTakes, ChildTypeOK
    <2>2. GoTypeOK' /\ LeaderTypeOK'
      BY <1>27 DEF ChildTakes, GoTypeOK, LeaderTypeOK
    <2> QED BY <2>1, <2>2
  <1>28. ASSUME NEW k \in Children, ChildFinishes(k) PROVE TypeOK'
    <2>0. cur[k].seq \in Nat
      BY MessageTypes, PoolFacts DEF ChildTypeOK, Children, Workers
    <2>1. ChildTypeOK'
      <3>1. PICK st \in Status :
              /\ work' = [work EXCEPT ![cur[k].who] = st]
              /\ \/ /\ fromChild' = [fromChild EXCEPT ![k] =
                                        Append(@, [seq |-> cur[k].seq, status |-> st])]
                    /\ child' = [child EXCEPT ![k] = IF st = "oom" THEN "exiting" ELSE "idle"]
                 \/ /\ child' = [child EXCEPT ![k] = "dead"]
                    /\ UNCHANGED fromChild
        BY <1>28 DEF ChildFinishes
      <3>2. Append(fromChild[k], [seq |-> cur[k].seq, status |-> st]) \in Seq(Reply)
        BY <2>0, <1>28, MessageTypes, PipeTypes DEF ChildTypeOK
      <3>3. fromChild' \in [Children -> Seq(Reply)] BY <3>1, <3>2 DEF ChildTypeOK
      <3>4. work' \in [Chunks -> {"none", "rendering"} \cup Status] BY <3>1 DEF ChildTypeOK
      <3>5. child' \in [Children -> {"none", "idle", "render", "exiting", "dead"}]
        BY <3>1 DEF ChildTypeOK
      <3> QED BY <1>28, <3>3, <3>4, <3>5 DEF ChildFinishes, ChildTypeOK
    <2>2. GoTypeOK' /\ LeaderTypeOK'
      BY <1>28 DEF ChildFinishes, GoTypeOK, LeaderTypeOK
    <2> QED BY <2>1, <2>2
  <1>29. ASSUME NEW k \in Children, ChildExits(k) \/ ChildKilled(k) PROVE TypeOK'
    <2>1. ChildTypeOK'
      BY <1>29, PipeTypes DEF ChildExits, ChildKilled, ChildDies, ChildTypeOK
    <2>2. GoTypeOK' /\ LeaderTypeOK'
      BY <1>29 DEF ChildExits, ChildKilled, ChildDies, GoTypeOK, LeaderTypeOK
    <2> QED BY <2>1, <2>2
  <1>30. ASSUME UNCHANGED vars PROVE TypeOK'
    BY <1>30 DEF vars, GoTypeOK, LeaderTypeOK, ChildTypeOK
  <1> QED
    BY <1>1, <1>2, <1>3, <1>4, <1>5, <1>6, <1>7, <1>8, <1>9, <1>10, <1>11, <1>12,
       <1>13, <1>14, <1>15, <1>16, <1>17, <1>18, <1>19, <1>20, <1>21, <1>22, <1>23,
       <1>24, <1>25, <1>26, <1>27, <1>28, <1>29, <1>30
    DEF Next, CallerStep, ReaderStep, PoolStep, LeaderStep, LeaderChildStep, ChildStep,
        Terminated

-----------------------------------------------------------------------------
\* Steps of the pool's owner and of the worker processes do not touch the
\* demultiplexer, and a leader that is gone does not come back.
LEMMA ForeignStep ==
    ASSUME Demux, UNCHANGED <<pc, seq, seqOf, pending, chan, reader, hand>>,
           ~LeaderLive => ~LeaderLive'
    PROVE  Demux'
  <1>1. PendingOwned' /\ HandFits' /\ NothingEarly' /\ WaiterReachable'
    BY DEF Demux, PendingOwned, HandFits, NothingEarly, WaiterReachable, InHand
  <1>2. SeqsDistinct' /\ EofFinal'
    BY DEF Demux, SeqsDistinct, EofFinal
  <1> QED BY <1>1, <1>2 DEF Demux

\* TakeSeq: the new number is above every other.
LEMMA TakeSeqStep ==
    ASSUME DemuxInv, NEW c \in Chunks, TakeSeq(c)
    PROVE  Demux'
  <1> USE DEF DemuxInv, Demux, TypeOK, leaderVars, childVars
  <1>0. c \in Callers /\ c # Loader BY PoolFacts DEF Callers
  <1>1. \A d \in Callers : d # c => pc'[d] = pc[d] /\ seqOf'[d] = seqOf[d]
    BY DEF TakeSeq, GoTypeOK
  <1>2. pc'[c] = "numbered" /\ seqOf'[c] = seq + 1 /\ pc[c] = "idle" /\ seq' = seq + 1
    BY <1>0 DEF TakeSeq, GoTypeOK
  <1>3. \A s \in DOMAIN pending : pending[s] \in Callers /\ pending[s] # c
    BY <1>2 DEF PendingOwned, GoTypeOK
  <1>4. PendingOwned' BY <1>1, <1>3 DEF TakeSeq, PendingOwned, InHand
  <1>5. HandFits' BY DEF TakeSeq, HandFits
  <1>6. NothingEarly' BY <1>1, <1>2 DEF TakeSeq, NothingEarly, InHand
  <1>7. SeqsDistinct'
    <2>1. (seqOf[Loader] = 0 /\ pc[Loader] # "idle")'
      BY <1>0, <1>1 DEF SeqsDistinct, Callers
    <2>0. seq \in Nat /\ \A d \in Chunks : d \in Callers BY DEF GoTypeOK, Callers
    <2>a. \A d \in Chunks : d # c /\ pc'[d] # "idle" => seqOf'[d] \in 1..seq
      BY <1>1, <2>0 DEF SeqsDistinct
    <2>2. (\A d \in Chunks : pc[d] # "idle" => seqOf[d] \in 1..seq)'
      <3> SUFFICES ASSUME NEW d \in Chunks, pc'[d] # "idle" PROVE seqOf'[d] \in 1..seq'
        OBVIOUS
      <3>1. CASE d = c BY <3>1, <1>2, <2>0
      <3>2. CASE d # c
        <4>1. seqOf'[d] \in 1..seq BY <3>2, <2>a
        <4> QED BY <4>1, <1>2, <2>0
      <3> QED BY <3>1, <3>2
    <2>3. (\A d, e \in Chunks :
             pc[d] # "idle" /\ pc[e] # "idle" /\ seqOf[d] = seqOf[e] => d = e)'
      <3> SUFFICES ASSUME NEW d \in Chunks, NEW e \in Chunks, pc'[d] # "idle",
                          pc'[e] # "idle", seqOf'[d] = seqOf'[e]
                   PROVE  d = e
        OBVIOUS
      <3>1. \A f \in Chunks : f # c /\ pc'[f] # "idle" => seqOf'[f] # seqOf'[c]
        BY <2>a, <1>2, <2>0
      <3>2. CASE d = c \/ e = c BY <3>1, <3>2
      <3>3. CASE d # c /\ e # c BY <3>3, <1>1, <2>0 DEF SeqsDistinct
      <3> QED BY <3>2, <3>3
    <2> QED BY <2>1, <2>2, <2>3 DEF SeqsDistinct
  <1>8. WaiterReachable' BY <1>1, <1>2 DEF TakeSeq, WaiterReachable, InHand
  <1>9. EofFinal' BY <1>1, <1>3 DEF TakeSeq, EofFinal, LeaderLive
  <1> QED BY <1>4, <1>5, <1>6, <1>7, <1>8, <1>9

\* Steps that leave the numbers alone and make no call idle keep them distinct.
LEMMA SeqsKept ==
    ASSUME SeqsDistinct, TypeOK, UNCHANGED <<seq, seqOf>>,
           NEW c \in Callers, NEW r, r # "idle", pc[c] # "idle",
           pc' = [pc EXCEPT ![c] = r]
    PROVE  SeqsDistinct'
  <1>1. \A d \in Callers : pc'[d] # "idle" => pc[d] # "idle"
    BY DEF TypeOK, GoTypeOK
  <1>2. pc'[Loader] # "idle" BY DEF TypeOK, GoTypeOK, SeqsDistinct, Callers
  <1> QED BY <1>1, <1>2 DEF SeqsDistinct, Callers

\* Register: no call holds the number already, so no entry is overwritten.
LEMMA RegisterStep ==
    ASSUME DemuxInv, NEW c \in Callers, Register(c)
    PROVE  Demux'
  <1> USE DEF DemuxInv, Demux, TypeOK, leaderVars, childVars
  <1>1. \A d \in Callers : d # c => pc'[d] = pc[d]
    BY DEF Register, GoTypeOK
  <1>2. pc'[c] = "registered" /\ pc[c] = "numbered" /\ chan[c] = <<>> /\ ~InHand(c)
    BY DEF Register, GoTypeOK, NothingEarly
  <1>3. \A s \in DOMAIN pending : pending[s] \in Callers /\ pending[s] # c /\ s # seqOf[c]
    <2>1. ASSUME NEW s \in DOMAIN pending PROVE pending[s] \in Callers /\ pending[s] # c
      BY <1>2 DEF PendingOwned, GoTypeOK
    <2>2. ASSUME NEW s \in DOMAIN pending PROVE s # seqOf[c]
      BY <1>2, <2>1, DifferentSeqs DEF PendingOwned
    <2> QED BY <2>1, <2>2
  <1>4. DOMAIN pending' = DOMAIN pending \cup {seqOf[c]} /\ pending'[seqOf[c]] = c
    BY DEF Register, PendingWith
  <1>5. \A s \in DOMAIN pending : pending'[s] = pending[s]
    BY <1>3 DEF Register, PendingWith
  <1>6. UNCHANGED <<seq, seqOf, chan, reader, hand, leader>> BY DEF Register
  <1>7. PendingOwned' BY <1>1, <1>2, <1>3, <1>4, <1>5, <1>6 DEF PendingOwned, InHand
  <1>8. HandFits' BY <1>6 DEF HandFits
  <1>9. NothingEarly' BY <1>1, <1>2, <1>6 DEF NothingEarly, InHand
  <1>10. SeqsDistinct' BY <1>2, <1>6, SeqsKept DEF Register
  <1>11. WaiterReachable'
    BY <1>1, <1>2, <1>3, <1>4, <1>5, <1>6 DEF WaiterReachable, InHand
  <1>12. EofFinal' BY <1>1, <1>2, <1>3, <1>4, <1>5, <1>6 DEF EofFinal, LeaderLive
  <1> QED BY <1>7, <1>8, <1>9, <1>10, <1>11, <1>12

\* A call that returns: its entry goes, if it still has one, and no other does.
LEMMA ReturnStep ==
    ASSUME DemuxInv, NEW c \in Callers, NEW r \in Returned,
           pc[c] \in {"registered", "await"}, ReturnAs(c, r),
           UNCHANGED <<seq, seqOf, reader, hand, leader>>,
           \A d \in Callers : chan'[d] = chan[d] \/ (d = c /\ chan'[d] = <<>>)
    PROVE  Demux'
  <1> USE DEF DemuxInv, Demux, TypeOK
  <1>1. pc'[c] = r /\ \A d \in Callers : d # c => pc'[d] = pc[d] /\ chan'[d] = chan[d]
    BY DEF ReturnAs, GoTypeOK
  <1>2. r \notin {"idle", "numbered", "registered", "await"} BY DEF Returned
  <1>3. DOMAIN pending' = DOMAIN pending \ {seqOf[c]}
    BY DEF ReturnAs, PendingWithout
  <1>4. \A s \in DOMAIN pending' : pending'[s] = pending[s] /\ pending[s] \in Callers
    BY <1>3 DEF ReturnAs, PendingWithout, GoTypeOK
  <1>5. \A s \in DOMAIN pending' : pending[s] # c
    BY <1>3 DEF PendingOwned
  <1>6. PendingOwned' BY <1>1, <1>3, <1>4, <1>5 DEF PendingOwned, InHand
  <1>7. HandFits'
    BY <1>1 DEF HandFits, GoTypeOK
  <1>8. NothingEarly' BY <1>1, <1>2 DEF NothingEarly, InHand
  <1>9. SeqsDistinct' BY <1>2, SeqsKept DEF ReturnAs
  <1>10. WaiterReachable'
    <2> SUFFICES ASSUME NEW d \in Callers, pc'[d] \in {"registered", "await"}
                 PROVE  (\/ seqOf[d] \in DOMAIN pending /\ pending[seqOf[d]] = d
                         \/ InHand(d) \/ chan[d] # <<>>)'
      BY DEF WaiterReachable
    <2>1. d # c /\ pc[d] \in {"registered", "await"} BY <1>1, <1>2
    <2>2. seqOf[d] # seqOf[c] BY <2>1, DifferentSeqs
    <2> QED BY <2>1, <2>2, <1>1, <1>3, <1>4 DEF WaiterReachable, InHand
  <1>11. EofFinal' BY <1>1, <1>3, <1>4, <1>5 DEF EofFinal, LeaderLive
  <1> QED BY <1>6, <1>7, <1>8, <1>9, <1>10, <1>11

\* Write: with the leader gone the call returns; otherwise EOF has not been seen.
LEMMA WriteStep ==
    ASSUME DemuxInv, NEW c \in Callers, Write(c)
    PROVE  Demux'
  <1> USE DEF leaderVars, childVars
  <1>0. UNCHANGED <<seq, seqOf, chan, reader, hand, leader>> /\ pc[c] = "registered"
    BY DEF Write
  <1>1. CASE ~LeaderLive
    <2>1. ReturnAs(c, "error") BY <1>1, Zenon DEF Write
    <2> QED BY <1>0, <2>1, ReturnStep DEF Returned
  <1>2. CASE LeaderLive
    <2> USE DEF DemuxInv, Demux, TypeOK
    <2>0. pending' = pending /\ pc' = [pc EXCEPT ![c] = "await"]
      BY <1>2, Zenon DEF Write
    <2>1. pc'[c] = "await" /\ \A d \in Callers : d # c => pc'[d] = pc[d]
      BY <2>0 DEF GoTypeOK
    <2>2. \A s \in DOMAIN pending : pending[s] \in Callers BY DEF GoTypeOK
    <2>3. PendingOwned' BY <1>0, <2>0, <2>1, <2>2 DEF PendingOwned, InHand
    <2>4. HandFits' BY <1>0 DEF HandFits
    <2>5. NothingEarly' BY <1>0, <2>1 DEF NothingEarly, InHand
    <2>6. SeqsDistinct' BY <1>0, <2>0, SeqsKept
    <2>7. WaiterReachable' BY <1>0, <2>0, <2>1 DEF WaiterReachable, InHand
    <2>8. EofFinal' BY <1>0, <1>2 DEF EofFinal
    <2> QED BY <2>3, <2>4, <2>5, <2>6, <2>7, <2>8
  <1> QED BY <1>1, <1>2

\* Receive and Timeout are returns.
LEMMA EndOfWait ==
    ASSUME DemuxInv, NEW c \in Callers, Receive(c) \/ Timeout(c)
    PROVE  Demux'
  <1> USE DEF leaderVars, childVars
  <1>1. CASE Receive(c)
    <2>1. Head(chan[c]).status \in Returned
      <3>1. Head(chan[c]) \in Reply
        BY <1>1, PipeTypes DEF Receive, DemuxInv, TypeOK, GoTypeOK
      <3> QED BY <3>1, MessageTypes DEF Status, Returned
    <2>2. \A d \in Callers : chan'[d] = chan[d] \/ (d = c /\ chan'[d] = <<>>)
      BY <1>1 DEF Receive, DemuxInv, TypeOK, GoTypeOK
    <2> QED BY <1>1, <2>1, <2>2, ReturnStep DEF Receive
  <1>2. CASE Timeout(c)
    BY <1>2, ReturnStep DEF Timeout, Returned
  <1> QED BY <1>1, <1>2

\* ReadLine: the entry moves from the map to the reader's hand.
LEMMA ReadLineStep ==
    ASSUME DemuxInv, ReadLine
    PROVE  Demux'
  <1> USE DEF DemuxInv, Demux, TypeOK, leaderVars, childVars
  <1> DEFINE n == Head(stdout).seq
  <1>0. UNCHANGED <<pc, seq, seqOf, chan, leader>> /\ reader = "read"
    BY DEF ReadLine
  <1>1. DOMAIN pending' = DOMAIN pending \ {n}
    BY DEF ReadLine, PendingWithout
  <1>2. \A s \in DOMAIN pending' : pending'[s] = pending[s]
    BY DEF ReadLine, PendingWithout
  <1>3. \A s \in DOMAIN pending : pending[s] \in Callers BY DEF GoTypeOK
  <1>4. SeqsDistinct' BY <1>0 DEF SeqsDistinct
  <1>5. CASE n \in DOMAIN pending
    <2>0. reader' = "deliver" /\ hand' = [to |-> pending[n], reply |-> Head(stdout)]
      BY <1>5, Zenon DEF ReadLine
    <2>1. hand'.to = pending[n] BY <2>0
    <2>2. seqOf[pending[n]] = n /\ chan[pending[n]] = <<>>
            /\ pc[pending[n]] \in {"registered", "await"}
      BY <1>5 DEF PendingOwned
    <2> HIDE DEF n
    <2>3. PendingOwned'
      BY <1>0, <1>1, <1>2, <1>3, <2>1, <2>2 DEF PendingOwned, InHand
    <2>4. HandFits' BY <1>0, <2>1, <2>2 DEF HandFits
    <2>5. NothingEarly' BY <1>0, <2>0, <2>1, <2>2 DEF NothingEarly, InHand
    <2>6. WaiterReachable'
      BY <1>0, <1>1, <1>2, <2>0, <2>1 DEF WaiterReachable, InHand
    <2>7. EofFinal' BY <2>0 DEF EofFinal
    <2> QED BY <1>4, <2>3, <2>4, <2>5, <2>6, <2>7
  <1>6. CASE n \notin DOMAIN pending
    <2>0. reader' = "read" BY <1>0, <1>6, Zenon DEF ReadLine
    <2> HIDE DEF n
    <2>1. DOMAIN pending' = DOMAIN pending BY <1>1, <1>6
    <2>2. PendingOwned' BY <1>0, <1>2, <2>0, <2>1 DEF PendingOwned, InHand
    <2>3. HandFits' /\ EofFinal' BY <2>0 DEF HandFits, EofFinal
    <2>4. NothingEarly' BY <1>0, <2>0 DEF NothingEarly, InHand
    <2>5. WaiterReachable' BY <1>0, <1>2, <2>0, <2>1 DEF WaiterReachable, InHand
    <2> QED BY <1>4, <2>2, <2>3, <2>4, <2>5
  <1> QED BY <1>5, <1>6

\* Deliver: the reply moves from the reader's hand to the channel.
LEMMA DeliverStep ==
    ASSUME DemuxInv, Deliver
    PROVE  Demux'
  <1> USE DEF DemuxInv, Demux, TypeOK, leaderVars, childVars
  <1>0. UNCHANGED <<pc, seq, seqOf, pending, hand, leader>> /\ reader = "deliver" /\ reader' = "read"
    BY DEF Deliver
  <1>1. hand.to \in Callers BY DEF GoTypeOK
  <1>2. chan'[hand.to] # <<>> /\ \A d \in Callers : d # hand.to => chan'[d] = chan[d]
    BY <1>1 DEF Deliver, GoTypeOK
  <1>3. \A s \in DOMAIN pending : pending[s] \in Callers /\ pending[s] # hand.to
    BY <1>0 DEF PendingOwned, InHand, GoTypeOK
  <1>4. PendingOwned' BY <1>0, <1>2, <1>3 DEF PendingOwned, InHand
  <1>5. HandFits' /\ EofFinal' BY <1>0 DEF HandFits, EofFinal
  <1>6. NothingEarly' BY <1>0, <1>2 DEF NothingEarly, InHand
  <1>7. SeqsDistinct' BY <1>0 DEF SeqsDistinct
  <1>8. WaiterReachable' BY <1>0, <1>2 DEF WaiterReachable, InHand
  <1> QED BY <1>4, <1>5, <1>6, <1>7, <1>8

\* ReadEof: every registered channel is filled and the map is empty.
LEMMA ReadEofStep ==
    ASSUME DemuxInv, ReadEof
    PROVE  Demux'
  <1> USE DEF DemuxInv, Demux, TypeOK, leaderVars, childVars
  <1>0. UNCHANGED <<pc, seq, seqOf, leader>> /\ reader = "read" /\ reader' = "eof" /\ ~LeaderLive
    BY DEF ReadEof
  <1>1. DOMAIN pending' = {} BY DEF ReadEof, PendingWithout
  <1>2. \A c \in Callers : IF \E s \in DOMAIN pending : pending[s] = c
                           THEN chan'[c] # <<>> ELSE chan'[c] = chan[c]
    BY DEF ReadEof
  <1>3. PendingOwned' /\ HandFits' BY <1>0, <1>1 DEF PendingOwned, HandFits
  <1>4. NothingEarly' BY <1>0, <1>2 DEF NothingEarly, InHand, PendingOwned
  <1>5. SeqsDistinct' BY <1>0 DEF SeqsDistinct
  <1>6. WaiterReachable' BY <1>0, <1>2 DEF WaiterReachable, InHand
  <1>7. EofFinal' BY <1>0, <1>1 DEF EofFinal, LeaderLive
  <1> QED BY <1>3, <1>4, <1>5, <1>6, <1>7

\* Every step keeps the demultiplexer's invariant.
LEMMA DemuxInvStep == DemuxInv /\ [Next]_vars => DemuxInv'
  <1> SUFFICES ASSUME DemuxInv, [Next]_vars PROVE DemuxInv'
    OBVIOUS
  <1>1. TypeOK' BY TypeOKStep DEF DemuxInv
  <1>2. Demux'
    <2>1. ASSUME NEW c \in Chunks, TakeSeq(c) PROVE Demux' BY <2>1, TakeSeqStep
    <2>2. ASSUME NEW c \in Callers, CallerStep(c) PROVE Demux'
      BY <2>2, RegisterStep, WriteStep, EndOfWait DEF CallerStep
    <2>3. ASSUME ReaderStep PROVE Demux'
      BY <2>3, ReadLineStep, DeliverStep, ReadEofStep DEF ReaderStep
    <2>4. ASSUME PoolStep PROVE Demux'
      BY <2>4, ForeignStep
      DEF DemuxInv, PoolStep, OpenFails, OpenSucceeds, BeginClose, CloseWaited,
          CloseKills, Kill, leaderVars, LeaderLive
    <2>5. ASSUME LeaderStep PROVE Demux'
      BY <2>5, ForeignStep
      DEF DemuxInv, LeaderStep, LeaderBootFails, LeaderExits, LeaderLoads,
          LeaderDrainsStdin, LeaderQuits, LeaderStartsInline, LeaderFinishesInline,
          LeaderShutsDown, LeaderReaps, goVars, LeaderLive
    <2>6. ASSUME NEW k \in Children, LeaderChildStep(k) \/ ChildStep(k) \/ ChildKilled(k)
          PROVE  Demux'
      BY <2>6, ForeignStep
      DEF DemuxInv, LeaderChildStep, LeaderAssignsChild, LeaderForwards,
          LeaderSeesChildEof, ChildStep, ChildTakes, ChildFinishes, ChildExits,
          ChildKilled, ChildDies, goVars, leaderVars, LeaderLive
    <2>7. ASSUME LeaderKilled PROVE Demux'
      BY <2>7, ForeignStep DEF DemuxInv, LeaderKilled, goVars, LeaderLive
    <2>8. ASSUME UNCHANGED vars PROVE Demux'
      BY <2>8, ForeignStep DEF DemuxInv, vars, goVars, leaderVars, LeaderLive
    <2> QED BY <2>1, <2>2, <2>3, <2>4, <2>5, <2>6, <2>7, <2>8 DEF Next, Terminated
  <1> QED BY <1>1, <1>2 DEF DemuxInv

\* The invariant holds in every state of every behaviour of the pool.
LEMMA DemuxInvariant == Spec => []DemuxInv
  BY DemuxInvInit, DemuxInvStep, PTL DEF Spec

-----------------------------------------------------------------------------
\* Every reachable state of the pool is well-typed, however many chunks and
\* children there are and whatever fails: the demultiplexer's map, the channels,
\* the pipes and the sockets only ever hold calls and messages of the protocol.
THEOREM ForkedPoolTypeOK == Spec => []TypeOK
  <1>1. DemuxInv => TypeOK BY DEF DemuxInv
  <1> QED BY <1>1, DemuxInvariant, PTL

\* readStdout never blocks: neither its send outside the mutex nor a send of
\* failAllPending, which holds the mutex, ever finds a full channel, with any
\* number of chunks in flight and any timing of timeouts, deaths and late replies.
THEOREM ReaderNeverBlocksAlways == Spec => []ReaderNeverBlocks
  <1>1. DemuxInv => ReaderNeverBlocks
    BY DEF DemuxInv, Demux, HandFits, PendingOwned, ReaderNeverBlocks
  <1> QED BY <1>1, DemuxInvariant, PTL

\* failAllPending misses nobody: once the reader has returned, every caller that is
\* waiting in awaitSeq has a reply in its channel.
THEOREM EofAlwaysWakesEveryone == Spec => []EofWakesEveryone
  <1>1. DemuxInv => EofWakesEveryone
   
      BY DEF DemuxInv, TypeOK, GoTypeOK, Demux, WaiterReachable, EofFinal, InHand, EofWakesEveryone
  <1> QED BY <1>1, DemuxInvariant, PTL

-----------------------------------------------------------------------------
(* The sockets: what is on the way to, in and from a child.                *)

\* Child k owes no reply.
Quiet(k) == toChild[k] = <<>> /\ fromChild[k] = <<>> /\ child[k] # "render"

\* Of the lines to and from child k and its render there is at most one.
AtMostOne(k) ==
    /\ toChild[k] # <<>> => /\ Tail(toChild[k]) = <<>>
                            /\ fromChild[k] = <<>> /\ child[k] # "render"
    /\ fromChild[k] # <<>> => Tail(fromChild[k]) = <<>> /\ child[k] # "render"

\* A child is given one line at a time: it owes at most one reply, and none while
\* its slot is free.  Nothing is queued for a child that is not there.
SocketSound(k) ==
    /\ AtMostOne(k)
    /\ leader \in {"poll", "render"} /\ ~busy[k] => Quiet(k)
    /\ leader = "boot" => Quiet(k) /\ child[k] = "none"
    /\ ~ChildLive(k) => toChild[k] = <<>>
    /\ toChild[k] # <<>> => Head(toChild[k]).op \in {"render", "quit"}

SocketInv == \A k \in Children : SocketSound(k)

-----------------------------------------------------------------------------
(* The way of a command from its caller to the worker that renders it, and *)
(* of the reply back.                                                      *)

Written == {"await"} \cup Returned      \* the caller has written its command

\* The queues a command may wait in: the lines drained, the sockets, the pipe.
Queues   == 0..(NumChildren + 1)
Queue(x) == IF x = 0 THEN lines ELSE IF x \in Children THEN toChild[x] ELSE stdin

Asks(q, c) == \E i \in 1..Len(q) : q[i].op = "render" /\ q[i].who = c
NoDup(q)   == \A i, j \in 1..Len(q) :
                 q[i].op = "render" /\ q[j].op = "render" /\ q[i].who = q[j].who => i = j

\* A render command is its caller's own, and nobody has rendered that chunk yet.
CommandSound(m) ==
    m.op = "render" => /\ m.who \in Chunks /\ m.seq = seqOf[m.who]
                       /\ pc[m.who] \in Written /\ work[m.who] = "none"

\* A chunk's command is in one place, and nobody renders before it is written.
CommandsSound ==
    /\ \A x \in Queues : /\ \A i \in 1..Len(Queue(x)) : CommandSound(Queue(x)[i])
                         /\ NoDup(Queue(x))
    /\ \A x, y \in Queues, c \in Chunks : Asks(Queue(x), c) /\ Asks(Queue(y), c) => x = y
    /\ \A c \in Chunks : pc[c] \notin Written => work[c] = "none"

\* Worker w (0 is the leader) is rendering.
InRender(w) == IF w = 0 THEN leader = "render" ELSE child[w] = "render"

\* Who renders does so for a command that was written, and no two workers render
\* the same chunk.
RendersSound ==
    /\ \A w \in Workers : InRender(w) =>
          /\ cur[w].who \in Chunks /\ cur[w].seq = seqOf[cur[w].who]
          /\ pc[cur[w].who] \in Written /\ work[cur[w].who] = "rendering"
    /\ \A w, v \in Workers : InRender(w) /\ InRender(v) /\ cur[w].who = cur[v].who => w = v

\* A reply other than an error says what became of the chunk whose number it bears.
Truthful(r, n, p, s, w) ==
    /\ r.seq <= n
    /\ \A c \in Chunks : p[c] # "idle" /\ s[c] = r.seq => r.status = "error" \/ w[c] = r.status
ReplySound(r) == Truthful(r, seq, pc, seqOf, work)

RepliesSound ==
    /\ \A i \in 1..Len(stdout) : ReplySound(stdout[i])
    /\ \A k \in Children : \A i \in 1..Len(fromChild[k]) : ReplySound(fromChild[k][i])
    /\ reader = "deliver" => ReplySound(hand.reply) /\ hand.reply.seq = seqOf[hand.to]
    /\ \A c \in Callers : chan[c] # <<>> =>
          ReplySound(Head(chan[c])) /\ Head(chan[c]).seq = seqOf[c]

Flow == CommandsSound /\ RendersSound /\ RepliesSound
FlowInv == DemuxInv /\ SocketInv /\ Flow
-----------------------------------------------------------------------------
(* SocketInv is inductive, given the types.                                *)

\* The line that is put into an empty queue.
LEMMA FirstLine ==
    ASSUME NEW x
    PROVE  /\ Append(<<>>, x) = <<x>> /\ Head(<<x>>) = x
           /\ Tail(<<x>>) = <<>> /\ <<x>> # <<>>
  OBVIOUS

\* A queue with nothing behind its first line.
LEMMA ShortQueue ==
    ASSUME NEW S, NEW q \in Seq(S), q # <<>> => Tail(q) = <<>>
    PROVE  (q = <<>> /\ Len(q) = 0) \/ (q # <<>> /\ Len(q) = 1)
  <1>1. CASE q = <<>> BY <1>1
  <1>2. CASE q # <<>>
    <2>0. Len(<<>>) = 0 OBVIOUS
    <2>1. Len(Tail(q)) = 0 BY <1>2, <2>0, Zenon
    <2>2. Len(q) \in Nat /\ Len(q) # 0 /\ Len(Tail(q)) = Len(q) - 1 BY <1>2
    <2> QED BY <1>2, <2>1, <2>2
  <1> QED BY <1>1, <1>2

\* The sockets of child k are left alone, and so is its slot.
LEMMA SocketFrame ==
    ASSUME NEW k \in Children, SocketSound(k), child'[k] = child[k],
           toChild'[k] = toChild[k], fromChild'[k] = fromChild[k],
           leader' \in {"poll", "render"} => leader \in {"poll", "render"} /\ busy'[k] = busy[k],
           leader' = "boot" => leader = "boot"
    PROVE  SocketSound(k)'
  <1>1. Quiet(k)' = Quiet(k) /\ AtMostOne(k)' = AtMostOne(k) /\ ChildLive(k)' = ChildLive(k)
    BY DEF Quiet, AtMostOne, ChildLive
  <1> QED BY <1>1 DEF SocketSound

\* The leader hands a line to child k, which is free.
LEMMA AssignSocket ==
    ASSUME TypeOK, NEW k \in Children, SocketSound(k), LeaderAssignsChild(k)
    PROVE  SocketSound(k)'
  <1> USE DEF TypeOK, goVars
  <1>1. leader = "poll" /\ ~busy[k] /\ lines # <<>> /\ Head(lines).op = "render"
    BY DEF LeaderAssignsChild, FirstIdle
  <1>2. toChild[k] = <<>> /\ fromChild[k] = <<>> /\ child[k] # "render"
    BY <1>1 DEF SocketSound, Quiet
  <1>3. CASE ChildLive(k)
    <2>1. /\ toChild'[k] = <<Head(lines)>> /\ fromChild'[k] = <<>>
          /\ child'[k] = child[k] /\ leader' = "poll" /\ busy'[k] = TRUE
      <3>1. toChild'[k] = Append(<<>>, Head(lines))
        BY <1>2, <1>3 DEF LeaderAssignsChild, ChildTypeOK
      <3>2. /\ fromChild'[k] = <<>> /\ child'[k] = child[k]
            /\ leader' = "poll" /\ busy'[k] = TRUE
        BY <1>1, <1>2, <1>3 DEF LeaderAssignsChild, LeaderTypeOK
      <3> QED BY <3>1, <3>2, FirstLine
    <2>2. AtMostOne(k)' BY <1>2, <2>1, FirstLine DEF AtMostOne
    <2>3. ChildLive(k)' BY <1>3, <2>1 DEF ChildLive
    <2> QED BY <1>1, <2>1, <2>2, <2>3, FirstLine DEF SocketSound
  <1>4. CASE ~ChildLive(k)
    <2>1. /\ leader' = "killed" /\ toChild'[k] = toChild[k]
          /\ fromChild'[k] = fromChild[k] /\ child'[k] = child[k]
      BY <1>4 DEF LeaderAssignsChild
    <2> QED BY <2>1, SocketFrame
  <1> QED BY <1>3, <1>4

\* The leader takes child k's reply, or sees that it is gone.
LEMMA FreeSocket ==
    ASSUME TypeOK, NEW k \in Children, SocketSound(k),
           LeaderForwards(k) \/ LeaderSeesChildEof(k)
    PROVE  SocketSound(k)'
  <1>1. /\ child'[k] = child[k] /\ toChild'[k] = toChild[k] /\ leader' = leader
        /\ leader = "poll"
    BY DEF LeaderForwards, LeaderSeesChildEof, childVars
  <1>2. Quiet(k)'
    <2>1. CASE LeaderForwards(k)
      <3>1. fromChild[k] # <<>> /\ fromChild'[k] = Tail(fromChild[k])
        BY <2>1 DEF LeaderForwards, TypeOK, ChildTypeOK
      <3>2. toChild[k] = <<>> /\ child[k] # "render" /\ Tail(fromChild[k]) = <<>>
        BY <3>1 DEF SocketSound, AtMostOne
      <3> QED BY <1>1, <3>1, <3>2 DEF Quiet
    <2>2. CASE LeaderSeesChildEof(k)
      <3>1. fromChild[k] = <<>> /\ fromChild' = fromChild /\ child[k] = "dead"
        BY <2>2 DEF LeaderSeesChildEof, childVars
      <3>2. toChild[k] = <<>> BY <3>1 DEF SocketSound, ChildLive
      <3> QED BY <1>1, <3>1, <3>2 DEF Quiet
    <2> QED BY <2>1, <2>2
  <1>3. AtMostOne(k)' /\ toChild'[k] = <<>> BY <1>2 DEF Quiet, AtMostOne
  <1> QED BY <1>1, <1>2, <1>3 DEF SocketSound

\* Child k reads, answers or ends.
LEMMA ChildSocket ==
    ASSUME TypeOK, NEW k \in Children, SocketSound(k), ChildStep(k) \/ ChildKilled(k)
    PROVE  SocketSound(k)'
  <1> USE DEF TypeOK, goVars, leaderVars
  <1>1. leader' = leader /\ busy' = busy
    BY DEF ChildStep, ChildTakes, ChildFinishes, ChildExits, ChildKilled, ChildDies
  <1>2. leader # "boot"
    BY DEF ChildStep, ChildTakes, ChildFinishes, ChildExits, ChildKilled, ChildLive, SocketSound
  <1>3. CASE ChildTakes(k)
    <2>1. /\ toChild[k] # <<>> /\ toChild'[k] = Tail(toChild[k]) /\ fromChild' = fromChild
          /\ child'[k] \in {"dead", "render"}
      BY <1>3 DEF ChildTakes, ChildTypeOK
    <2>2. fromChild'[k] = <<>> /\ toChild'[k] = <<>> /\ ~Quiet(k)
      BY <2>1 DEF SocketSound, AtMostOne, Quiet
    <2>3. AtMostOne(k)' BY <2>2 DEF AtMostOne
    <2> QED BY <1>1, <1>2, <2>2, <2>3 DEF SocketSound
  <1>4. CASE ChildFinishes(k)
    <2>1. toChild[k] = <<>> /\ fromChild[k] = <<>> /\ ~Quiet(k) /\ toChild' = toChild
      BY <1>4 DEF ChildFinishes, SocketSound, AtMostOne, Quiet
    <2>2. child'[k] # "render" /\ (fromChild'[k] # <<>> => Tail(fromChild'[k]) = <<>>)
      <3>1. PICK st \in Status :
              \/ /\ fromChild' = [fromChild EXCEPT ![k] =
                                    Append(@, [seq |-> cur[k].seq, status |-> st])]
                 /\ child' = [child EXCEPT ![k] = IF st = "oom" THEN "exiting" ELSE "idle"]
              \/ child' = [child EXCEPT ![k] = "dead"] /\ UNCHANGED fromChild
        BY <1>4 DEF ChildFinishes
      <3>2. child'[k] # "render" BY <3>1 DEF ChildTypeOK
      <3>3. \/ fromChild'[k] = <<>>
            \/ fromChild'[k] = Append(<<>>, [seq |-> cur[k].seq, status |-> st])
        BY <2>1, <3>1 DEF ChildTypeOK
      <3> QED BY <3>2, <3>3, FirstLine
    <2>3. AtMostOne(k)' BY <2>1, <2>2 DEF AtMostOne
    <2> QED BY <1>1, <1>2, <2>1, <2>3 DEF SocketSound
  <1>5. CASE ChildExits(k) \/ ChildKilled(k)
    <2>1. child'[k] = "dead" /\ toChild'[k] = <<>> /\ fromChild' = fromChild
      BY <1>5 DEF ChildExits, ChildKilled, ChildDies, ChildTypeOK
    <2>2. AtMostOne(k)' BY <2>1 DEF SocketSound, AtMostOne
    <2>3. Quiet(k) => Quiet(k)' BY <2>1 DEF Quiet
    <2> QED BY <1>1, <1>2, <2>1, <2>2, <2>3 DEF SocketSound
  <1> QED BY <1>3, <1>4, <1>5 DEF ChildStep

\* A step of the leader or of a child on the sockets of child k.
LEMMA SocketStep ==
    ASSUME TypeOK, SocketInv, NEW k \in Children,
           LeaderChildStep(k) \/ ChildStep(k) \/ ChildKilled(k)
    PROVE  SocketInv'
  <1>1. ASSUME NEW j \in Children, j # k PROVE SocketSound(j)'
    <2>1. /\ child'[j] = child[j] /\ toChild'[j] = toChild[j] /\ fromChild'[j] = fromChild[j]
          /\ busy'[j] = busy[j] /\ leader' \in {leader, "killed"}
      BY <1>1 DEF LeaderChildStep, LeaderAssignsChild, LeaderForwards, LeaderSeesChildEof,
         ChildStep, ChildTakes, ChildFinishes, ChildExits, ChildKilled, ChildDies,
         TypeOK, LeaderTypeOK, ChildTypeOK, leaderVars, childVars
    <2> QED BY <2>1, SocketFrame DEF SocketInv
  <1>2. SocketSound(k) BY DEF SocketInv
  <1>3. SocketSound(k)'
    BY <1>2, AssignSocket, FreeSocket, ChildSocket DEF LeaderChildStep
  <1> QED BY <1>1, <1>3 DEF SocketInv

\* The leader forks, or fails to.
LEMMA ForkStep ==
    ASSUME TypeOK, SocketInv, LeaderBootFails \/ LeaderLoads
    PROVE  SocketInv'
  <1> SUFFICES ASSUME NEW k \in Children PROVE SocketSound(k)' BY DEF SocketInv
  <1>1. /\ leader = "boot" /\ leader' \in {"exiting", "poll"}
        /\ UNCHANGED <<toChild, fromChild>> /\ child'[k] \in {child[k], "idle", "none"}
    BY DEF LeaderBootFails, LeaderLoads, TypeOK, ChildTypeOK
  <1>2. Quiet(k) /\ child[k] = "none" BY <1>1 DEF SocketInv, SocketSound
  <1>3. Quiet(k)' BY <1>1, <1>2 DEF Quiet
  <1>4. AtMostOne(k)' /\ toChild'[k] = <<>> BY <1>3 DEF Quiet, AtMostOne
  <1> QED BY <1>1, <1>3, <1>4 DEF SocketSound

\* The leader sends quit to children that owe nothing.
LEMMA ShutdownStep ==
    ASSUME TypeOK, SocketInv, LeaderShutsDown
    PROVE  SocketInv'
  <1> SUFFICES ASSUME NEW k \in Children PROVE SocketSound(k)' BY DEF SocketInv
  <1>1. leader = "poll" /\ ~busy[k] /\ UNCHANGED <<child, fromChild>>
    BY DEF LeaderShutsDown
  <1>2. toChild[k] = <<>> /\ fromChild[k] = <<>> /\ child[k] # "render"
    BY <1>1 DEF SocketInv, SocketSound, Quiet
  <1>3. CASE \A j \in Children : ChildLive(j)
    <2>1. leader' = "reap" /\ toChild'[k] = Append(<<>>, QuitCmd)
      BY <1>2, <1>3 DEF LeaderShutsDown
    <2>2. toChild'[k] # <<>> /\ Head(toChild'[k]) = QuitCmd /\ Tail(toChild'[k]) = <<>>
      BY <2>1, FirstLine
    <2>3. AtMostOne(k)' BY <1>1, <1>2, <2>2 DEF AtMostOne
    <2>4. QuitCmd.op = "quit" BY DEF QuitCmd
    <2> QED BY <1>1, <1>3, <2>1, <2>2, <2>3, <2>4 DEF SocketSound, ChildLive
  <1>4. CASE ~\A j \in Children : ChildLive(j)
    <2>1. leader' = "killed" /\ UNCHANGED toChild BY <1>4 DEF LeaderShutsDown
    <2> QED BY <1>1, <2>1, SocketFrame DEF SocketInv
  <1> QED BY <1>3, <1>4

\* Every step keeps the sockets sound.
LEMMA SocketInvStep == TypeOK /\ SocketInv /\ [Next]_vars => SocketInv'
  <1> SUFFICES ASSUME TypeOK, SocketInv, [Next]_vars PROVE SocketInv' OBVIOUS
  <1>1. ASSUME NEW k \in Children, LeaderChildStep(k) \/ ChildStep(k) \/ ChildKilled(k)
        PROVE  SocketInv'
    BY <1>1, SocketStep
  <1>2. CASE LeaderBootFails \/ LeaderLoads BY <1>2, ForkStep
  <1>3. CASE LeaderShutsDown BY <1>3, ShutdownStep
  <1>4. CASE /\ UNCHANGED <<busy, childVars>>
             /\ leader' \in {"poll", "render"} => leader \in {"poll", "render"}
             /\ leader' = "boot" => leader = "boot"
    BY <1>4, SocketFrame DEF SocketInv, childVars
  <1>5. ASSUME NEW c \in Callers, CallerStep(c) \/ (c \in Chunks /\ TakeSeq(c))
        PROVE  UNCHANGED <<busy, childVars, leader>>
    BY <1>5 DEF CallerStep, TakeSeq, Register, Write, Receive, Timeout, leaderVars
  <1>6. ReaderStep \/ UNCHANGED vars => UNCHANGED <<busy, childVars, leader>>
    BY DEF ReaderStep, ReadLine, Deliver, ReadEof, leaderVars, vars
  <1>7. PoolStep \/ LeaderKilled =>
          UNCHANGED <<busy, childVars>> /\ leader' \in {leader, "killed"}
    BY DEF PoolStep, OpenFails, OpenSucceeds, BeginClose, CloseWaited, CloseKills, Kill,
           LeaderKilled, leaderVars
  <1>8. LeaderStep => \/ LeaderBootFails \/ LeaderLoads \/ LeaderShutsDown
                      \/ /\ UNCHANGED <<busy, childVars>>
                         /\ leader' \in {"poll", "render"} => leader \in {"poll", "render"}
                         /\ leader' = "boot" => leader = "boot"
    BY DEF LeaderStep, LeaderExits, LeaderDrainsStdin, LeaderQuits, LeaderStartsInline,
           LeaderFinishesInline, LeaderReaps, Emit
  <1>9. Chunks \subseteq Callers BY DEF Callers
  <1>a. \/ \E c \in Callers : CallerStep(c) \/ (c \in Chunks /\ TakeSeq(c))
        \/ ReaderStep \/ UNCHANGED vars \/ PoolStep \/ LeaderKilled \/ LeaderStep
        \/ \E k \in Children : LeaderChildStep(k) \/ ChildStep(k) \/ ChildKilled(k)
    BY <1>9 DEF Next, Terminated
  <1> QED BY <1>1, <1>2, <1>3, <1>4, <1>5, <1>6, <1>7, <1>8, <1>a

\* No child is ever given a second command before it has answered the first: each
\* chunk's timer covers one render of its child.
THEOREM OneRenderPerChildAlways == Spec => []OneRenderPerChild
  <1>1. Init => SocketInv
    BY DEF Init, SocketInv, SocketSound, Quiet, AtMostOne, ChildLive
  <1>2. DemuxInv /\ SocketInv /\ [Next]_vars => SocketInv' BY SocketInvStep DEF DemuxInv
  <1>3. DemuxInv /\ SocketInv => OneRenderPerChild
    <2> SUFFICES ASSUME DemuxInv, SocketInv, NEW k \in Children
                 PROVE  Len(toChild[k]) + Len(fromChild[k])
                           + (IF child[k] = "render" THEN 1 ELSE 0) <= 1
      BY DEF OneRenderPerChild
    <2>1. AtMostOne(k) BY DEF SocketInv, SocketSound
    <2>2. toChild[k] \in Seq(Command) /\ fromChild[k] \in Seq(Reply)
      BY DEF DemuxInv, TypeOK, ChildTypeOK
    <2>3. \/ toChild[k] = <<>> /\ Len(toChild[k]) = 0
          \/ toChild[k] # <<>> /\ Len(toChild[k]) = 1
      BY <2>1, <2>2, ShortQueue DEF AtMostOne
    <2>4. \/ fromChild[k] = <<>> /\ Len(fromChild[k]) = 0
          \/ fromChild[k] # <<>> /\ Len(fromChild[k]) = 1
      BY <2>1, <2>2, ShortQueue DEF AtMostOne
    <2>5. CASE toChild[k] # <<>>
      <3>1. fromChild[k] = <<>> /\ child[k] # "render" BY <2>1, <2>5 DEF AtMostOne
      <3>2. Len(toChild[k]) = 1 /\ Len(fromChild[k]) = 0 BY <2>3, <2>4, <2>5, <3>1, Zenon
      <3>3. (IF child[k] = "render" THEN 1 ELSE 0) = 0 BY <3>1
      <3> QED BY <3>2, <3>3
    <2>6. CASE toChild[k] = <<>> /\ fromChild[k] # <<>>
      <3>1. child[k] # "render" BY <2>1, <2>6 DEF AtMostOne
      <3>2. Len(toChild[k]) = 0 /\ Len(fromChild[k]) = 1 BY <2>3, <2>4, <2>6, <3>1, Zenon
      <3>3. (IF child[k] = "render" THEN 1 ELSE 0) = 0 BY <3>1
      <3> QED BY <3>2, <3>3
    <2>7. CASE toChild[k] = <<>> /\ fromChild[k] = <<>> BY <2>3, <2>4, <2>7
    <2> QED BY <2>5, <2>6, <2>7
  <1> QED BY <1>1, <1>2, <1>3, DemuxInvariant, PTL DEF Spec

-----------------------------------------------------------------------------
(* Flow is inductive, given the demultiplexer's invariant and the sockets. *)

\* Every render command of q is one of r, and q has none twice if r has none twice.
Within(q, r) ==
    /\ NoDup(r) => NoDup(q)
    /\ \A i \in 1..Len(q) : q[i].op = "render" => \E j \in 1..Len(r) : q[i] = r[j]

\* A queue from which lines were read, or to which something else was written.
LEMMA WithinQueue ==
    ASSUME NEW q \in Seq(Command)
    PROVE  /\ Within(q, q) /\ Within(<<>>, q)
           /\ q # <<>> => Within(Tail(q), q)
           /\ \A m \in Command : m.op # "render" => Within(Append(q, m), q)
  <1>1. Within(q, q) BY DEF Within
  <1>2. Within(<<>>, q)
    <2>1. Len(<<>>) = 0 OBVIOUS
    <2> QED BY <2>1 DEF Within, NoDup
  <1>3. ASSUME q # <<>> PROVE Within(Tail(q), q)
    <2>1. /\ Len(q) \in Nat /\ Len(Tail(q)) = Len(q) - 1
          /\ \A i \in 1..Len(Tail(q)) : i + 1 \in 1..Len(q) /\ Tail(q)[i] = q[i + 1]
      BY <1>3
    <2>2. NoDup(q) => NoDup(Tail(q)) BY <2>1 DEF NoDup
    <2> QED BY <2>1, <2>2 DEF Within
  <1>4. ASSUME NEW m \in Command, m.op # "render" PROVE Within(Append(q, m), q)
    <2> DEFINE r == Append(q, m)
    <2>1. /\ Len(q) \in Nat /\ Len(r) = Len(q) + 1 /\ r[Len(q) + 1] = m
          /\ \A i \in 1..Len(q) : r[i] = q[i]
      OBVIOUS
    <2> HIDE DEF r
    <2>2. \A i \in 1..Len(r) : r[i].op = "render" => i \in 1..Len(q) /\ r[i] = q[i]
      BY <1>4, <2>1
    <2>3. NoDup(q) => NoDup(r) BY <2>2 DEF NoDup
    <2>4. Within(r, q) BY <2>2, <2>3 DEF Within
    <2> QED BY <2>4 DEF r
  <1> QED BY <1>1, <1>2, <1>3, <1>4

\* A queue asks for no render that the queue it came from did not ask for.
LEMMA WithinAsks ==
    ASSUME NEW q, NEW r, NEW c, Within(q, r), Asks(q, c)
    PROVE  Asks(r, c)
  BY DEF Within, Asks

\* The first command of a queue is not there a second time.
LEMMA HeadOnce ==
    ASSUME NEW q \in Seq(Command), q # <<>>, Head(q).op = "render"
    PROVE  /\ Asks(q, Head(q).who) /\ 1 \in 1..Len(q) /\ q[1] = Head(q)
           /\ NoDup(q) => ~Asks(Tail(q), Head(q).who)
  <1>1. /\ Len(q) \in Nat /\ Len(Tail(q)) = Len(q) - 1 /\ 1 \in 1..Len(q) /\ q[1] = Head(q)
        /\ \A i \in 1..Len(Tail(q)) : /\ i + 1 \in 1..Len(q) /\ Tail(q)[i] = q[i + 1]
                                      /\ i + 1 # 1
    OBVIOUS
  <1> QED BY <1>1 DEF Asks, NoDup

\* A queue to which a command that it does not hold yet is written.
LEMMA AppendOnce ==
    ASSUME NEW q \in Seq(Command), NEW m \in Command, ~Asks(q, m.who)
    PROVE  /\ NoDup(q) => NoDup(Append(q, m))
           /\ \A c : Asks(Append(q, m), c) => Asks(q, c) \/ c = m.who
           /\ \A i \in 1..Len(Append(q, m)) :
                 Append(q, m)[i] = m \/ (i \in 1..Len(q) /\ Append(q, m)[i] = q[i])
  <1> DEFINE r == Append(q, m)
  <1>1. /\ Len(q) \in Nat /\ Len(r) = Len(q) + 1 /\ r[Len(q) + 1] = m
        /\ \A i \in 1..Len(q) : r[i] = q[i]
    OBVIOUS
  <1> HIDE DEF r
  <1>2. \A i \in 1..Len(r) : (i = Len(q) + 1 /\ r[i] = m) \/ (i \in 1..Len(q) /\ r[i] = q[i])
    BY <1>1
  <1>3. NoDup(q) => NoDup(r)
    <2> SUFFICES ASSUME NoDup(q), NEW i \in 1..Len(r), NEW j \in 1..Len(r),
                        r[i].op = "render", r[j].op = "render", r[i].who = r[j].who
                 PROVE  i = j
      BY DEF NoDup
    <2>1. CASE i = Len(q) + 1 /\ r[i] = m BY <1>2, <2>1 DEF Asks
    <2>2. CASE j = Len(q) + 1 /\ r[j] = m BY <1>2, <2>2 DEF Asks
    <2>3. CASE i \in 1..Len(q) /\ j \in 1..Len(q) /\ r[i] = q[i] /\ r[j] = q[j]
      BY <2>3 DEF NoDup
    <2> QED BY <1>2, <2>1, <2>2, <2>3
  <1>4. \A c : Asks(r, c) => Asks(q, c) \/ c = m.who BY <1>2 DEF Asks
  <1>5. \A i \in 1..Len(r) : r[i] = m \/ (i \in 1..Len(q) /\ r[i] = q[i]) BY <1>2
  <1> QED BY <1>3, <1>4, <1>5 DEF r

\* The queues by name.
LEMMA QueueNames ==
    ASSUME TypeOK
    PROVE  /\ 0 \in Queues /\ NumChildren + 1 \in Queues /\ NumChildren + 1 # 0
           /\ Queue(0) = lines /\ Queue(NumChildren + 1) = stdin
           /\ \A k \in Children : /\ k \in Queues /\ k # 0 /\ k # NumChildren + 1
                                  /\ Queue(k) = toChild[k]
           /\ \A x \in Queues : x = 0 \/ x = NumChildren + 1 \/ x \in Children
           /\ \A x \in Queues : Queue(x) \in Seq(Command)
  <1>1. /\ 0 \in Queues /\ NumChildren + 1 \in Queues /\ NumChildren + 1 # 0
        /\ 0 \notin Children /\ NumChildren + 1 \notin Children
        /\ \A k \in Children : k \in Queues /\ k # 0 /\ k # NumChildren + 1
        /\ \A x \in Queues : x = 0 \/ x = NumChildren + 1 \/ x \in Children
    BY PoolFacts DEF Queues, Children
  <1>2. lines \in Seq(Command) /\ stdin \in Seq(Command) /\ toChild \in [Children -> Seq(Command)]
    BY DEF TypeOK, LeaderTypeOK, ChildTypeOK
  <1>3. \A x \in Queues : Queue(x) \in Seq(Command) BY <1>1, <1>2 DEF Queue
  <1> QED BY <1>1, <1>3 DEF Queue

\* What every step leaves as it is: a call keeps its number, and a written command
\* stays written.
CallsKept ==
    /\ seq' \in {seq, seq + 1}
    /\ \A c \in Callers :
          /\ pc[c] # "idle" => pc'[c] # "idle" /\ seqOf'[c] = seqOf[c]
          /\ pc[c] = "idle" /\ pc'[c] # "idle" => seqOf'[c] = seq + 1
          /\ pc[c] \in Written => pc'[c] \in Written

\* Every step does: each call step names its one successor, the others leave all calls.
LEMMA CallsAlwaysKept ==
    ASSUME DemuxInv, [Next]_vars
    PROVE  CallsKept
  <1> USE DEF DemuxInv, TypeOK, GoTypeOK, CallsKept, Written, Returned
  <1>1. ASSUME NEW c \in Chunks, TakeSeq(c) PROVE CallsKept
    <2>1. c \in Callers BY DEF Callers
    <2> QED BY <1>1, <2>1 DEF TakeSeq
  <1>2. ASSUME NEW c \in Callers, CallerStep(c) PROVE CallsKept
    <2>1. UNCHANGED <<seq, seqOf>>
      BY <1>2 DEF CallerStep, Register, Write, Receive, Timeout
    <2>2. CASE Register(c) BY <2>1, <2>2 DEF Register
    <2>3. CASE Write(c)
      <3>1. pc[c] = "registered" /\ \E r \in {"await", "error"} : pc' = [pc EXCEPT ![c] = r]
        BY <2>3 DEF Write, ReturnAs
      <3> QED BY <2>1, <3>1
    <2>4. CASE Timeout(c) BY <2>1, <2>4 DEF Timeout, ReturnAs
    <2>5. CASE Receive(c)
      <3>1. Head(chan[c]).status \in Returned
        BY <2>5, PipeTypes, MessageTypes DEF Receive, Status
      <3> QED BY <2>1, <2>5, <3>1 DEF Receive, ReturnAs
    <2> QED BY <1>2, <2>2, <2>3, <2>4, <2>5 DEF CallerStep
  <1>3. CASE UNCHANGED <<pc, seq, seqOf>> BY <1>3
  <1>4. ReaderStep \/ PoolStep \/ LeaderStep \/ LeaderKilled \/ UNCHANGED vars
          => UNCHANGED <<pc, seq, seqOf>>
    BY DEF ReaderStep, ReadLine, Deliver, ReadEof, PoolStep, OpenFails, OpenSucceeds,
       BeginClose, CloseWaited, CloseKills, LeaderStep, LeaderBootFails, LeaderExits,
       LeaderLoads, LeaderDrainsStdin, LeaderQuits, LeaderStartsInline,
       LeaderFinishesInline, LeaderShutsDown, LeaderReaps, LeaderKilled, goVars, vars
  <1>5. ASSUME NEW k \in Children, LeaderChildStep(k) \/ ChildStep(k) \/ ChildKilled(k)
        PROVE  UNCHANGED <<pc, seq, seqOf>>
    BY <1>5 DEF LeaderChildStep, LeaderAssignsChild, LeaderForwards, LeaderSeesChildEof,
       ChildStep, ChildTakes, ChildFinishes, ChildExits, ChildKilled, ChildDies, goVars
  <1> QED BY <1>1, <1>2, <1>3, <1>4, <1>5 DEF Next, Terminated

\* A file is only ever begun for a command that was written, and then finished.
WorkMoves ==
    \A c \in Chunks : work'[c] # work[c] =>
        /\ pc[c] \in Written
        /\ \/ work[c] = "none" /\ work'[c] = "rendering"
           \/ work[c] = "rendering" /\ work'[c] \in Status

\* A truthful reply stays truthful.
LEMMA TruthKept ==
    ASSUME DemuxInv, CallsKept, WorkMoves, NEW r \in Reply, ReplySound(r)
    PROVE  Truthful(r, seq', pc', seqOf', work')
  <1>1. seq \in Nat /\ r.seq \in Nat /\ r.seq <= seq /\ r.status \in Status
    BY MessageTypes DEF DemuxInv, TypeOK, GoTypeOK, ReplySound, Truthful
  <1>2. r.seq <= seq' BY <1>1 DEF CallsKept
  <1>3. ASSUME NEW c \in Chunks, pc'[c] # "idle", seqOf'[c] = r.seq
        PROVE  r.status = "error" \/ work'[c] = r.status
    <2>1. c \in Callers BY DEF Callers
    <2>2. pc[c] # "idle" /\ seqOf[c] = r.seq BY <1>1, <1>3, <2>1 DEF CallsKept
    <2>3. r.status = "error" \/ work[c] = r.status BY <2>2 DEF ReplySound, Truthful
    <2> QED BY <1>1, <2>3 DEF WorkMoves, Status
  <1> QED BY <1>2, <1>3 DEF Truthful

\* Commands that stay, or are dropped.
LEMMA CommandsFrame ==
    ASSUME DemuxInv, CommandsSound, CallsKept, WorkMoves,
           \A x \in Queues : Within(Queue(x)', Queue(x)),
           \A x \in Queues, c \in Chunks : Asks(Queue(x)', c) => work'[c] = work[c]
    PROVE  CommandsSound'
  <1>1. ASSUME NEW x \in Queues, NEW i \in 1..Len(Queue(x)'), (Queue(x)')[i].op = "render"
        PROVE  LET m == (Queue(x)')[i] IN
               /\ m.who \in Chunks /\ m.seq = seqOf'[m.who]
               /\ pc'[m.who] \in Written /\ work'[m.who] = "none"
    <2> DEFINE m == (Queue(x)')[i]
    <2>1. PICK j \in 1..Len(Queue(x)) : m = Queue(x)[j] BY <1>1 DEF Within
    <2>2. CommandSound(m) BY <2>1 DEF CommandsSound
    <2>3. /\ m.who \in Chunks /\ m.seq = seqOf[m.who]
          /\ pc[m.who] \in Written /\ work[m.who] = "none"
      BY <1>1, <2>2 DEF CommandSound
    <2>4. Asks(Queue(x)', m.who) BY <1>1 DEF Asks
    <2>5. m.who \in Callers /\ pc[m.who] # "idle"
      BY <2>3 DEF Callers, Written, Returned
    <2> QED BY <2>3, <2>4, <2>5 DEF CallsKept
  <1>3. \A x \in Queues : NoDup(Queue(x)') BY DEF Within, CommandsSound
  <1>4. \A x, y \in Queues, c \in Chunks : Asks(Queue(x)', c) /\ Asks(Queue(y)', c) => x = y
    BY WithinAsks DEF CommandsSound
  <1>5. \A c \in Chunks : pc'[c] \notin Written => work'[c] = "none"
    BY DEF CallsKept, WorkMoves, CommandsSound, Callers
  <1> QED BY <1>1, <1>3, <1>4, <1>5 DEF CommandsSound, CommandSound

\* Renders that go on.
LEMMA RendersFrame ==
    ASSUME DemuxInv, RendersSound, CallsKept,
           \A w \in Workers : InRender(w)' => /\ InRender(w) /\ cur'[w] = cur[w]
                                              /\ work'[cur[w].who] = work[cur[w].who]
    PROVE  RendersSound'
  <1>1. ASSUME NEW w \in Workers, InRender(w)'
        PROVE  /\ cur'[w].who \in Chunks /\ cur'[w].seq = seqOf'[cur'[w].who]
               /\ pc'[cur'[w].who] \in Written /\ work'[cur'[w].who] = "rendering"
    <2>1. /\ InRender(w) /\ cur'[w] = cur[w]
          /\ work'[cur[w].who] = work[cur[w].who]
      BY <1>1
    <2>2. /\ cur[w].who \in Chunks /\ cur[w].seq = seqOf[cur[w].who]
          /\ pc[cur[w].who] \in Written /\ work[cur[w].who] = "rendering"
      BY <2>1 DEF RendersSound
    <2>3. cur[w].who \in Callers /\ pc[cur[w].who] # "idle"
      BY <2>2 DEF Callers, Written, Returned
    <2> QED BY <2>1, <2>2, <2>3 DEF CallsKept
  <1>2. \A w, v \in Workers :
           InRender(w)' /\ InRender(v)' /\ cur'[w].who = cur'[v].who => w = v
    BY DEF RendersSound
  <1> QED BY <1>1, <1>2 DEF RendersSound

\* Worker u begins the command m.
LEMMA RenderBegins ==
    ASSUME DemuxInv, RendersSound, NEW u \in Workers, NEW m \in Command,
           m.op = "render", CommandSound(m),
           \A w \in Workers : w # u => (InRender(w)' <=> InRender(w)),
           cur' = [cur EXCEPT ![u] = m], UNCHANGED <<pc, seqOf>>,
           work' = [work EXCEPT ![m.who] = "rendering"]
    PROVE  RendersSound'
  <1>1. /\ m.who \in Chunks /\ m.seq = seqOf[m.who]
        /\ pc[m.who] \in Written /\ work[m.who] = "none"
    BY DEF CommandSound
  <1>2. /\ cur'[u] = m /\ work'[m.who] = "rendering"
        /\ \A w \in Workers : w # u => cur'[w] = cur[w]
        /\ \A c \in Chunks : c # m.who => work'[c] = work[c]
    BY <1>1 DEF DemuxInv, TypeOK, ChildTypeOK
  <1>3. \A w \in Workers : w # u /\ InRender(w) => cur[w].who # m.who
    BY <1>1 DEF RendersSound
  <1>4. ASSUME NEW w \in Workers, InRender(w)'
        PROVE  /\ cur'[w].who \in Chunks /\ cur'[w].seq = seqOf[cur'[w].who]
               /\ pc[cur'[w].who] \in Written /\ work'[cur'[w].who] = "rendering"
    <2>1. CASE w = u BY <1>1, <1>2, <2>1
    <2>2. CASE w # u
      <3>1. InRender(w) /\ cur'[w] = cur[w] /\ cur[w].who # m.who
        BY <1>2, <1>3, <1>4, <2>2
      <3> QED BY <1>2, <3>1 DEF RendersSound
    <2> QED BY <2>1, <2>2
  <1>5. ASSUME NEW w \in Workers, NEW v \in Workers, InRender(w)', InRender(v)',
               cur'[w].who = cur'[v].who
        PROVE  w = v
    <2>1. CASE w = u \/ v = u BY <1>2, <1>3, <1>5, <2>1
    <2>2. CASE w # u /\ v # u
      <3>1. InRender(w) /\ InRender(v) /\ cur[w].who = cur[v].who BY <1>2, <1>5, <2>2
      <3> QED BY <3>1 DEF RendersSound
    <2> QED BY <2>1, <2>2
  <1> QED BY <1>4, <1>5 DEF RendersSound

\* Replies that were there, or are truthful when they are written.
LEMMA RepliesFrame ==
    ASSUME DemuxInv, TypeOK', RepliesSound, CallsKept, WorkMoves, UNCHANGED <<reader, hand, chan>>,
           \A i \in 1..Len(stdout') :
              \/ \E j \in 1..Len(stdout) : stdout'[i] = stdout[j]
              \/ Truthful(stdout'[i], seq', pc', seqOf', work')
              \/ \E k \in Children : \E j \in 1..Len(fromChild[k]) : stdout'[i] = fromChild[k][j],
           \A k \in Children : \A i \in 1..Len(fromChild'[k]) :
              \/ \E j \in 1..Len(fromChild[k]) : fromChild'[k][i] = fromChild[k][j]
              \/ Truthful(fromChild'[k][i], seq', pc', seqOf', work')
    PROVE  RepliesSound'
  <1> USE DEF DemuxInv, TypeOK
  <1>1. \A i \in 1..Len(stdout) : stdout[i] \in Reply BY DEF LeaderTypeOK
  <1>2. \A k \in Children : \A i \in 1..Len(fromChild[k]) : fromChild[k][i] \in Reply
    <2> TAKE k \in Children
    <2>1. fromChild[k] \in Seq(Reply) BY DEF ChildTypeOK
    <2> QED BY <2>1
  <1>3. \A i \in 1..Len(stdout') : Truthful(stdout'[i], seq', pc', seqOf', work')
    BY <1>1, <1>2, TruthKept DEF RepliesSound
  <1>4. \A k \in Children : \A i \in 1..Len(fromChild'[k]) :
           Truthful(fromChild'[k][i], seq', pc', seqOf', work')
    BY <1>2, TruthKept DEF RepliesSound
  <1>5. ASSUME reader = "deliver"
        PROVE  /\ Truthful(hand.reply, seq', pc', seqOf', work')
               /\ hand.reply.seq = seqOf'[hand.to]
    <2>1. hand.reply \in Reply /\ hand.to \in Callers BY DEF GoTypeOK
    <2>2. pc[hand.to] # "idle" BY <1>5, <2>1 DEF Demux, NothingEarly, InHand
    <2> QED BY <1>5, <2>1, <2>2, TruthKept DEF RepliesSound, CallsKept
  <1>6. ASSUME NEW c \in Callers, chan[c] # <<>>
        PROVE  /\ Truthful(Head(chan[c]), seq', pc', seqOf', work')
               /\ Head(chan[c]).seq = seqOf'[c]
    <2>1. Head(chan[c]) \in Reply BY <1>6, PipeTypes DEF GoTypeOK
    <2>2. pc[c] # "idle" BY <1>6 DEF Demux, NothingEarly
    <2> QED BY <1>6, <2>1, <2>2, TruthKept DEF RepliesSound, CallsKept
  <1> QED BY <1>3, <1>4, <1>5, <1>6 DEF RepliesSound, ReplySound

\* A reply that a worker writes for the command it has rendered is truthful.
LEMMA ReplyWritten ==
    ASSUME DemuxInv, RendersSound, NEW w \in Workers, InRender(w), NEW st \in Status,
           UNCHANGED <<seq, pc, seqOf>>, work' = [work EXCEPT ![cur[w].who] = st]
    PROVE  Truthful([seq |-> cur[w].seq, status |-> st], seq', pc', seqOf', work')
  <1> DEFINE b == cur[w].who
  <1>1. b \in Chunks /\ cur[w].seq = seqOf[b] /\ pc[b] # "idle"
    BY DEF RendersSound, Written, Returned
  <1>2. seqOf[b] \in 1..seq /\ seq \in Nat
    BY <1>1 DEF DemuxInv, Demux, SeqsDistinct, TypeOK, GoTypeOK
  <1>3. \A c \in Chunks : pc[c] # "idle" /\ seqOf[c] = seqOf[b] => c = b
    BY <1>1 DEF DemuxInv, Demux, SeqsDistinct
  <1>4. work'[b] = st BY <1>1 DEF DemuxInv, TypeOK, ChildTypeOK
  <1>5. cur[w].seq <= seq BY <1>1, <1>2
  <1> QED BY <1>1, <1>3, <1>4, <1>5 DEF Truthful

\* Lines that stay in a queue of replies.
LEMMA ReplyQueue ==
    ASSUME NEW q \in Seq(Reply)
    PROVE  /\ \A r \in Reply : \A i \in 1..Len(Append(q, r)) :
                 (\E j \in 1..Len(q) : Append(q, r)[i] = q[j]) \/ Append(q, r)[i] = r
           /\ q # <<>> => \A i \in 1..Len(Tail(q)) : \E j \in 1..Len(q) : Tail(q)[i] = q[j]
           /\ q # <<>> => \E j \in 1..Len(q) : Head(q) = q[j]
  <1>1. ASSUME NEW r \in Reply, NEW i \in 1..Len(Append(q, r))
        PROVE  (\E j \in 1..Len(q) : Append(q, r)[i] = q[j]) \/ Append(q, r)[i] = r
    BY <1>1
  <1>2. ASSUME q # <<>>, NEW i \in 1..Len(Tail(q))
        PROVE  \E j \in 1..Len(q) : Tail(q)[i] = q[j]
    <2>1. i + 1 \in 1..Len(q) /\ Tail(q)[i] = q[i + 1] BY <1>2
    <2> QED BY <2>1
  <1>3. ASSUME q # <<>> PROVE \E j \in 1..Len(q) : Head(q) = q[j]
    <2>1. 1 \in 1..Len(q) /\ Head(q) = q[1] BY <1>3
    <2> QED BY <2>1
  <1> QED BY <1>1, <1>2, <1>3

\* Steps that only drop commands, write quit or hand replies on.
LEMMA FlowFrame ==
    ASSUME FlowInv, TypeOK', CallsKept, UNCHANGED <<work, cur, reader, hand, chan>>,
           \A x \in Queues : Within(Queue(x)', Queue(x)),
           \A w \in Workers : InRender(w)' => InRender(w),
           \A i \in 1..Len(stdout') :
              \/ \E j \in 1..Len(stdout) : stdout'[i] = stdout[j]
              \/ Truthful(stdout'[i], seq', pc', seqOf', work')
              \/ \E k \in Children : \E j \in 1..Len(fromChild[k]) : stdout'[i] = fromChild[k][j],
           \A k \in Children : \A i \in 1..Len(fromChild'[k]) :
              \E j \in 1..Len(fromChild[k]) : fromChild'[k][i] = fromChild[k][j]
    PROVE  Flow'
  <1> USE DEF FlowInv, Flow
  <1>1. WorkMoves BY DEF WorkMoves
  <1>2. CommandsSound' BY <1>1, CommandsFrame
  <1>3. RendersSound' BY RendersFrame
  <1>4. RepliesSound' BY <1>1, RepliesFrame
  <1> QED BY <1>2, <1>3, <1>4

\* Nothing is written to a queue of commands, and nothing read from it.
LEMMA SameQueues ==
    ASSUME TypeOK, UNCHANGED <<stdin, lines, toChild>>
    PROVE  \A x \in Queues : Queue(x)' = Queue(x) /\ Within(Queue(x)', Queue(x))
  <1>1. \A x \in Queues : Queue(x)' = Queue(x) BY DEF Queue
  <1> QED BY <1>1, QueueNames, WithinQueue

\* The step does not concern the queues, the renders or the replies.
LEMMA FlowStays ==
    ASSUME FlowInv, TypeOK', CallsKept,
           UNCHANGED <<stdin, lines, toChild, stdout, fromChild, reader, hand, chan, cur, work>>,
           \A w \in Workers : InRender(w)' => InRender(w)
    PROVE  Flow'
  <1>1. \A x \in Queues : Within(Queue(x)', Queue(x))
    BY SameQueues DEF FlowInv, DemuxInv
  <1> QED BY <1>1, FlowFrame

\* A call writes its command.
LEMMA WriteFlow ==
    ASSUME FlowInv, TypeOK', CallsKept, NEW b \in Callers, Write(b)
    PROVE  Flow'
  <1> USE DEF FlowInv, Flow, DemuxInv
  <1>0. /\ UNCHANGED <<seq, seqOf, chan, reader, hand, stdout, fromChild, lines, toChild>>
        /\ UNCHANGED <<leader, child, cur, work>> /\ pc[b] = "registered"
    BY DEF Write, leaderVars, childVars
  <1>1. \A w \in Workers : InRender(w)' <=> InRender(w) BY <1>0 DEF InRender
  <1>2. CASE UNCHANGED stdin BY <1>0, <1>1, <1>2, FlowStays
  <1>3. CASE ~UNCHANGED stdin
    <2> DEFINE m == IF b = Loader THEN LoadCmd
                    ELSE [op |-> "render", seq |-> seqOf[b], who |-> b]
    <2>1. LeaderLive /\ stdin' = Append(stdin, m) /\ pc' = [pc EXCEPT ![b] = "await"]
      BY <1>3 DEF Write
    <2>2. m \in Command BY MessageTypes DEF TypeOK, GoTypeOK
    <2>3. CASE b = Loader
      <3>1. m.op # "render" BY <2>3 DEF LoadCmd
      <3>2. stdin \in Seq(Command) BY DEF TypeOK, LeaderTypeOK
      <3> HIDE DEF m
      <3>3. Within(stdin', stdin) BY <2>1, <2>2, <3>1, <3>2, WithinQueue
      <3>4. \A x \in Queues : Within(Queue(x)', Queue(x))
        <4>1. \A x \in Queues : Within(Queue(x), Queue(x)) BY QueueNames, WithinQueue
        <4> QED BY <1>0, <3>3, <4>1 DEF Queue
      <3> QED BY <1>0, <1>1, <3>4, FlowFrame
    <2>4. CASE b # Loader
      <3>1. /\ b \in Chunks /\ m.who = b /\ m.op = "render" /\ m.seq = seqOf[b]
        BY <2>4 DEF Callers
      <3>2. WorkMoves BY <1>0 DEF WorkMoves
      <3>3. RendersSound' BY <1>0, <1>1, RendersFrame
      <3>4. RepliesSound' BY <1>0, <3>2, RepliesFrame
      <3>5. pc[b] \notin Written /\ work[b] = "none" /\ pc'[b] \in Written
        <4>1. pc[b] \notin Written BY <1>0 DEF Written, Returned
        <4> QED BY <2>1, <3>1, <4>1 DEF CommandsSound, TypeOK, GoTypeOK, Written
      <3>6. \A x \in Queues : ~Asks(Queue(x), b)
        BY <3>5 DEF CommandsSound, CommandSound, Asks
      <3> DEFINE n == NumChildren + 1
      <3>7. /\ n \in Queues /\ Queue(n) = stdin /\ Queue(n)' = stdin' /\ stdin \in Seq(Command)
            /\ \A x \in Queues : x # n => Queue(x)' = Queue(x)
        <4>1. \A x \in Queues : x # n => Queue(x)' = Queue(x)
          BY <1>0, QueueNames DEF Queue
        <4>2. Queue(n)' = stdin'
          BY QueueNames, PoolFacts DEF Queue, Children
        <4> QED BY <4>1, <4>2, QueueNames
      <3> HIDE DEF m, n
      <3>8. /\ NoDup(stdin) => NoDup(stdin')
            /\ \A c : Asks(stdin', c) => Asks(stdin, c) \/ c = b
            /\ \A i \in 1..Len(stdin') :
                  stdin'[i] = m \/ (i \in 1..Len(stdin) /\ stdin'[i] = stdin[i])
        BY <2>1, <2>2, <3>1, <3>6, <3>7, AppendOnce
      <3>9. ASSUME NEW x \in Queues, NEW i \in 1..Len(Queue(x)'), (Queue(x)')[i].op = "render"
            PROVE  LET r == (Queue(x)')[i] IN
                   /\ r.who \in Chunks /\ r.seq = seqOf'[r.who]
                   /\ pc'[r.who] \in Written /\ work'[r.who] = "none"
        <4> DEFINE r == (Queue(x)')[i]
        <4>1. CASE r = m BY <1>0, <3>1, <3>5, <4>1
        <4>2. CASE r # m
          <5>1. i \in 1..Len(Queue(x)) /\ r = Queue(x)[i] BY <3>7, <3>8, <4>2
          <5>2. CommandSound(r) BY <5>1 DEF CommandsSound
          <5>3. /\ r.who \in Chunks /\ r.seq = seqOf[r.who]
                /\ pc[r.who] \in Written /\ work[r.who] = "none"
            BY <3>9, <5>2 DEF CommandSound
          <5> QED BY <1>0, <5>3 DEF CallsKept, Callers
        <4> QED BY <4>1, <4>2
      <3>10. \A x \in Queues : NoDup(Queue(x)') BY <3>7, <3>8 DEF CommandsSound
      <3>11. \A x, y \in Queues, c \in Chunks : Asks(Queue(x)', c) /\ Asks(Queue(y)', c) => x = y
        BY <3>6, <3>7, <3>8 DEF CommandsSound
      <3>12. \A c \in Chunks : pc'[c] \notin Written => work'[c] = "none"
        BY <1>0 DEF CallsKept, CommandsSound, Callers
      <3>13. CommandsSound'
        BY <3>9, <3>10, <3>11, <3>12 DEF CommandsSound, CommandSound
      <3> QED BY <3>3, <3>4, <3>13
    <2> QED BY <2>3, <2>4
  <1> QED BY <1>2, <1>3

\* One poll round moves the pipe's lines into the leader.
LEMMA DrainFlow ==
    ASSUME FlowInv, TypeOK', CallsKept, LeaderDrainsStdin
    PROVE  Flow'
  <1> USE DEF FlowInv, Flow, DemuxInv
  <1>0. /\ UNCHANGED <<pc, seq, seqOf, chan, reader, hand, stdout, fromChild, toChild>>
        /\ UNCHANGED <<leader, child, cur, work>>
        /\ lines = <<>> /\ lines' = stdin /\ stdin' = <<>>
    BY DEF LeaderDrainsStdin, goVars, childVars
  <1>1. WorkMoves BY <1>0 DEF WorkMoves
  <1>2. RendersSound' BY <1>0, RendersFrame DEF InRender
  <1>3. RepliesSound' BY <1>0, <1>1, RepliesFrame
  <1> DEFINE n == NumChildren + 1
  <1>4. /\ n \in Queues /\ 0 \in Queues /\ n # 0 /\ Queue(n) = stdin
        /\ Queue(0)' = Queue(n) /\ Queue(n)' = <<>>
        /\ \A x \in Queues : x # n /\ x # 0 => Queue(x)' = Queue(x)
    <2>1. Queue(n)' = stdin' /\ Queue(0)' = lines'
      BY QueueNames, PoolFacts DEF Queue, Children
    <2>2. \A x \in Queues : x # n /\ x # 0 => Queue(x)' = Queue(x)
      BY <1>0, QueueNames DEF Queue
    <2> QED BY <1>0, <2>1, <2>2, QueueNames
  <1> HIDE DEF n
  <1>5. Len(<<>>) = 0 OBVIOUS
  <1>6. NoDup(<<>>) /\ \A c : ~Asks(<<>>, c) BY <1>5 DEF NoDup, Asks
  <1>7. ASSUME NEW x \in Queues, NEW i \in 1..Len(Queue(x)')
        PROVE  CommandSound((Queue(x)')[i])
    <2>1. x # n BY <1>4, <1>5, <1>7
    <2> QED BY <1>4, <1>7, <2>1 DEF CommandsSound
  <1>8. \A x \in Queues : NoDup(Queue(x)') BY <1>4, <1>6 DEF CommandsSound
  <1>9. ASSUME NEW x \in Queues, NEW y \in Queues, NEW c \in Chunks,
               Asks(Queue(x)', c), Asks(Queue(y)', c)
        PROVE  x = y
    <2>1. x # n /\ y # n BY <1>4, <1>6, <1>9
    <2> DEFINE old(z) == IF z = 0 THEN n ELSE z
    <2>2. old(x) \in Queues /\ old(y) \in Queues BY <1>4
    <2>3. Asks(Queue(old(x)), c) /\ Asks(Queue(old(y)), c) BY <1>4, <1>9, <2>1
    <2>4. old(x) = old(y) BY <2>2, <2>3 DEF CommandsSound
    <2> QED BY <2>1, <2>4
  <1>10. CommandsSound'
    BY <1>0, <1>7, <1>8, <1>9 DEF CommandsSound, CommandSound
  <1> QED BY <1>2, <1>3, <1>10

\* The leader hands its first line to child k.
LEMMA AssignFlow ==
    ASSUME FlowInv, TypeOK', CallsKept, NEW k \in Children, LeaderAssignsChild(k)
    PROVE  Flow'
  <1> USE DEF FlowInv, Flow, DemuxInv
  <1>0. /\ UNCHANGED <<pc, seq, seqOf, chan, reader, hand, stdin, stdout, fromChild>>
        /\ UNCHANGED <<child, cur, work>>
        /\ lines # <<>> /\ Head(lines).op = "render" /\ leader = "poll" /\ ~busy[k]
    BY DEF LeaderAssignsChild, goVars, FirstIdle
  <1>1. \A w \in Workers : InRender(w)' => InRender(w)
    BY <1>0 DEF InRender, LeaderAssignsChild
  <1>2. CASE UNCHANGED <<lines, toChild>> BY <1>0, <1>1, <1>2, FlowStays
  <1>3. CASE ChildLive(k)
    <2> DEFINE m == Head(lines)
    <2>1. /\ toChild' = [toChild EXCEPT ![k] = Append(toChild[k], m)] /\ lines' = Tail(lines)
      BY <1>3 DEF LeaderAssignsChild
    <2>2. toChild[k] = <<>> BY <1>0 DEF SocketInv, SocketSound, Quiet
    <2>3. toChild'[k] = <<m>> /\ \A j \in Children : j # k => toChild'[j] = toChild[j]
      <3>1. toChild'[k] = Append(<<>>, m) /\ \A j \in Children : j # k => toChild'[j] = toChild[j]
        BY <2>1, <2>2 DEF TypeOK, ChildTypeOK
      <3> QED BY <3>1, FirstLine
    <2>4. /\ m \in Command /\ Asks(lines, m.who) /\ 1 \in 1..Len(lines) /\ lines[1] = m
          /\ NoDup(lines) => ~Asks(Tail(lines), m.who)
      BY <1>0, HeadOnce, PipeTypes DEF TypeOK, LeaderTypeOK
    <2>5. /\ 0 \in Queues /\ k \in Queues /\ k # 0 /\ Queue(0) = lines /\ Queue(k) = toChild[k]
          /\ Queue(0)' = Tail(lines) /\ Queue(k)' = <<m>>
          /\ \A x \in Queues : x # k /\ x # 0 => Queue(x)' = Queue(x)
      <3>1. Queue(0)' = lines' /\ Queue(k)' = toChild'[k]
        BY QueueNames DEF Queue
      <3>2. \A x \in Queues : x # k /\ x # 0 => Queue(x)' = Queue(x)
        BY <1>0, <2>3, QueueNames DEF Queue
      <3> QED BY <2>1, <2>3, <3>1, <3>2, QueueNames
    <2>6. CommandSound(m) BY <2>4, <2>5 DEF CommandsSound
    <2>7. m.who \in Chunks /\ m.op = "render" BY <1>0, <2>6 DEF CommandSound
    <2>8. Within(Tail(lines), lines) BY <1>0, WithinQueue DEF TypeOK, LeaderTypeOK
    <2> HIDE DEF m
    <2>9. Len(<<m>>) = 1 /\ <<m>>[1] = m OBVIOUS
    <2>10. NoDup(<<m>>) /\ \A c : Asks(<<m>>, c) => c = m.who BY <2>9 DEF NoDup, Asks
    <2>11. ASSUME NEW x \in Queues, NEW i \in 1..Len(Queue(x)'), (Queue(x)')[i].op = "render"
           PROVE  CommandSound((Queue(x)')[i])
      <3>1. CASE x = k
        <4>1. Queue(x)' = <<m>> BY <2>5, <3>1
        <4>2. i = 1 BY <2>9, <2>11, <4>1
        <4>3. (Queue(x)')[i] = m BY <2>9, <4>1, <4>2, Zenon
        <4> QED BY <2>6, <4>3, Zenon
      <3>2. CASE x = 0
        <4>1. PICK j \in 1..Len(lines) : (Queue(x)')[i] = lines[j]
          <5>1. Queue(x)' = Tail(lines) BY <2>5, <3>2
          <5> QED BY <2>8, <2>11, <5>1, Zenon DEF Within
        <4> QED BY <2>5, <4>1 DEF CommandsSound
      <3>3. CASE x # k /\ x # 0 BY <2>5, <2>11, <3>3 DEF CommandsSound
      <3> QED BY <3>1, <3>2, <3>3
    <2>12. \A x \in Queues : NoDup(Queue(x)')
      BY <2>5, <2>8, <2>10 DEF CommandsSound, Within
    <2>13. ~Asks(Tail(lines), m.who) BY <2>4, <2>5 DEF CommandsSound
    <2>14. \A x \in Queues : x # k => ~Asks(Queue(x)', m.who)
      BY <2>4, <2>5, <2>7, <2>13 DEF CommandsSound
    <2>15. \A x \in Queues, c \in Chunks : x # k /\ Asks(Queue(x)', c) => Asks(Queue(x), c)
      BY <2>5, <2>8, WithinAsks
    <2>16. ASSUME NEW x \in Queues, NEW y \in Queues, NEW c \in Chunks,
                  Asks(Queue(x)', c), Asks(Queue(y)', c)
           PROVE  x = y
      <3>1. CASE x = k \/ y = k BY <2>5, <2>10, <2>14, <2>16, <3>1
      <3>2. CASE x # k /\ y # k BY <2>15, <2>16, <3>2 DEF CommandsSound
      <3> QED BY <3>1, <3>2
    <2>17. CommandsSound'
      BY <1>0, <2>11, <2>12, <2>16 DEF CommandsSound, CommandSound
    <2>18. WorkMoves BY <1>0 DEF WorkMoves
    <2>19. RendersSound' BY <1>0, <1>1, RendersFrame
    <2>20. RepliesSound' BY <1>0, <2>18, RepliesFrame
    <2> QED BY <2>17, <2>19, <2>20
  <1> QED BY <1>2, <1>3 DEF LeaderAssignsChild

\* Worker u begins the command at the head of queue z.
LEMMA StartFlow ==
    ASSUME FlowInv, TypeOK', CallsKept, NEW u \in Workers, NEW z \in Queues,
           Queue(z) # <<>>, Head(Queue(z)).op = "render", Queue(z)' = Tail(Queue(z)),
           \A x \in Queues : x # z => Queue(x)' = Queue(x),
           \A w \in Workers : w # u => (InRender(w)' <=> InRender(w)),
           cur' = [cur EXCEPT ![u] = Head(Queue(z))],
           work' = [work EXCEPT ![Head(Queue(z)).who] = "rendering"],
           UNCHANGED <<pc, seq, seqOf, chan, reader, hand, stdout, fromChild>>
    PROVE  Flow'
  <1> USE DEF FlowInv, Flow, DemuxInv
  <1> DEFINE m == Head(Queue(z))
  <1>1. Queue(z) \in Seq(Command) /\ \A x \in Queues : Queue(x) \in Seq(Command)
    BY QueueNames
  <1>2. /\ m \in Command /\ Asks(Queue(z), m.who) /\ 1 \in 1..Len(Queue(z)) /\ Queue(z)[1] = m
        /\ ~Asks(Tail(Queue(z)), m.who)
    BY <1>1, HeadOnce, PipeTypes DEF CommandsSound
  <1>3. CommandSound(m) BY <1>2 DEF CommandsSound
  <1>4. m.who \in Chunks /\ pc[m.who] \in Written /\ work[m.who] = "none"
    BY <1>3 DEF CommandSound
  <1>5. work'[m.who] = "rendering" /\ \A c \in Chunks : c # m.who => work'[c] = work[c]
    BY <1>4 DEF TypeOK, ChildTypeOK
  <1>6. WorkMoves BY <1>4, <1>5 DEF WorkMoves
  <1>7. \A x \in Queues : Within(Queue(x)', Queue(x)) BY <1>1, WithinQueue
  <1>8. \A x \in Queues : ~Asks(Queue(x)', m.who)
    BY <1>2, <1>4 DEF CommandsSound
  <1>9. \A x \in Queues, c \in Chunks : Asks(Queue(x)', c) => work'[c] = work[c]
    BY <1>5, <1>8
  <1>10. CommandsSound' BY <1>6, <1>7, <1>9, CommandsFrame
  <1>11. RendersSound' BY <1>2, <1>3, RenderBegins
  <1>12. RepliesSound' BY <1>6, RepliesFrame
  <1> QED BY <1>10, <1>11, <1>12

\* Worker u ends its render, and replies on stdout or on its socket.
LEMMA FinishFlow ==
    ASSUME FlowInv, TypeOK', CallsKept, NEW u \in Workers, NEW st \in Status,
           InRender(u), ~InRender(u)',
           \A w \in Workers : w # u => (InRender(w)' <=> InRender(w)),
           work' = [work EXCEPT ![cur[u].who] = st],
           UNCHANGED <<pc, seq, seqOf, chan, reader, hand, stdin, lines, toChild, cur>>,
           \A i \in 1..Len(stdout') :
              \/ \E j \in 1..Len(stdout) : stdout'[i] = stdout[j]
              \/ stdout'[i] = [seq |-> cur[u].seq, status |-> st],
           \A k \in Children : \A i \in 1..Len(fromChild'[k]) :
              \/ \E j \in 1..Len(fromChild[k]) : fromChild'[k][i] = fromChild[k][j]
              \/ fromChild'[k][i] = [seq |-> cur[u].seq, status |-> st]
    PROVE  Flow'
  <1> USE DEF FlowInv, Flow, DemuxInv
  <1> DEFINE b == cur[u].who
  <1>1. b \in Chunks /\ pc[b] \in Written /\ work[b] = "rendering" BY DEF RendersSound
  <1>2. work'[b] = st /\ \A c \in Chunks : c # b => work'[c] = work[c]
    BY <1>1 DEF TypeOK, ChildTypeOK
  <1>3. WorkMoves BY <1>1, <1>2 DEF WorkMoves
  <1>4. \A x \in Queues : Queue(x)' = Queue(x) /\ Within(Queue(x)', Queue(x))
    BY SameQueues
  <1>5. \A x \in Queues, c \in Chunks : Asks(Queue(x)', c) => work'[c] = work[c]
    <2>1. \A x \in Queues : ~Asks(Queue(x), b)
      BY <1>1 DEF CommandsSound, CommandSound, Asks
    <2> QED BY <1>2, <1>4, <2>1
  <1>6. CommandsSound' BY <1>3, <1>4, <1>5, CommandsFrame
  <1>7. \A w \in Workers : InRender(w)' => /\ InRender(w) /\ cur'[w] = cur[w]
                                           /\ work'[cur[w].who] = work[cur[w].who]
    BY <1>2 DEF RendersSound
  <1>8. RendersSound' BY <1>7, RendersFrame
  <1>9. Truthful([seq |-> cur[u].seq, status |-> st], seq', pc', seqOf', work')
    BY ReplyWritten
  <1>10. RepliesSound' BY <1>3, <1>9, RepliesFrame
  <1> QED BY <1>6, <1>8, <1>10

\* The reader, and the call that takes its reply.
LEMMA ReaderFlow ==
    ASSUME FlowInv, TypeOK', CallsKept,
           ReaderStep \/ \E b \in Callers : Receive(b)
    PROVE  Flow'
  <1> USE DEF FlowInv, Flow, DemuxInv
  <1>1. /\ UNCHANGED <<seq, seqOf, work, cur, leader, child, stdin, lines, toChild, fromChild>>
        /\ ReaderStep => pc' = pc
    BY DEF ReaderStep, ReadLine, Deliver, ReadEof, Receive, leaderVars, childVars
  <1>2. WorkMoves BY <1>1 DEF WorkMoves
  <1>3. CommandsSound' BY <1>1, <1>2, SameQueues, CommandsFrame
  <1>4. RendersSound' BY <1>1, RendersFrame DEF InRender
  <1>5. \A r \in Reply : ReplySound(r) => Truthful(r, seq', pc', seqOf', work')
    BY <1>2, TruthKept
  <1>6. \A i \in 1..Len(stdout) : stdout[i] \in Reply /\ ReplySound(stdout[i])
    BY DEF RepliesSound, TypeOK, LeaderTypeOK
  <1>7. \A k \in Children : \A i \in 1..Len(fromChild[k]) :
           fromChild[k][i] \in Reply /\ ReplySound(fromChild[k][i])
    <2> TAKE k \in Children
    <2>1. fromChild[k] \in Seq(Reply) BY DEF TypeOK, ChildTypeOK
    <2> QED BY <2>1 DEF RepliesSound
  <1>8. reader = "deliver" =>
           hand.reply \in Reply /\ ReplySound(hand.reply) /\ hand.reply.seq = seqOf[hand.to]
    BY DEF RepliesSound, TypeOK, GoTypeOK
  <1>9. \A c \in Callers : chan[c] # <<>> =>
           Head(chan[c]) \in Reply /\ ReplySound(Head(chan[c])) /\ Head(chan[c]).seq = seqOf[c]
    BY PipeTypes DEF RepliesSound, TypeOK, GoTypeOK
  <1>10. \A k \in Children : \A i \in 1..Len(fromChild'[k]) :
           Truthful(fromChild'[k][i], seq', pc', seqOf', work')
    BY <1>1, <1>5, <1>7
  <1>11. CASE ReadLine
    <2>1. stdout # <<>> /\ stdout' = Tail(stdout) /\ chan' = chan BY <1>11 DEF ReadLine
    <2>2. stdout \in Seq(Reply) BY DEF TypeOK, LeaderTypeOK
    <2>3. \A i \in 1..Len(stdout') : Truthful(stdout'[i], seq', pc', seqOf', work')
      BY <1>5, <1>6, <2>1, <2>2, ReplyQueue
    <2>4. Head(stdout) \in Reply /\ ReplySound(Head(stdout))
      BY <1>6, <2>1, <2>2, ReplyQueue
    <2>5. reader' = "deliver" => /\ Truthful(hand'.reply, seq', pc', seqOf', work')
                                 /\ hand'.reply.seq = seqOf'[hand'.to]
      <3> SUFFICES ASSUME reader' = "deliver"
                   PROVE  /\ Truthful(hand'.reply, seq', pc', seqOf', work')
                          /\ hand'.reply.seq = seqOf'[hand'.to]
        OBVIOUS
      <3>1. /\ Head(stdout).seq \in DOMAIN pending
            /\ hand' = [to |-> pending[Head(stdout).seq], reply |-> Head(stdout)]
        BY <1>11 DEF ReadLine
      <3>2. seqOf[pending[Head(stdout).seq]] = Head(stdout).seq
        BY <3>1 DEF Demux, PendingOwned
      <3>3. hand'.reply = Head(stdout) /\ hand'.to = pending[Head(stdout).seq] BY <3>1
      <3> QED BY <1>1, <1>5, <2>4, <3>2, <3>3
    <2>6. \A c \in Callers : chan'[c] # <<>> =>
             Truthful(Head(chan'[c]), seq', pc', seqOf', work') /\ Head(chan'[c]).seq = seqOf'[c]
      BY <1>1, <1>5, <1>9, <2>1
    <2>7. RepliesSound' BY <1>10, <2>3, <2>5, <2>6 DEF RepliesSound, ReplySound
    <2> QED BY <1>3, <1>4, <2>7
  <1>12. CASE Deliver \/ ReadEof \/ \E b \in Callers : Receive(b)
    <2>1. stdout' = stdout BY <1>12 DEF Deliver, ReadEof, Receive
    <2>2. \A i \in 1..Len(stdout') : Truthful(stdout'[i], seq', pc', seqOf', work')
      BY <1>5, <1>6, <2>1
    <2>3. reader' = "deliver" => reader = "deliver" /\ hand' = hand
      BY <1>12 DEF Deliver, ReadEof, Receive
    <2>4. ASSUME NEW c \in Callers, chan'[c] # <<>>
          PROVE  /\ Truthful(Head(chan'[c]), seq', pc', seqOf', work')
                 /\ Head(chan'[c]).seq = seqOf'[c]
      <3>1. CASE chan'[c] = chan[c] BY <1>1, <1>5, <1>9, <2>4, <3>1
      <3>2. CASE Deliver /\ chan'[c] # chan[c]
        <4>1. reader = "deliver" /\ c = hand.to /\ chan'[c] = <<hand.reply>>
          BY <3>2 DEF Deliver, TypeOK, GoTypeOK
        <4>2. Head(chan'[c]) = hand.reply BY <4>1, FirstLine
        <4> QED BY <1>1, <1>5, <1>8, <4>1, <4>2
      <3>3. CASE ReadEof /\ chan'[c] # chan[c]
        <4> DEFINE r == [seq |-> seqOf[c], status |-> "error"]
        <4>1. (\E s \in DOMAIN pending : pending[s] = c) /\ chan'[c] = <<r>>
          BY <3>3 DEF ReadEof
        <4>2. Head(chan'[c]) = r BY <4>1, FirstLine
        <4>3. pc[c] # "idle" BY <4>1 DEF Demux, PendingOwned
        <4>4. seqOf[c] <= seq
          BY <4>3, PoolFacts DEF Demux, SeqsDistinct, Callers, TypeOK, GoTypeOK
        <4>5. Truthful(r, seq', pc', seqOf', work') BY <1>1, <4>4 DEF Truthful
        <4> QED BY <1>1, <4>2, <4>5
      <3>4. CASE (\E b \in Callers : Receive(b)) /\ chan'[c] # chan[c]
        BY <2>4, <3>4 DEF Receive, TypeOK, GoTypeOK
      <3> QED BY <1>12, <3>1, <3>2, <3>3, <3>4
    <2>5. RepliesSound'
      BY <1>1, <1>5, <1>8, <1>10, <2>2, <2>3, <2>4 DEF RepliesSound, ReplySound
    <2> QED BY <1>3, <1>4, <2>5
  <1> QED BY <1>11, <1>12 DEF ReaderStep

\* Each queue by itself.
LEMMA QueuesWithin ==
    ASSUME TypeOK, Within(lines', lines), Within(stdin', stdin),
           \A k \in Children : Within(toChild'[k], toChild[k])
    PROVE  \A x \in Queues : Within(Queue(x)', Queue(x))
  BY QueueNames DEF Queue

\* All queues of commands hold commands, and each is within itself.
LEMMA CommandQueueTypes ==
    ASSUME TypeOK
    PROVE  /\ lines \in Seq(Command) /\ stdin \in Seq(Command)
           /\ \A k \in Children : toChild[k] \in Seq(Command)
           /\ Within(lines, lines) /\ Within(stdin, stdin)
           /\ \A k \in Children : Within(toChild[k], toChild[k])
  <1>1. /\ lines \in Seq(Command) /\ stdin \in Seq(Command)
        /\ \A k \in Children : toChild[k] \in Seq(Command)
    BY DEF TypeOK, LeaderTypeOK, ChildTypeOK
  <1> QED BY <1>1, WithinQueue

\* The leader boots, or fails to: it answers under the loader's number.
LEMMA BootFlow ==
    ASSUME FlowInv, TypeOK', CallsKept, LeaderBootFails \/ LeaderLoads
    PROVE  Flow'
  <1> USE DEF FlowInv, DemuxInv
  <1>1. /\ UNCHANGED <<goVars, lines, toChild, fromChild, cur, work>>
        /\ leader = "boot" /\ leader' # "render"
        /\ stdin' = stdin \/ (stdin # <<>> /\ stdin' = Tail(stdin))
        /\ \E st \in Status : stdout' = Append(stdout, [seq |-> 0, status |-> st])
        /\ \A k \in Children : child'[k] = "render" => child[k] = "render"
    BY DEF LeaderBootFails, LeaderLoads, Emit, Status
  <1>2. \A x \in Queues : Within(Queue(x)', Queue(x))
    BY <1>1, CommandQueueTypes, WithinQueue, QueuesWithin
  <1>3. \A w \in Workers : InRender(w)' => InRender(w)
    BY <1>1, PoolFacts DEF InRender, Workers, Children
  <1>4. PICK st \in Status : stdout' = Append(stdout, [seq |-> 0, status |-> st]) BY <1>1
  <1> DEFINE r == [seq |-> 0, status |-> st]
  <1>5. r \in Reply /\ stdout \in Seq(Reply) BY MessageTypes DEF TypeOK, LeaderTypeOK
  <1>6. Truthful(r, seq', pc', seqOf', work')
    <2>1. \A c \in Chunks : pc[c] # "idle" => seqOf[c] # 0 BY DEF Demux, SeqsDistinct
    <2>2. 0 <= seq BY DEF TypeOK, GoTypeOK
    <2> QED BY <1>1, <2>1, <2>2 DEF Truthful, goVars
  <1> HIDE DEF r
  <1>7. \A i \in 1..Len(stdout') :
           \/ \E j \in 1..Len(stdout) : stdout'[i] = stdout[j]
           \/ Truthful(stdout'[i], seq', pc', seqOf', work')
    <2>1. stdout' = Append(stdout, r) BY <1>4 DEF r
    <2> QED BY <1>5, <1>6, <2>1, ReplyQueue
  <1> QED BY <1>1, <1>2, <1>3, <1>7, FlowFrame DEF goVars

\* The other steps of the leader.
LEMMA LeaderFlow ==
    ASSUME FlowInv, TypeOK', CallsKept, LeaderStep \/ LeaderKilled
    PROVE  Flow'
  <1> USE DEF FlowInv, DemuxInv
  <1>1. CASE LeaderBootFails \/ LeaderLoads BY <1>1, BootFlow
  <1>2. CASE LeaderExits \/ LeaderReaps \/ LeaderKilled
    <2>1. /\ UNCHANGED <<stdin, lines, toChild, stdout, fromChild, reader, hand, chan, cur, work>>
          /\ UNCHANGED child /\ leader' # "render"
      BY <1>2 DEF LeaderExits, LeaderReaps, LeaderKilled, goVars, childVars
    <2> QED BY <2>1, FlowStays DEF InRender
  <1>3. CASE LeaderDrainsStdin BY <1>3, DrainFlow
  <1>4. CASE LeaderQuits
    <2>1. /\ UNCHANGED <<stdin, toChild, stdout, fromChild, reader, hand, chan, cur, work>>
          /\ UNCHANGED <<child, leader>> /\ lines' = <<>>
      BY <1>4 DEF LeaderQuits, goVars, childVars
    <2>2. \A x \in Queues : Within(Queue(x)', Queue(x))
      BY <2>1, CommandQueueTypes, WithinQueue, QueuesWithin
    <2> QED BY <2>1, <2>2, FlowFrame DEF InRender
  <1>5. CASE LeaderStartsInline
    <2>1. /\ lines # <<>> /\ Head(lines).op = "render" /\ lines' = Tail(lines)
          /\ cur' = [cur EXCEPT ![0] = Head(lines)]
          /\ work' = [work EXCEPT ![Head(lines).who] = "rendering"]
          /\ UNCHANGED <<goVars, stdin, stdout, child, toChild, fromChild>>
      BY <1>5 DEF LeaderStartsInline, childVars
    <2>2. 0 \in Workers BY PoolFacts DEF Workers
    <2>3. /\ 0 \in Queues /\ Queue(0) = lines /\ Queue(0)' = lines'
          /\ \A x \in Queues : x # 0 => Queue(x)' = Queue(x)
      BY <2>1, QueueNames DEF Queue
    <2>4. \A w \in Workers : w # 0 => (InRender(w)' <=> InRender(w)) BY <2>1 DEF InRender
    <2> QED BY <2>1, <2>2, <2>3, <2>4, StartFlow DEF goVars
  <1>6. CASE LeaderFinishesInline
    <2>1. PICK st \in Status : /\ work' = [work EXCEPT ![cur[0].who] = st]
                               /\ stdout' = Append(stdout, [seq |-> cur[0].seq, status |-> st])
      BY <1>6 DEF LeaderFinishesInline, Emit
    <2>2. /\ leader = "render" /\ leader' = "poll"
          /\ UNCHANGED <<goVars, stdin, lines, child, toChild, fromChild, cur>>
      BY <1>6 DEF LeaderFinishesInline, childVars
    <2>3. 0 \in Workers BY PoolFacts DEF Workers
    <2>4. /\ InRender(0) /\ ~InRender(0)'
          /\ \A w \in Workers : w # 0 => (InRender(w)' <=> InRender(w))
      BY <2>2 DEF InRender
    <2> DEFINE r == [seq |-> cur[0].seq, status |-> st]
    <2>5. r \in Reply /\ stdout \in Seq(Reply)
      BY <2>3, MessageTypes DEF TypeOK, LeaderTypeOK, ChildTypeOK
    <2>6. \A i \in 1..Len(stdout') : (\E j \in 1..Len(stdout) : stdout'[i] = stdout[j]) \/ stdout'[i] = r
      <3>1. stdout' = Append(stdout, r) BY <2>1
      <3> HIDE DEF r
      <3> QED BY <2>5, <3>1, ReplyQueue
    <2> QED BY <2>1, <2>2, <2>3, <2>4, <2>6, FinishFlow DEF goVars
  <1>7. CASE LeaderShutsDown
    <2>1. /\ UNCHANGED <<stdin, lines, stdout, fromChild, reader, hand, chan, cur, work, child>>
          /\ leader' # "render"
          /\ \A k \in Children : toChild'[k] = toChild[k] \/ toChild'[k] = Append(toChild[k], QuitCmd)
      BY <1>7 DEF LeaderShutsDown, goVars
    <2>2. QuitCmd \in Command /\ QuitCmd.op # "render" BY MessageTypes DEF QuitCmd
    <2>3. \A x \in Queues : Within(Queue(x)', Queue(x))
      BY <2>1, <2>2, CommandQueueTypes, WithinQueue, QueuesWithin
    <2> QED BY <2>1, <2>3, FlowFrame DEF InRender
  <1> QED BY <1>1, <1>2, <1>3, <1>4, <1>5, <1>6, <1>7 DEF LeaderStep

\* The steps on the sockets of child k.
LEMMA ChildFlow ==
    ASSUME FlowInv, TypeOK', CallsKept, NEW k \in Children,
           LeaderForwards(k) \/ LeaderSeesChildEof(k) \/ ChildStep(k) \/ ChildKilled(k)
    PROVE  Flow'
  <1> USE DEF FlowInv, DemuxInv
  <1>0. k \in Workers /\ k # 0 /\ 0 \notin Children
    BY PoolFacts DEF Workers, Children
  <1>1. CASE LeaderForwards(k)
    <2>1. /\ UNCHANGED <<stdin, lines, toChild, reader, hand, chan, cur, work, leader, child>>
          /\ fromChild[k] # <<>> /\ stdout' = Append(stdout, Head(fromChild[k]))
          /\ fromChild' = [fromChild EXCEPT ![k] = Tail(fromChild[k])]
      BY <1>1 DEF LeaderForwards, goVars
    <2>2. stdout \in Seq(Reply) /\ fromChild[k] \in Seq(Reply) /\ Head(fromChild[k]) \in Reply
      BY <2>1, PipeTypes DEF TypeOK, LeaderTypeOK, ChildTypeOK
    <2>3. PICK j \in 1..Len(fromChild[k]) : Head(fromChild[k]) = fromChild[k][j]
      BY <2>1, <2>2, ReplyQueue
    <2>4. \A i \in 1..Len(stdout') :
             \/ \E h \in 1..Len(stdout) : stdout'[i] = stdout[h]
             \/ stdout'[i] = fromChild[k][j]
      BY <2>1, <2>2, <2>3, ReplyQueue
    <2>5. \A l \in Children : \A i \in 1..Len(fromChild'[l]) :
             \E h \in 1..Len(fromChild[l]) : fromChild'[l][i] = fromChild[l][h]
      <3> TAKE l \in Children
      <3>1. CASE l = k
        <4>1. fromChild'[l] = Tail(fromChild[l]) BY <2>1, <3>1 DEF TypeOK, ChildTypeOK
        <4> QED BY <2>1, <2>2, <3>1, <4>1, ReplyQueue
      <3>2. CASE l # k
        <4>1. fromChild'[l] = fromChild[l] BY <2>1, <3>2 DEF TypeOK, ChildTypeOK
        <4> QED BY <4>1
      <3> QED BY <3>1, <3>2
    <2>6. \A x \in Queues : Within(Queue(x)', Queue(x)) BY <2>1, SameQueues
    <2>7. \A w \in Workers : InRender(w)' => InRender(w) BY <2>1 DEF InRender
    <2> QED BY <2>1, <2>4, <2>5, <2>6, <2>7, FlowFrame
  <1>2. CASE LeaderSeesChildEof(k)
    <2>1. /\ UNCHANGED <<stdin, lines, toChild, stdout, fromChild, reader, hand, chan, cur, work>>
          /\ UNCHANGED <<leader, child>>
      BY <1>2 DEF LeaderSeesChildEof, goVars, childVars
    <2> QED BY <2>1, FlowStays DEF InRender
  <1>3. CASE ChildTakes(k) /\ Head(toChild[k]).op = "quit"
    <2>1. /\ UNCHANGED <<stdin, lines, stdout, fromChild, reader, hand, chan, cur, work, leader>>
          /\ toChild[k] # <<>> /\ toChild' = [toChild EXCEPT ![k] = Tail(toChild[k])]
          /\ child' = [child EXCEPT ![k] = "dead"]
      BY <1>3 DEF ChildTakes, goVars, leaderVars
    <2>2. \A l \in Children : Within(toChild'[l], toChild[l])
      BY <2>1, CommandQueueTypes, WithinQueue DEF TypeOK, ChildTypeOK
    <2>3. \A x \in Queues : Within(Queue(x)', Queue(x))
      BY <2>1, <2>2, CommandQueueTypes, QueuesWithin
    <2>4. \A w \in Workers : InRender(w)' => InRender(w)
      BY <1>0, <2>1 DEF InRender, TypeOK, ChildTypeOK, Workers, Children
    <2> QED BY <2>1, <2>3, <2>4, FlowFrame
  <1>4. CASE ChildTakes(k) /\ Head(toChild[k]).op # "quit"
    <2>1. /\ UNCHANGED <<goVars, stdin, lines, stdout, fromChild, leader>>
          /\ toChild[k] # <<>> /\ toChild' = [toChild EXCEPT ![k] = Tail(toChild[k])]
          /\ child' = [child EXCEPT ![k] = "render"]
          /\ cur' = [cur EXCEPT ![k] = Head(toChild[k])]
          /\ work' = [work EXCEPT ![Head(toChild[k]).who] = "rendering"]
      BY <1>4 DEF ChildTakes, leaderVars
    <2>2. Head(toChild[k]).op = "render" BY <1>4, <2>1 DEF SocketInv, SocketSound
    <2>3. /\ k \in Queues /\ Queue(k) = toChild[k] /\ Queue(k)' = Tail(toChild[k])
          /\ \A x \in Queues : x # k => Queue(x)' = Queue(x)
      BY <1>0, <2>1, QueueNames DEF Queue, TypeOK, ChildTypeOK
    <2>4. \A w \in Workers : w # k => (InRender(w)' <=> InRender(w))
      BY <1>0, <2>1 DEF InRender, TypeOK, ChildTypeOK, Workers, Children
    <2> QED BY <1>0, <2>1, <2>2, <2>3, <2>4, StartFlow DEF goVars
  <1>5. CASE ChildFinishes(k)
    <2> DEFINE r(st) == [seq |-> cur[k].seq, status |-> st]
    <2>1. PICK st \in Status :
            /\ work' = [work EXCEPT ![cur[k].who] = st]
            /\ \/ /\ fromChild' = [fromChild EXCEPT ![k] = Append(@, r(st))]
                  /\ child' = [child EXCEPT ![k] = IF st = "oom" THEN "exiting" ELSE "idle"]
               \/ child' = [child EXCEPT ![k] = "dead"] /\ UNCHANGED fromChild
      BY <1>5 DEF ChildFinishes
    <2>2. child[k] = "render" /\ UNCHANGED <<goVars, stdin, lines, stdout, toChild, cur, leader>>
      BY <1>5 DEF ChildFinishes, leaderVars
    <2>3. /\ InRender(k) /\ ~InRender(k)'
          /\ \A w \in Workers : w # k => (InRender(w)' <=> InRender(w))
      BY <1>0, <2>1, <2>2 DEF InRender, TypeOK, ChildTypeOK, Workers, Children
    <2>4. r(st) \in Reply /\ fromChild[k] \in Seq(Reply)
      BY <1>0, MessageTypes DEF TypeOK, ChildTypeOK
    <2>5. \A l \in Children : \A i \in 1..Len(fromChild'[l]) :
             \/ \E j \in 1..Len(fromChild[l]) : fromChild'[l][i] = fromChild[l][j]
             \/ fromChild'[l][i] = r(st)
      <3> TAKE l \in Children
      <3>1. CASE fromChild'[l] = fromChild[l] BY <3>1
      <3>2. CASE fromChild'[l] # fromChild[l]
        <4>1. l = k /\ fromChild'[l] = Append(fromChild[k], r(st))
          BY <2>1, <3>2 DEF TypeOK, ChildTypeOK
        <4> HIDE DEF r
        <4> QED BY <2>4, <4>1, ReplyQueue
      <3> QED BY <3>1, <3>2
    <2> QED BY <1>0, <2>1, <2>2, <2>3, <2>5, FinishFlow DEF goVars
  <1>6. CASE ChildExits(k) \/ ChildKilled(k)
    <2>1. /\ UNCHANGED <<stdin, lines, stdout, fromChild, reader, hand, chan, cur, work, leader>>
          /\ toChild' = [toChild EXCEPT ![k] = <<>>]
          /\ child' = [child EXCEPT ![k] = "dead"]
      BY <1>6 DEF ChildExits, ChildKilled, ChildDies, goVars, leaderVars
    <2>2. \A l \in Children : Within(toChild'[l], toChild[l])
      BY <2>1, CommandQueueTypes, WithinQueue DEF TypeOK, ChildTypeOK
    <2>3. \A x \in Queues : Within(Queue(x)', Queue(x))
      BY <2>1, <2>2, CommandQueueTypes, QueuesWithin
    <2>4. \A w \in Workers : InRender(w)' => InRender(w)
      BY <1>0, <2>1 DEF InRender, TypeOK, ChildTypeOK, Workers, Children
    <2> QED BY <2>1, <2>3, <2>4, FlowFrame
  <1> QED BY <1>1, <1>2, <1>3, <1>4, <1>5, <1>6 DEF ChildStep

\* Every step keeps commands, renders and replies sound.
LEMMA FlowInvStep == FlowInv /\ [Next]_vars => FlowInv'
  <1> SUFFICES ASSUME FlowInv, [Next]_vars PROVE FlowInv' OBVIOUS
  <1>1. DemuxInv' /\ SocketInv' /\ TypeOK'
    BY DemuxInvStep, SocketInvStep DEF FlowInv, DemuxInv
  <1>2. CallsKept BY CallsAlwaysKept DEF FlowInv
  <1> SUFFICES Flow' BY <1>1 DEF FlowInv
  <1>3. CASE /\ UNCHANGED <<stdin, lines, toChild, stdout, fromChild, reader, hand, chan, cur, work>>
             /\ UNCHANGED child /\ leader' \in {leader, "killed"}
    BY <1>1, <1>2, <1>3, FlowStays DEF InRender
  <1>4. ASSUME NEW c \in Callers, (c \in Chunks /\ TakeSeq(c)) \/ Register(c) \/ Timeout(c)
        PROVE  Flow'
    <2>1. /\ UNCHANGED <<stdin, lines, toChild, stdout, fromChild, reader, hand, chan, cur, work>>
          /\ UNCHANGED <<child, leader>>
      BY <1>4 DEF TakeSeq, Register, Timeout, leaderVars, childVars
    <2> QED BY <1>3, <2>1
  <1>5. ASSUME NEW c \in Callers, Write(c) PROVE Flow' BY <1>1, <1>2, <1>5, WriteFlow
  <1>6. CASE ReaderStep \/ \E c \in Callers : Receive(c) BY <1>1, <1>2, <1>6, ReaderFlow
  <1>7. CASE PoolStep
    <2>1. CASE BeginClose
      <3>1. /\ UNCHANGED <<lines, toChild, stdout, fromChild, reader, hand, chan, cur, work>>
            /\ UNCHANGED <<child, leader>>
            /\ stdin' = stdin \/ stdin' = Append(stdin, QuitCmd)
        BY <2>1 DEF BeginClose, leaderVars, childVars
      <3>2. QuitCmd \in Command /\ QuitCmd.op # "render" BY MessageTypes DEF QuitCmd
      <3>3. \A x \in Queues : Within(Queue(x)', Queue(x))
        BY <3>1, <3>2, CommandQueueTypes, WithinQueue, QueuesWithin DEF FlowInv, DemuxInv
      <3> QED BY <1>1, <1>2, <3>1, <3>3, FlowFrame DEF InRender
    <2>2. CASE OpenFails \/ OpenSucceeds \/ CloseWaited \/ CloseKills
      BY <1>3, <2>2 DEF OpenFails, OpenSucceeds, CloseWaited, CloseKills, Kill,
                        leaderVars, childVars
    <2> QED BY <1>7, <2>1, <2>2 DEF PoolStep
  <1>8. CASE LeaderStep \/ LeaderKilled BY <1>1, <1>2, <1>8, LeaderFlow
  <1>9. ASSUME NEW k \in Children, LeaderChildStep(k) \/ ChildStep(k) \/ ChildKilled(k)
        PROVE  Flow'
    BY <1>1, <1>2, <1>9, AssignFlow, ChildFlow DEF LeaderChildStep
  <1>10. CASE UNCHANGED vars
    BY <1>3, <1>10 DEF vars, goVars, leaderVars, childVars
  <1>11. Chunks \subseteq Callers BY DEF Callers
  <1> QED
    BY <1>4, <1>5, <1>6, <1>7, <1>8, <1>9, <1>10, <1>11 DEF Next, CallerStep, Terminated

\* The initial state.
LEMMA FlowInvInit == Init => FlowInv
  <1> SUFFICES ASSUME Init PROVE FlowInv OBVIOUS
  <1>1. DemuxInv BY DemuxInvInit
  <1>2. SocketInv BY DEF Init, SocketInv, SocketSound, Quiet, AtMostOne, ChildLive
  <1>3. Len(<<>>) = 0 OBVIOUS
  <1>4. \A x \in Queues : Queue(x) = <<>> BY <1>1, QueueNames DEF Init, DemuxInv
  <1>5. CommandsSound BY <1>3, <1>4 DEF Init, CommandsSound, NoDup, Asks
  <1>6. RendersSound
    BY PoolFacts DEF Init, RendersSound, InRender, Workers, Children
  <1>7. RepliesSound
    BY <1>3 DEF Init, RepliesSound
  <1> QED BY <1>1, <1>2, <1>5, <1>6, <1>7 DEF FlowInv, Flow

\* Commands, renders and replies stay in flow in every state of the pool.
LEMMA FlowInvariant == Spec => []FlowInv
  BY FlowInvInit, FlowInvStep, PTL DEF Spec

-----------------------------------------------------------------------------
(* The pool implements ChunkRenderer.                                      *)

\* What a caller sees of its call.
LEMMA ViewValue ==
    ASSUME NEW c \in Chunks
    PROVE  /\ pc[c] = "idle" => callView[c] = "idle"
           /\ pc[c] \in Returned => callView[c] = pc[c]
           /\ pc[c] \notin Returned \cup {"idle"} => callView[c] = "running"
           /\ pc'[c] = "idle" => callView'[c] = "idle"
           /\ pc'[c] \in Returned => callView'[c] = pc'[c]
           /\ pc'[c] \notin Returned \cup {"idle"} => callView'[c] = "running"
  BY DEF callView, Returned

\* A step that shows on no call, and one that shows on the call b only.
LEMMA ViewMoves ==
    ASSUME TypeOK, NEW b \in Callers, NEW x, pc' = [pc EXCEPT ![b] = x]
    PROVE  /\ b \notin Chunks => callView' = callView
           /\ b \in Chunks /\ pc[b] \notin Returned \cup {"idle"}
                 /\ x \notin Returned \cup {"idle"} => callView' = callView
           /\ b \in Chunks /\ x \in Returned => callView' = [callView EXCEPT ![b] = x]
           /\ b \in Chunks /\ x \notin Returned \cup {"idle"} =>
                 callView' = [callView EXCEPT ![b] = "running"]
  <1>1. /\ DOMAIN callView = Chunks /\ DOMAIN callView' = Chunks
        /\ callView = [c \in Chunks |-> callView[c]]
        /\ callView' = [c \in Chunks |-> callView'[c]]
    BY DEF callView
  <1>2. pc'[b] = x /\ \A c \in Chunks : c # b => pc'[c] = pc[c]
    BY DEF TypeOK, GoTypeOK, Callers
  <1>3. \A c \in Chunks : c # b => callView'[c] = callView[c]
    BY <1>2 DEF callView
  <1>4. b \notin Chunks => callView' = callView BY <1>1, <1>3
  <1>5. ASSUME b \in Chunks, pc[b] \notin Returned \cup {"idle"}, x \notin Returned \cup {"idle"}
        PROVE  callView' = callView
    <2>1. callView'[b] = callView[b] BY <1>2, <1>5, ViewValue
    <2> QED BY <1>1, <1>3, <2>1
  <1>6. ASSUME b \in Chunks, x \in Returned PROVE callView' = [callView EXCEPT ![b] = x]
    <2>1. callView'[b] = x BY <1>2, <1>6, ViewValue
    <2> QED BY <1>1, <1>3, <2>1
  <1>7. ASSUME b \in Chunks, x \notin Returned \cup {"idle"}
        PROVE  callView' = [callView EXCEPT ![b] = "running"]
    <2>1. callView'[b] = "running" BY <1>2, <1>7, ViewValue
    <2> QED BY <1>1, <1>3, <2>1
  <1> QED BY <1>4, <1>5, <1>6, <1>7

renderVars == <<callView, work>>

\* A call returns its own result, or a failure.
LEMMA ReturnsAsCalled ==
    ASSUME TypeOK, NEW b \in Callers, pc[b] \notin Returned \cup {"idle"},
           NEW r \in Returned, pc' = [pc EXCEPT ![b] = r], work' = work,
           b \in Chunks /\ r # "error" => work[b] = r
    PROVE  [Renderer!Next]_renderVars
  <1>1. CASE b \notin Chunks
    BY <1>1, ViewMoves DEF renderVars
  <1>2. CASE b \in Chunks
    <2>1. callView[b] = "running" BY <1>2, ViewValue
    <2>2. callView' = [callView EXCEPT ![b] = r] BY <1>2, ViewMoves
    <2>3. Renderer!Return(b) BY <1>2, <2>1, <2>2 DEF Renderer!Return, Returned
    <2> QED BY <1>2, <2>3 DEF Renderer!Next
  <1> QED BY <1>1, <1>2

\* A step of a caller.
LEMMA CallerRefines ==
    ASSUME FlowInv, NEW b \in Callers, (b \in Chunks /\ TakeSeq(b)) \/ CallerStep(b)
    PROVE  [Renderer!Next]_renderVars
  <1> USE DEF FlowInv, DemuxInv
  <1>1. work' = work
    BY DEF TakeSeq, CallerStep, Register, Write, Receive, Timeout
  <1>2. CASE b \in Chunks /\ TakeSeq(b)
    <2>1. callView[b] = "idle" BY <1>2, ViewValue DEF TakeSeq
    <2>2. callView' = [callView EXCEPT ![b] = "running"]
      <3>1. pc' = [pc EXCEPT ![b] = "numbered"] /\ "numbered" \notin Returned \cup {"idle"}
        BY <1>2 DEF TakeSeq, Returned
      <3> QED BY <1>2, <3>1, ViewMoves
    <2>3. Renderer!Call(b) BY <1>1, <2>1, <2>2 DEF Renderer!Call
    <2> QED BY <1>2, <2>3 DEF Renderer!Next
  <1>3. CASE Register(b) \/ (Write(b) /\ LeaderLive)
    <2>1. \E x \in {"registered", "await"} : pc' = [pc EXCEPT ![b] = x]
      BY <1>3 DEF Register, Write
    <2>2. pc[b] \in {"numbered", "registered"} BY <1>3 DEF Register, Write
    <2>3. callView' = callView BY <2>1, <2>2, ViewMoves DEF Returned
    <2> QED BY <1>1, <2>3 DEF renderVars
  <1>4. CASE (Write(b) /\ ~LeaderLive) \/ Timeout(b)
    <2>1. pc' = [pc EXCEPT ![b] = "error"] /\ pc[b] \in {"registered", "await"}
      BY <1>4 DEF Write, Timeout, ReturnAs
    <2>2. pc[b] \notin Returned \cup {"idle"} /\ "error" \in Returned
      BY <2>1 DEF Returned
    <2> QED BY <1>1, <2>1, <2>2, ReturnsAsCalled
  <1>5. CASE Receive(b)
    <2> DEFINE r == Head(chan[b])
    <2>1. pc[b] = "await" /\ chan[b] # <<>> /\ pc' = [pc EXCEPT ![b] = r.status]
      BY <1>5 DEF Receive, ReturnAs
    <2>2. r \in Reply /\ r.status \in Returned
      BY <2>1, PipeTypes, MessageTypes DEF TypeOK, GoTypeOK, Status, Returned
    <2>3. ReplySound(r) /\ r.seq = seqOf[b] BY <2>1 DEF Flow, RepliesSound
    <2>4. b \in Chunks /\ r.status # "error" => work[b] = r.status
      BY <2>1, <2>3 DEF ReplySound, Truthful
    <2>5. pc[b] \notin Returned \cup {"idle"} BY <2>1 DEF Returned
    <2> HIDE DEF r
    <2> QED BY <1>1, <2>1, <2>2, <2>4, <2>5, ReturnsAsCalled
  <1> QED BY <1>2, <1>3, <1>4, <1>5 DEF CallerStep

\* A worker begins, or ends, the render of a chunk.
LEMMA WorkRefines ==
    ASSUME FlowInv, NEW b \in Chunks, NEW x, pc' = pc, pc[b] \in Written,
           work' = [work EXCEPT ![b] = x],
           \/ work[b] = "none" /\ x = "rendering"
           \/ work[b] = "rendering" /\ x \in Status
    PROVE  [Renderer!Next]_renderVars
  <1>1. callView' = callView BY DEF callView
  <1>2. callView[b] # "idle" BY ViewValue DEF Written, Returned
  <1>3. Renderer!Start(b) \/ Renderer!Finish(b)
    BY <1>1, <1>2 DEF Renderer!Start, Renderer!Finish, Status
  <1> QED BY <1>3 DEF Renderer!Next

\* The worker w ends its render.
LEMMA FinishRefines ==
    ASSUME FlowInv, NEW w \in Workers, InRender(w), pc' = pc,
           \E st \in Status : work' = [work EXCEPT ![cur[w].who] = st]
    PROVE  [Renderer!Next]_renderVars
  <1>1. /\ cur[w].who \in Chunks /\ pc[cur[w].who] \in Written
        /\ work[cur[w].who] = "rendering"
    BY DEF FlowInv, Flow, RendersSound
  <1> QED BY <1>1, WorkRefines

\* A worker begins the command at the head of queue z.
LEMMA StartRefines ==
    ASSUME FlowInv, NEW z \in Queues, Queue(z) # <<>>, Head(Queue(z)).op = "render", pc' = pc,
           work' = [work EXCEPT ![Head(Queue(z)).who] = "rendering"]
    PROVE  [Renderer!Next]_renderVars
  <1>1. Queue(z) \in Seq(Command) BY QueueNames DEF FlowInv, DemuxInv
  <1>2. 1 \in 1..Len(Queue(z)) /\ Queue(z)[1] = Head(Queue(z)) BY <1>1, HeadOnce
  <1>3. CommandSound(Head(Queue(z))) BY <1>2 DEF FlowInv, Flow, CommandsSound
  <1> QED BY <1>3, WorkRefines DEF CommandSound

\* The fork-after-load pool is the renderer the orchestrator takes it for, with any
\* number of chunks and children and under every fault: a path comes back only for
\* a chunk whose own file is complete, out-of-memory is blamed only on the chunk
\* that ran out, and a file that was handed back is never written again.
THEOREM ForkedPoolRefinesRenderer == Spec => ImplementsChunkRenderer
  <1>1. Init => Renderer!Init
    <2> SUFFICES ASSUME Init PROVE Renderer!Init OBVIOUS
    <2>1. \A c \in Chunks : pc[c] = "idle"
      BY PoolFacts DEF Init, Callers
    <2>2. callView = [c \in Chunks |-> "idle"] BY <2>1 DEF callView
    <2> QED BY <2>2 DEF Init, Renderer!Init
  <1>2. FlowInv /\ [Next]_vars => [Renderer!Next]_renderVars
    <2> SUFFICES ASSUME FlowInv, [Next]_vars PROVE [Renderer!Next]_renderVars OBVIOUS
    <2>1. ASSUME NEW c \in Callers, (c \in Chunks /\ TakeSeq(c)) \/ CallerStep(c)
          PROVE  [Renderer!Next]_renderVars
      BY <2>1, CallerRefines
    <2>2. CASE UNCHANGED <<pc, work>> BY <2>2 DEF renderVars, callView
    <2>3. CASE LeaderStartsInline
      <3>1. /\ lines # <<>> /\ Head(lines).op = "render" /\ pc' = pc
            /\ work' = [work EXCEPT ![Head(lines).who] = "rendering"]
        BY <2>3 DEF LeaderStartsInline, goVars
      <3>2. 0 \in Queues /\ Queue(0) = lines BY QueueNames DEF FlowInv, DemuxInv
      <3> QED BY <3>1, <3>2, StartRefines
    <2>4. CASE LeaderFinishesInline
      <3>1. 0 \in Workers BY PoolFacts DEF Workers
      <3>2. /\ InRender(0) /\ pc' = pc
            /\ \E st \in Status : work' = [work EXCEPT ![cur[0].who] = st]
        BY <2>4 DEF LeaderFinishesInline, InRender, goVars
      <3> QED BY <3>1, <3>2, FinishRefines
    <2>5. ASSUME NEW k \in Children, ChildTakes(k) PROVE [Renderer!Next]_renderVars
      <3>1. /\ toChild[k] # <<>> /\ pc' = pc
            /\ \/ work' = work
               \/ /\ Head(toChild[k]).op # "quit"
                  /\ work' = [work EXCEPT ![Head(toChild[k]).who] = "rendering"]
        BY <2>5 DEF ChildTakes, goVars
      <3>2. k \in Queues /\ Queue(k) = toChild[k] BY QueueNames DEF FlowInv, DemuxInv
      <3>3. Head(toChild[k]).op \in {"render", "quit"}
        BY <3>1 DEF FlowInv, SocketInv, SocketSound
      <3> QED BY <2>2, <3>1, <3>2, <3>3, StartRefines
    <2>6. ASSUME NEW k \in Children, ChildFinishes(k) PROVE [Renderer!Next]_renderVars
      <3>1. k \in Workers /\ k # 0 BY PoolFacts DEF Workers, Children
      <3>2. /\ InRender(k) /\ pc' = pc
            /\ \E st \in Status : work' = [work EXCEPT ![cur[k].who] = st]
        BY <2>6, <3>1 DEF ChildFinishes, InRender, goVars
      <3> QED BY <3>1, <3>2, FinishRefines
    <2>7. ReaderStep \/ PoolStep \/ LeaderKilled \/ UNCHANGED vars => UNCHANGED <<pc, work>>
      BY DEF ReaderStep, ReadLine, Deliver, ReadEof, PoolStep, OpenFails, OpenSucceeds,
         BeginClose, CloseWaited, CloseKills, LeaderKilled, goVars, vars
    <2>8. LeaderStep => LeaderStartsInline \/ LeaderFinishesInline \/ UNCHANGED <<pc, work>>
      BY DEF LeaderStep, LeaderBootFails, LeaderExits, LeaderLoads, LeaderDrainsStdin,
         LeaderQuits, LeaderShutsDown, LeaderReaps, goVars
    <2>9. ASSUME NEW k \in Children, LeaderChildStep(k) \/ ChildStep(k) \/ ChildKilled(k)
          PROVE  ChildTakes(k) \/ ChildFinishes(k) \/ UNCHANGED <<pc, work>>
      BY <2>9 DEF LeaderChildStep, LeaderAssignsChild, LeaderForwards, LeaderSeesChildEof,
         ChildStep, ChildExits, ChildKilled, ChildDies, goVars
    <2>10. Chunks \subseteq Callers BY DEF Callers
    <2> QED
      BY <2>1, <2>2, <2>3, <2>4, <2>5, <2>6, <2>7, <2>8, <2>9, <2>10 DEF Next, Terminated
  <1>3. FlowInv /\ [Next]_vars => [Renderer!Next]_(Renderer!vars)
    BY <1>2 DEF renderVars, Renderer!vars
  <1> QED BY <1>1, <1>3, FlowInvariant, PTL DEF Spec, ImplementsChunkRenderer, Renderer!Spec

-----------------------------------------------------------------------------
(* The legacy pool in the hands of dispatchPool.  WorkerPoolProofs speaks of *)
(* WorkerPool by itself; a conversion either runs it or leaves it alone.     *)

LegacyFacts == INSTANCE WorkerPoolProofs WITH
                 Chunks <- LegacyChunks, pool <- legacyPool, pc <- legacyPc,
                 stdin <- legacyStdin, work <- legacyWork

\* What WorkerPoolProofs assumes holds of the constants of Pools.
LEMMA LegacyAssumption ==
    /\ LegacyFacts!IsFiniteSet(LegacyChunks)
    /\ PoolSize \in Nat \ {0}
    /\ Faults \subseteq LegacyFacts!FaultKinds
  <1>1. LegacyFacts!IsFiniteSet(LegacyChunks)
    BY PoolsAssumption DEF IsFiniteSet, LegacyFacts!IsFiniteSet
  <1>2. LegacyFacts!FaultKinds = FaultKinds
    BY DEF LegacyFacts!FaultKinds, FaultKinds
  <1> QED BY <1>1, <1>2, RenderPoolAssumption

\* Seen from the legacy pool, a conversion makes its steps and no others.
LEMMA LegacyRuns == PoolsSpec => LegacyFacts!Spec
  <1>1. PoolsInit => LegacyFacts!Init
    BY DEF PoolsInit, Legacy!Init, LegacyFacts!Init, Legacy!Workers, LegacyFacts!Workers
  <1>2. [PoolsNext]_poolsVars => [Legacy!Next]_legacyVars
    BY DEF PoolsNext, ForkedStep, LegacyStep, poolsVars
  <1>3. Legacy!Next => LegacyFacts!Next
    BY DEF
         Legacy!Workers, Legacy!Status, Legacy!goVars, Legacy!procVars,
         Legacy!vars, Legacy!Returned, Legacy!Live, Legacy!Writable,
         Legacy!EOF, Legacy!Spawn, Legacy!LoadFails, Legacy!SendLoad,
         Legacy!LoadReplied, Legacy!LoadGivenUp, Legacy!StartPool,
         Legacy!Begin, Legacy!Checkout, Legacy!CtxDone, Legacy!ReturnAs,
         Legacy!Send, Legacy!Receive, Legacy!ReceiveEof, Legacy!Timeout,
         Legacy!Cancel, Legacy!SendQuit, Legacy!BeginClose, Legacy!QuitNext,
         Legacy!RefuseLicense, Legacy!ReadLoad, Legacy!ReadRender,
         Legacy!FinishRender, Legacy!ReadQuit, Legacy!ProcDies,
         Legacy!LoadStep, Legacy!CallerStep, Legacy!PoolStep, Legacy!ProcStep,
         Legacy!Terminated, Legacy!Next, LegacyFacts!Workers,
         LegacyFacts!Status, LegacyFacts!goVars, LegacyFacts!procVars,
         LegacyFacts!vars, LegacyFacts!Returned, LegacyFacts!Live,
         LegacyFacts!Writable, LegacyFacts!EOF, LegacyFacts!Spawn,
         LegacyFacts!LoadFails, LegacyFacts!SendLoad, LegacyFacts!LoadReplied,
         LegacyFacts!LoadGivenUp, LegacyFacts!StartPool, LegacyFacts!Begin,
         LegacyFacts!Checkout, LegacyFacts!CtxDone, LegacyFacts!ReturnAs,
         LegacyFacts!Send, LegacyFacts!Receive, LegacyFacts!ReceiveEof,
         LegacyFacts!Timeout, LegacyFacts!Cancel, LegacyFacts!SendQuit,
         LegacyFacts!BeginClose, LegacyFacts!QuitNext,
         LegacyFacts!RefuseLicense, LegacyFacts!ReadLoad,
         LegacyFacts!ReadRender, LegacyFacts!FinishRender,
         LegacyFacts!ReadQuit, LegacyFacts!ProcDies, LegacyFacts!LoadStep,
         LegacyFacts!CallerStep, LegacyFacts!PoolStep, LegacyFacts!ProcStep,
         LegacyFacts!Terminated, LegacyFacts!Next
  <1>4. [PoolsNext]_poolsVars => [LegacyFacts!Next]_(LegacyFacts!vars)
    BY <1>2, <1>3 DEF legacyVars, LegacyFacts!vars, LegacyFacts!goVars, LegacyFacts!procVars
  <1> QED BY <1>1, <1>4, PTL DEF PoolsSpec, LegacyFacts!Spec

\* A conversion that opens the legacy pool (dispatchPool, NewWorkerPool) loses no
\* worker, shares none and leaves none running, for any number of chunks and workers.
THEOREM LegacyWorkersAccounted == PoolsSpec => []WorkersAccounted
  <1>1. LegacyFacts!Spec => []LegacyFacts!WorkersAccounted
    BY LegacyAssumption, LegacyFacts!WorkersAlwaysAccounted
  <1>2. LegacyFacts!WorkersAccounted => WorkersAccounted
    BY DEF WorkersAccounted, Legacy!WorkersAccounted, LegacyFacts!WorkersAccounted,
           Legacy!Workers, LegacyFacts!Workers, Legacy!Live, LegacyFacts!Live,
           Legacy!Holding, LegacyFacts!Holding, Legacy!Queued, LegacyFacts!Queued,
           Legacy!Cardinality, LegacyFacts!Cardinality,
           Legacy!IsFiniteSet, LegacyFacts!IsFiniteSet
  <1> QED BY <1>1, <1>2, LegacyRuns, PTL

\* A conversion with the legacy pool gets what the weaker ChunkRenderer promises.
THEOREM LegacyKeepsWeakPromise == PoolsSpec => ImplementsWeakChunkRenderer
  <1>1. LegacyFacts!Spec => LegacyFacts!ImplementsWeakChunkRenderer
    BY LegacyAssumption, LegacyFacts!LegacyPoolRefinesRenderer
  <1>2. Legacy!callView = LegacyFacts!callView
    BY DEF Legacy!callView, LegacyFacts!callView
  <1>3. Legacy!callView' = LegacyFacts!callView'
    BY DEF Legacy!callView, LegacyFacts!callView
  <1>4. LegacyFacts!Renderer!Init => Legacy!Renderer!Init
    BY <1>2 DEF Legacy!Renderer!Init, LegacyFacts!Renderer!Init
  <1>5. [LegacyFacts!Renderer!Next
          \/ \E c \in LegacyChunks : LegacyFacts!Renderer!Misreport(c)]_(LegacyFacts!Renderer!vars)
        => [Legacy!Renderer!Next
             \/ \E c \in LegacyChunks : Legacy!Renderer!Misreport(c)]_(Legacy!Renderer!vars)
    BY <1>2, <1>3 DEF Legacy!Renderer!Next, LegacyFacts!Renderer!Next,
           Legacy!Renderer!Call, LegacyFacts!Renderer!Call,
           Legacy!Renderer!Start, LegacyFacts!Renderer!Start,
           Legacy!Renderer!Finish, LegacyFacts!Renderer!Finish,
           Legacy!Renderer!Return, LegacyFacts!Renderer!Return,
           Legacy!Renderer!Misreport, LegacyFacts!Renderer!Misreport,
           Legacy!Renderer!vars, LegacyFacts!Renderer!vars
  <1> QED BY <1>1, <1>4, <1>5, LegacyRuns, PTL
          DEF ImplementsWeakChunkRenderer, Legacy!ImplementsWeakChunkRenderer,
              LegacyFacts!ImplementsWeakChunkRenderer,
              Legacy!Renderer!WeakSpec, LegacyFacts!Renderer!WeakSpec
=============================================================================
