---------------------------- MODULE UdtUnitQueue ----------------------------
(***************************************************************************)
(* CUnitQueue of udt4 (queue.cpp): the memory that incoming packets are    *)
(* read into.  The worker of a port asks for a unit that is free, the      *)
(* receiving buffer occupies it, and a thread of the application frees it  *)
(* when it reads.                                                          *)
(*                                                                         *)
(* The units lie in blocks of one size, in a ring that only grows.         *)
(* m_iCount is changed by both threads without a lock: an update may get   *)
(* lost.                                                                   *)
(***************************************************************************)
EXTENDS Integers, Sequences, FiniteSets

CONSTANTS
    UnitsPerBlock,    \* units of a block (32)
    FullPercent,      \* how full the queue is when it grows (90)
    MaxBlocks,        \* bound: blocks there is memory for
    MaxDrift          \* bound: updates of m_iCount that get lost

VARIABLES
    queue,            \* used: of each block, the units with an m_iFlag other than 0; m_iCount;
                      \* block and unit: m_pCurrQueue and m_pAvailUnit
    got,              \* the unit that getNextAvailUnit has returned, not yet occupied
    drift             \* updates lost so far

unitVars == <<queue, got, drift>>

NoUnit == [block |-> 0, unit |-> 0]
Unit == 0 .. UnitsPerBlock - 1
Blocks(Q) == DOMAIN Q.used
m_iSize(Q) == UnitsPerBlock * Cardinality(Blocks(Q))
RealCount(Q) == Cardinality({p \in Blocks(Q) \X Unit : p[2] \in Q.used[p[1]]})

UnitInit ==
    /\ queue = [used |-> <<{}>>, m_iCount |-> 0, block |-> 1, unit |-> 0]
    /\ got = NoUnit
    /\ drift = 0

\* increase: m_iCount is corrected, and a block is added to a queue that is full enough, if there
\* is memory.
increase(Q) ==
    LET grows == RealCount(Q) * 100 >= m_iSize(Q) * FullPercent /\ Cardinality(Blocks(Q)) < MaxBlocks
    IN  [Q EXCEPT !.m_iCount = RealCount(Q), !.used = IF grows THEN Append(@, {}) ELSE @]

\* The search of one block: from a unit on, without the last one, then the first one.
FoundIn(Q, b, from) ==
    LET free == {u \in Unit \ Q.used[b] : from <= u /\ u < UnitsPerBlock - 1}
    IN  IF free # {} THEN {CHOOSE u \in free : \A v \in free : u <= v}
        ELSE IF 0 \notin Q.used[b] THEN {0} ELSE {}

\* The blocks, beginning with the current one, that hold what is searched for: of the current one
\* only the units from m_pAvailUnit on count.
From(Q, b) == IF b = Q.block THEN Q.unit ELSE 0
Places(Q) == {b \in Blocks(Q) : FoundIn(Q, b, From(Q, b)) # {}}
Steps(Q, b) == (b + Cardinality(Blocks(Q)) - Q.block) % Cardinality(Blocks(Q))
First(Q) == CHOOSE b \in Places(Q) : \A c \in Places(Q) : Steps(Q, b) <= Steps(Q, c)

\* What getNextAvailUnit searches: a queue that seems crowded has grown first.
Crowded == queue.m_iCount * 100 > m_iSize(queue) * FullPercent
Searched == IF Crowded THEN increase(queue) ELSE queue

\* The packet is read into the unit found, or skipped.
Found ==
    /\ got = NoUnit /\ Searched.m_iCount < m_iSize(Searched) /\ Places(Searched) # {}
    /\ LET b == First(Searched)
           u == CHOOSE n \in FoundIn(Searched, b, From(Searched, b)) : TRUE
       IN  queue' = [Searched EXCEPT !.block = b, !.unit = u] /\ got' = [block |-> b, unit |-> u]
    /\ UNCHANGED drift

Full ==
    /\ got = NoUnit /\ Searched.m_iCount >= m_iSize(Searched)
    /\ queue' = Searched
    /\ UNCHANGED <<got, drift>>

\* mutant of NotFound: the pointer stays where the search began
NotFoundStay ==
    /\ got = NoUnit /\ Searched.m_iCount < m_iSize(Searched) /\ Places(Searched) = {}
    /\ queue' = increase(Searched)
    /\ UNCHANGED <<got, drift>>

\* A search in vain ends at the first unit of the block it began in, and the queue grows.
NotFound ==
    /\ got = NoUnit /\ Searched.m_iCount < m_iSize(Searched) /\ Places(Searched) = {}
    /\ queue' = increase([Searched EXCEPT !.unit = 0])
    /\ UNCHANGED <<got, drift>>

\* CRcvBuffer::addData: the unit is occupied; a packet not wanted leaves it free.  One of two
\* updates of m_iCount at the same time may be lost.
Occupy(lost) ==
    /\ got # NoUnit /\ lost + drift <= MaxDrift
    /\ queue' = [queue EXCEPT !.used[got.block] = @ \cup {got.unit}, !.m_iCount = @ + 1 - lost]
    /\ got' = NoUnit /\ drift' = drift + lost

Skip ==
    /\ got # NoUnit /\ got' = NoUnit
    /\ UNCHANGED <<queue, drift>>

\* readBuffer, readMsg, ackData: the application frees it.
Release(b, u, lost) ==
    /\ u \in queue.used[b] /\ lost + drift <= MaxDrift
    /\ queue' = [queue EXCEPT !.used[b] = @ \ {u}, !.m_iCount = @ - 1 + lost]
    /\ drift' = drift + lost
    /\ UNCHANGED got

UnitNext ==
    \/ Found \/ Full \/ NotFound \/ Skip
    \/ \E lost \in 0 .. 1 :
          \/ Occupy(lost)
          \/ \E b \in Blocks(queue), u \in Unit : Release(b, u, lost)

UnitSpec == UnitInit /\ [][UnitNext]_unitVars
-----------------------------------------------------------------------------
\* A packet is never read into a unit that is in use, and when a packet is skipped though a unit
\* is free (the last of a block apart, which is never used), the next packet finds one: the search
\* in vain has moved the pointer back and corrected the count, whatever updates were lost.
UnitsAreFound ==
    [][/\ got = NoUnit /\ got' # NoUnit => got'.unit \notin queue'.used[got'.block]
       /\ (NotFound \/ Full) /\ (\E b \in Blocks(queue) : \E u \in Unit \ queue.used[b] : u < UnitsPerBlock - 1)
             => (Searched.m_iCount < m_iSize(Searched) /\ Places(Searched) # {})'
      ]_unitVars
=============================================================================
