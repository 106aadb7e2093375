---------------------------- MODULE WatchCacheProofs ----------------------------
(***************************************************************************)
(* What reading and writing an object and its informer do to the log.      *)
(***************************************************************************)
EXTENDS WatchCache, TLAPS

\* What a cache returns and what the API server stores are versions of the log.
LEMMA LogReads ==
    ASSUME NEW S, NEW log \in Seq(S), log # <<>>
    PROVE  /\ Stored(log) \in S /\ Cached(log) \in S
           /\ CacheCurrent(log) => Cached(log) = Stored(log)
BY DEF Stored, Cached, CacheCurrent

\* A write is what the API server stores afterwards.
LEMMA LogWrite ==
    ASSUME NEW S, NEW log \in Seq(S), log # <<>>, NEW v \in S
    PROVE  /\ Write(log, v) \in Seq(S) /\ Write(log, v) # <<>>
           /\ Stored(Write(log, v)) = v
BY DEF Stored, Write

\* Events and restarts change what is cached, never what is stored.
LEMMA LogDeliver ==
    ASSUME NEW S, NEW log \in Seq(S), log # <<>>
    PROVE  /\ Lagging(log) => /\ Deliver(log) \in Seq(S) /\ Deliver(log) # <<>>
                              /\ Stored(Deliver(log)) = Stored(log)
           /\ Relist(log) \in Seq(S) /\ Relist(log) # <<>>
           /\ Stored(Relist(log)) = Stored(log)
<1>1. Relist(log) = <<Stored(log)>> /\ Stored(log) \in S
  BY DEF Relist, Stored
<1>2. /\ Relist(log) \in Seq(S) /\ Relist(log) # <<>>
      /\ Stored(Relist(log)) = Stored(log)
  BY <1>1 DEF Stored
<1>3. ASSUME Lagging(log)
      PROVE  /\ Tail(log) \in Seq(S) /\ Len(Tail(log)) = Len(log) - 1
             /\ Len(log) \in Nat /\ Len(log) > 1
             /\ \A i \in 1..(Len(log) - 1) : Tail(log)[i] = log[i + 1]
  BY <1>3 DEF Lagging
<1>4. ASSUME Lagging(log)
      PROVE  /\ Deliver(log) \in Seq(S) /\ Deliver(log) # <<>>
             /\ Stored(Deliver(log)) = Stored(log)
  BY <1>3, <1>4 DEF Deliver, Stored
<1> QED  BY <1>2, <1>4

\* A write adds or replaces the newest version and keeps the others in place; one
\* that changes the object leaves the cache behind.
LEMMA LogVersions ==
    ASSUME NEW S, NEW log \in Seq(S), log # <<>>, NEW v \in S
    PROVE  /\ \A i \in 1..Len(Write(log, v)) :
                \/ i = Len(Write(log, v)) /\ Write(log, v)[i] = v
                \/ i \in 1..Len(log) /\ Write(log, v)[i] = log[i]
           /\ v # Stored(log) => ~CacheCurrent(Write(log, v))
<1> DEFINE w == Write(log, v)
<1>1. Len(log) \in Nat \ {0} /\ MaxLag \in Nat \ {0}
  BY MaxLagAssumption
<1>2. CASE v = Stored(log)
  BY <1>1, <1>2 DEF Write
<1>3. CASE v # Stored(log) /\ Len(log) <= MaxLag
  <2>1. w = Append(log, v)
    BY <1>3 DEF Write
  <2>2. /\ Len(w) = Len(log) + 1 /\ w[Len(w)] = v
        /\ \A i \in 1..Len(log) : w[i] = log[i]
    BY <2>1
  <2> QED  BY <1>1, <1>3, <2>2 DEF CacheCurrent
<1>4. CASE v # Stored(log) /\ ~(Len(log) <= MaxLag)
  <2>1. w = [log EXCEPT ![Len(log)] = v]
    BY <1>4 DEF Write
  <2>2. /\ Len(w) = Len(log) /\ w[Len(w)] = v
        /\ \A i \in 1..Len(log) : i # Len(log) => w[i] = log[i]
    BY <1>1, <2>1
  <2> QED  BY <1>1, <1>4, <2>2 DEF CacheCurrent
<1> QED  BY <1>2, <1>3, <1>4

\* Events and restarts drop the oldest versions.
LEMMA LogForgets ==
    ASSUME NEW S, NEW log \in Seq(S), log # <<>>
    PROVE  /\ Lagging(log) =>
                \A i \in 1..Len(Deliver(log)) :
                  i + 1 \in 1..Len(log) /\ Deliver(log)[i] = log[i + 1]
           /\ Len(Relist(log)) = 1 /\ Relist(log)[1] = Stored(log)
           /\ Len(log) \in 1..Len(log) /\ 1 \in 1..Len(log)
           /\ CacheCurrent(log) => ~Lagging(log)
<1>1. /\ Lagging(log) =>
           \A i \in 1..Len(Deliver(log)) :
             i + 1 \in 1..Len(log) /\ Deliver(log)[i] = log[i + 1]
      /\ Len(Relist(log)) = 1 /\ Relist(log)[1] = Stored(log)
      /\ Len(log) \in 1..Len(log) /\ 1 \in 1..Len(log)
  BY DEF Lagging, Deliver, Relist
<1>2. \A n \in Nat : n = 1 => ~(n > 1)
  OBVIOUS
<1>3. Len(log) \in Nat
  OBVIOUS
<1>4. CacheCurrent(log) => ~Lagging(log)
  BY <1>2, <1>3, Zenon DEF CacheCurrent, Lagging
<1> QED  BY <1>1, <1>4

\* What may become of a log in one step: nothing, an event, a list, or a write.
Moves(S, log, next) ==
    \/ next = log
    \/ Lagging(log) /\ next = Deliver(log)
    \/ next = Relist(log)
    \/ \E v \in S : next = Write(log, v)

\* The versions after a step are versions before it, or the newly stored one; if
\* the step is no write, what is stored stays.
LEMMA LogMoves ==
    ASSUME NEW S, NEW log \in Seq(S), log # <<>>, NEW next, Moves(S, log, next)
    PROVE  /\ next \in Seq(S) /\ next # <<>>
           /\ Stored(log) = log[Len(log)] /\ Len(log) \in 1..Len(log)
           /\ Cached(log) = log[1] /\ 1 \in 1..Len(log)
           /\ \A i \in 1..Len(next) :
                next[i] = Stored(next) \/ \E k \in 1..Len(log) : next[i] = log[k]
           /\ (\A v \in S : next # Write(log, v)) => Stored(next) = Stored(log)
<1>1. /\ Stored(log) = log[Len(log)] /\ Len(log) \in 1..Len(log)
      /\ Cached(log) = log[1] /\ 1 \in 1..Len(log)
  BY LogForgets DEF Stored, Cached
<1>2. CASE next = log
  BY <1>1, <1>2
<1>3. CASE Lagging(log) /\ next = Deliver(log)
  BY <1>1, <1>3, LogForgets, LogDeliver
<1>4. CASE next = Relist(log)
  <2>1. /\ next \in Seq(S) /\ next # <<>> /\ Stored(next) = Stored(log)
    BY <1>4, LogDeliver
  <2>2. \A i \in 1..Len(next) : next[i] = Stored(next)
    BY <1>4, <2>1, LogForgets
  <2> QED  BY <1>1, <2>1, <2>2
<1>5. ASSUME NEW v \in S, next = Write(log, v)
      PROVE  /\ next \in Seq(S) /\ next # <<>>
             /\ \A i \in 1..Len(next) :
                  next[i] = Stored(next) \/ \E k \in 1..Len(log) : next[i] = log[k]
  <2>1. next \in Seq(S) /\ next # <<>> /\ Stored(next) = v
    BY <1>5, LogWrite
  <2>2. \A i \in 1..Len(next) : \/ next[i] = v
                                \/ i \in 1..Len(log) /\ next[i] = log[i]
    BY <1>5, LogVersions
  <2> QED  BY <2>1, <2>2
<1> QED  BY <1>1, <1>2, <1>3, <1>4, <1>5 DEF Moves
=================================================================================
