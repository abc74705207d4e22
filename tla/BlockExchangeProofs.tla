------------------------ MODULE BlockExchangeProofs ------------------------
(***************************************************************************)
(* Proofs about one connection, for any number of pieces and blocks, any   *)
(* depth of the pipeline and either kind of remote.  BInv is inductive.    *)
(***************************************************************************)
EXTENDS BlockExchange, TLAPS, FiniteSetTheorems, SequenceTheorems

\* The messages of this type in chan are those for the blocks lo+1 to hi of piece
\* p, in order.
InOrder(chan, type, p, lo, hi) ==
    /\ \A i \in DOMAIN chan : chan[i].type = type =>
          chan[i].piece = p /\ chan[i].block \in (lo + 1)..hi
    /\ \A i, j \in DOMAIN chan : chan[i].type = type /\ chan[j].type = type /\ i < j =>
          chan[i].block < chan[j].block
    /\ \A b \in (lo + 1)..hi : \E i \in DOMAIN chan : chan[i].type = type /\ chan[i].block = b

\* The channel has no message of this type.
Free(chan, type) == \A i \in DOMAIN chan : chan[i].type # type

\* The last Choke or Unchoke that the worker has read is an Unchoke.
Active == pc \in {"loop", "assigned", "top", "send", "read"}

\* The variables of GetPiece.
Locals ==
    /\ pc \in {"assigned", "top", "send", "read"} => piece \in bitfield
    /\ pc \notin {"assigned", "top", "send", "read"} => piece = NoPiece
    /\ ~InGetBlocks => requested = 0 /\ blocks = <<>>
    /\ Len(blocks) < NumBlocks
    /\ pc = "read" => Len(blocks) < requested

\* A Have is sent for a piece that is there.
Haves == \A i \in DOMAIN toClient : toClient[i].type = "have" => toClient[i].piece \in has

\* The last Choke or Unchoke that was sent is a Choke, or there was none.
Choked == amChoking <=> choker = "idle"

\* Between two Unchokes under way there is a Choke, and after the last one too
\* if the worker is choked.
Signals ==
    /\ \A i, j \in DOMAIN toClient :
          i < j /\ toClient[i].type = "unchoke" /\ toClient[j].type = "unchoke" =>
              \E k \in DOMAIN toClient : i < k /\ k < j /\ toClient[k].type = "choke"
    /\ \A i \in DOMAIN toClient : Choked /\ toClient[i].type = "unchoke" =>
              \E k \in DOMAIN toClient : i < k /\ toClient[k].type = "choke"

\* A worker that takes itself to be unchoked reads a Choke before the next
\* Unchoke, and reads one if it is choked.
ActiveOK ==
    Active =>
        /\ \A i \in DOMAIN toClient : toClient[i].type = "unchoke" =>
              \E k \in DOMAIN toClient : k < i /\ toClient[k].type = "choke"
        /\ Choked => ~Free(toClient, "choke")

\* The blocks under way are of piece p and in order, from lo+1 to hi.
Rising(chan, p, lo, hi) ==
    /\ \A i \in DOMAIN chan : chan[i].type = "piece" =>
          chan[i].piece = p /\ chan[i].block \in (lo + 1)..hi
    /\ \A i, j \in DOMAIN chan : chan[i].type = "piece" /\ chan[j].type = "piece" /\ i < j =>
          chan[i].block < chan[j].block

\* No block is missing before one that the worker reads ahead of any Choke.
Gapless(chan, lo) ==
    \A i \in DOMAIN chan :
        /\ chan[i].type = "piece"
        /\ \A k \in DOMAIN chan : k < i => chan[k].type # "choke"
        => \A b \in (lo + 1)..(chan[i].block - 1) :
               \E j \in DOMAIN chan : j < i /\ chan[j].type = "piece" /\ chan[j].block = b

\* The answers under way to requests for the blocks lo+1 to hi of piece p; all
\* of them if none was dropped, and then no Choke is under way.
Answers(chan, p, lo, hi, all) ==
    /\ Rising(chan, p, lo, hi)
    /\ Gapless(chan, lo)
    /\ all /\ Free(chan, "choke") => InOrder(chan, "piece", p, lo, hi)

\* In getBlocks the blocks stored, those under way and the requests under way
\* continue one another, except for requests that a choking remote has dropped.
Flowing ==
    /\ \A i \in 1..Len(blocks) : blocks[i] = [piece |-> piece, block |-> i]
    /\ \E r \in Len(blocks)..requested :
          /\ Answers(toClient, piece, Len(blocks), r, ~amChoking)
          /\ InOrder(toRemote, "request", piece, r, requested)

\* Outside getBlocks nothing is under way.
Drained == Free(toClient, "piece") /\ Free(toRemote, "request")

\* The connection is up, and nothing has put it out of step.
InStep == alive /\ ~leftBehind /\ ~ignored

Flow == InStep => IF InGetBlocks THEN Flowing ELSE Drained

BInv ==
    /\ TypeOK /\ Locals /\ Haves
    /\ alive => Signals /\ ActiveOK
    /\ Flow

-----------------------------------------------------------------------------
(* Channels *)

\* What Append does to a channel.
LEMMA Appended ==
    ASSUME NEW M, NEW chan \in Seq(M), NEW m \in M
    PROVE  /\ Append(chan, m) \in Seq(M)
           /\ Len(chan) \in Nat /\ DOMAIN chan = 1..Len(chan)
           /\ DOMAIN Append(chan, m) = 1..(Len(chan) + 1)
           /\ \A i \in DOMAIN chan : Append(chan, m)[i] = chan[i]
           /\ Append(chan, m)[Len(chan) + 1] = m
           /\ \A i \in DOMAIN Append(chan, m) : i \in DOMAIN chan \/ i = Len(chan) + 1
           /\ DOMAIN chan \subseteq DOMAIN Append(chan, m)
           /\ Len(chan) + 1 \in DOMAIN Append(chan, m)
           /\ \A i \in DOMAIN chan : i < Len(chan) + 1
<1>1. Len(chan) \in Nat /\ DOMAIN chan = 1..Len(chan)
  BY LenProperties
<1>2. /\ Append(chan, m) \in Seq(M)
      /\ DOMAIN Append(chan, m) = 1..(Len(chan) + 1)
      /\ \A i \in DOMAIN chan : Append(chan, m)[i] = chan[i]
      /\ Append(chan, m)[Len(chan) + 1] = m
  BY <1>1, AppendProperties
<1> QED
  BY <1>1, <1>2

\* What Tail does to a channel.
LEMMA Tailed ==
    ASSUME NEW M, NEW chan \in Seq(M), chan # <<>>
    PROVE  /\ Tail(chan) \in Seq(M) /\ Head(chan) \in M
           /\ 1 \in DOMAIN chan /\ Head(chan) = chan[1]
           /\ DOMAIN chan \subseteq Nat
           /\ \A i \in DOMAIN Tail(chan) : i \in Nat \ {0} /\ i + 1 \in DOMAIN chan
                                           /\ Tail(chan)[i] = chan[i + 1]
           /\ \A i \in DOMAIN chan : i = 1 \/ (1 < i /\ i - 1 \in DOMAIN Tail(chan)
                                                /\ Tail(chan)[i - 1] = chan[i])
<1>1. Len(chan) \in Nat \ {0} /\ DOMAIN chan = 1..Len(chan)
  BY EmptySeq, LenProperties
<1>2. /\ Head(chan) \in M /\ Tail(chan) \in Seq(M)
      /\ Len(Tail(chan)) = Len(chan) - 1
      /\ \A i \in 1..Len(Tail(chan)) : Tail(chan)[i] = chan[i + 1]
  BY HeadTailProperties
<1>3. DOMAIN Tail(chan) = 1..Len(Tail(chan))
  BY <1>2, LenProperties
<1>4. \A i \in DOMAIN Tail(chan) : i \in Nat \ {0} /\ i + 1 \in DOMAIN chan
                                   /\ Tail(chan)[i] = chan[i + 1]
  BY <1>1, <1>2, <1>3
<1>5. ASSUME NEW i \in DOMAIN chan, i # 1
      PROVE  1 < i /\ i - 1 \in DOMAIN Tail(chan) /\ Tail(chan)[i - 1] = chan[i]
  <2>1. 1 < i /\ i - 1 \in 1..Len(Tail(chan)) /\ (i - 1) + 1 = i
    BY <1>1, <1>2, <1>5
  <2> QED
    BY <1>2, <1>3, <2>1
<1> QED
  BY <1>1, <1>2, <1>4, <1>5

\* A channel without messages of this type: the empty interval.
LEMMA FreeInOrder ==
    ASSUME NEW chan, NEW type, NEW p, NEW n \in Nat
    PROVE  Free(chan, type) <=> InOrder(chan, type, p, n, n)
BY DEF Free, InOrder

\* A message of another type is added.
LEMMA AppendOther ==
    ASSUME NEW M, NEW chan \in Seq(M), NEW m \in M, NEW type, m.type # type,
           NEW p, NEW lo \in Nat, NEW hi \in Nat, InOrder(chan, type, p, lo, hi)
    PROVE  InOrder(Append(chan, m), type, p, lo, hi)
<1>1. PICK c : c = Append(chan, m)
  OBVIOUS
<1>2. /\ \A i \in DOMAIN chan : i \in DOMAIN c /\ c[i] = chan[i]
      /\ \A i \in DOMAIN c : i \in DOMAIN chan \/ c[i] = m
  BY <1>1, Appended
<1>3. InOrder(c, type, p, lo, hi)
  BY <1>2 DEF InOrder
<1> QED
  BY <1>1, <1>3

\* The message for the next block is added.
LEMMA AppendNext ==
    ASSUME NEW M, NEW chan \in Seq(M), NEW m \in M, NEW type, NEW p,
           NEW lo \in Nat, NEW hi \in Nat, lo <= hi,
           m.type = type, m.piece = p, m.block = hi + 1, InOrder(chan, type, p, lo, hi)
    PROVE  InOrder(Append(chan, m), type, p, lo, hi + 1)
<1>1. PICK c : c = Append(chan, m)
  OBVIOUS
<1>2. PICK l \in Nat : l = Len(chan) + 1
  BY Appended
<1>3. /\ \A i \in DOMAIN chan : i \in DOMAIN c /\ c[i] = chan[i] /\ i < l
      /\ \A i \in DOMAIN c : i \in DOMAIN chan \/ i = l
      /\ l \in DOMAIN c /\ c[l] = m
      /\ DOMAIN chan \subseteq Nat
  BY <1>1, <1>2, Appended
<1>4. \A i \in DOMAIN c : c[i].type = type => c[i].piece = p /\ c[i].block \in (lo + 1)..(hi + 1)
  BY <1>3 DEF InOrder
<1>5. ASSUME NEW i \in DOMAIN c, NEW j \in DOMAIN c, c[i].type = type, c[j].type = type, i < j
      PROVE  c[i].block < c[j].block
  <2>1. i \in DOMAIN chan
    BY <1>3, <1>5
  <2> QED
    BY <1>3, <1>5, <2>1 DEF InOrder
<1>6. \A b \in (lo + 1)..(hi + 1) : \E i \in DOMAIN c : c[i].type = type /\ c[i].block = b
  <2> SUFFICES ASSUME NEW b \in (lo + 1)..(hi + 1)
               PROVE  \E i \in DOMAIN c : c[i].type = type /\ c[i].block = b
    OBVIOUS
  <2>1. CASE b = hi + 1
    BY <1>3, <2>1
  <2>2. CASE b \in (lo + 1)..hi
    BY <1>3, <2>2 DEF InOrder
  <2> QED
    BY <2>1, <2>2
<1>7. InOrder(c, type, p, lo, hi + 1)
  BY <1>4, <1>5, <1>6 DEF InOrder
<1> QED
  BY <1>1, <1>7

\* A message of another type is taken.
LEMMA TailOther ==
    ASSUME NEW M, NEW chan \in Seq(M), chan # <<>>, NEW type, Head(chan).type # type,
           NEW p, NEW lo \in Nat, NEW hi \in Nat, InOrder(chan, type, p, lo, hi)
    PROVE  InOrder(Tail(chan), type, p, lo, hi)
<1>1. PICK c : c = Tail(chan)
  OBVIOUS
<1>2. /\ \A i \in DOMAIN c : i \in Nat \ {0} /\ i + 1 \in DOMAIN chan /\ c[i] = chan[i + 1]
      /\ \A i \in DOMAIN chan : i = 1 \/ (1 < i /\ i - 1 \in DOMAIN c /\ c[i - 1] = chan[i])
      /\ 1 \in DOMAIN chan /\ Head(chan) = chan[1]
  BY <1>1, Tailed
<1>3. \A i \in DOMAIN c : c[i].type = type => c[i].piece = p /\ c[i].block \in (lo + 1)..hi
  BY <1>2 DEF InOrder
<1>4. ASSUME NEW i \in DOMAIN c, NEW j \in DOMAIN c, c[i].type = type, c[j].type = type, i < j
      PROVE  c[i].block < c[j].block
  <2>1. PICK k \in DOMAIN chan, l \in DOMAIN chan : k < l /\ c[i] = chan[k] /\ c[j] = chan[l]
    <3>1. i + 1 < j + 1
      BY <1>2, <1>4
    <3> QED
      BY <1>2, <3>1
  <2> QED
    BY <1>4, <2>1 DEF InOrder
<1>5. \A b \in (lo + 1)..hi : \E i \in DOMAIN c : c[i].type = type /\ c[i].block = b
  <2> SUFFICES ASSUME NEW b \in (lo + 1)..hi
               PROVE  \E i \in DOMAIN c : c[i].type = type /\ c[i].block = b
    OBVIOUS
  <2>1. PICK i \in DOMAIN chan : chan[i].type = type /\ chan[i].block = b
    BY DEF InOrder
  <2> QED
    BY <1>2, <2>1
<1>6. InOrder(c, type, p, lo, hi)
  BY <1>3, <1>4, <1>5 DEF InOrder
<1> QED
  BY <1>1, <1>6

\* A message of this type is taken: it is the first.
LEMMA TailFirst ==
    ASSUME NEW M, NEW chan \in Seq(M), chan # <<>>, NEW type, Head(chan).type = type,
           NEW p, NEW lo \in Nat, NEW hi \in Nat, InOrder(chan, type, p, lo, hi)
    PROVE  /\ lo < hi /\ Head(chan).piece = p /\ Head(chan).block = lo + 1
           /\ InOrder(Tail(chan), type, p, lo + 1, hi)
<1>1. PICK c : c = Tail(chan)
  OBVIOUS
<1>2. /\ \A i \in DOMAIN c : i \in Nat \ {0} /\ i + 1 \in DOMAIN chan /\ c[i] = chan[i + 1]
      /\ \A i \in DOMAIN chan : i = 1 \/ (1 < i /\ i - 1 \in DOMAIN c /\ c[i - 1] = chan[i])
      /\ 1 \in DOMAIN chan /\ Head(chan) = chan[1]
  BY <1>1, Tailed
<1>3. chan[1].type = type /\ chan[1].piece = p /\ chan[1].block \in (lo + 1)..hi
  BY <1>2 DEF InOrder
<1>4. chan[1].block = lo + 1 /\ lo < hi
  <2>1. lo + 1 \in (lo + 1)..hi
    BY <1>3
  <2>2. PICK i \in DOMAIN chan : chan[i].type = type /\ chan[i].block = lo + 1
    BY <2>1 DEF InOrder
  <2>3. i = 1 \/ chan[1].block < chan[i].block
    BY <1>2, <1>3, <2>2 DEF InOrder
  <2> QED
    BY <1>3, <2>1, <2>2, <2>3
<1>5. \A i \in DOMAIN c : c[i].type = type => c[i].piece = p /\ c[i].block \in (lo + 2)..hi
  <2> SUFFICES ASSUME NEW i \in DOMAIN c, c[i].type = type
               PROVE  c[i].piece = p /\ c[i].block \in (lo + 2)..hi
    OBVIOUS
  <2>1. PICK k \in DOMAIN chan : k = i + 1 /\ 1 < k /\ c[i] = chan[k]
    BY <1>2
  <2>2. chan[1].block < chan[k].block /\ chan[k].piece = p /\ chan[k].block \in (lo + 1)..hi
    BY <1>2, <1>3, <2>1 DEF InOrder
  <2> QED
    BY <1>4, <2>1, <2>2
<1>6. ASSUME NEW i \in DOMAIN c, NEW j \in DOMAIN c, c[i].type = type, c[j].type = type, i < j
      PROVE  c[i].block < c[j].block
  <2>1. PICK k \in DOMAIN chan, l \in DOMAIN chan : k < l /\ c[i] = chan[k] /\ c[j] = chan[l]
    <3>1. i + 1 < j + 1
      BY <1>2, <1>6
    <3> QED
      BY <1>2, <3>1
  <2> QED
    BY <1>6, <2>1 DEF InOrder
<1>7. \A b \in (lo + 2)..hi : \E i \in DOMAIN c : c[i].type = type /\ c[i].block = b
  <2> SUFFICES ASSUME NEW b \in (lo + 2)..hi
               PROVE  \E i \in DOMAIN c : c[i].type = type /\ c[i].block = b
    OBVIOUS
  <2>1. b \in (lo + 1)..hi /\ b # lo + 1
    OBVIOUS
  <2>2. PICK i \in DOMAIN chan : chan[i].type = type /\ chan[i].block = b
    BY <2>1 DEF InOrder
  <2> QED
    BY <1>2, <1>4, <2>1, <2>2
<1>8. (lo + 1) + 1 = lo + 2
  OBVIOUS
<1>9. InOrder(c, type, p, lo + 1, hi)
  BY <1>5, <1>6, <1>7, <1>8 DEF InOrder
<1> QED
  BY <1>1, <1>2, <1>3, <1>4, <1>9

\* As many messages as the interval has blocks.
LEMMA InOrderCount ==
    ASSUME NEW M, NEW chan \in Seq(M), NEW type, NEW p, NEW lo \in Nat, NEW hi \in Nat,
           lo <= hi, InOrder(chan, type, p, lo, hi)
    PROVE  Cardinality({i \in DOMAIN chan : chan[i].type = type}) = hi - lo
<1> DEFINE S == {i \in DOMAIN chan : chan[i].type = type}
           T == (lo + 1)..hi
           f == [i \in S |-> chan[i].block]
<1>0. DOMAIN chan \subseteq Nat
  BY LenProperties
<1>1. f \in [S -> T]
  BY DEF InOrder
<1>2. \A i, j \in S : i # j => f[i] # f[j]
  <2> SUFFICES ASSUME NEW i \in S, NEW j \in S, i # j PROVE f[i] # f[j]
    OBVIOUS
  <2>1. i < j \/ j < i
    BY <1>0
  <2>2. chan[i].block < chan[j].block \/ chan[j].block < chan[i].block
    BY <2>1 DEF InOrder
  <2>3. chan[i].block \in T /\ chan[j].block \in T
    BY DEF InOrder
  <2> QED
    BY <2>2, <2>3
<1>3. \A b \in T : \E i \in S : f[i] = b
  BY DEF InOrder
<1>4. f \in Bijection(S, T)
  BY <1>1, <1>2, <1>3 DEF Bijection, Injection, Surjection, IsInjective
<1>5. IsFiniteSet(T) /\ Cardinality(T) = hi - lo
  <2>1. lo + 1 \in Int /\ hi \in Int
    OBVIOUS
  <2>2. Cardinality(T) = IF lo + 1 > hi THEN 0 ELSE hi - (lo + 1) + 1
    BY <2>1, FS_Interval
  <2>3. (IF lo + 1 > hi THEN 0 ELSE hi - (lo + 1) + 1) = hi - lo
    OBVIOUS
  <2>4. IsFiniteSet(T)
    BY <2>1, FS_Interval
  <2> QED
    BY <2>2, <2>3, <2>4
<1>6. ExistsBijection(S, T)
  BY <1>4 DEF ExistsBijection
<1>7. IsFiniteSet(S)
  <2>1. Len(chan) \in Nat /\ DOMAIN chan = 1..Len(chan)
    BY LenProperties
  <2>2. IsFiniteSet(DOMAIN chan)
    BY <2>1, FS_Interval
  <2>3. S \subseteq DOMAIN chan
    OBVIOUS
  <2> QED
    BY <2>2, <2>3, FS_Subset
<1> HIDE DEF S, T
<1>8. Cardinality(S) = hi - lo
  BY <1>5, <1>6, <1>7, FS_Bijection
<1> QED
  BY <1>8 DEF S

\* No answers: nothing was requested, or nothing is under way.
LEMMA AnswersFree ==
    ASSUME NEW M, NEW chan \in Seq(M), NEW p, NEW n \in Nat, NEW all \in BOOLEAN
    PROVE  Free(chan, "piece") <=> Answers(chan, p, n, n, all)
<1>1. ASSUME Free(chan, "piece") PROVE Answers(chan, p, n, n, all)
  <2>1. InOrder(chan, "piece", p, n, n)
    BY <1>1, FreeInOrder
  <2> QED
    BY <1>1, <2>1 DEF Answers, Rising, Gapless, Free
<1>2. ASSUME Answers(chan, p, n, n, all) PROVE Free(chan, "piece")
  BY <1>2 DEF Answers, Rising, Free
<1> QED
  BY <1>1, <1>2

\* A request is dropped.
LEMMA AnswersDropped ==
    ASSUME NEW chan, NEW p, NEW lo \in Nat, NEW hi \in Nat,
           Answers(chan, p, lo, hi, FALSE)
    PROVE  Answers(chan, p, lo, hi + 1, FALSE)
<1>1. \A b \in (lo + 1)..hi : b \in (lo + 1)..(hi + 1)
  OBVIOUS
<1> QED
  BY <1>1 DEF Answers, Rising

\* Something other than a block is sent.
LEMMA AnswersAppendOther ==
    ASSUME NEW M, NEW chan \in Seq(M), NEW m \in M, m.type # "piece",
           NEW p, NEW lo \in Nat, NEW hi \in Nat, NEW all \in BOOLEAN,
           Answers(chan, p, lo, hi, all)
    PROVE  Answers(Append(chan, m), p, lo, hi, all)
<1>1. PICK c : c = Append(chan, m)
  OBVIOUS
<1>2. /\ \A i \in DOMAIN chan : i \in DOMAIN c /\ c[i] = chan[i]
      /\ \A i \in DOMAIN c : i \in DOMAIN chan \/ c[i] = m
  BY <1>1, Appended
<1>3. Rising(c, p, lo, hi)
  BY <1>2 DEF Answers, Rising
<1>4. Gapless(c, lo)
  BY <1>2 DEF Answers, Gapless
<1>5. ASSUME all, Free(c, "choke") PROVE InOrder(c, "piece", p, lo, hi)
  <2>1. Free(chan, "choke")
    BY <1>2, <1>5 DEF Free
  <2> QED
    BY <1>1, <1>5, <2>1, AppendOther DEF Answers
<1>6. Answers(c, p, lo, hi, all)
  BY <1>3, <1>4, <1>5 DEF Answers
<1> QED
  BY <1>1, <1>6

\* The next block is sent.
LEMMA AnswersAppendNext ==
    ASSUME NEW M, NEW chan \in Seq(M), NEW m \in M,
           NEW p, NEW lo \in Nat, NEW hi \in Nat, lo <= hi,
           m.type = "piece", m.piece = p, m.block = hi + 1,
           Answers(chan, p, lo, hi, TRUE)
    PROVE  Answers(Append(chan, m), p, lo, hi + 1, TRUE)
<1>1. PICK c : c = Append(chan, m)
  OBVIOUS
<1>2. PICK l \in Nat : l = Len(chan) + 1
  BY Appended
<1>3. /\ \A i \in DOMAIN chan : i \in DOMAIN c /\ c[i] = chan[i] /\ i < l
      /\ \A i \in DOMAIN c : i \in DOMAIN chan \/ i = l
      /\ l \in DOMAIN c /\ c[l] = m
      /\ DOMAIN chan \subseteq Nat
  BY <1>1, <1>2, Appended
<1>4. Rising(c, p, lo, hi + 1)
  <2>1. \A i \in DOMAIN c : c[i].type = "piece" =>
            c[i].piece = p /\ c[i].block \in (lo + 1)..(hi + 1)
    BY <1>3 DEF Answers, Rising
  <2>2. ASSUME NEW i \in DOMAIN c, NEW j \in DOMAIN c,
               c[i].type = "piece", c[j].type = "piece", i < j
        PROVE  c[i].block < c[j].block
    <3>1. i \in DOMAIN chan
      BY <1>3, <2>2
    <3> QED
      BY <1>3, <2>2, <3>1 DEF Answers, Rising
  <2> QED
    BY <2>1, <2>2 DEF Rising
<1>5. Gapless(c, lo)
  <2> SUFFICES ASSUME NEW i \in DOMAIN c, c[i].type = "piece",
                      \A k \in DOMAIN c : k < i => c[k].type # "choke",
                      NEW b \in (lo + 1)..(c[i].block - 1)
               PROVE  \E j \in DOMAIN c : j < i /\ c[j].type = "piece" /\ c[j].block = b
    BY DEF Gapless
  <2>1. CASE i = l
    <3>1. Free(chan, "choke")
      BY <1>3, <2>1 DEF Free
    <3>2. InOrder(chan, "piece", p, lo, hi) /\ b \in (lo + 1)..hi
      BY <1>3, <2>1, <3>1 DEF Answers
    <3>3. PICK j \in DOMAIN chan : chan[j].type = "piece" /\ chan[j].block = b
      BY <3>2 DEF InOrder
    <3> QED
      BY <1>3, <2>1, <3>3
  <2>2. CASE i \in DOMAIN chan
    BY <1>3, <2>2 DEF Answers, Gapless
  <2> QED
    BY <1>3, <2>1, <2>2
<1>6. ASSUME Free(c, "choke") PROVE InOrder(c, "piece", p, lo, hi + 1)
  <2>1. Free(chan, "choke")
    BY <1>3, <1>6 DEF Free
  <2>2. InOrder(chan, "piece", p, lo, hi)
    BY <2>1 DEF Answers
  <2>3. PICK t : t = "piece"
    OBVIOUS
  <2>4. InOrder(Append(chan, m), t, p, lo, hi + 1)
    BY <2>2, <2>3, AppendNext
  <2> QED
    BY <1>1, <2>3, <2>4
<1>7. Answers(c, p, lo, hi + 1, TRUE)
  BY <1>4, <1>5, <1>6 DEF Answers
<1> QED
  BY <1>1, <1>7

\* Something other than a block or a Choke is read.
LEMMA AnswersTailOther ==
    ASSUME NEW M, NEW chan \in Seq(M), chan # <<>>,
           Head(chan).type # "piece", Head(chan).type # "choke",
           NEW p, NEW lo \in Nat, NEW hi \in Nat, NEW all \in BOOLEAN,
           Answers(chan, p, lo, hi, all)
    PROVE  Answers(Tail(chan), p, lo, hi, all)
<1>1. PICK c : c = Tail(chan)
  OBVIOUS
<1>2. /\ \A i \in DOMAIN c : i \in Nat \ {0} /\ i + 1 \in DOMAIN chan /\ c[i] = chan[i + 1]
      /\ \A i \in DOMAIN chan : i = 1 \/ (1 < i /\ i - 1 \in DOMAIN c /\ c[i - 1] = chan[i])
      /\ 1 \in DOMAIN chan /\ Head(chan) = chan[1] /\ DOMAIN chan \subseteq Nat
  BY <1>1, Tailed
<1>3. Rising(c, p, lo, hi)
  <2>1. \A i \in DOMAIN c : c[i].type = "piece" => c[i].piece = p /\ c[i].block \in (lo + 1)..hi
    BY <1>2 DEF Answers, Rising
  <2>2. ASSUME NEW i \in DOMAIN c, NEW j \in DOMAIN c,
               c[i].type = "piece", c[j].type = "piece", i < j
        PROVE  c[i].block < c[j].block
    <3>1. i + 1 < j + 1
      BY <1>2, <2>2
    <3> QED
      BY <1>2, <2>2, <3>1 DEF Answers, Rising
  <2> QED
    BY <2>1, <2>2 DEF Rising
<1>4. Gapless(c, lo)
  <2> SUFFICES ASSUME NEW i \in DOMAIN c, c[i].type = "piece",
                      \A k \in DOMAIN c : k < i => c[k].type # "choke",
                      NEW b \in (lo + 1)..(c[i].block - 1)
               PROVE  \E j \in DOMAIN c : j < i /\ c[j].type = "piece" /\ c[j].block = b
    BY DEF Gapless
  <2>1. PICK h \in DOMAIN chan : h = i + 1 /\ chan[h] = c[i] /\ h \in Nat /\ i \in Nat
    BY <1>2
  <2>2. ASSUME NEW k \in DOMAIN chan, k < h PROVE chan[k].type # "choke"
    <3>1. CASE k = 1
      BY <1>2, <3>1
    <3>2. CASE k # 1
      <4>1. k - 1 \in DOMAIN c /\ c[k - 1] = chan[k]
        BY <1>2, <3>2
      <4>2. k \in Nat /\ k - 1 < i
        BY <1>2, <2>1, <2>2
      <4> QED
        BY <4>1, <4>2
    <3> QED
      BY <3>1, <3>2
  <2>3. PICK g \in DOMAIN chan : g < h /\ chan[g].type = "piece" /\ chan[g].block = b
    BY <2>1, <2>2 DEF Answers, Gapless
  <2>4. g # 1 /\ g - 1 \in DOMAIN c /\ c[g - 1] = chan[g] /\ g - 1 < i
    BY <1>2, <2>1, <2>3
  <2> QED
    BY <2>3, <2>4
<1>5. ASSUME all, Free(c, "choke") PROVE InOrder(c, "piece", p, lo, hi)
  <2>1. Free(chan, "choke")
    BY <1>2, <1>5 DEF Free
  <2>2. InOrder(chan, "piece", p, lo, hi)
    BY <1>5, <2>1 DEF Answers
  <2> QED
    BY <1>1, <2>2, TailOther
<1>6. Answers(c, p, lo, hi, all)
  BY <1>3, <1>4, <1>5 DEF Answers
<1> QED
  BY <1>1, <1>6

\* A block is read: it is the first that is missing.
LEMMA AnswersTailFirst ==
    ASSUME NEW M, NEW chan \in Seq(M), chan # <<>>, Head(chan).type = "piece",
           NEW p, NEW lo \in Nat, NEW hi \in Nat, NEW all \in BOOLEAN,
           Answers(chan, p, lo, hi, all)
    PROVE  /\ lo < hi /\ Head(chan).piece = p /\ Head(chan).block = lo + 1
           /\ Answers(Tail(chan), p, lo + 1, hi, all)
<1>1. PICK c : c = Tail(chan)
  OBVIOUS
<1>2. /\ \A i \in DOMAIN c : i \in Nat \ {0} /\ i + 1 \in DOMAIN chan /\ c[i] = chan[i + 1]
      /\ \A i \in DOMAIN chan : i = 1 \/ (1 < i /\ i - 1 \in DOMAIN c /\ c[i - 1] = chan[i])
      /\ 1 \in DOMAIN chan /\ Head(chan) = chan[1] /\ DOMAIN chan \subseteq Nat
  BY <1>1, Tailed
<1>3. chan[1].type = "piece" /\ chan[1].piece = p /\ chan[1].block \in (lo + 1)..hi
  BY <1>2 DEF Answers, Rising
<1>4. chan[1].block = lo + 1 /\ lo < hi
  <2>1. \A k \in DOMAIN chan : ~(k < 1)
    BY <1>2
  <2>2. \A b \in (lo + 1)..(chan[1].block - 1) : FALSE
    BY <1>2, <1>3, <2>1 DEF Answers, Gapless
  <2> QED
    BY <1>3, <2>2
<1>5. Rising(c, p, lo + 1, hi)
  <2>1. ASSUME NEW i \in DOMAIN c, c[i].type = "piece"
        PROVE  c[i].piece = p /\ c[i].block \in ((lo + 1) + 1)..hi
    <3>1. PICK k \in DOMAIN chan : k = i + 1 /\ 1 < k /\ c[i] = chan[k]
      BY <1>2
    <3>2. chan[1].block < chan[k].block /\ chan[k].piece = p /\ chan[k].block \in (lo + 1)..hi
      BY <1>2, <1>3, <2>1, <3>1 DEF Answers, Rising
    <3> QED
      BY <1>4, <3>1, <3>2
  <2>2. ASSUME NEW i \in DOMAIN c, NEW j \in DOMAIN c,
               c[i].type = "piece", c[j].type = "piece", i < j
        PROVE  c[i].block < c[j].block
    <3>1. i + 1 < j + 1
      BY <1>2, <2>2
    <3> QED
      BY <1>2, <2>2, <3>1 DEF Answers, Rising
  <2> QED
    BY <2>1, <2>2 DEF Rising
<1>6. Gapless(c, lo + 1)
  <2> SUFFICES ASSUME NEW i \in DOMAIN c, c[i].type = "piece",
                      \A k \in DOMAIN c : k < i => c[k].type # "choke",
                      NEW b \in ((lo + 1) + 1)..(c[i].block - 1)
               PROVE  \E j \in DOMAIN c : j < i /\ c[j].type = "piece" /\ c[j].block = b
    BY DEF Gapless
  <2>1. PICK h \in DOMAIN chan : h = i + 1 /\ chan[h] = c[i] /\ h \in Nat /\ i \in Nat
    BY <1>2
  <2>2. ASSUME NEW k \in DOMAIN chan, k < h PROVE chan[k].type # "choke"
    <3>1. CASE k = 1
      BY <1>3, <3>1
    <3>2. CASE k # 1
      <4>1. k - 1 \in DOMAIN c /\ c[k - 1] = chan[k]
        BY <1>2, <3>2
      <4>2. k \in Nat /\ k - 1 < i
        BY <1>2, <2>1, <2>2
      <4> QED
        BY <4>1, <4>2
    <3> QED
      BY <3>1, <3>2
  <2>3. chan[h].block \in Nat
    BY <2>1 DEF Answers, Rising
  <2>4. b \in (lo + 1)..(chan[h].block - 1) /\ b # lo + 1
    BY <2>1, <2>3
  <2>5. PICK g \in DOMAIN chan : g < h /\ chan[g].type = "piece" /\ chan[g].block = b
    BY <2>1, <2>2, <2>4 DEF Answers, Gapless
  <2>6. g # 1 /\ g - 1 \in DOMAIN c /\ c[g - 1] = chan[g] /\ g - 1 < i
    BY <1>2, <1>4, <2>1, <2>4, <2>5
  <2> QED
    BY <2>5, <2>6
<1>7. ASSUME all, Free(c, "choke") PROVE InOrder(c, "piece", p, lo + 1, hi)
  <2>1. Free(chan, "choke")
    BY <1>2, <1>3, <1>7 DEF Free
  <2>2. InOrder(chan, "piece", p, lo, hi)
    BY <1>7, <2>1 DEF Answers
  <2> QED
    BY <1>1, <2>2, TailFirst
<1>8. Answers(c, p, lo + 1, hi, all)
  BY <1>5, <1>6, <1>7 DEF Answers
<1> QED
  BY <1>1, <1>2, <1>3, <1>4, <1>8

\* At most as many answers as the interval has blocks.
LEMMA AnswersCount ==
    ASSUME NEW M, NEW chan \in Seq(M), NEW p, NEW lo \in Nat, NEW hi \in Nat,
           lo <= hi, NEW all \in BOOLEAN, Answers(chan, p, lo, hi, all)
    PROVE  /\ Cardinality({i \in DOMAIN chan : chan[i].type = "piece"}) \in Nat
           /\ Cardinality({i \in DOMAIN chan : chan[i].type = "piece"}) <= hi - lo
<1> DEFINE S == {i \in DOMAIN chan : chan[i].type = "piece"}
           T == (lo + 1)..hi
           f == [i \in S |-> chan[i].block]
<1>0. DOMAIN chan \subseteq Nat
  BY LenProperties
<1>1. f \in [S -> T]
  BY DEF Answers, Rising
<1>2. \A i, j \in S : i # j => f[i] # f[j]
  <2> SUFFICES ASSUME NEW i \in S, NEW j \in S, i # j PROVE f[i] # f[j]
    OBVIOUS
  <2>1. i < j \/ j < i
    BY <1>0
  <2>2. chan[i].block < chan[j].block \/ chan[j].block < chan[i].block
    BY <2>1 DEF Answers, Rising
  <2>3. chan[i].block \in T /\ chan[j].block \in T
    BY DEF Answers, Rising
  <2> QED
    BY <2>2, <2>3
<1>3. f \in Injection(S, T)
  BY <1>1, <1>2 DEF Injection, IsInjective
<1>4. IsFiniteSet(T) /\ Cardinality(T) = hi - lo
  <2>1. lo + 1 \in Int /\ hi \in Int
    OBVIOUS
  <2>2. Cardinality(T) = IF lo + 1 > hi THEN 0 ELSE hi - (lo + 1) + 1
    BY <2>1, FS_Interval
  <2>3. (IF lo + 1 > hi THEN 0 ELSE hi - (lo + 1) + 1) = hi - lo
    OBVIOUS
  <2>4. IsFiniteSet(T)
    BY <2>1, FS_Interval
  <2> QED
    BY <2>2, <2>3, <2>4
<1> HIDE DEF S, T, f
<1>6. IsFiniteSet(S) /\ Cardinality(S) <= Cardinality(T)
  BY <1>3, <1>4, FS_Injection
<1>5. Cardinality(S) \in Nat
  BY <1>6, FS_CardinalityType
<1> QED
  BY <1>4, <1>5, <1>6 DEF S

-----------------------------------------------------------------------------
(* Messages *)

\* The messages to the worker are told apart by their type.
LEMMA ClientMessages ==
    /\ \A m \in ToClient : /\ m \in PieceMessages <=> m.type = "piece"
                           /\ m = Plain("choke") <=> m.type = "choke"
                           /\ m = Plain("unchoke") <=> m.type = "unchoke"
                           /\ m.type = "have" => m.piece \in Pieces
    /\ \A p \in Pieces, b \in 1..NumBlocks :
          /\ Piece(p, b) \in ToClient /\ Piece(p, b).type = "piece"
          /\ Piece(p, b).piece = p /\ Piece(p, b).block = b
    /\ \A p \in Pieces : Have(p) \in ToClient /\ Have(p).type = "have" /\ Have(p).piece = p
    /\ \A t \in {"choke", "unchoke"} : Plain(t) \in ToClient /\ Plain(t).type = t
<1>1. ASSUME NEW m \in ToClient
      PROVE  /\ m \in PieceMessages <=> m.type = "piece"
             /\ m = Plain("choke") <=> m.type = "choke"
             /\ m = Plain("unchoke") <=> m.type = "unchoke"
             /\ m.type = "have" => m.piece \in Pieces
  <2>1. CASE m \in PieceMessages
    <3>1. m.type = "piece"
      BY <2>1 DEF PieceMessages, Piece
    <3> QED
      BY <2>1, <3>1 DEF Plain
  <2>2. CASE \E p \in Pieces : m = Have(p)
    <3>1. m.type = "have" /\ m.piece \in Pieces
      BY <2>2 DEF Have
    <3>2. m \notin PieceMessages
      BY <3>1 DEF PieceMessages, Piece
    <3> QED
      BY <3>1, <3>2 DEF Plain
  <2>3. CASE m \in {Plain("choke"), Plain("unchoke")}
    <3>1. m \notin PieceMessages
      BY <2>3 DEF PieceMessages, Piece, Plain
    <3> QED
      BY <2>3, <3>1 DEF Plain
  <2> QED
    BY <2>1, <2>2, <2>3 DEF ToClient
<1>2. \A p \in Pieces, b \in 1..NumBlocks :
          /\ Piece(p, b) \in ToClient /\ Piece(p, b).type = "piece"
          /\ Piece(p, b).piece = p /\ Piece(p, b).block = b
  BY DEF ToClient, PieceMessages, Piece
<1>3. \A p \in Pieces : Have(p) \in ToClient /\ Have(p).type = "have" /\ Have(p).piece = p
  BY DEF ToClient, Have
<1>4. \A t \in {"choke", "unchoke"} : Plain(t) \in ToClient /\ Plain(t).type = t
  BY DEF ToClient, Plain
<1> QED
  BY <1>1, <1>2, <1>3, <1>4

\* The messages to the remote are told apart by their type.
LEMMA RemoteMessages ==
    /\ \A m \in ToRemote : m \in Requests <=> m.type = "request"
    /\ \A p \in Pieces, b \in 1..NumBlocks :
          /\ Request(p, b) \in ToRemote /\ Request(p, b).type = "request"
          /\ Request(p, b).piece = p /\ Request(p, b).block = b
          /\ Cancel(p, b) \in ToRemote
    /\ \A t \in {"interested", "notInterested"} :
          Plain(t) \in ToRemote /\ Plain(t).type = t
<1>1. ASSUME NEW m \in ToRemote PROVE m \in Requests <=> m.type = "request"
  <2>1. CASE m \in Requests
    BY <2>1 DEF Requests, Request
  <2>2. CASE m \in {Cancel(p, b) : p \in Pieces, b \in 1..NumBlocks}
    BY <2>2 DEF Requests, Request, Cancel
  <2>3. CASE m \in {Plain("interested"), Plain("notInterested")}
    BY <2>3 DEF Requests, Request, Plain
  <2> QED
    BY <2>1, <2>2, <2>3 DEF ToRemote
<1>2. \A p \in Pieces, b \in 1..NumBlocks :
          /\ Request(p, b) \in ToRemote /\ Request(p, b).type = "request"
          /\ Request(p, b).piece = p /\ Request(p, b).block = b
          /\ Cancel(p, b) \in ToRemote
  BY DEF ToRemote, Requests, Request
<1>3. \A t \in {"interested", "notInterested"} :
          Plain(t) \in ToRemote /\ Plain(t).type = t
  BY DEF ToRemote, Plain
<1> QED
  BY <1>1, <1>2, <1>3

-----------------------------------------------------------------------------
(* What reading and sending do to the parts of BInv *)

\* The worker reads a message.
LEMMA ReadTail ==
    ASSUME TypeOK, toClient # <<>>, toClient' = Tail(toClient),
           UNCHANGED <<has, amChoking, choker>>
    PROVE  /\ toClient' \in Seq(ToClient) /\ Head(toClient) \in ToClient
           /\ Haves => /\ Haves'
                       /\ Head(toClient).type = "have" => Head(toClient).piece \in has
           /\ Signals => Signals'
           /\ Signals /\ Head(toClient).type = "unchoke" => ActiveOK'
           /\ Active /\ ActiveOK /\ Head(toClient).type # "choke" => ActiveOK'
           /\ \A t : Free(toClient, t) => Free(toClient', t)
<1>1. toClient \in Seq(ToClient)
  BY DEF TypeOK
<1>2. /\ toClient' \in Seq(ToClient) /\ Head(toClient) \in ToClient
      /\ 1 \in DOMAIN toClient /\ Head(toClient) = toClient[1]
      /\ DOMAIN toClient \subseteq Nat
      /\ \A i \in DOMAIN toClient' : i \in Nat \ {0} /\ i + 1 \in DOMAIN toClient
                                     /\ toClient'[i] = toClient[i + 1]
      /\ \A i \in DOMAIN toClient : i = 1 \/ (1 < i /\ i - 1 \in DOMAIN toClient'
                                              /\ toClient'[i - 1] = toClient[i])
  BY <1>1, Tailed
<1>3. \A i \in DOMAIN toClient' : \E k \in DOMAIN toClient :
          k = i + 1 /\ 1 < k /\ toClient'[i] = toClient[k]
  BY <1>2
<1>4. \A t : Free(toClient, t) => Free(toClient', t)
  BY <1>3 DEF Free
<1>5. Haves => Haves' /\ (Head(toClient).type = "have" => Head(toClient).piece \in has)
  BY <1>2, <1>3 DEF Haves
<1>6. Choked' = Choked
  BY DEF Choked
<1>7. ASSUME Signals PROVE Signals'
  <2>1. ASSUME NEW i \in DOMAIN toClient', NEW j \in DOMAIN toClient', i < j,
               toClient'[i].type = "unchoke", toClient'[j].type = "unchoke"
        PROVE  \E k \in DOMAIN toClient' : i < k /\ k < j /\ toClient'[k].type = "choke"
    <3>1. /\ i + 1 \in DOMAIN toClient /\ toClient[i + 1].type = "unchoke"
          /\ j + 1 \in DOMAIN toClient /\ toClient[j + 1].type = "unchoke"
          /\ i + 1 < j + 1 /\ i \in Nat /\ j \in Nat
      BY <1>2, <2>1
    <3>2. PICK k \in DOMAIN toClient : /\ i + 1 < k /\ k < j + 1
                                        /\ toClient[k].type = "choke"
      BY <1>7, <3>1 DEF Signals
    <3>3. /\ k - 1 \in DOMAIN toClient' /\ toClient'[k - 1] = toClient[k]
          /\ i < k - 1 /\ k - 1 < j
      BY <1>2, <3>1, <3>2
    <3> QED
      BY <3>2, <3>3
  <2>2. ASSUME NEW i \in DOMAIN toClient', Choked, toClient'[i].type = "unchoke"
        PROVE  \E k \in DOMAIN toClient' : i < k /\ toClient'[k].type = "choke"
    <3>1. i + 1 \in DOMAIN toClient /\ toClient[i + 1].type = "unchoke" /\ i \in Nat
      BY <1>2, <2>2
    <3>2. PICK k \in DOMAIN toClient : i + 1 < k /\ toClient[k].type = "choke"
      BY <1>7, <2>2, <3>1 DEF Signals
    <3>3. k - 1 \in DOMAIN toClient' /\ toClient'[k - 1] = toClient[k] /\ i < k - 1
      BY <1>2, <3>1, <3>2
    <3> QED
      BY <3>2, <3>3
  <2> QED
    BY <1>6, <2>1, <2>2 DEF Signals
<1>8. ASSUME Signals, Head(toClient).type = "unchoke" PROVE ActiveOK'
  <2>1. ASSUME NEW j \in DOMAIN toClient', toClient'[j].type = "unchoke"
        PROVE  \E k \in DOMAIN toClient' : k < j /\ toClient'[k].type = "choke"
    <3>1. /\ j + 1 \in DOMAIN toClient /\ toClient[j + 1].type = "unchoke"
          /\ 1 < j + 1 /\ j \in Nat /\ toClient[1].type = "unchoke"
      BY <1>2, <1>8, <2>1
    <3>2. PICK k \in DOMAIN toClient : 1 < k /\ k < j + 1 /\ toClient[k].type = "choke"
      BY <1>2, <1>8, <3>1 DEF Signals
    <3>3. k - 1 \in DOMAIN toClient' /\ toClient'[k - 1] = toClient[k] /\ k - 1 < j
      BY <1>2, <3>1, <3>2
    <3> QED
      BY <3>2, <3>3
  <2>2. ASSUME Choked PROVE ~Free(toClient', "choke")
    <3>1. PICK k \in DOMAIN toClient : 1 < k /\ toClient[k].type = "choke"
      BY <1>2, <1>8, <2>2 DEF Signals
    <3>2. k - 1 \in DOMAIN toClient' /\ toClient'[k - 1] = toClient[k]
      BY <1>2, <3>1
    <3> QED
      BY <3>1, <3>2 DEF Free
  <2> QED
    BY <1>6, <2>1, <2>2 DEF ActiveOK
<1>9. ASSUME Active, ActiveOK, Head(toClient).type # "choke" PROVE ActiveOK'
  <2>1. ASSUME NEW j \in DOMAIN toClient', toClient'[j].type = "unchoke"
        PROVE  \E k \in DOMAIN toClient' : k < j /\ toClient'[k].type = "choke"
    <3>1. j + 1 \in DOMAIN toClient /\ toClient[j + 1].type = "unchoke" /\ j \in Nat
      BY <1>2, <2>1
    <3>2. PICK k \in DOMAIN toClient : k < j + 1 /\ toClient[k].type = "choke"
      BY <1>9, <3>1 DEF ActiveOK
    <3>3. /\ k # 1 /\ k - 1 \in DOMAIN toClient' /\ toClient'[k - 1] = toClient[k]
          /\ k - 1 < j
      BY <1>2, <1>9, <3>1, <3>2
    <3> QED
      BY <3>2, <3>3
  <2>2. ASSUME Choked PROVE ~Free(toClient', "choke")
    BY <1>2, <1>9, <2>2 DEF ActiveOK, Free
  <2> QED
    BY <1>6, <2>1, <2>2 DEF ActiveOK
<1> QED
  BY <1>2, <1>4, <1>5, <1>7, <1>8, <1>9

\* The remote sends a message.
LEMMA SendAppend ==
    ASSUME TypeOK, NEW m \in ToClient, toClient' = Append(toClient, m)
    PROVE  /\ toClient' \in Seq(ToClient)
           /\ \A t : Free(toClient, t) /\ m.type # t => Free(toClient', t)
           /\ Haves /\ has \subseteq has' /\ (m.type = "have" => m.piece \in has') => Haves'
           /\ (/\ Signals /\ ActiveOK /\ UNCHANGED <<pc, amChoking, choker>>
               /\ m.type \notin {"choke", "unchoke"}) => Signals' /\ ActiveOK'
           /\ Signals /\ ActiveOK /\ m.type = "choke" /\ Choked' /\ UNCHANGED pc
                 => Signals' /\ ActiveOK'
           /\ Signals /\ ActiveOK /\ m.type = "unchoke" /\ Choked /\ ~Choked' /\ UNCHANGED pc
                 => Signals' /\ ActiveOK'
<1> DEFINE l == Len(toClient) + 1
<1>1. toClient \in Seq(ToClient)
  BY DEF TypeOK
<1>2. /\ toClient' \in Seq(ToClient)
      /\ \A i \in DOMAIN toClient : i \in DOMAIN toClient' /\ toClient'[i] = toClient[i]
      /\ toClient'[l] = m /\ l \in DOMAIN toClient' /\ l \in Nat
      /\ \A i \in DOMAIN toClient' : i \in DOMAIN toClient \/ i = l
      /\ \A i \in DOMAIN toClient : i \in Nat /\ i < l
  BY <1>1, Appended
<1> HIDE DEF l
<1>3. \A t : Free(toClient, t) /\ m.type # t => Free(toClient', t)
  BY <1>2 DEF Free
<1>4. Haves /\ has \subseteq has' /\ (m.type = "have" => m.piece \in has') => Haves'
  BY <1>2 DEF Haves
<1>5. ~Free(toClient, "choke") => ~Free(toClient', "choke")
  BY <1>2 DEF Free
<1>6. ASSUME Signals, ActiveOK, UNCHANGED <<pc, amChoking, choker>>,
             m.type \notin {"choke", "unchoke"}
      PROVE  Signals' /\ ActiveOK'
  <2>1. \A i \in DOMAIN toClient' : toClient'[i].type = "unchoke" =>
            i \in DOMAIN toClient /\ toClient[i].type = "unchoke"
    BY <1>2, <1>6
  <2>2. Choked' = Choked /\ Active' = Active
    BY <1>6 DEF Choked, Active
  <2>3. Signals'
    BY <1>2, <1>6, <2>1, <2>2 DEF Signals
  <2>4. ActiveOK'
    BY <1>2, <1>5, <1>6, <2>1, <2>2 DEF ActiveOK
  <2> QED
    BY <2>3, <2>4
<1>7. ASSUME Signals, ActiveOK, m.type = "choke", Choked', UNCHANGED pc
      PROVE  Signals' /\ ActiveOK'
  <2>1. \A i \in DOMAIN toClient' : toClient'[i].type = "unchoke" =>
            i \in DOMAIN toClient /\ toClient[i].type = "unchoke" /\ i < l
    BY <1>2, <1>7
  <2>2. Active' = Active /\ ~Free(toClient', "choke")
    BY <1>2, <1>7 DEF Active, Free
  <2>3. Signals'
    BY <1>2, <1>7, <2>1 DEF Signals
  <2>4. ActiveOK'
    BY <1>2, <1>7, <2>1, <2>2 DEF ActiveOK
  <2> QED
    BY <2>3, <2>4
<1>8. ASSUME Signals, ActiveOK, m.type = "unchoke", Choked, ~Choked', UNCHANGED pc
      PROVE  Signals' /\ ActiveOK'
  <2>1. ASSUME NEW i \in DOMAIN toClient', NEW j \in DOMAIN toClient', i < j,
               toClient'[i].type = "unchoke", toClient'[j].type = "unchoke"
        PROVE  \E k \in DOMAIN toClient' : i < k /\ k < j /\ toClient'[k].type = "choke"
    <3>1. i \in DOMAIN toClient /\ toClient[i].type = "unchoke"
      BY <1>2, <2>1
    <3>2. CASE j \in DOMAIN toClient
      BY <1>2, <1>8, <2>1, <3>1, <3>2 DEF Signals
    <3>3. CASE j = l
      BY <1>2, <1>8, <3>1, <3>3 DEF Signals
    <3> QED
      BY <1>2, <3>2, <3>3
  <2>2. Signals'
    BY <1>8, <2>1 DEF Signals
  <2>3. Active' = Active
    BY <1>8 DEF Active
  <2>4. ASSUME Active, NEW j \in DOMAIN toClient', toClient'[j].type = "unchoke"
        PROVE  \E k \in DOMAIN toClient' : k < j /\ toClient'[k].type = "choke"
    <3>1. CASE j \in DOMAIN toClient
      BY <1>2, <1>8, <2>4, <3>1 DEF ActiveOK
    <3>2. CASE j = l
      <4>1. PICK k \in DOMAIN toClient : toClient[k].type = "choke"
        BY <1>8, <2>4 DEF ActiveOK, Free
      <4> QED
        BY <1>2, <3>2, <4>1
    <3> QED
      BY <1>2, <3>1, <3>2
  <2>5. ActiveOK'
    BY <1>8, <2>3, <2>4 DEF ActiveOK
  <2> QED
    BY <2>2, <2>5
<1> QED
  BY <1>2, <1>3, <1>4, <1>6, <1>7, <1>8

\* The worker writes a message that is not a request.
LEMMA WriteOther ==
    ASSUME TypeOK, NEW m \in ToRemote, m.type # "request", Write(m)
    PROVE  /\ toRemote' \in Seq(ToRemote)
           /\ Free(toRemote, "request") => Free(toRemote', "request")
<1>1. toRemote \in Seq(ToRemote)
  BY DEF TypeOK
<1>2. CASE alive
  <2>1. toRemote' = Append(toRemote, m)
    BY <1>2 DEF Write
  <2>2. /\ toRemote' \in Seq(ToRemote)
        /\ \A i \in DOMAIN toRemote' : toRemote'[i] = m
              \/ (i \in DOMAIN toRemote /\ toRemote'[i] = toRemote[i])
    BY <1>1, <2>1, Appended
  <2> QED
    BY <2>2 DEF Free
<1>3. CASE ~alive
  BY <1>1, <1>3 DEF Write
<1> QED
  BY <1>2, <1>3

\* The messages of a type, counted.
LEMMA PendingCounts ==
    ASSUME TypeOK
    PROVE  /\ Pending(toClient, PieceMessages) =
                  {i \in DOMAIN toClient : toClient[i].type = "piece"}
           /\ Pending(toRemote, Requests) =
                  {i \in DOMAIN toRemote : toRemote[i].type = "request"}
<1>1. toClient \in Seq(ToClient) /\ toRemote \in Seq(ToRemote)
  BY DEF TypeOK
<1>2. \A i \in DOMAIN toClient : toClient[i] \in ToClient
  BY <1>1, ElementOfSeq, LenProperties
<1>3. \A i \in DOMAIN toRemote : toRemote[i] \in ToRemote
  BY <1>1, ElementOfSeq, LenProperties
<1> QED
  BY <1>2, <1>3, ClientMessages, RemoteMessages DEF Pending

\* getBlocks returns and leaves nothing behind.
LEMMA NothingUnderWay ==
    ASSUME TypeOK, leftBehind' = (leftBehind \/ UnderWay), ~leftBehind'
    PROVE  Free(toClient, "piece") /\ Free(toRemote, "request")
<1>1. Pending(toRemote, Requests) = {} /\ Pending(toClient, PieceMessages) = {}
  BY DEF UnderWay
<1> QED
  BY <1>1, PendingCounts DEF Free

-----------------------------------------------------------------------------
(* Steps of the worker *)

\* Steps that touch neither the channels nor the remote, nor what getBlocks has.
LEMMA LocalStep ==
    ASSUME BInv, TypeOK', Locals',
           UNCHANGED <<alive, toRemote, toClient, remoteVars, bitfield, leftBehind>>,
           Active' => Active, InGetBlocks' <=> InGetBlocks,
           InGetBlocks => UNCHANGED <<piece, requested, blocks>>
    PROVE  BInv'
<1>1. Haves' /\ (alive => Signals' /\ ActiveOK')
  BY DEF BInv, Haves, Signals, ActiveOK, Choked, Free, remoteVars
<1>2. Flow'
  <2>0. InStep' = InStep
    BY DEF InStep, remoteVars
  <2>1. CASE InGetBlocks
    BY <2>0, <2>1 DEF BInv, Flow, Flowing, remoteVars
  <2>2. CASE ~InGetBlocks
    BY <2>0, <2>2 DEF BInv, Flow, Drained, remoteVars
  <2> QED
    BY <2>1, <2>2
<1> QED
  BY <1>1, <1>2 DEF BInv

\* The steps of pieceLoop before GetPiece.
LEMMA LoopStep ==
    ASSUME BInv, (\E p \in Pieces : Assign(p)) \/ AssignNone \/ Finish \/ StartGetPiece
                 \/ WaitFails
    PROVE  BInv'
<1> USE BlockExchangeAssumption DEF InGetBlocks, Goto
<1>1. ASSUME NEW p \in Pieces, Assign(p) PROVE BInv'
  <2>1. TypeOK' /\ Locals'
    BY <1>1 DEF Assign, BInv, TypeOK, Locals, remoteVars
  <2> QED
    BY <1>1, <2>1, LocalStep DEF Assign, Active
<1>2. CASE AssignNone
  <2>1. PICK m \in ToRemote : m.type # "request" /\ Write(m)
    BY <1>2, RemoteMessages DEF AssignNone
  <2>2. /\ toRemote' \in Seq(ToRemote)
        /\ Free(toRemote, "request") => Free(toRemote', "request")
    BY <2>1, WriteOther DEF BInv
  <2>3. TypeOK' /\ Locals'
    BY <1>2, <2>2 DEF AssignNone, BInv, TypeOK, Locals, remoteVars
  <2>4. Haves' /\ (alive' => Signals' /\ ActiveOK')
    BY <1>2 DEF AssignNone, BInv, Haves, Signals, ActiveOK, Active, Choked, remoteVars
  <2>5. Flow'
    BY <1>2, <2>2 DEF AssignNone, BInv, Flow, Drained, InStep, remoteVars
  <2> QED
    BY <2>3, <2>4, <2>5 DEF BInv
<1>3. CASE Finish
  <2>1. TypeOK' /\ Locals'
    BY <1>3 DEF Finish, BInv, TypeOK, Locals, remoteVars
  <2> QED
    BY <1>3, <2>1, LocalStep DEF Finish, Active
<1>4. CASE WaitFails
  <2>1. TypeOK' /\ Locals'
    BY <1>4 DEF WaitFails, BInv, TypeOK, Locals, remoteVars
  <2> QED
    BY <1>4, <2>1, LocalStep DEF WaitFails, Active
<1>5. CASE StartGetPiece
  <2>1. TypeOK' /\ Locals'
    BY <1>5 DEF StartGetPiece, BInv, TypeOK, Locals, remoteVars
  <2>2. Haves' /\ (alive' => Signals' /\ ActiveOK')
    BY <1>5 DEF StartGetPiece, BInv, Haves, Signals, ActiveOK, Active, Choked, Free, remoteVars
  <2>3. ASSUME InStep PROVE Flowing'
    <3>1. requested = 0 /\ Len(blocks) = 0
      BY <1>5, EmptySeq DEF StartGetPiece, BInv, Locals
    <3>2. Free(toClient, "piece") /\ Free(toRemote, "request")
      BY <1>5, <2>3 DEF StartGetPiece, BInv, Flow, Drained
    <3>3. InOrder(toRemote, "request", piece, 0, 0)
      BY <3>2, FreeInOrder
    <3>4. Answers(toClient, piece, 0, 0, ~amChoking)
      <4>1. toClient \in Seq(ToClient) /\ (~amChoking) \in BOOLEAN
        BY DEF BInv, TypeOK
      <4> QED
        BY <3>2, <4>1, AnswersFree
    <3> QED
      BY <1>5, <3>1, <3>3, <3>4 DEF StartGetPiece, Flowing, remoteVars
  <2>4. Flow'
    BY <1>5, <2>3 DEF StartGetPiece, Flow, InStep, remoteVars
  <2> QED
    BY <2>1, <2>2, <2>4 DEF BInv
<1> QED
  BY <1>1, <1>2, <1>3, <1>4, <1>5

\* The steps of getBlocks that read nothing.
LEMMA RequestStep ==
    ASSUME BInv, CancelInFlight \/ Continue \/ SendRequest \/ EndSend \/ GetBlocksFails
    PROVE  BInv'
<1> USE BlockExchangeAssumption DEF InGetBlocks, Goto
<1>a. /\ Len(blocks) \in Nat /\ requested \in Nat /\ Len(blocks) <= requested
      /\ blocks \in Seq(Block) /\ <<>> \in Seq(Block) /\ Len(<<>>) = 0
  BY LenProperties, EmptySeq DEF BInv, TypeOK
<1>1. CASE CancelInFlight
  <2>1. Cancels \in Seq(ToRemote)
    <3>1. requested - Len(blocks) \in Nat
      BY <1>a
    <3>2. piece \in Pieces
      BY <1>1 DEF CancelInFlight, BInv, Locals, TypeOK
    <3>3. \A i \in 1..(requested - Len(blocks)) : Len(blocks) + i \in 1..NumBlocks
      BY <1>a DEF BInv, TypeOK
    <3>4. Cancels \in [1..(requested - Len(blocks)) -> ToRemote]
      BY <3>2, <3>3, RemoteMessages DEF Cancels
    <3> QED
      BY <3>1, <3>4
  <2>2. toRemote' \in Seq(ToRemote)
    BY <1>1, <2>1, ConcatProperties DEF CancelInFlight, BInv, TypeOK
  <2>3. TypeOK' /\ Locals'
    BY <1>1, <1>a, <2>2 DEF CancelInFlight, Leave, BInv, TypeOK, Locals, remoteVars
  <2>4. Haves' /\ (alive' => Signals' /\ ActiveOK')
    BY <1>1 DEF CancelInFlight, Leave, BInv, Haves, Signals, ActiveOK, Active, Choked, Free,
                remoteVars
  <2>5. ASSUME InStep' PROVE Drained'
    <3>1. Free(toClient, "piece") /\ Free(toRemote, "request")
      BY <1>1, <2>5, NothingUnderWay DEF CancelInFlight, InStep, BInv
    <3>2. \A i \in DOMAIN Cancels : Cancels[i].type = "cancel"
      BY DEF Cancels, Cancel
    <3>3. toRemote' \in {toRemote, toRemote \o Cancels}
      BY <1>1 DEF CancelInFlight
    <3>4. Free(toRemote \o Cancels, "request")
      <4>1. PICK a \in Seq(ToRemote), c \in Seq(ToRemote) : a = toRemote /\ c = Cancels
        BY <2>1 DEF BInv, TypeOK
      <4>2. /\ Len(a) \in Nat /\ DOMAIN a = 1..Len(a) /\ Len(c) \in Nat /\ DOMAIN c = 1..Len(c)
            /\ a \o c \in Seq(ToRemote) /\ Len(a \o c) = Len(a) + Len(c)
            /\ \A i \in 1..(Len(a) + Len(c)) :
                  (a \o c)[i] = IF i <= Len(a) THEN a[i] ELSE c[i - Len(a)]
        BY LenProperties, ConcatProperties
      <4>3. DOMAIN (a \o c) = 1..(Len(a) + Len(c))
        BY <4>2, LenProperties
      <4>4. \A i \in DOMAIN (a \o c) : \/ i \in DOMAIN a /\ (a \o c)[i] = a[i]
                                       \/ \E k \in DOMAIN c : (a \o c)[i] = c[k]
        <5> SUFFICES ASSUME NEW i \in 1..(Len(a) + Len(c))
                     PROVE  \/ i \in DOMAIN a /\ (a \o c)[i] = a[i]
                            \/ \E k \in DOMAIN c : (a \o c)[i] = c[k]
          BY <4>3
        <5>1. CASE i <= Len(a)
          BY <4>2, <5>1
        <5>2. CASE ~(i <= Len(a))
          <6>1. i - Len(a) \in DOMAIN c
            BY <4>2, <5>2
          <6> QED
            BY <4>2, <5>2, <6>1
        <5> QED
          BY <5>1, <5>2
      <4>5. \A i \in DOMAIN (a \o c) : (a \o c)[i].type # "request"
        BY <3>1, <3>2, <4>1, <4>4 DEF Free
      <4> QED
        BY <4>1, <4>5 DEF Free
    <3> QED
      BY <1>1, <3>1, <3>3, <3>4 DEF CancelInFlight, Drained
  <2>6. Flow'
    BY <1>1, <2>5 DEF CancelInFlight, Leave, Flow
  <2> QED
    BY <2>3, <2>4, <2>6 DEF BInv
<1>2. CASE Continue
  <2>1. TypeOK' /\ Locals'
    BY <1>2 DEF Continue, BInv, TypeOK, Locals, remoteVars
  <2> QED
    BY <1>2, <2>1, LocalStep DEF Continue, Active
<1>3. CASE EndSend
  <2>1. Len(blocks) < requested
    BY <1>3, <1>a DEF EndSend, MayRequest, BInv, Locals, TypeOK
  <2>2. TypeOK' /\ Locals'
    BY <1>3, <2>1 DEF EndSend, BInv, TypeOK, Locals, remoteVars
  <2> QED
    BY <1>3, <2>2, LocalStep DEF EndSend, Active
<1>4. CASE SendRequest /\ requested' = requested + 1
  <2>1. /\ pc = "send" /\ requested + 1 \in 1..NumBlocks
        /\ Write(Request(piece, requested + 1))
        /\ UNCHANGED <<alive, toClient, bitfield, endgame, completed, leftBehind, remoteVars,
                       pc, piece, cancelCh, blocks>>
    BY <1>4, <1>a DEF SendRequest, MayRequest, Leave
  <2>2. PICK m \in ToRemote : /\ m = Request(piece, requested + 1) /\ m.type = "request"
                              /\ m.piece = piece /\ m.block = requested + 1
    <3>1. piece \in Pieces
      BY <2>1 DEF BInv, Locals, TypeOK
    <3> QED
      BY <2>1, <3>1, RemoteMessages
  <2>3. toRemote' \in Seq(ToRemote)
    BY <2>1, <2>2, Appended DEF Write, BInv, TypeOK
  <2>4. TypeOK' /\ Locals'
    BY <1>4, <1>a, <2>1, <2>3 DEF BInv, TypeOK, Locals, remoteVars
  <2>5. Haves' /\ (alive' => Signals' /\ ActiveOK')
    BY <2>1 DEF BInv, Haves, Signals, ActiveOK, Active, Choked, Free, remoteVars
  <2>6. ASSUME InStep PROVE Flowing'
    <3>1. PICK r \in Len(blocks)..requested :
              /\ Answers(toClient, piece, Len(blocks), r, ~amChoking)
              /\ InOrder(toRemote, "request", piece, r, requested)
      BY <2>1, <2>6 DEF BInv, Flow, Flowing
    <3>2. toRemote' = Append(toRemote, m) /\ toRemote \in Seq(ToRemote)
      BY <2>1, <2>2, <2>6 DEF Write, BInv, TypeOK, InStep
    <3>3. r \in Nat /\ r <= requested /\ r \in Len(blocks)..(requested + 1)
      BY <1>a
    <3>4. InOrder(toRemote', "request", piece, r, requested + 1)
      BY <1>a, <2>2, <3>1, <3>2, <3>3, AppendNext
    <3>5. \A i \in 1..Len(blocks) : blocks[i] = [piece |-> piece, block |-> i]
      BY <2>1, <2>6 DEF BInv, Flow, Flowing
    <3> QED
      BY <1>4, <2>1, <3>1, <3>3, <3>4, <3>5 DEF Flowing, remoteVars
  <2>7. Flow'
    BY <2>1, <2>6 DEF Flow, InStep, remoteVars
  <2> QED
    BY <2>4, <2>5, <2>7 DEF BInv
<1>5. CASE (SendRequest /\ ~alive /\ Leave("loop") /\ UNCHANGED toRemote) \/ GetBlocksFails
  <2>1. /\ ~alive /\ Leave("loop") /\ pc \in {"send", "read"}
        /\ UNCHANGED <<alive, toRemote, toClient, bitfield, endgame, completed, leftBehind,
                       remoteVars>>
    BY <1>5 DEF SendRequest, GetBlocksFails, ReadFails
  <2>2. TypeOK' /\ Locals'
    BY <1>a, <2>1 DEF Leave, BInv, TypeOK, Locals, remoteVars
  <2>3. Haves'
    BY <2>1 DEF BInv, Haves, remoteVars
  <2> QED
    BY <2>1, <2>2, <2>3 DEF BInv, Flow, InStep
<1> QED
  BY <1>1, <1>2, <1>3, <1>4, <1>5 DEF SendRequest

\* The steps of getBlocks that read a message.
LEMMA GetBlocksReads ==
    ASSUME BInv,
           \/ \E p \in Pieces, b \in 1..NumBlocks : ReadBlock(p, b)
           \/ ReadChoke \/ ReadOther
    PROVE  BInv'
<1> USE BlockExchangeAssumption DEF InGetBlocks, Goto
<1>1. /\ Len(blocks) \in Nat /\ requested \in Nat /\ Len(blocks) < requested
      /\ requested <= NumBlocks /\ pc = "read" /\ piece \in Pieces
      /\ blocks \in Seq(Block) /\ <<>> \in Seq(Block) /\ Len(<<>>) = 0
      /\ toClient \in Seq(ToClient) /\ toRemote \in Seq(ToRemote)
  <2>1. pc = "read"
    BY DEF ReadBlock, ReadChoke, ReadOther
  <2>2. /\ blocks \in Seq(Block) /\ requested \in 0..NumBlocks
        /\ toClient \in Seq(ToClient) /\ toRemote \in Seq(ToRemote)
    BY DEF BInv, TypeOK
  <2>3. Len(blocks) < requested /\ piece \in Pieces
    BY <2>1 DEF BInv, TypeOK, Locals
  <2>4. <<>> \in Seq(Block) /\ Len(<<>>) = 0 /\ Len(blocks) \in Nat
    BY <2>2, LenProperties, EmptySeq
  <2> QED
    BY <2>1, <2>2, <2>3, <2>4
<1>2. /\ toClient # <<>> /\ toClient' = Tail(toClient)
      /\ UNCHANGED <<alive, toRemote, endgame, remoteVars>>
      /\ leftBehind' \in BOOLEAN /\ (~amChoking) \in BOOLEAN
      /\ leftBehind' = leftBehind => InStep' = InStep
  <2>1. /\ toClient # <<>> /\ toClient' = Tail(toClient)
        /\ UNCHANGED <<alive, toRemote, endgame, remoteVars>>
    BY DEF ReadBlock, ReadChoke, ReadOther, ReadMessage
  <2>2. leftBehind' = leftBehind \/ leftBehind' = (leftBehind \/ UnderWay)
    BY DEF ReadBlock, ReadChoke, ReadOther
  <2>3. leftBehind \in BOOLEAN /\ (~amChoking) \in BOOLEAN
    BY DEF BInv, TypeOK
  <2>4. leftBehind' \in BOOLEAN
    BY <2>2, <2>3
  <2> QED
    BY <2>1, <2>3, <2>4 DEF InStep, remoteVars
<1>3. /\ toClient' \in Seq(ToClient) /\ Head(toClient) \in ToClient
      /\ Haves' /\ (Head(toClient).type = "have" => Head(toClient).piece \in has)
      /\ alive => /\ Signals'
                  /\ Active /\ Head(toClient).type # "choke" => ActiveOK'
      /\ \A t : Free(toClient, t) => Free(toClient', t)
  BY <1>2, ReadTail DEF BInv, remoteVars
<1>4. ASSUME Head(toClient).type # "choke", alive PROVE ActiveOK'
  BY <1>1, <1>3, <1>4 DEF Active
<1>5. ASSUME InStep
      PROVE  /\ \A i \in 1..Len(blocks) : blocks[i] = [piece |-> piece, block |-> i]
             /\ \E r \in Len(blocks)..requested :
                   /\ Answers(toClient, piece, Len(blocks), r, ~amChoking)
                   /\ InOrder(toRemote, "request", piece, r, requested)
  BY <1>1, <1>5 DEF BInv, Flow, Flowing
<1>6. ASSUME NEW p \in Pieces, NEW b \in 1..NumBlocks, ReadBlock(p, b) PROVE BInv'
  <2>1. Head(toClient) = Piece(p, b) /\ Head(toClient).type = "piece"
        /\ Head(toClient).piece = p /\ Head(toClient).block = b
    BY <1>6, ClientMessages DEF ReadBlock, ReadMessage
  <2>2. PICK blk \in Block : blk = [piece |-> p, block |-> b]
    BY DEF Block
  <2>3. PICK got \in Seq(Block) : /\ got = Append(blocks, blk)
                                  /\ Len(got) = Len(blocks) + 1
                                  /\ \A i \in 1..Len(blocks) : got[i] = blocks[i]
                                  /\ got[Len(blocks) + 1] = blk
    <3>1. PICK got : got = Append(blocks, blk)
      OBVIOUS
    <3>2. /\ got \in Seq(Block) /\ Len(got) = Len(blocks) + 1
          /\ \A i \in 1..Len(blocks) : got[i] = blocks[i]
          /\ got[Len(blocks) + 1] = blk
      BY <1>1, <3>1, AppendProperties
    <3> QED
      BY <3>1, <3>2
  <2>4. ASSUME InStep
        PROVE  /\ p = piece /\ b = Len(blocks) + 1
               /\ \E r \in (Len(blocks) + 1)..requested :
                   /\ Answers(toClient', piece, Len(blocks) + 1, r, ~amChoking)
                   /\ InOrder(toRemote, "request", piece, r, requested)
    <3>1. PICK r \in Len(blocks)..requested :
                   /\ Answers(toClient, piece, Len(blocks), r, ~amChoking)
                   /\ InOrder(toRemote, "request", piece, r, requested)
      BY <1>5, <2>4
    <3>2. r \in Nat
      BY <1>1
    <3>a. PICK a \in BOOLEAN : a = ~amChoking
      BY <1>2
    <3>b. Answers(toClient, piece, Len(blocks), r, a)
      BY <3>1, <3>a
    <3>c. /\ Len(blocks) < r /\ Head(toClient).piece = piece
          /\ Head(toClient).block = Len(blocks) + 1
          /\ Answers(Tail(toClient), piece, Len(blocks) + 1, r, a)
      BY <1>1, <1>2, <2>1, <3>2, <3>b, AnswersTailFirst
    <3>3. /\ Len(blocks) < r /\ p = piece /\ b = Len(blocks) + 1
          /\ Answers(Tail(toClient), piece, Len(blocks) + 1, r, ~amChoking)
      BY <2>1, <3>a, <3>c
    <3>4. r \in (Len(blocks) + 1)..requested
      BY <1>1, <3>1, <3>3
    <3> QED
      BY <1>2, <3>1, <3>3, <3>4
  <2>5. CASE Len(got) < NumBlocks
    <3>1. /\ blocks' = got /\ pc' = "top"
          /\ UNCHANGED <<piece, cancelCh, requested, completed, bitfield, leftBehind>>
      BY <1>6, <2>2, <2>3, <2>5 DEF ReadBlock
    <3>2. Len(got) <= requested
      BY <1>1, <2>3
    <3>3. TypeOK' /\ Locals'
      BY <1>2, <1>3, <2>3, <2>5, <3>1, <3>2, <1>1 DEF BInv, TypeOK, Locals, remoteVars
    <3>4. ASSUME InStep PROVE Flowing'
      <4>1. \A i \in 1..Len(got) : got[i] = [piece |-> piece, block |-> i]
        <5> SUFFICES ASSUME NEW i \in 1..Len(got) PROVE got[i] = [piece |-> piece, block |-> i]
          OBVIOUS
        <5>1. CASE i = Len(blocks) + 1
          BY <2>2, <2>3, <2>4, <3>4, <5>1
        <5>2. CASE i \in 1..Len(blocks)
          BY <1>5, <2>3, <3>4, <5>2
        <5> QED
          BY <1>1, <2>3, <5>1, <5>2
      <4>2. \E r \in Len(got)..requested :
                   /\ Answers(toClient', piece, Len(got), r, ~amChoking)
                   /\ InOrder(toRemote, "request", piece, r, requested)
        BY <2>3, <2>4, <3>4
      <4> QED
        BY <1>2, <3>1, <4>1, <4>2 DEF Flowing, remoteVars
    <3>5. Flow'
      BY <1>2, <3>1, <3>4 DEF Flow
    <3>6. alive' => ActiveOK'
      BY <1>2, <1>4, <2>1
    <3> QED
      BY <1>2, <1>3, <3>3, <3>5, <3>6 DEF BInv
  <2>6. CASE ~(Len(got) < NumBlocks)
    <3>1. Leave("loop") /\ completed' \in {completed, completed \cup {piece}}
          /\ UNCHANGED <<bitfield, leftBehind>>
      BY <1>6, <2>2, <2>3, <2>6 DEF ReadBlock
    <3>2. TypeOK' /\ Locals'
      BY <1>1, <1>2, <1>3, <3>1 DEF BInv, TypeOK, Locals, Leave, remoteVars
    <3>3. ASSUME InStep PROVE Drained'
      <4>1. PICK r \in (Len(blocks) + 1)..requested :
                   /\ Answers(toClient', piece, Len(blocks) + 1, r, ~amChoking)
                   /\ InOrder(toRemote, "request", piece, r, requested)
        BY <2>4, <3>3
      <4>2. Len(blocks) + 1 = requested /\ r = requested
        BY <1>1, <2>3, <2>6
      <4>3. /\ Answers(toClient', piece, requested, requested, ~amChoking)
            /\ InOrder(toRemote, "request", piece, requested, requested)
        BY <4>1, <4>2
      <4>4. Free(toClient', "piece") /\ Free(toRemote, "request")
        BY <1>1, <1>2, <1>3, <4>3, FreeInOrder, AnswersFree
      <4> QED
        BY <1>2, <4>4 DEF Drained
    <3>4. Flow'
      BY <1>2, <3>1, <3>3 DEF Flow, Leave
    <3>5. alive' => ActiveOK'
      BY <1>2, <1>4, <2>1
    <3> QED
      BY <1>2, <1>3, <3>2, <3>4, <3>5 DEF BInv
  <2> QED
    BY <2>5, <2>6
<1>7. CASE ReadChoke
  <2>1. Head(toClient).type = "choke"
    BY <1>7, ClientMessages DEF ReadChoke, ReadMessage
  <2>2. Leave("unchoke") /\ UNCHANGED <<bitfield, completed>>
    BY <1>7 DEF ReadChoke
  <2>3. TypeOK' /\ Locals'
    BY <1>1, <1>2, <1>3, <2>2 DEF BInv, TypeOK, Locals, Leave, remoteVars
  <2>4. ActiveOK'
    BY <2>2 DEF ActiveOK, Active, Leave
  <2>5. ASSUME InStep' PROVE Drained'
    <3>1. Free(toClient, "piece") /\ Free(toRemote, "request")
      BY <1>7, <2>5, NothingUnderWay DEF ReadChoke, InStep, BInv
    <3> QED
      BY <1>2, <1>3, <3>1 DEF Drained
  <2>6. Flow'
    BY <2>2, <2>5 DEF Flow, Leave
  <2> QED
    BY <1>2, <1>3, <2>3, <2>4, <2>6 DEF BInv
<1>8. CASE ReadOther
  <2>1. Head(toClient).type \in {"unchoke", "have"}
    BY <1>8, ClientMessages DEF ReadOther, ReadMessage
  <2>2. bitfield' \subseteq has /\ bitfield \subseteq bitfield'
    <3>1. CASE UNCHANGED bitfield
      BY <3>1 DEF BInv, TypeOK
    <3>2. ASSUME NEW p \in Pieces, ReadMessage(Have(p)), bitfield' = bitfield \cup {p}
          PROVE  bitfield' \subseteq has /\ bitfield \subseteq bitfield'
      <4>1. p \in has
        BY <1>3, <3>2, ClientMessages DEF ReadMessage
      <4> QED
        BY <3>2, <4>1 DEF BInv, TypeOK
    <3> QED
      BY <1>8, <3>1, <3>2 DEF ReadOther
  <2>3. /\ pc' = "top"
        /\ UNCHANGED <<piece, cancelCh, requested, blocks, completed, leftBehind>>
    BY <1>8 DEF ReadOther
  <2>4. TypeOK' /\ Locals'
    BY <1>1, <1>2, <1>3, <2>2, <2>3 DEF BInv, TypeOK, Locals, remoteVars
  <2>5. ASSUME InStep PROVE Flowing'
    <3>1. PICK r \in Len(blocks)..requested :
                   /\ Answers(toClient, piece, Len(blocks), r, ~amChoking)
                   /\ InOrder(toRemote, "request", piece, r, requested)
      BY <1>5, <2>5
    <3>2. r \in Nat /\ Head(toClient).type # "piece" /\ Head(toClient).type # "choke"
      BY <1>1, <2>1
    <3>3. Answers(toClient', piece, Len(blocks), r, ~amChoking)
      BY <1>1, <1>2, <3>1, <3>2, AnswersTailOther
    <3> QED
      BY <1>2, <1>5, <2>3, <2>5, <3>1, <3>3 DEF Flowing, remoteVars
  <2>6. Flow'
    BY <1>2, <2>3, <2>5 DEF Flow
  <2>7. alive' => ActiveOK'
    BY <1>2, <1>4, <2>1
  <2> QED
    BY <1>2, <1>3, <2>4, <2>6, <2>7 DEF BInv
<1> QED
  BY <1>6, <1>7, <1>8

\* The steps of WaitForUnchoke and waitForNewPieces that read a message.
LEMMA WaitReads ==
    ASSUME BInv, WaitForUnchoke \/ WaitForNewPieces
    PROVE  BInv'
<1> USE BlockExchangeAssumption DEF InGetBlocks, Goto
<1>1. PICK msg \in ToClient :
        /\ ReadMessage(msg)
        /\ bitfield' = IF msg.type = "have" THEN bitfield \cup {msg.piece} ELSE bitfield
        /\ \/ toRemote' = toRemote
           \/ Write(Plain("interested"))
        /\ \/ /\ pc = "unchoke" /\ pc' = "loop" /\ msg = Plain("unchoke")
              /\ toRemote' = toRemote
           \/ pc \in {"unchoke", "wait"} /\ pc' \in {"unchoke", "wait"}
    BY DEF WaitForUnchoke, WaitForNewPieces
<1>2. /\ UNCHANGED <<alive, piece, cancelCh, requested, blocks, endgame, completed,
                     leftBehind, remoteVars>>
      /\ toClient # <<>> /\ toClient' = Tail(toClient) /\ msg = Head(toClient)
  BY <1>1 DEF WaitForUnchoke, WaitForNewPieces, ReadMessage
<1>3. /\ toClient' \in Seq(ToClient)
      /\ Haves' /\ (msg.type = "have" => msg.piece \in has)
      /\ alive => Signals' /\ (msg.type = "unchoke" => ActiveOK')
      /\ Free(toClient, "piece") => Free(toClient', "piece")
  BY <1>2, ReadTail DEF BInv, remoteVars
<1>4. toRemote' \in Seq(ToRemote) /\ (Free(toRemote, "request") => Free(toRemote', "request"))
  <2>1. CASE toRemote' = toRemote
    BY <2>1 DEF BInv, TypeOK
  <2>2. CASE Write(Plain("interested"))
    <3>1. PICK m \in ToRemote : m = Plain("interested") /\ m.type # "request"
      BY RemoteMessages
    <3> QED
      BY <2>2, <3>1, WriteOther DEF BInv
  <2> QED
    BY <1>1, <2>1, <2>2
<1>5. bitfield' \subseteq has /\ bitfield \subseteq bitfield'
  BY <1>1, <1>3 DEF BInv, TypeOK
<1>6. TypeOK' /\ Locals'
  BY <1>1, <1>2, <1>3, <1>4, <1>5 DEF BInv, TypeOK, Locals, remoteVars
<1>7. alive' => ActiveOK'
  <2>1. CASE pc' = "loop"
    <3>1. msg.type = "unchoke"
      BY <1>1, <2>1, ClientMessages
    <3> QED
      BY <1>2, <1>3, <3>1
  <2>2. CASE pc' # "loop"
    BY <1>1, <2>2 DEF ActiveOK, Active
  <2> QED
    BY <2>1, <2>2
<1>8. ASSUME InStep PROVE Drained'
  <2>1. Free(toClient, "piece") /\ Free(toRemote, "request")
    BY <1>1, <1>8 DEF BInv, Flow, Drained
  <2> QED
    BY <1>3, <1>4, <2>1 DEF Drained
<1>9. InStep' = InStep
  BY <1>2 DEF InStep, remoteVars
<1>10. Flow'
  BY <1>1, <1>8, <1>9 DEF Flow
<1> QED
  BY <1>2, <1>3, <1>6, <1>7, <1>10 DEF BInv

-----------------------------------------------------------------------------
(* Steps of the remote and of the others *)

\* The remote reads a message.
LEMMA RemoteReadsStep ==
    ASSUME BInv, RemoteReads
    PROVE  BInv'
<1> USE BlockExchangeAssumption DEF InGetBlocks
<1>1. /\ alive /\ toRemote # <<>> /\ toRemote' = Tail(toRemote)
      /\ UNCHANGED <<alive, clientVars, remote, has, amChoking, choker, changes>>
      /\ interested' \in BOOLEAN /\ ignored' \in BOOLEAN /\ (InStep' => InStep)
      /\ toRemote \in Seq(ToRemote) /\ toClient \in Seq(ToClient) /\ (~amChoking) \in BOOLEAN
  <2>1. /\ alive /\ toRemote # <<>> /\ toRemote' = Tail(toRemote)
        /\ UNCHANGED <<alive, clientVars, remote, has, amChoking, choker, changes>>
        /\ ignored' = ignored \/ ignored' = TRUE
    BY DEF RemoteReads, Serve, HandleRequest
  <2>2. /\ interested \in BOOLEAN /\ ignored \in BOOLEAN
        /\ toRemote \in Seq(ToRemote) /\ toClient \in Seq(ToClient) /\ (~amChoking) \in BOOLEAN
    BY DEF BInv, TypeOK
  <2>3. interested' \in BOOLEAN
    BY <2>2 DEF RemoteReads, Serve, HandleRequest
  <2>4. ignored' \in BOOLEAN
    BY <2>1, <2>2
  <2> QED
    BY <2>1, <2>2, <2>3, <2>4 DEF InStep, clientVars
<1>2. /\ toRemote' \in Seq(ToRemote) /\ Head(toRemote) \in ToRemote
      /\ Free(toRemote, "request") =>
            Free(toRemote', "request") /\ Head(toRemote).type # "request"
  <2>1. /\ Tail(toRemote) \in Seq(ToRemote) /\ Head(toRemote) \in ToRemote
        /\ 1 \in DOMAIN toRemote /\ Head(toRemote) = toRemote[1]
        /\ \A i \in DOMAIN Tail(toRemote) : i + 1 \in DOMAIN toRemote
                                            /\ Tail(toRemote)[i] = toRemote[i + 1]
    BY <1>1, Tailed
  <2> QED
    BY <1>1, <2>1 DEF Free
<1>3. /\ Len(blocks) \in Nat /\ requested \in Nat
  BY LenProperties DEF BInv, TypeOK
<1>4. InGetBlocks' = InGetBlocks /\ UNCHANGED <<pc, piece, blocks, requested>>
  BY <1>1 DEF clientVars
<1>5. ASSUME toClient' = toClient, InStep' /\ Head(toRemote).type = "request" => amChoking
      PROVE  BInv'
  <2>1. TypeOK' /\ Locals'
    BY <1>1, <1>2, <1>5 DEF BInv, TypeOK, Locals, clientVars
  <2>2. Haves' /\ Signals' /\ ActiveOK'
    BY <1>1, <1>4, <1>5 DEF BInv, Haves, Signals, ActiveOK, Active, Choked
  <2>3. ASSUME InStep', InGetBlocks PROVE Flowing'
    <3>1. PICK r \in Len(blocks)..requested :
                   /\ Answers(toClient, piece, Len(blocks), r, ~amChoking)
                   /\ InOrder(toRemote, "request", piece, r, requested)
      BY <1>1, <2>3 DEF BInv, Flow, Flowing
    <3>2. r \in Nat
      BY <1>3
    <3>3. \E t \in Len(blocks)..requested :
              /\ Answers(toClient, piece, Len(blocks), t, ~amChoking)
              /\ InOrder(toRemote', "request", piece, t, requested)
      <4>1. CASE Head(toRemote).type # "request"
        BY <1>1, <1>3, <3>1, <3>2, <4>1, TailOther
      <4>2. CASE Head(toRemote).type = "request"
        <5>1. r < requested /\ InOrder(toRemote', "request", piece, r + 1, requested)
          BY <1>1, <1>3, <3>1, <3>2, <4>2, TailFirst
        <5>2. r + 1 \in Len(blocks)..requested
          BY <1>3, <3>1, <3>2, <5>1
        <5>3. (~amChoking) = FALSE
          BY <1>5, <2>3, <4>2
        <5>4. Answers(toClient, piece, Len(blocks), r + 1, ~amChoking)
          BY <1>3, <3>1, <3>2, <5>3, AnswersDropped
        <5> QED
          BY <5>1, <5>2, <5>4
      <4> QED
        BY <4>1, <4>2
    <3>4. \A i \in 1..Len(blocks) : blocks[i] = [piece |-> piece, block |-> i]
      BY <1>1, <2>3 DEF BInv, Flow, Flowing
    <3> QED
      BY <1>1, <1>4, <1>5, <3>3, <3>4 DEF Flowing
  <2>4. ASSUME InStep', ~InGetBlocks PROVE Drained'
    BY <1>1, <1>2, <1>5, <2>4 DEF BInv, Flow, Drained
  <2>5. Flow'
    BY <1>4, <2>3, <2>4 DEF Flow
  <2> QED
    BY <2>1, <2>2, <2>5 DEF BInv
<1>6. ASSUME NEW p \in Pieces, NEW b \in 1..NumBlocks, Head(toRemote) = Request(p, b),
             ~amChoking, toClient' = Append(toClient, Piece(p, b))
      PROVE  BInv'
  <2>1. PICK m \in ToClient : m = Piece(p, b) /\ m.type = "piece" /\ m.piece = p /\ m.block = b
    BY ClientMessages
  <2>2. /\ Head(toRemote).type = "request" /\ Head(toRemote).piece = p
        /\ Head(toRemote).block = b
    BY <1>6, RemoteMessages
  <2>3. toClient' \in Seq(ToClient) /\ Haves' /\ Signals' /\ ActiveOK'
    BY <1>1, <1>4, <1>6, <2>1, SendAppend DEF BInv
  <2>4. TypeOK' /\ Locals'
    BY <1>1, <1>2, <2>3 DEF BInv, TypeOK, Locals, clientVars
  <2>5. ASSUME InStep', InGetBlocks PROVE Flowing'
    <3>0. (~amChoking) = TRUE
      BY <1>6
    <3>1. PICK r \in Len(blocks)..requested :
                   /\ Answers(toClient, piece, Len(blocks), r, TRUE)
                   /\ InOrder(toRemote, "request", piece, r, requested)
      BY <1>1, <2>5, <3>0 DEF BInv, Flow, Flowing
    <3>2. r \in Nat /\ Len(blocks) <= r
      BY <1>3
    <3>3. /\ r < requested /\ p = piece /\ b = r + 1
          /\ InOrder(toRemote', "request", piece, r + 1, requested)
      BY <1>1, <1>3, <2>2, <3>1, <3>2, TailFirst
    <3>4. Answers(toClient', piece, Len(blocks), r + 1, TRUE)
      BY <1>1, <1>3, <1>6, <2>1, <3>1, <3>2, <3>3, AnswersAppendNext
    <3>5. r + 1 \in Len(blocks)..requested
      BY <1>3, <3>1, <3>2, <3>3
    <3>6. \A i \in 1..Len(blocks) : blocks[i] = [piece |-> piece, block |-> i]
      BY <1>1, <2>5 DEF BInv, Flow, Flowing
    <3> QED
      BY <1>1, <1>4, <3>0, <3>3, <3>4, <3>5, <3>6 DEF Flowing
  <2>6. InStep' => InGetBlocks
    BY <1>1, <1>2, <2>2 DEF BInv, Flow, Drained
  <2>7. Flow'
    BY <1>4, <2>5, <2>6 DEF Flow
  <2> QED
    BY <2>3, <2>4, <2>7 DEF BInv
<1>7. ASSUME InStep, NEW p \in Pieces, NEW b \in 1..NumBlocks, Head(toRemote) = Request(p, b)
      PROVE  p \in has
  <2>1. Head(toRemote).type = "request" /\ Head(toRemote).piece = p
    BY <1>7, RemoteMessages
  <2>2. InGetBlocks
    BY <1>2, <1>7, <2>1 DEF BInv, Flow, Drained
  <2>3. PICK r \in Len(blocks)..requested : InOrder(toRemote, "request", piece, r, requested)
    BY <1>7, <2>2 DEF BInv, Flow, Flowing
  <2>4. r \in Nat
    BY <1>3
  <2>5. Head(toRemote).piece = piece
    BY <1>1, <1>3, <2>1, <2>3, <2>4, TailFirst
  <2> QED
    BY <2>1, <2>2, <2>5 DEF BInv, Locals, TypeOK
<1>8. CASE Serve
  <2>1. toClient' = toClient /\ Head(toRemote) \notin Requests
    BY <1>8 DEF Serve
  <2>2. Head(toRemote).type # "request"
    BY <1>2, <2>1, RemoteMessages
  <2> QED
    BY <1>5, <2>1, <2>2
<1>9. ASSUME NEW p \in Pieces, NEW b \in 1..NumBlocks, HandleRequest(p, b)
      PROVE  BInv'
  <2>1. Head(toRemote) = Request(p, b)
    BY <1>9 DEF HandleRequest
  <2>2. CASE ~amChoking /\ p \in has /\ toClient' = Append(toClient, Piece(p, b))
    BY <1>6, <2>1, <2>2
  <2>3. CASE ~amChoking /\ p \in has /\ ignored' = TRUE /\ toClient' = toClient
    <3>1. ~InStep'
      BY <2>3 DEF InStep
    <3> QED
      BY <1>5, <2>3, <3>1
  <2>4. CASE amChoking /\ toClient' = toClient
    BY <1>5, <2>4
  <2>5. CASE p \notin has /\ toClient' = toClient
    <3>1. ~InStep'
      BY <1>1, <1>7, <2>1, <2>5
    <3> QED
      BY <1>5, <2>5, <3>1
  <2> QED
    BY <1>9, <2>2, <2>3, <2>4, <2>5 DEF HandleRequest, Send
<1> QED
  BY <1>8, <1>9 DEF RemoteReads

\* The choker changes the flag: nothing is said to the worker yet.
LEMMA ChokerDecidesStep ==
    ASSUME BInv, ChokerDecides
    PROVE  BInv'
<1> USE BlockExchangeAssumption DEF InGetBlocks
<1>1. /\ alive /\ choker = "idle" /\ choker' = "send" /\ amChoking' = ~amChoking
      /\ amChoking \in BOOLEAN /\ changes' \in 0..MaxChanges
      /\ UNCHANGED <<alive, toRemote, toClient, clientVars, remote, has, interested, ignored>>
  BY DEF ChokerDecides, BInv, TypeOK
<1>2. Choked' <=> Choked
  BY <1>1 DEF Choked
<1>3. /\ Active' = Active /\ InGetBlocks' = InGetBlocks /\ InStep' = InStep
      /\ UNCHANGED <<piece, blocks, requested>>
  BY <1>1 DEF Active, InStep, clientVars
<1>4. TypeOK' /\ Locals' /\ Haves'
  BY <1>1 DEF BInv, TypeOK, Locals, Haves, clientVars
<1>5. Signals'
  BY <1>1, <1>2 DEF BInv, Signals
<1>6. ActiveOK'
  BY <1>1, <1>2, <1>3 DEF BInv, ActiveOK
<1>7. ASSUME InStep, InGetBlocks PROVE Flowing'
  <2>1. PICK r \in Len(blocks)..requested :
                 /\ Answers(toClient, piece, Len(blocks), r, ~amChoking)
                 /\ InOrder(toRemote, "request", piece, r, requested)
    BY <1>7 DEF BInv, Flow, Flowing
  <2>2. ~amChoking' => ~Free(toClient, "choke")
    <3>1. Active
      BY <1>7 DEF Active
    <3> QED
      BY <1>1, <3>1 DEF BInv, ActiveOK, Choked
  <2>3. Answers(toClient, piece, Len(blocks), r, ~amChoking')
    BY <2>1, <2>2 DEF Answers
  <2>4. \A i \in 1..Len(blocks) : blocks[i] = [piece |-> piece, block |-> i]
    BY <1>7 DEF BInv, Flow, Flowing
  <2> QED
    BY <1>1, <1>3, <2>1, <2>3, <2>4 DEF Flowing
<1>8. ASSUME InStep, ~InGetBlocks PROVE Drained'
  BY <1>1, <1>8 DEF BInv, Flow, Drained
<1>9. Flow'
  BY <1>3, <1>7, <1>8 DEF Flow
<1> QED
  BY <1>4, <1>5, <1>6, <1>9 DEF BInv

\* The choker says so.
LEMMA ChokerSendsStep ==
    ASSUME BInv, ChokerSends
    PROVE  BInv'
<1> USE BlockExchangeAssumption DEF InGetBlocks
<1>1. /\ choker = "send" /\ choker' = "idle"
      /\ UNCHANGED <<alive, toRemote, clientVars, remote, has, amChoking, interested, changes,
                     ignored>>
      /\ amChoking \in BOOLEAN /\ (~amChoking) \in BOOLEAN /\ toClient \in Seq(ToClient)
  BY DEF ChokerSends, BInv, TypeOK
<1>2. CASE ~alive
  <2>1. toClient' = toClient
    BY <1>2 DEF ChokerSends
  <2> QED
    BY <1>1, <1>2, <2>1 DEF BInv, TypeOK, Locals, Haves, Flow, InStep, clientVars
<1>3. CASE alive
  <2>1. PICK m \in ToClient :
            /\ toClient' = Append(toClient, m)
            /\ m.type = IF amChoking THEN "choke" ELSE "unchoke"
    BY <1>3, ClientMessages DEF ChokerSends, Send
  <2>2. m.type # "piece" /\ m.type # "have"
    BY <2>1
  <2>3. /\ Active' = Active /\ InGetBlocks' = InGetBlocks /\ InStep' = InStep
        /\ UNCHANGED <<pc, piece, blocks, requested>>
    BY <1>1 DEF Active, InStep, clientVars
  <2>4. /\ toClient' \in Seq(ToClient) /\ Haves'
        /\ \A t : Free(toClient, t) /\ m.type # t => Free(toClient', t)
    BY <1>1, <2>1, <2>2, SendAppend DEF BInv
  <2>5. Signals' /\ ActiveOK'
    <3>1. CASE amChoking
      <4>1. Choked' /\ m.type = "choke"
        BY <1>1, <2>1, <3>1 DEF Choked
      <4> QED
        BY <1>3, <2>1, <2>3, <4>1, SendAppend DEF BInv
    <3>2. CASE ~amChoking
      <4>1. Choked /\ ~Choked' /\ m.type = "unchoke"
        BY <1>1, <2>1, <3>2 DEF Choked
      <4> QED
        BY <1>3, <2>1, <2>3, <4>1, SendAppend DEF BInv
    <3> QED
      BY <3>1, <3>2
  <2>6. TypeOK' /\ Locals'
    BY <1>1, <2>4 DEF BInv, TypeOK, Locals, clientVars
  <2>7. ASSUME InStep, InGetBlocks PROVE Flowing'
    <3>1. PICK r \in Len(blocks)..requested :
                   /\ Answers(toClient, piece, Len(blocks), r, ~amChoking)
                   /\ InOrder(toRemote, "request", piece, r, requested)
      BY <2>7 DEF BInv, Flow, Flowing
    <3>2. Len(blocks) \in Nat /\ r \in Nat
      BY LenProperties DEF BInv, TypeOK
    <3>3. Answers(toClient', piece, Len(blocks), r, ~amChoking)
      BY <1>1, <2>1, <2>2, <3>1, <3>2, AnswersAppendOther
    <3>4. \A i \in 1..Len(blocks) : blocks[i] = [piece |-> piece, block |-> i]
      BY <2>7 DEF BInv, Flow, Flowing
    <3> QED
      BY <1>1, <2>3, <3>1, <3>3, <3>4 DEF Flowing
  <2>8. ASSUME InStep, ~InGetBlocks PROVE Drained'
    BY <1>1, <2>2, <2>4, <2>8 DEF BInv, Flow, Drained
  <2>9. Flow'
    BY <2>3, <2>7, <2>8 DEF Flow
  <2> QED
    BY <2>4, <2>5, <2>6, <2>9 DEF BInv
<1> QED
  BY <1>2, <1>3

\* The worker at the other end says that it has a piece.
LEMMA RemoteCompletesStep ==
    ASSUME BInv, NEW p \in Pieces, RemoteCompletes(p)
    PROVE  BInv'
<1> USE BlockExchangeAssumption DEF InGetBlocks
<1>1. /\ alive /\ has' = has \cup {p}
      /\ UNCHANGED <<alive, toRemote, clientVars, remote, amChoking, interested, choker,
                     changes, ignored>>
      /\ toClient \in Seq(ToClient) /\ (~amChoking) \in BOOLEAN
  BY DEF RemoteCompletes, BInv, TypeOK
<1>2. PICK m \in ToClient : /\ toClient' = Append(toClient, m)
                            /\ m.type = "have" /\ m.piece = p
  BY ClientMessages DEF RemoteCompletes, Send
<1>3. has \subseteq has' /\ m.piece \in has'
  BY <1>1, <1>2
<1>4. /\ InGetBlocks' = InGetBlocks /\ InStep' = InStep
      /\ UNCHANGED <<pc, piece, blocks, requested>>
  BY <1>1 DEF InStep, clientVars
<1>5. /\ toClient' \in Seq(ToClient)
      /\ \A t : Free(toClient, t) /\ m.type # t => Free(toClient', t)
      /\ Haves' /\ Signals' /\ ActiveOK'
  BY <1>1, <1>2, <1>3, <1>4, SendAppend DEF BInv
<1>6. TypeOK' /\ Locals'
  BY <1>1, <1>5 DEF BInv, TypeOK, Locals, clientVars
<1>7. ASSUME InStep, InGetBlocks PROVE Flowing'
  <2>1. PICK r \in Len(blocks)..requested :
                 /\ Answers(toClient, piece, Len(blocks), r, ~amChoking)
                 /\ InOrder(toRemote, "request", piece, r, requested)
    BY <1>7 DEF BInv, Flow, Flowing
  <2>2. Len(blocks) \in Nat /\ r \in Nat
    BY LenProperties DEF BInv, TypeOK
  <2>3. Answers(toClient', piece, Len(blocks), r, ~amChoking)
    BY <1>1, <1>2, <2>1, <2>2, AnswersAppendOther
  <2>4. \A i \in 1..Len(blocks) : blocks[i] = [piece |-> piece, block |-> i]
    BY <1>7 DEF BInv, Flow, Flowing
  <2> QED
    BY <1>1, <1>4, <2>1, <2>3, <2>4 DEF Flowing
<1>8. ASSUME InStep, ~InGetBlocks PROVE Drained'
  BY <1>1, <1>2, <1>5, <1>8 DEF BInv, Flow, Drained
<1>9. Flow'
  BY <1>4, <1>7, <1>8 DEF Flow
<1> QED
  BY <1>5, <1>6, <1>9 DEF BInv

-----------------------------------------------------------------------------
(* The invariant *)

LEMMA BInvInit == Init => BInv
<1> SUFFICES ASSUME Init PROVE BInv
  OBVIOUS
<1> USE BlockExchangeAssumption DEF InGetBlocks
<1>1. /\ alive = TRUE /\ choker = "idle" /\ pc = "unchoke" /\ piece = NoPiece
      /\ requested = 0 /\ blocks = <<>> /\ remote \in Remotes /\ bitfield = has
      /\ amChoking = (remote = "seeder") /\ has \subseteq Pieces
  BY DEF Init
<1>2. /\ toRemote \in Seq(ToRemote)
      /\ \A i \in DOMAIN toRemote : toRemote[i] = Plain("interested")
  <2>1. Plain("interested") \in ToRemote /\ toRemote = <<Plain("interested")>>
    BY RemoteMessages DEF Init
  <2> QED
    BY <2>1
<1>3. Free(toRemote, "request")
  BY <1>2, RemoteMessages DEF Free
<1>4. /\ toClient \in Seq(ToClient)
      /\ \A i, j \in DOMAIN toClient : i = j
      /\ \A i \in DOMAIN toClient : toClient[i].type = "unchoke" /\ remote # "seeder"
  <2>1. Plain("unchoke") \in ToClient /\ Plain("unchoke").type = "unchoke"
    BY ClientMessages
  <2>2. CASE remote = "seeder"
    <3>1. toClient = <<>>
      BY <2>2 DEF Init
    <3> QED
      BY <3>1
  <2>3. CASE remote # "seeder"
    <3>1. PICK m \in ToClient : m.type = "unchoke" /\ toClient = <<m>>
      BY <2>1, <2>3 DEF Init
    <3> QED
      BY <2>3, <3>1
  <2> QED
    BY <2>2, <2>3
<1>5. TypeOK
  <2>1. blocks \in Seq(Block) /\ Len(blocks) <= requested
    BY <1>1
  <2>2. /\ alive \in BOOLEAN /\ endgame \in BOOLEAN /\ leftBehind \in BOOLEAN
        /\ interested \in BOOLEAN /\ ignored \in BOOLEAN
    BY DEF Init
  <2>5. changes \in 0..MaxChanges
    BY DEF Init
  <2>3. amChoking \in BOOLEAN
    BY <1>1
  <2>4. /\ bitfield \subseteq has /\ piece \in Pieces \cup {NoPiece} /\ cancelCh = "none"
        /\ requested \in 0..NumBlocks /\ completed \subseteq Pieces
    BY <1>1 DEF Init
  <2> QED
    BY <1>1, <1>2, <1>4, <2>1, <2>2, <2>3, <2>4, <2>5 DEF TypeOK
<1>6. Locals
  <2>1. Len(blocks) = 0
    BY <1>1
  <2> QED
    BY <1>1, <2>1 DEF Locals
<1>7. Haves
  BY <1>4 DEF Haves
<1>8. Signals /\ ActiveOK
  <2>1. \A i \in DOMAIN toClient : ~Choked
    BY <1>1, <1>4 DEF Choked
  <2>2. \A i, j \in DOMAIN toClient : ~(i < j)
    BY <1>4
  <2> QED
    BY <1>1, <2>1, <2>2 DEF Signals, ActiveOK, Active
<1>9. Flow
  BY <1>1, <1>3, <1>4 DEF Flow, Drained, Free
<1> QED
  BY <1>5, <1>6, <1>7, <1>8, <1>9 DEF BInv

\* A piece is completed elsewhere, the connection breaks.
LEMMA OutsideStep ==
    ASSUME BInv, (\E p \in Pieces : OtherCompletes(p)) \/ Breaks
    PROVE  BInv'
<1> USE BlockExchangeAssumption DEF InGetBlocks
<1>1. ASSUME NEW p \in Pieces, OtherCompletes(p) PROVE BInv'
  <2>1. TypeOK'
    BY <1>1 DEF OtherCompletes, BInv, TypeOK, remoteVars
  <2>2. Locals'
    BY <1>1 DEF OtherCompletes, BInv, Locals
  <2> QED
    BY <1>1, <2>1, <2>2, LocalStep DEF OtherCompletes, Active
<1>2. CASE Breaks
  <2>1. /\ alive' = FALSE /\ toRemote' = <<>> /\ UNCHANGED <<toClient, clientVars, remoteVars>>
    BY <1>2 DEF Breaks
  <2>2. toRemote' \in Seq(ToRemote)
    BY <2>1
  <2>3. TypeOK'
    BY <2>1, <2>2 DEF BInv, TypeOK, clientVars, remoteVars
  <2>4. Locals'
    BY <2>1 DEF BInv, Locals, clientVars
  <2>5. Haves'
    BY <2>1 DEF BInv, Haves, remoteVars
  <2> QED
    BY <2>1, <2>3, <2>4, <2>5 DEF BInv, Flow, InStep
<1> QED
  BY <1>1, <1>2

LEMMA BInvNext == BInv /\ [Next]_vars => BInv'
<1> SUFFICES ASSUME BInv, [Next]_vars PROVE BInv'
  OBVIOUS
<1>1. CASE Worker
  <2>1. CASE GetBlocks
    BY <2>1, RequestStep, GetBlocksReads DEF GetBlocks
  <2> QED
    BY <1>1, <2>1, LoopStep, WaitReads DEF Worker
<1>2. CASE UNCHANGED vars
  <2>1. UNCHANGED <<alive, toRemote, toClient, remoteVars, bitfield, leftBehind, pc, piece,
                    requested, blocks, cancelCh, endgame, completed>>
    BY <1>2 DEF vars, clientVars
  <2>2. TypeOK'
    BY <2>1 DEF BInv, TypeOK, remoteVars
  <2>3. Locals'
    BY <2>1 DEF BInv, Locals, InGetBlocks
  <2> QED
    BY <2>1, <2>2, <2>3, LocalStep DEF Active, InGetBlocks
<1> QED
  BY <1>1, <1>2, RemoteReadsStep, ChokerDecidesStep, ChokerSendsStep, RemoteCompletesStep,
     OutsideStep DEF Next, Stopped

LEMMA BInvAlways == Spec => []BInv
  BY BInvInit, BInvNext, PTL DEF Spec

-----------------------------------------------------------------------------
(* Theorems *)

\* Both ends keep to their types whatever is sent, dropped and cancelled, and
\* getBlocks never stores more blocks than it has requested.
THEOREM TypeTheorem == Spec => []TypeOK
<1>1. BInv => TypeOK
  BY DEF BInv
<1> QED
  BY <1>1, BInvAlways, PTL

\* What getBlocks has stored, what is on its way back and what is still on its way
\* there are together the blocks it asked for (BlocksAsRequested), for any piece
\* length, any depth of the pipeline and any number of Chokes and Unchokes under way.
THEOREM BlocksAsRequestedTheorem == Spec => []BlocksAsRequested
<1>1. ASSUME BInv PROVE BlocksAsRequested
  <2> SUFFICES ASSUME InStep, InGetBlocks
               PROVE  /\ blocks = SubSeq(Expected(piece), 1, Len(blocks))
                      /\ Cardinality(Pending(toClient, PieceMessages))
                           + Cardinality(Pending(toRemote, Requests))
                              <= requested - Len(blocks)
                      /\ ~amChoking /\ Pending(toClient, {Plain("choke")}) = {} =>
                            Cardinality(Pending(toClient, PieceMessages))
                              + Cardinality(Pending(toRemote, Requests))
                                 = requested - Len(blocks)
    BY DEF BlocksAsRequested, InStep
  <2>1. /\ Len(blocks) \in Nat /\ requested \in Nat /\ blocks \in Seq(Block)
        /\ DOMAIN blocks = 1..Len(blocks) /\ Len(blocks) < NumBlocks /\ NumBlocks \in Nat
        /\ piece \in Pieces
        /\ toClient \in Seq(ToClient) /\ toRemote \in Seq(ToRemote)
    BY <1>1, BlockExchangeAssumption, LenProperties
       DEF BInv, TypeOK, Locals, InGetBlocks
  <2>2. Flowing
    BY <1>1 DEF BInv, Flow
  <2>3. PICK r \in Len(blocks)..requested :
                 /\ Answers(toClient, piece, Len(blocks), r, ~amChoking)
                 /\ InOrder(toRemote, "request", piece, r, requested)
    BY <2>2 DEF Flowing
  <2>4. r \in Nat /\ Len(blocks) <= r /\ r <= requested /\ (~amChoking) \in BOOLEAN
    BY <1>1, <2>1, <2>3 DEF BInv, TypeOK
  <2>5. /\ Cardinality(Pending(toClient, PieceMessages)) \in Nat
        /\ Cardinality(Pending(toClient, PieceMessages)) <= r - Len(blocks)
    BY <1>1, <2>1, <2>3, <2>4, AnswersCount, PendingCounts DEF BInv
  <2>6. Cardinality(Pending(toRemote, Requests)) = requested - r
    BY <1>1, <2>1, <2>3, <2>4, InOrderCount, PendingCounts DEF BInv
  <2>8. ASSUME ~amChoking, Pending(toClient, {Plain("choke")}) = {}
        PROVE  Cardinality(Pending(toClient, PieceMessages)) = r - Len(blocks)
    <3>1. \A i \in DOMAIN toClient : toClient[i] \in ToClient /\ toClient[i] # Plain("choke")
      BY <2>1, <2>8, ElementOfSeq, LenProperties DEF Pending
    <3>2. Free(toClient, "choke")
      BY <3>1, ClientMessages DEF Free
    <3>3. InOrder(toClient, "piece", piece, Len(blocks), r)
      BY <2>3, <2>8, <3>2 DEF Answers
    <3> QED
      BY <1>1, <2>1, <2>4, <3>3, InOrderCount, PendingCounts DEF BInv
  <2>7. blocks = SubSeq(Expected(piece), 1, Len(blocks))
    <3> DEFINE e == Expected(piece)
               n == Len(blocks)
    <3>1. /\ e \in Seq(Block) /\ Len(e) = NumBlocks
          /\ \A i \in 1..n : e[i] = [piece |-> piece, block |-> i]
      BY <2>1 DEF Expected, Block
    <3>2. \A i \in 1..n : blocks[i] = e[i]
      BY <2>2, <3>1 DEF Flowing
    <3> HIDE DEF e
    <3>3. /\ \A i \in 1..n : e[i] \in Block
          /\ 1 \in Int /\ n \in Int /\ n - 1 + 1 = n /\ (IF 1 <= n THEN n - 1 + 1 ELSE 0) = n
          /\ \A i \in 1..n : 1 + i - 1 = i
      BY <2>1, <3>1, <3>2, ElementOfSeq
    <3>4. PICK t : t = SubSeq(e, 1, n)
      OBVIOUS
    <3>5. t \in Seq(Block) /\ Len(t) = n /\ \A i \in 1..n : t[i] = e[i]
      BY <3>3, <3>4, SubSeqProperties
    <3>6. blocks = t
      BY <2>1, <3>2, <3>5, SeqEqual
    <3> QED
      BY <3>4, <3>6 DEF e
  <2> QED
    <3>1. PICK c \in Nat, d \in Nat : /\ c = Cardinality(Pending(toClient, PieceMessages))
                                      /\ d = Cardinality(Pending(toRemote, Requests))
      BY <2>1, <2>4, <2>5, <2>6
    <3>2. c + d <= requested - Len(blocks)
      BY <2>1, <2>4, <2>5, <2>6, <3>1
    <3>3. ~amChoking /\ Pending(toClient, {Plain("choke")}) = {} => c + d = requested - Len(blocks)
      <4>1. c = r - Len(blocks) => c + d = requested - Len(blocks)
        BY <2>1, <2>4, <2>6, <3>1
      <4> QED
        BY <2>8, <3>1, <4>1
    <3> QED
      BY <2>7, <3>1, <3>2, <3>3
<1> QED
  BY <1>1, BInvAlways, PTL

=============================================================================
