-------------------------- MODULE FifoChainProofs ---------------------------
(***************************************************************************)
(* Messages of at most 20 words, 160 bytes, stay inside the chains, for    *)
(* any messages, any number of them and any mixture of such sizes; and the *)
(* chains together are the sequence of messages that MessageQueue          *)
(* promises.                                                               *)
(*                                                                         *)
(* The bound comes from add_chain: a chain for a message of w words has    *)
(* max(w + 1, 25) words, of which the chain's own header takes 4, so a new *)
(* chain has room for 21 words: an entry and 20 words.                     *)
(***************************************************************************)
EXTENDS FifoChain, SharedLemmas, SequenceTheorems, TLAPS

\* The messages of a chain lie one behind the other between front and back.
Laid(c) ==
    /\ MinChain <= c.end
    /\ c.front <= c.back
    /\ c.back <= c.end
    /\ c.items = <<>> => c.front = ChainHeader /\ c.back = ChainHeader
    /\ c.items # <<>> =>
          /\ c.front < Head(c.items).next
          /\ c.items[Len(c.items)].next = c.back
    /\ \A i, j \in 1..Len(c.items) :
          i < j => c.items[i].next < c.items[j].next

AllLaid(cs) ==
    /\ cs \in Seq(Chain)
    /\ \A i \in 1..Len(cs) : Laid(cs[i])

\* Only the last chain may be empty.
Filled(cs) == \A i \in 1..Len(cs) - 1 : cs[i].items # <<>>

IInv ==
    /\ AllLaid(chains)
    /\ Filled(chains)
    /\ allocated = Len(chains)

SmallMessages == \A w \in Sizes : w <= 20
-----------------------------------------------------------------------------
LEMMA NewChainLaid ==
    ASSUME NEW bytes \in Nat, bytes >= MinChain
    PROVE  /\ NewChain(bytes) \in Chain
           /\ Laid(NewChain(bytes))
<1> DEFINE c == NewChain(bytes)
<1>1. c.items = <<>> /\ c.front = 4 /\ c.back = 4 /\ c.end = bytes
  BY DEF NewChain, ChainHeader
<1>2. c \in Chain
  BY DEF NewChain, Chain, ChainHeader
<1> QED
  BY <1>1, <1>2 DEF Laid, MinChain, ChainHeader

LEMMA ResetLaid ==
    ASSUME NEW c \in Chain, MinChain <= c.end, c.items = <<>>
    PROVE  /\ ResetChain(c) \in Chain
           /\ Laid(ResetChain(c))
<1> DEFINE d == ResetChain(c)
<1>1. d.items = <<>> /\ d.front = 4 /\ d.back = 4 /\ d.end = c.end /\ d \in Chain
  BY DEF ResetChain, Chain, ChainHeader
<1> QED
  BY <1>1 DEF Laid, MinChain, Chain, ChainHeader

LEMMA PushLaid ==
    ASSUME NEW c \in Chain, Laid(c), NEW m \in Messages, NEW w \in Sizes,
           c.end - c.back >= w + EntryHeader
    PROVE  /\ PushInto(c, m, w) \in Chain
           /\ Laid(PushInto(c, m, w))
<1> DEFINE next == c.back + 1 + w
           item == [msg |-> m, next |-> next]
           d == PushInto(c, m, w)
<1> w \in Nat \ {0}
  BY ChainAssumption
<1>1. item \in Item /\ next \in Nat
  BY DEF Item, Chain
<1>2. /\ d.items = Append(c.items, item)
      /\ d.back = next /\ d.front = c.front /\ d.end = c.end
      /\ d \in Chain
  BY <1>1 DEF PushInto, Chain, EntryHeader
<1>3. /\ MinChain <= d.end /\ d.front <= d.back /\ d.back <= d.end
  BY <1>2 DEF Laid, Chain, EntryHeader, MinChain, ChainHeader
<1>4. d.items # <<>> /\ Len(d.items) = Len(c.items) + 1
  <2>1. c.items \in Seq(Item)
    BY DEF Chain
  <2> QED
    BY <2>1, <1>1, <1>2, AppendProperties
<1>5. d.items[Len(d.items)].next = d.back
  BY <1>1, <1>2, <1>4 DEF Chain
<1>6. d.front < Head(d.items).next
  <2>1. CASE c.items = <<>>
    BY <2>1, <1>1, <1>2 DEF Laid, Chain, ChainHeader
  <2>2. CASE c.items # <<>>
    <3>1. Head(d.items) = Head(c.items)
      BY <2>2, <1>1, <1>2 DEF Chain
    <3> QED
      BY <3>1, <2>2, <1>2 DEF Laid
  <2> QED BY <2>1, <2>2
<1>7. ASSUME NEW i \in 1..Len(d.items), NEW j \in 1..Len(d.items), i < j
      PROVE  d.items[i].next < d.items[j].next
  <2>1. i \in 1..Len(c.items) /\ d.items[i] = c.items[i]
    BY <1>1, <1>2, <1>4, <1>7 DEF Chain
  <2>2. CASE j \in 1..Len(c.items)
    <3>1. d.items[j] = c.items[j]
      BY <2>2, <1>1, <1>2 DEF Chain
    <3> QED BY <3>1, <2>1, <2>2, <1>7 DEF Laid
  <2>3. CASE j = Len(d.items)
    <3>1. c.items # <<>> /\ c.items \in Seq(Item) /\ Len(c.items) \in 1..Len(c.items)
      BY <2>1 DEF Chain
    <3>2. c.items[Len(c.items)].next = c.back
      BY <3>1 DEF Laid
    <3>5. c.items[i] \in Item
      BY <3>1, <2>1
    <3>6. c.items[i].next \in Nat
      BY <3>5 DEF Item
    <3>3. c.items[i].next <= c.back
      <4>1. CASE i = Len(c.items)
        BY <4>1, <3>2, <3>6
      <4>2. CASE i # Len(c.items)
        <5>1. i < Len(c.items)
          BY <4>2, <3>1, <2>1
        <5>2. c.items[i].next < c.items[Len(c.items)].next
          BY <5>1, <3>1, <2>1 DEF Laid
        <5>3. c.back \in Nat
          BY DEF Chain
        <5> QED BY <5>2, <5>3, <3>2, <3>6
      <4> QED BY <4>1, <4>2
    <3>4. d.items[j].next = next
      BY <2>3, <1>2, <1>5
    <3> QED BY <3>6, <3>3, <3>4, <2>1 DEF Chain
  <2> QED BY <2>2, <2>3, <1>4 DEF Chain
<1> QED
  BY <1>2, <1>3, <1>4, <1>5, <1>6, <1>7 DEF Laid

LEMMA PopLaid ==
    ASSUME NEW c \in Chain, Laid(c), c.items # <<>>
    PROVE  LET d == PopFrom(c)
               e == IF EmptyChain(d) THEN ResetChain(d) ELSE d
           IN  /\ EmptyChain(d) <=> d.items = <<>>
               /\ e \in Chain /\ Laid(e)
<1> DEFINE d == PopFrom(c)
           n == Len(c.items)
<1>1. /\ c.items \in Seq(Item) /\ n \in Nat \ {0}
      /\ Head(c.items) = c.items[1] /\ c.items[1] \in Item
  BY DEF Chain
<1>n. n \in Nat \ {0}
  BY <1>1
<1>2. /\ d.items = Tail(c.items) /\ d.front = c.items[1].next
      /\ d.back = c.back /\ d.end = c.end /\ d \in Chain
  BY <1>1 DEF PopFrom, Chain, Item
<1>3. /\ Len(d.items) = n - 1 /\ d.items \in Seq(Item)
      /\ \A i \in 1..n - 1 : d.items[i] = c.items[i + 1]
  BY <1>1, <1>2
<1> HIDE DEF d
<1>4. ASSUME NEW i \in 1..n, NEW j \in 1..n, i < j
      PROVE  c.items[i].next < c.items[j].next
  BY <1>4 DEF Laid
<1>5. c.items[n].next = c.back
  BY DEF Laid
<1>9. /\ MinChain <= d.end /\ d.back <= d.end
      /\ d.front \in Nat /\ d.back \in Nat
  BY <1>2 DEF Laid, Chain
<1>6. CASE n = 1
  <2>1. d.items = <<>> /\ d.front = d.back
    <3>1. d.items = <<>>
      BY <1>6, <1>1, <1>3, EmptySeq
    <3> QED
      BY <3>1, <1>6, <1>2, <1>5
  <2>2. EmptyChain(d)
    BY <2>1 DEF EmptyChain
  <2>3. ResetChain(d) \in Chain /\ Laid(ResetChain(d))
    BY <2>1, <1>2, <1>9, ResetLaid
  <2> QED BY <2>1, <2>2, <2>3 DEF d
<1>7. CASE n > 1
  <2>1. d.items # <<>> /\ d.front < d.back
    <3>1. d.items # <<>>
      BY <1>7, <1>1, <1>3, EmptySeq
    <3>2. c.items[1].next < c.items[n].next
      BY <1>7, <1>1, <1>4
    <3> QED
      BY <3>1, <3>2, <1>2, <1>5
  <2>2. Head(d.items) = c.items[2] /\ d.front < Head(d.items).next
    BY <1>7, <1>2, <1>3, <1>4, <1>1
  <2>3. d.items[Len(d.items)].next = d.back
    BY <1>7, <1>1, <1>2, <1>3, <1>5
  <2>4. ASSUME NEW i \in 1..Len(d.items), NEW j \in 1..Len(d.items), i < j
        PROVE  d.items[i].next < d.items[j].next
    <3>1. /\ i + 1 \in 1..n /\ j + 1 \in 1..n /\ i + 1 < j + 1
          /\ d.items[i] = c.items[i + 1] /\ d.items[j] = c.items[j + 1]
      BY <2>4, <1>1, <1>3
    <3> QED BY <3>1, <1>4
  <2>5. Laid(d)
    BY <2>1, <2>2, <2>3, <2>4, <1>9 DEF Laid
  <2>6. ~ EmptyChain(d)
    BY <2>1, <1>9 DEF EmptyChain
  <2> QED BY <2>1, <2>5, <2>6, <1>2 DEF d
<1>8. n = 1 \/ n > 1
  <2> HIDE DEF n
  <2> QED BY <1>n
<1> QED BY <1>6, <1>7, <1>8 DEF d

LEMMA OnlyFrontLaid ==
    ASSUME NEW c \in Chain, Laid(c), c.items # <<>>
    PROVE  /\ OnlyFront(c) \in Chain
           /\ Laid(OnlyFront(c))
<1> DEFINE d == OnlyFront(c)
           n == Len(c.items)
<1>1. /\ c.items \in Seq(Item) /\ n \in Nat \ {0}
      /\ Head(c.items) = c.items[1] /\ c.items[1] \in Item
  BY DEF Chain
<1>n. n \in Nat \ {0}
  BY <1>1
<1>2. /\ d.items = <<c.items[1]>> /\ d.back = c.items[1].next
      /\ d.front = c.front /\ d.end = c.end /\ d \in Chain
  BY <1>1 DEF OnlyFront, Chain, Item
<1>3. c.items[1].next <= c.back /\ c.front < c.items[1].next
  <2>1. ASSUME n # 1
        PROVE  c.items[1].next < c.items[n].next
    <3> HIDE DEF n
    <3>1. 1 \in 1..n /\ n \in 1..n /\ 1 < n
      BY <1>n, <2>1
    <3> QED BY <3>1 DEF Laid, n
  <2>2. c.items[n].next = c.back /\ c.front < c.items[1].next
    BY <1>1 DEF Laid
  <2>3. c.items[1].next \in Nat /\ c.back \in Nat
    BY <1>1 DEF Chain, Item
  <2> QED BY <2>1, <2>2, <2>3
<1> QED
  BY <1>1, <1>2, <1>3 DEF Laid, Chain, Item, MinChain

LEMMA LaidNotEmpty ==
    ASSUME NEW c \in Chain, Laid(c), c.items # <<>>
    PROVE  ~EmptyChain(c)
<1> DEFINE n == Len(c.items)
<1>1. /\ c.items \in Seq(Item) /\ n \in Nat \ {0}
      /\ Head(c.items) = c.items[1] /\ c.items[1] \in Item
  BY DEF Chain
<1>2. c.items[n].next = c.back /\ c.front < c.items[1].next
  BY <1>1 DEF Laid
<1>n. n \in Nat \ {0}
  BY <1>1
<1>3. ASSUME n # 1
      PROVE  c.items[1].next < c.items[n].next
  <2> HIDE DEF n
  <2>1. 1 \in 1..n /\ n \in 1..n /\ 1 < n
    BY <1>n, <1>3
  <2> QED BY <2>1 DEF Laid, n
<1>4. c.items[1].next \in Nat /\ c.back \in Nat /\ c.front \in Nat
  BY <1>1 DEF Chain, Item
<1> QED BY <1>2, <1>3, <1>4 DEF EmptyChain
-----------------------------------------------------------------------------
(* Lists of chains *)

LEMMA ReplaceLaid ==
    ASSUME NEW cs, AllLaid(cs), Filled(cs),
           NEW k \in 1..Len(cs), NEW c \in Chain, Laid(c),
           k = Len(cs) \/ c.items # <<>>
    PROVE  /\ AllLaid([cs EXCEPT ![k] = c])
           /\ Filled([cs EXCEPT ![k] = c])
           /\ Len([cs EXCEPT ![k] = c]) = Len(cs)
<1>1. cs \in Seq(Chain)
  BY DEF AllLaid
<1>2. /\ [cs EXCEPT ![k] = c] \in Seq(Chain)
      /\ Len([cs EXCEPT ![k] = c]) = Len(cs)
  BY <1>1
<1>3. ASSUME NEW i \in 1..Len(cs)
      PROVE  Laid([cs EXCEPT ![k] = c][i])
  BY <1>1, <1>3 DEF AllLaid
<1>4. ASSUME NEW i \in 1..Len(cs) - 1
      PROVE  [cs EXCEPT ![k] = c][i].items # <<>>
  BY <1>1, <1>4 DEF Filled
<1> QED BY <1>2, <1>3, <1>4 DEF AllLaid, Filled

LEMMA AppendLaid ==
    ASSUME NEW cs, AllLaid(cs), NEW c \in Chain, Laid(c),
           \A i \in 1..Len(cs) : cs[i].items # <<>>
    PROVE  /\ AllLaid(Append(cs, c))
           /\ Filled(Append(cs, c))
           /\ Len(Append(cs, c)) = Len(cs) + 1
           /\ Append(cs, c)[Len(cs) + 1] = c
<1>1. cs \in Seq(Chain)
  BY DEF AllLaid
<1>2. /\ Append(cs, c) \in Seq(Chain)
      /\ Len(Append(cs, c)) = Len(cs) + 1
      /\ \A i \in 1..Len(cs) : Append(cs, c)[i] = cs[i]
      /\ Append(cs, c)[Len(cs) + 1] = c
  BY <1>1, AppendProperties
<1>3. ASSUME NEW i \in 1..Len(cs) + 1
      PROVE  Laid(Append(cs, c)[i])
  <2>1. Len(cs) \in Nat
    BY <1>1
  <2>2. i \in 1..Len(cs) \/ i = Len(cs) + 1
    BY <2>1
  <2> QED BY <2>2, <1>2 DEF AllLaid
<1>4. Filled(Append(cs, c))
  <2>1. Len(Append(cs, c)) - 1 = Len(cs)
    BY <1>1, <1>2
  <2> QED BY <2>1, <1>2 DEF Filled
<1> QED BY <1>2, <1>3, <1>4 DEF AllLaid

LEMMA TailLaid ==
    ASSUME NEW cs, AllLaid(cs), Filled(cs), cs # <<>>
    PROVE  /\ AllLaid(Tail(cs)) /\ Filled(Tail(cs))
           /\ Len(Tail(cs)) = Len(cs) - 1
<1>1. cs \in Seq(Chain)
  BY DEF AllLaid
<1>2. /\ Tail(cs) \in Seq(Chain) /\ Len(Tail(cs)) = Len(cs) - 1
      /\ \A i \in 1..Len(Tail(cs)) : Tail(cs)[i] = cs[i + 1]
  BY <1>1, HeadTailProperties
<1>3. ASSUME NEW i \in 1..Len(Tail(cs))
      PROVE  Laid(Tail(cs)[i])
  <2>1. i + 1 \in 1..Len(cs)
    BY <1>1, <1>2
  <2> QED BY <2>1, <1>2 DEF AllLaid
<1>4. ASSUME NEW i \in 1..Len(Tail(cs)) - 1
      PROVE  Tail(cs)[i].items # <<>>
  <2>1. i + 1 \in 1..Len(cs) - 1 /\ i \in 1..Len(Tail(cs))
    BY <1>1, <1>2
  <2> QED BY <2>1, <1>2 DEF Filled
<1> QED BY <1>2, <1>3, <1>4 DEF AllLaid, Filled

LEMMA NoneLaid == AllLaid(<<>>) /\ Filled(<<>>) /\ Len(<<>>) = 0
BY EmptySeq DEF AllLaid, Filled

LEMMA OneLaid ==
    ASSUME NEW c \in Chain, Laid(c)
    PROVE  AllLaid(<<c>>) /\ Filled(<<c>>) /\ Len(<<c>>) = 1
<1>1. <<c>> \in Seq(Chain) /\ Len(<<c>>) = 1 /\ <<c>>[1] = c
  OBVIOUS
<1> QED BY <1>1 DEF AllLaid, Filled

\* The message being run, or at least that of the head, is there.
LEMMA HeadLaid ==
    ASSUME IInv, ~IsEmpty
    PROVE  /\ chains # <<>> /\ 1 \in 1..Len(chains) /\ Len(chains) \in Nat \ {0}
           /\ Head(chains) = chains[1]
           /\ chains[1] \in Chain /\ Laid(chains[1]) /\ chains[1].items # <<>>
<1>1. chains # <<>> /\ ~EmptyChain(Head(chains)) /\ chains \in Seq(Chain)
  BY DEF IInv, AllLaid, IsEmpty
<1>2. /\ 1 \in 1..Len(chains) /\ Len(chains) \in Nat \ {0}
      /\ Head(chains) = chains[1] /\ chains[1] \in Chain
  BY <1>1
<1>3. Laid(chains[1])
  BY <1>2 DEF IInv, AllLaid
<1>4. chains[1].items # <<>>
  BY <1>1, <1>2, <1>3 DEF Laid, EmptyChain
<1> QED BY <1>1, <1>2, <1>3, <1>4
-----------------------------------------------------------------------------
(* What a list of chains holds *)

\* The operators of FifoChain, of any list of chains and any contents.
ItemsOf(cs) == [i \in DOMAIN cs |-> cs[i].items]
ContentsOf(cs) == FlattenSeq(ItemsOf(cs))
MessagesOf(s) == [i \in DOMAIN s |-> s[i].msg]

LEMMA ContentsIs == Contents = ContentsOf(chains) /\ Order = MessagesOf(Contents)
BY DEF Contents, ContentsOf, ItemsOf, Order, MessagesOf

LEMMA ItemsType ==
    ASSUME NEW cs \in Seq(Chain)
    PROVE  /\ ItemsOf(cs) \in Seq(Seq(Item))
           /\ Len(ItemsOf(cs)) = Len(cs)
           /\ \A i \in 1 .. Len(cs) : ItemsOf(cs)[i] = cs[i].items
<1>1. Len(cs) \in Nat /\ DOMAIN cs = 1 .. Len(cs)
  OBVIOUS
<1>2. \A i \in 1 .. Len(cs) : cs[i].items \in Seq(Item)
  <2> SUFFICES ASSUME NEW i \in 1 .. Len(cs) PROVE cs[i].items \in Seq(Item)
    OBVIOUS
  <2>1. cs[i] \in Chain
    BY <1>1, ElementOfSeq
  <2> QED BY <2>1 DEF Chain
<1>3. ItemsOf(cs) = [i \in 1 .. Len(cs) |-> cs[i].items]
  BY <1>1 DEF ItemsOf
<1> QED BY <1>1, <1>2, <1>3

LEMMA ContentsType ==
    ASSUME NEW cs \in Seq(Chain)
    PROVE  ContentsOf(cs) \in Seq(Item)
BY ItemsType, FlattenType DEF ContentsOf

LEMMA ContentsNone == ContentsOf(<<>>) = <<>>
<1>1. ItemsOf(<<>>) = <<>>
  BY DEF ItemsOf
<1> QED BY <1>1, FlattenEmpty DEF ContentsOf

LEMMA ContentsAppend ==
    ASSUME NEW cs \in Seq(Chain), NEW c \in Chain
    PROVE  ContentsOf(Append(cs, c)) = ContentsOf(cs) \o c.items
<1>1. ItemsOf(cs) \in Seq(Seq(Item)) /\ c.items \in Seq(Item)
  BY ItemsType DEF Chain
<1>2. ItemsOf(Append(cs, c)) = Append(ItemsOf(cs), c.items)
  <2>1. /\ Append(cs, c) \in Seq(Chain) /\ Len(Append(cs, c)) = Len(cs) + 1
        /\ Len(cs) \in Nat
        /\ \A i \in 1 .. Len(cs) : Append(cs, c)[i] = cs[i]
        /\ Append(cs, c)[Len(cs) + 1] = c
    BY AppendProperties
  <2> DEFINE a == ItemsOf(Append(cs, c))
             b == Append(ItemsOf(cs), c.items)
  <2>2. /\ a \in Seq(Seq(Item)) /\ Len(a) = Len(cs) + 1
        /\ \A i \in 1 .. Len(cs) + 1 : a[i] = Append(cs, c)[i].items
    BY <2>1, ItemsType
  <2>3. /\ b \in Seq(Seq(Item)) /\ Len(b) = Len(cs) + 1
        /\ \A i \in 1 .. Len(cs) : b[i] = cs[i].items
        /\ b[Len(cs) + 1] = c.items
    BY <1>1, ItemsType, AppendProperties
  <2>4. \A i \in 1 .. Len(cs) + 1 : a[i] = b[i]
    <3> HIDE DEF a, b
    <3> SUFFICES ASSUME NEW i \in 1 .. Len(cs) + 1 PROVE a[i] = b[i]
      OBVIOUS
    <3>1. i \in 1 .. Len(cs) \/ i = Len(cs) + 1
      BY <2>1
    <3> QED BY <3>1, <2>1, <2>2, <2>3
  <2> HIDE DEF a, b
  <2>5. a = b
    BY <2>2, <2>3, <2>4, SeqEqual
  <2> QED BY <2>5 DEF a, b
<1>3. FlattenSeq(Append(ItemsOf(cs), c.items)) = FlattenSeq(ItemsOf(cs)) \o c.items
  BY <1>1, FlattenAppend
<1> QED BY <1>2, <1>3 DEF ContentsOf

LEMMA ContentsHeadTail ==
    ASSUME NEW cs \in Seq(Chain), cs # <<>>
    PROVE  ContentsOf(cs) = cs[1].items \o ContentsOf(Tail(cs))
<1>1. /\ ItemsOf(cs) \in Seq(Seq(Item)) /\ Len(ItemsOf(cs)) = Len(cs)
      /\ \A i \in 1 .. Len(cs) : ItemsOf(cs)[i] = cs[i].items
      /\ Len(cs) \in Nat \ {0}
  BY ItemsType, EmptySeq
<1>2. /\ Tail(cs) \in Seq(Chain) /\ Len(Tail(cs)) = Len(cs) - 1
      /\ \A i \in 1 .. Len(Tail(cs)) : Tail(cs)[i] = cs[i + 1]
  BY HeadTailProperties
<1>3. ItemsOf(Tail(cs)) = Tail(ItemsOf(cs))
  <2> DEFINE a == ItemsOf(Tail(cs))
             b == Tail(ItemsOf(cs))
  <2>1. /\ a \in Seq(Seq(Item)) /\ Len(a) = Len(cs) - 1
        /\ \A i \in 1 .. Len(cs) - 1 : a[i] = cs[i + 1].items
    BY <1>2, ItemsType
  <2>2. ItemsOf(cs) # <<>>
    BY <1>1
  <2>3. /\ b \in Seq(Seq(Item)) /\ Len(b) = Len(cs) - 1
        /\ \A i \in 1 .. Len(cs) - 1 : b[i] = ItemsOf(cs)[i + 1]
    BY <1>1, <2>2, HeadTailProperties
  <2>4. \A i \in 1 .. Len(cs) - 1 : b[i] = cs[i + 1].items
    <3>1. \A i \in 1 .. Len(cs) - 1 : i + 1 \in 1 .. Len(cs)
      BY <1>1
    <3> HIDE DEF b
    <3> QED BY <3>1, <1>1, <2>3
  <2> HIDE DEF a, b
  <2>5. a = b
    BY <2>1, <2>3, <2>4, SeqEqual
  <2> QED BY <2>5 DEF a, b
<1>4. FlattenSeq(ItemsOf(cs)) = Head(ItemsOf(cs)) \o FlattenSeq(Tail(ItemsOf(cs)))
  <2>1. ItemsOf(cs) # <<>>
    BY <1>1
  <2> QED BY <2>1, <1>1, FlattenHeadTail
<1>5. Head(ItemsOf(cs)) = cs[1].items
  BY <1>1
<1> QED BY <1>3, <1>4, <1>5 DEF ContentsOf

LEMMA ContentsOne ==
    ASSUME NEW c \in Chain
    PROVE  ContentsOf(<<c>>) = c.items
<1>1. <<c>> \in Seq(Chain) /\ <<c>> # <<>> /\ <<c>>[1] = c /\ Tail(<<c>>) = <<>>
  OBVIOUS
<1>2. ContentsOf(<<c>>) = c.items \o <<>>
  BY <1>1, ContentsHeadTail, ContentsNone
<1>3. c.items \in Seq(Item)
  BY DEF Chain
<1> QED BY <1>2, <1>3, ConcatEmptySeq

\* Another first chain.
LEMMA ContentsFirst ==
    ASSUME NEW cs \in Seq(Chain), cs # <<>>, NEW c \in Chain
    PROVE  ContentsOf([cs EXCEPT ![1] = c]) = c.items \o ContentsOf(Tail(cs))
<1> DEFINE ds == [cs EXCEPT ![1] = c]
<1>1. 1 \in 1 .. Len(cs) /\ Len(cs) \in Nat
  BY EmptySeq
<1>2. /\ ds \in Seq(Chain) /\ Len(ds) = Len(cs)
      /\ \A i \in 1 .. Len(cs) : ds[i] = IF i = 1 THEN c ELSE cs[i]
  BY <1>1, ExceptSeq
<1> HIDE DEF ds
<1>3. ds # <<>>
  BY <1>1, <1>2
<1>4. Tail(ds) = Tail(cs)
  <2>1. /\ Tail(cs) \in Seq(Chain) /\ Len(Tail(cs)) = Len(cs) - 1
        /\ \A i \in 1 .. Len(Tail(cs)) : Tail(cs)[i] = cs[i + 1]
    BY HeadTailProperties
  <2>2. /\ Tail(ds) \in Seq(Chain) /\ Len(Tail(ds)) = Len(cs) - 1
        /\ \A i \in 1 .. Len(Tail(ds)) : Tail(ds)[i] = ds[i + 1]
    BY <1>2, <1>3, HeadTailProperties
  <2>3. \A i \in 1 .. Len(Tail(cs)) : Tail(cs)[i] = Tail(ds)[i]
    <3> SUFFICES ASSUME NEW i \in 1 .. Len(Tail(cs)) PROVE Tail(cs)[i] = Tail(ds)[i]
      OBVIOUS
    <3>1. i + 1 \in 1 .. Len(cs) /\ i + 1 # 1
      BY <1>1, <2>1
    <3> QED BY <3>1, <2>1, <2>2, <1>2
  <2> QED BY <2>1, <2>2, <2>3, SeqEqual
<1>5. ds[1] = c
  BY <1>1, <1>2
<1>6. ContentsOf(ds) = ds[1].items \o ContentsOf(Tail(ds))
  BY <1>2, <1>3, ContentsHeadTail
<1> QED BY <1>4, <1>5, <1>6 DEF ds

\* Another last chain, with one more item.
LEMMA ContentsLast ==
    ASSUME NEW cs \in Seq(Chain), cs # <<>>, NEW c \in Chain, NEW x \in Item,
           c.items = Append(cs[Len(cs)].items, x)
    PROVE  ContentsOf([cs EXCEPT ![Len(cs)] = c]) = Append(ContentsOf(cs), x)
<1> DEFINE ds == [cs EXCEPT ![Len(cs)] = c]
<1>1. PICK front \in Seq(Chain), last \in Chain : cs = Append(front, last)
  BY SequenceEmptyOrAppend
<1>2. /\ Len(cs) = Len(front) + 1 /\ Len(front) \in Nat
      /\ cs[Len(cs)] = last
      /\ \A i \in 1 .. Len(front) : cs[i] = front[i]
  BY <1>1, AppendProperties
<1>3. ds = Append(front, c)
  <2>1. Len(cs) \in 1 .. Len(cs)
    BY <1>2
  <2>2. /\ ds \in Seq(Chain) /\ Len(ds) = Len(cs)
        /\ \A i \in 1 .. Len(cs) : ds[i] = IF i = Len(cs) THEN c ELSE cs[i]
    BY <2>1, ExceptSeq
  <2> DEFINE es == Append(front, c)
  <2>3. /\ es \in Seq(Chain) /\ Len(es) = Len(front) + 1
        /\ \A i \in 1 .. Len(front) : es[i] = front[i]
        /\ es[Len(front) + 1] = c
    BY <1>1, AppendProperties
  <2> HIDE DEF ds, es
  <2>4. ASSUME NEW i \in 1 .. Len(ds) PROVE ds[i] = es[i]
    <3>1. (i \in 1 .. Len(front) /\ i # Len(cs)) \/ i = Len(front) + 1
      BY <1>2, <2>2
    <3> QED BY <3>1, <1>2, <2>2, <2>3
  <2>5. ds = es
    BY <2>2, <2>3, <2>4, <1>2, SeqEqual
  <2> QED BY <2>5 DEF es
<1>4. ContentsOf(ds) = ContentsOf(front) \o Append(last.items, x)
  <2> HIDE DEF ds
  <2> QED BY <1>2, <1>3, ContentsAppend
<1>5. ContentsOf(cs) = ContentsOf(front) \o last.items
  BY <1>1, ContentsAppend
<1>6. ContentsOf(front) \in Seq(Item) /\ last.items \in Seq(Item)
  BY <1>1, ContentsType DEF Chain
<1>7. ContentsOf(front) \o Append(last.items, x) = Append(ContentsOf(front) \o last.items, x)
  BY <1>6, ConcatThenAppend
<1> QED BY <1>4, <1>5, <1>7
-----------------------------------------------------------------------------
(* reserve *)

\* reserve(w) leaves a last chain with room for an entry and w words,
\* counts the chains it adds, and touches no message.
LEMMA ReserveMakesRoom ==
    ASSUME IInv, NEW w \in Sizes, w <= 20
    PROVE  /\ AllLaid(Reserve(w)) /\ Filled(Reserve(w))
           /\ Len(Reserve(w)) = Len(chains) + Reserved(w)
           /\ Len(Reserve(w)) \in 1..Len(Reserve(w))
           /\ LET c == Reserve(w)[Len(Reserve(w))]
              IN  c.end - c.back >= w + EntryHeader
           /\ ContentsOf(Reserve(w)) = ContentsOf(chains)
<1> w \in Nat \ {0}
  BY ChainAssumption
<1>0. chains \in Seq(Chain) /\ Len(chains) \in Nat
  BY DEF IInv, AllLaid
<1>1. CASE HasRoom(w)
  <2>1. Reserve(w) = chains /\ Reserved(w) = 0
    BY <1>1 DEF Reserve, Reserved
  <2>2. chains # <<>> /\ Last(chains) = chains[Len(chains)]
        /\ Last(chains).end - Last(chains).back >= w + EntryHeader
    BY <1>1 DEF HasRoom, Last
  <2>3. Len(chains) \in 1..Len(chains)
    BY <1>0, <2>2
  <2> QED BY <2>1, <2>2, <2>3, <1>0 DEF IInv
<1>2. CASE ~HasRoom(w)
  <2> DEFINE bytes == Larger(w + EntryHeader, MinChain)
             forget == chains # <<>> /\ EmptyChain(Head(chains))
             kept == IF forget THEN <<>> ELSE chains
             c == NewChain(bytes)
  <2>1. bytes = 25
    BY DEF Larger, EntryHeader, MinChain
  <2>2. c \in Chain /\ Laid(c) /\ c.end - c.back >= w + EntryHeader
    <3>1. c \in Chain /\ Laid(c)
      BY <2>1, NewChainLaid DEF MinChain
    <3>2. c.end = bytes /\ c.back = 4
      BY DEF NewChain, ChainHeader
    <3> QED BY <3>1, <3>2, <2>1 DEF EntryHeader
  <2>3. Reserve(w) = Append(kept, c)
    BY <1>2 DEF Reserve
  <2>4. ASSUME chains # <<>>
        PROVE  chains[Len(chains)].items # <<>>
    <3>1. Len(chains) \in 1..Len(chains) /\ Last(chains) = chains[Len(chains)]
      BY <2>4, <1>0 DEF Last
    <3>2. chains[Len(chains)] \in Chain /\ Laid(chains[Len(chains)])
      BY <3>1, <1>0 DEF IInv, AllLaid
    <3>3. ~(chains[Len(chains)].end - chains[Len(chains)].back >= w + EntryHeader)
      BY <2>4, <3>1, <1>2 DEF HasRoom
    <3>4. chains[Len(chains)].back # ChainHeader
      BY <3>2, <3>3 DEF Laid, Chain, MinChain, EntryHeader, ChainHeader
    <3> QED BY <3>2, <3>4 DEF Laid
  <2>5. ASSUME NEW i \in 1..Len(chains)
        PROVE  chains[i].items # <<>> /\ chains[i] \in Chain /\ Laid(chains[i])
    <3>1. i = Len(chains) \/ i \in 1..Len(chains) - 1
      BY <1>0
    <3>2. chains # <<>>
      BY <1>0
    <3> QED BY <3>1, <3>2, <2>4, <1>0 DEF IInv, AllLaid, Filled
  <2>6. ~forget
    <3>1. SUFFICES ASSUME chains # <<>> PROVE ~EmptyChain(Head(chains))
      OBVIOUS
    <3>2. 1 \in 1..Len(chains) /\ Head(chains) = chains[1]
      BY <3>1, <1>0
    <3> QED BY <3>2, <2>5, LaidNotEmpty
  <2>7. kept = chains /\ Reserved(w) = 1
    BY <2>6, <1>2 DEF Reserved
  <2>8. /\ AllLaid(Reserve(w)) /\ Filled(Reserve(w))
        /\ Len(Reserve(w)) = Len(chains) + 1
        /\ Reserve(w)[Len(chains) + 1] = c
    <3>1. AllLaid(chains)
      BY DEF IInv
    <3> HIDE DEF c
    <3> QED BY <3>1, <2>2, <2>3, <2>5, <2>7, AppendLaid
  <2>9. Len(chains) + 1 \in 1..Len(chains) + 1
    BY <1>0
  <2>10. ContentsOf(Reserve(w)) = ContentsOf(chains)
    <3>1. c.items = <<>>
      BY DEF NewChain
    <3> HIDE DEF c
    <3>2. ContentsOf(Append(chains, c)) = ContentsOf(chains) \o <<>>
      BY <1>0, <2>2, <3>1, ContentsAppend
    <3>3. ContentsOf(chains) \in Seq(Item)
      BY <1>0, ContentsType
    <3> HIDE DEF kept
    <3> QED BY <2>3, <2>7, <3>2, <3>3, ConcatEmptySeq
  <2> HIDE DEF bytes, kept, c
  <2> QED BY <2>2, <2>7, <2>8, <2>9, <2>10
<1> QED BY <1>1, <1>2
-----------------------------------------------------------------------------
(* The invariant *)

LEMMA InitHolds == Init => IInv
BY NoneLaid DEF Init, IInv

LEMMA PushHolds ==
    ASSUME IInv, NEW m \in Messages, NEW w \in Sizes, w <= 20, Push(m, w)
    PROVE  IInv'
<1> DEFINE cs == Reserve(w)
           n == Len(cs)
           c == PushInto(cs[n], m, w)
<1>1. /\ AllLaid(cs) /\ Filled(cs) /\ n = Len(chains) + Reserved(w)
      /\ n \in 1..n
      /\ cs[n].end - cs[n].back >= w + EntryHeader
  BY ReserveMakesRoom
<1>2. cs[n] \in Chain /\ Laid(cs[n])
  BY <1>1 DEF AllLaid
<1>3. c \in Chain /\ Laid(c)
  BY <1>1, <1>2, PushLaid
<1>4. chains' = [cs EXCEPT ![n] = c] /\ allocated' = allocated + Reserved(w)
  BY DEF Push
<1> HIDE DEF cs, c
<1>5. AllLaid(chains') /\ Filled(chains') /\ Len(chains') = n
  BY <1>1, <1>3, <1>4, ReplaceLaid
<1> QED BY <1>1, <1>4, <1>5 DEF IInv, AllLaid, Filled

LEMMA PushThrowsHolds ==
    ASSUME IInv, NEW w \in Sizes, w <= 20, PushThrows(w)
    PROVE  IInv'
<1>1. AllLaid(Reserve(w)) /\ Filled(Reserve(w))
      /\ Len(Reserve(w)) = Len(chains) + Reserved(w)
  BY ReserveMakesRoom
<1>2. chains' = Reserve(w) /\ allocated' = allocated + Reserved(w)
  BY DEF PushThrows
<1>3. allocated = Len(chains)
  BY DEF IInv
<1>4. allocated' = Len(chains')
  BY <1>1, <1>2, <1>3
<1> QED BY <1>1, <1>2, <1>4 DEF IInv, AllLaid, Filled

LEMMA PopHolds ==
    ASSUME IInv, Pop
    PROVE  IInv'
<1> DEFINE head == PopFrom(Head(chains))
           next == EmptyChain(head) /\ Len(chains) > 1
           left == IF EmptyChain(head) THEN ResetChain(head) ELSE head
<1>1. ~IsEmpty
  BY DEF Pop
<1>2. /\ chains # <<>> /\ 1 \in 1..Len(chains) /\ Len(chains) \in Nat \ {0}
      /\ Head(chains) = chains[1]
      /\ chains[1] \in Chain /\ Laid(chains[1]) /\ chains[1].items # <<>>
  BY <1>1, HeadLaid
<1>3. /\ EmptyChain(head) <=> head.items = <<>>
      /\ left \in Chain /\ Laid(left)
  BY <1>2, PopLaid
<1>4. /\ chains' = IF next THEN Tail(chains) ELSE [chains EXCEPT ![1] = left]
      /\ allocated' = IF next THEN allocated - 1 ELSE allocated
  BY DEF Pop
<1>5. AllLaid(chains) /\ Filled(chains) /\ allocated = Len(chains)
  BY DEF IInv
<1>6. CASE next
  BY <1>6, <1>2, <1>4, <1>5, TailLaid DEF IInv, AllLaid, Filled
<1>7. CASE ~next
  <2>1. 1 = Len(chains) \/ left.items # <<>>
    <3>1. CASE EmptyChain(head)
      <4>1. ~(Len(chains) > 1)
        BY <3>1, <1>7
      <4>2. Len(chains) \in Nat \ {0}
        BY <1>2
      <4>3. Len(chains) = 1
        BY <4>1, <4>2
      <4> QED BY <4>3
    <3>2. CASE ~EmptyChain(head)
      BY <3>2, <1>3
    <3> QED BY <3>1, <3>2
  <2> HIDE DEF left
  <2>2. AllLaid(chains') /\ Filled(chains') /\ Len(chains') = Len(chains)
    BY <2>1, <1>2, <1>3, <1>4, <1>5, <1>7, ReplaceLaid
  <2> QED BY <2>2, <1>4, <1>5, <1>7 DEF IInv, AllLaid, Filled
<1> QED BY <1>6, <1>7

LEMMA TruncateHolds ==
    ASSUME IInv, Truncate
    PROVE  IInv'
<1>1. ~IsEmpty
  BY DEF Truncate
<1>2. /\ Len(chains) \in Nat \ {0} /\ Head(chains) = chains[1]
      /\ chains[1] \in Chain /\ Laid(chains[1]) /\ chains[1].items # <<>>
  BY <1>1, HeadLaid
<1>3. OnlyFront(chains[1]) \in Chain /\ Laid(OnlyFront(chains[1]))
  BY <1>2, OnlyFrontLaid
<1>4. chains' = <<OnlyFront(chains[1])>>
      /\ allocated' = allocated - (Len(chains) - 1)
  BY <1>2 DEF Truncate
<1>5. AllLaid(chains') /\ Filled(chains') /\ Len(chains') = 1
  BY <1>3, <1>4, OneLaid
<1>6. allocated' = 1
  BY <1>2, <1>4 DEF IInv
<1> QED BY <1>5, <1>6 DEF IInv, AllLaid, Filled

LEMMA DestroyHolds ==
    ASSUME IInv, Destroy
    PROVE  IInv'
<1>1. chains' = <<>> /\ allocated' = allocated - Len(chains)
  BY DEF Destroy
<1>2. Len(chains) \in Nat /\ allocated = Len(chains)
  BY DEF IInv, AllLaid
<1>3. allocated' = 0
  BY <1>1, <1>2
<1> QED BY <1>1, <1>3, NoneLaid DEF IInv, AllLaid, Filled

LEMMA StepHolds ==
    ASSUME SmallMessages, IInv, [Next]_vars
    PROVE  IInv'
<1>1. ASSUME NEW m \in Messages, NEW w \in Sizes, Push(m, w)
      PROVE  IInv'
  BY <1>1, PushHolds DEF SmallMessages
<1>2. ASSUME NEW w \in Sizes, PushThrows(w)
      PROVE  IInv'
  BY <1>2, PushThrowsHolds DEF SmallMessages
<1>3. CASE Pop
  BY <1>3, PopHolds
<1>4. CASE Truncate
  BY <1>4, TruncateHolds
<1>5. CASE Destroy
  BY <1>5, DestroyHolds
<1>6. CASE UNCHANGED vars
  BY <1>6 DEF vars, IInv, AllLaid, Filled
<1> QED BY <1>1, <1>2, <1>3, <1>4, <1>5, <1>6 DEF Next

LEMMA IInvHolds == ASSUME SmallMessages PROVE Spec => []IInv
<1>1. Init => IInv
  BY InitHolds
<1>2. IInv /\ [Next]_vars => IInv'
  BY StepHolds
<1> QED BY <1>1, <1>2, PTL DEF Spec

\* Safety, for any number of messages of any sizes up to 20 words: no message
\* is written past the end of its chain.
THEOREM ChainsHold == ASSUME SmallMessages PROVE Spec => []InBounds
<1>1. IInv => InBounds
  BY DEF IInv, AllLaid, Laid, InBounds
<1> QED BY <1>1, IInvHolds, PTL

\* empty() speaks for the whole list though it looks at the head only, and
\* every chain allocated is in the list.
NothingHidden ==
    /\ IsEmpty => \A i \in 1..Len(chains) : chains[i].items = <<>>
    /\ allocated = Len(chains)

\* Safety, under the same assumption: no message waits in a chain behind an
\* empty head, where run_some would never find it, and no chain leaks.
THEOREM EmptyMeansNoMessages == ASSUME SmallMessages PROVE Spec => []NothingHidden
<1>1. IInv => NothingHidden
  <2> SUFFICES ASSUME IInv, IsEmpty, NEW i \in 1..Len(chains)
               PROVE  chains[i].items = <<>>
    BY DEF NothingHidden, IInv
  <2>1. /\ chains \in Seq(Chain) /\ chains # <<>> /\ 1 \in 1..Len(chains)
        /\ Head(chains) = chains[1] /\ Len(chains) \in Nat
    BY DEF IInv, AllLaid
  <2>2. chains[1] \in Chain /\ Laid(chains[1]) /\ EmptyChain(chains[1])
    BY <2>1 DEF IInv, AllLaid, IsEmpty
  <2>3. chains[1].items = <<>>
    BY <2>2, LaidNotEmpty
  <2>4. ~(1 \in 1..Len(chains) - 1)
    BY <2>3 DEF IInv, Filled
  <2>5. i = 1
    BY <2>1, <2>4
  <2> QED BY <2>3, <2>5
<1> QED BY <1>1, IInvHolds, PTL
-----------------------------------------------------------------------------
(* The messages, whatever chains they are in *)

LEMMA MessagesType ==
    ASSUME NEW s \in Seq(Item)
    PROVE  /\ MessagesOf(s) \in Seq(Messages)
           /\ Len(MessagesOf(s)) = Len(s)
           /\ \A i \in 1 .. Len(s) : MessagesOf(s)[i] = s[i].msg
<1>1. Len(s) \in Nat /\ DOMAIN s = 1 .. Len(s)
  OBVIOUS
<1>2. \A i \in 1 .. Len(s) : s[i].msg \in Messages
  <2> SUFFICES ASSUME NEW i \in 1 .. Len(s) PROVE s[i].msg \in Messages
    OBVIOUS
  <2>1. s[i] \in Item
    BY ElementOfSeq
  <2> QED BY <2>1 DEF Item
<1>3. MessagesOf(s) = [i \in 1 .. Len(s) |-> s[i].msg]
  BY <1>1 DEF MessagesOf
<1> QED BY <1>1, <1>2, <1>3

LEMMA MessagesAppend ==
    ASSUME NEW s \in Seq(Item), NEW x \in Item
    PROVE  MessagesOf(Append(s, x)) = Append(MessagesOf(s), x.msg)
<1>1. x.msg \in Messages
  BY DEF Item
<1>2. /\ Append(s, x) \in Seq(Item) /\ Len(Append(s, x)) = Len(s) + 1
      /\ Len(s) \in Nat
      /\ \A i \in 1 .. Len(s) : Append(s, x)[i] = s[i]
      /\ Append(s, x)[Len(s) + 1] = x
  BY AppendProperties
<1> DEFINE a == MessagesOf(Append(s, x))
           b == Append(MessagesOf(s), x.msg)
<1>3. /\ a \in Seq(Messages) /\ Len(a) = Len(s) + 1
      /\ \A i \in 1 .. Len(s) + 1 : a[i] = Append(s, x)[i].msg
  BY <1>2, MessagesType
<1>4. /\ b \in Seq(Messages) /\ Len(b) = Len(s) + 1
      /\ \A i \in 1 .. Len(s) : b[i] = s[i].msg
      /\ b[Len(s) + 1] = x.msg
  BY <1>1, MessagesType, AppendProperties
<1> HIDE DEF a, b
<1>5. ASSUME NEW i \in 1 .. Len(a) PROVE a[i] = b[i]
  <2>1. i \in 1 .. Len(s) \/ i = Len(s) + 1
    BY <1>2, <1>3
  <2> QED BY <2>1, <1>2, <1>3, <1>4
<1>6. a = b
  BY <1>3, <1>4, <1>5, SeqEqual
<1> QED BY <1>6 DEF a, b

LEMMA MessagesTail ==
    ASSUME NEW s \in Seq(Item), s # <<>>
    PROVE  /\ MessagesOf(s) # <<>>
           /\ Head(MessagesOf(s)) = Head(s).msg
           /\ MessagesOf(Tail(s)) = Tail(MessagesOf(s))
<1>1. /\ Len(s) \in Nat \ {0} /\ Head(s) = s[1]
      /\ Tail(s) \in Seq(Item) /\ Len(Tail(s)) = Len(s) - 1
      /\ \A i \in 1 .. Len(Tail(s)) : Tail(s)[i] = s[i + 1]
  BY HeadTailProperties, EmptySeq
<1> DEFINE m == MessagesOf(s)
           a == MessagesOf(Tail(s))
           b == Tail(m)
<1>2. /\ m \in Seq(Messages) /\ Len(m) = Len(s)
      /\ \A i \in 1 .. Len(s) : m[i] = s[i].msg
  BY MessagesType
<1> HIDE DEF m
<1>3. m # <<>> /\ Head(m) = Head(s).msg
  BY <1>1, <1>2
<1>4. /\ a \in Seq(Messages) /\ Len(a) = Len(s) - 1
      /\ \A i \in 1 .. Len(s) - 1 : a[i] = s[i + 1].msg
  BY <1>1, MessagesType
<1>5. /\ b \in Seq(Messages) /\ Len(b) = Len(s) - 1
      /\ \A i \in 1 .. Len(s) - 1 : b[i] = m[i + 1]
  BY <1>2, <1>3, HeadTailProperties
<1> HIDE DEF a, b
<1>6. ASSUME NEW i \in 1 .. Len(a) PROVE a[i] = b[i]
  <2>1. i \in 1 .. Len(s) - 1 /\ i + 1 \in 1 .. Len(s)
    BY <1>1, <1>4
  <2> QED BY <2>1, <1>2, <1>4, <1>5
<1>7. a = b
  BY <1>4, <1>5, <1>6, SeqEqual
<1> QED BY <1>3, <1>7 DEF m, a, b

\* The first element and the rest of two sequences one behind the other.
LEMMA ConcatHeadTail ==
    ASSUME NEW S, NEW s \in Seq(S), NEW u \in Seq(S), s # <<>>
    PROVE  /\ s \o u \in Seq(S) /\ s \o u # <<>>
           /\ Head(s \o u) = Head(s)
           /\ Tail(s \o u) = Tail(s) \o u
<1> DEFINE c == s \o u
           a == Tail(c)
           t == Tail(s)
           b == t \o u
<1>1. /\ c \in Seq(S) /\ Len(c) = Len(s) + Len(u)
      /\ Len(s) \in Nat \ {0} /\ Len(u) \in Nat
      /\ \A i \in 1 .. Len(s) + Len(u) :
            c[i] = IF i <= Len(s) THEN s[i] ELSE u[i - Len(s)]
  BY ConcatProperties, EmptySeq
<1> HIDE DEF c
<1>2. c # <<>> /\ Head(c) = c[1] /\ Head(s) = s[1] /\ c[1] = s[1]
  BY <1>1
<1>3. /\ a \in Seq(S) /\ Len(a) = Len(s) - 1 + Len(u)
      /\ \A i \in 1 .. Len(a) : a[i] = c[i + 1]
  BY <1>1, <1>2, HeadTailProperties
<1>4. /\ t \in Seq(S) /\ Len(t) = Len(s) - 1
      /\ \A i \in 1 .. Len(t) : t[i] = s[i + 1]
  BY HeadTailProperties
<1> HIDE DEF a, t
<1>5. /\ b \in Seq(S) /\ Len(b) = Len(t) + Len(u)
      /\ \A i \in 1 .. Len(t) + Len(u) :
            b[i] = IF i <= Len(t) THEN t[i] ELSE u[i - Len(t)]
  BY <1>4, ConcatProperties
<1> HIDE DEF b
<1>6. ASSUME NEW i \in 1 .. Len(a) PROVE a[i] = b[i]
  <2>1. i \in 1 .. Len(t) + Len(u) /\ i + 1 \in 1 .. Len(s) + Len(u)
    BY <1>1, <1>3, <1>4
  <2>2. a[i] = c[i + 1]
    BY <1>3
  <2>3. CASE i <= Len(t)
    <3>1. i + 1 <= Len(s) /\ i \in 1 .. Len(t)
      BY <2>1, <2>3, <1>1, <1>4
    <3> QED BY <3>1, <2>1, <2>2, <1>1, <1>4, <1>5
  <2>4. CASE ~(i <= Len(t))
    <3>1. ~(i + 1 <= Len(s)) /\ i + 1 - Len(s) = i - Len(t)
      BY <2>1, <2>4, <1>1, <1>4
    <3>2. c[i + 1] = u[i + 1 - Len(s)]
      BY <3>1, <2>1, <1>1
    <3>3. b[i] = u[i - Len(t)]
      BY <2>1, <2>4, <1>5
    <3> QED BY <3>1, <3>2, <3>3, <2>2
  <2> QED BY <2>3, <2>4
<1>7. a = b
  BY <1>3, <1>4, <1>5, <1>6, SeqEqual
<1> QED BY <1>1, <1>2, <1>7 DEF a, b, c, t
-----------------------------------------------------------------------------
(* What each operation does to the order of the messages *)

LEMMA ContentsAre ==
    ASSUME IInv
    PROVE  /\ Contents \in Seq(Item) /\ Order \in Seq(Messages)
           /\ Len(Order) = Len(Contents)
           /\ IsEmpty <=> Contents = <<>>
<1>1. chains \in Seq(Chain)
  BY DEF IInv, AllLaid
<1>2. Contents \in Seq(Item) /\ Order \in Seq(Messages) /\ Len(Order) = Len(Contents)
  BY <1>1, ContentsIs, ContentsType, MessagesType
<1>3. ASSUME IsEmpty PROVE Contents = <<>>
  <2>1. CASE chains = <<>>
    BY <2>1, ContentsIs, ContentsNone
  <2>2. CASE chains # <<>>
    <3>1. chains = <<chains[1]>> /\ chains[1] \in Chain /\ chains[1].items = <<>>
      <4>1. /\ 1 \in 1..Len(chains) /\ Head(chains) = chains[1] /\ Len(chains) \in Nat
            /\ chains[1] \in Chain
        BY <1>1, <2>2
      <4>2. Laid(chains[1]) /\ EmptyChain(chains[1])
        BY <4>1, <1>3, <2>2 DEF IInv, AllLaid, IsEmpty
      <4>3. chains[1].items = <<>>
        BY <4>1, <4>2, LaidNotEmpty
      <4>4. ~(1 \in 1..Len(chains) - 1)
        BY <4>3 DEF IInv, Filled
      <4>5. Len(chains) = 1
        <5> DEFINE n == Len(chains)
        <5>1. n \in Nat /\ 1 \in 1..n /\ ~(1 \in 1..n - 1)
          BY <4>1, <4>4
        <5> HIDE DEF n
        <5>2. n = 1
          BY <5>1
        <5> QED BY <5>2 DEF n
      <4> QED BY <4>1, <4>3, <4>5, <1>1
    <3>2. ContentsOf(chains) = <<>>
      BY <3>1, ContentsOne
    <3> QED BY <3>2, ContentsIs
  <2> QED BY <2>1, <2>2
<1>4. ASSUME ~IsEmpty PROVE Contents # <<>>
  <2>1. chains # <<>> /\ chains[1] \in Chain /\ chains[1].items # <<>>
    BY <1>4, HeadLaid
  <2>2. ContentsOf(chains) = chains[1].items \o ContentsOf(Tail(chains))
    BY <1>1, <2>1, ContentsHeadTail
  <2>3. chains[1].items \in Seq(Item) /\ Tail(chains) \in Seq(Chain)
    BY <1>1, <2>1 DEF Chain
  <2>4. ContentsOf(Tail(chains)) \in Seq(Item)
    BY <2>3, ContentsType
  <2>5. ContentsOf(chains) # <<>>
    BY <2>1, <2>2, <2>3, <2>4, ConcatHeadTail
  <2> QED BY <2>5, ContentsIs
<1> QED BY <1>2, <1>3, <1>4

\* The front message, and those behind it.
LEMMA ContentsFront ==
    ASSUME IInv, ~IsEmpty
    PROVE  /\ Contents # <<>>
           /\ Head(Contents) = Head(chains[1].items)
           /\ Tail(Contents) = Tail(chains[1].items) \o ContentsOf(Tail(chains))
           /\ Order # <<>>
           /\ Head(Order) = Head(chains[1].items).msg
           /\ Tail(Order) = MessagesOf(Tail(Contents))
<1>1. chains \in Seq(Chain) /\ chains # <<>> /\ chains[1] \in Chain /\ chains[1].items # <<>>
  BY HeadLaid DEF IInv, AllLaid
<1>2. chains[1].items \in Seq(Item) /\ Tail(chains) \in Seq(Chain)
  BY <1>1 DEF Chain
<1>3. ContentsOf(Tail(chains)) \in Seq(Item)
  BY <1>2, ContentsType
<1>4. Contents = chains[1].items \o ContentsOf(Tail(chains))
  BY <1>1, ContentsHeadTail, ContentsIs
<1>5. /\ Contents # <<>> /\ Contents \in Seq(Item)
      /\ Head(Contents) = Head(chains[1].items)
      /\ Tail(Contents) = Tail(chains[1].items) \o ContentsOf(Tail(chains))
  BY <1>1, <1>2, <1>3, <1>4, ConcatHeadTail
<1> QED BY <1>5, ContentsIs, MessagesTail

LEMMA ContentsIsPrime == Contents' = ContentsOf(chains') /\ Order' = MessagesOf(Contents')
BY DEF Contents, ContentsOf, ItemsOf, Order, MessagesOf

LEMMA PushOrder ==
    ASSUME IInv, NEW m \in Messages, NEW w \in Sizes, w <= 20, Push(m, w)
    PROVE  Order' = Append(Order, m)
<1> DEFINE cs == Reserve(w)
           n == Len(cs)
           c == PushInto(cs[n], m, w)
           x == [msg |-> m, next |-> cs[n].back + EntryHeader + w]
<1>1. /\ AllLaid(cs) /\ n \in 1..n /\ ContentsOf(cs) = ContentsOf(chains)
      /\ cs[n].end - cs[n].back >= w + EntryHeader
  BY ReserveMakesRoom
<1>2. cs \in Seq(Chain) /\ cs[n] \in Chain /\ Laid(cs[n])
  BY <1>1 DEF AllLaid
<1>3. c \in Chain
  BY <1>1, <1>2, PushLaid
<1>4. chains' = [cs EXCEPT ![n] = c]
  BY DEF Push
<1>5. c.items = Append(cs[n].items, x) /\ x \in Item /\ x.msg = m
  <2>1. cs[n].back \in Nat /\ w \in Nat
    BY <1>2, ChainAssumption DEF Chain
  <2>2. c.items = Append(cs[n].items, x)
    BY DEF PushInto
  <2> QED BY <2>1, <2>2 DEF Item, EntryHeader
<1>6. cs # <<>>
  BY <1>1, <1>2
<1> HIDE DEF cs, c, x
<1>7. ContentsOf(chains') = Append(ContentsOf(cs), x)
  BY <1>2, <1>3, <1>4, <1>5, <1>6, ContentsLast
<1>8. Contents' = Append(Contents, x)
  BY <1>1, <1>7, ContentsIs, ContentsIsPrime
<1> QED BY <1>5, <1>8, ContentsAre, ContentsIs, ContentsIsPrime, MessagesAppend

LEMMA PushThrowsOrder ==
    ASSUME IInv, NEW w \in Sizes, w <= 20, PushThrows(w)
    PROVE  Order' = Order
<1>1. ContentsOf(Reserve(w)) = ContentsOf(chains)
  BY ReserveMakesRoom
<1>2. chains' = Reserve(w)
  BY DEF PushThrows
<1> QED BY <1>1, <1>2, ContentsIs, ContentsIsPrime

LEMMA PopOrder ==
    ASSUME IInv, Pop
    PROVE  Order' = Tail(Order)
<1> DEFINE head == PopFrom(Head(chains))
           next == EmptyChain(head) /\ Len(chains) > 1
           left == IF EmptyChain(head) THEN ResetChain(head) ELSE head
<1>1. ~IsEmpty
  BY DEF Pop
<1>2. /\ chains \in Seq(Chain) /\ chains # <<>> /\ Len(chains) \in Nat \ {0}
      /\ Head(chains) = chains[1]
      /\ chains[1] \in Chain /\ Laid(chains[1]) /\ chains[1].items # <<>>
  BY <1>1, HeadLaid DEF IInv, AllLaid
<1>3. /\ EmptyChain(head) <=> head.items = <<>>
      /\ left \in Chain
  BY <1>2, PopLaid
<1>4. head.items = Tail(chains[1].items) /\ left.items = head.items
  BY <1>2 DEF PopFrom, ResetChain
<1>5. chains' = IF next THEN Tail(chains) ELSE [chains EXCEPT ![1] = left]
  BY DEF Pop
<1>6. /\ Tail(Contents) = Tail(chains[1].items) \o ContentsOf(Tail(chains))
      /\ Tail(Order) = MessagesOf(Tail(Contents))
  BY <1>1, ContentsFront
<1> HIDE DEF head, left
<1>7. CASE next
  <2>1. Tail(chains) \in Seq(Chain)
    BY <1>2
  <2>2. ContentsOf(Tail(chains)) \in Seq(Item)
    BY <2>1, ContentsType
  <2>3. Tail(Contents) = <<>> \o ContentsOf(Tail(chains))
    BY <1>3, <1>4, <1>6, <1>7
  <2>4. Tail(Contents) = ContentsOf(Tail(chains))
    BY <2>2, <2>3, ConcatEmptySeq
  <2> QED BY <2>4, <1>5, <1>6, <1>7, ContentsIsPrime
<1>8. CASE ~next
  <2>1. ContentsOf(chains') = left.items \o ContentsOf(Tail(chains))
    BY <1>2, <1>3, <1>5, <1>8, ContentsFirst
  <2> QED BY <2>1, <1>4, <1>6, ContentsIsPrime
<1> QED BY <1>7, <1>8

LEMMA TruncateOrder ==
    ASSUME IInv, Truncate
    PROVE  Order' = <<Head(Order)>>
<1>1. ~IsEmpty
  BY DEF Truncate
<1>2. /\ Head(chains) = chains[1] /\ chains[1] \in Chain /\ Laid(chains[1])
      /\ chains[1].items # <<>>
  BY <1>1, HeadLaid
<1> DEFINE c == OnlyFront(chains[1])
           x == Head(chains[1].items)
<1>3. c \in Chain /\ c.items = <<x>>
  BY <1>2, OnlyFrontLaid DEF OnlyFront
<1>4. chains' = <<c>>
  BY <1>2 DEF Truncate
<1>5. Head(Order) = x.msg
  BY <1>1, ContentsFront
<1>6. x \in Item
  BY <1>2 DEF Chain
<1> HIDE DEF c, x
<1>7. Contents' = <<x>>
  BY <1>3, <1>4, ContentsOne, ContentsIsPrime
<1>8. MessagesOf(<<x>>) = <<x.msg>>
  BY DEF MessagesOf
<1> QED BY <1>5, <1>7, <1>8, ContentsIsPrime

LEMMA DestroyOrder ==
    ASSUME Destroy
    PROVE  Order' = <<>>
<1>1. Contents' = <<>>
  BY ContentsNone, ContentsIsPrime DEF Destroy
<1> QED BY <1>1, ContentsIsPrime DEF MessagesOf
-----------------------------------------------------------------------------
(* m_size and the messages constructed *)

LEMMA OrderRange ==
    ASSUME IInv
    PROVE  Range(Order) = Elements(Order) /\ MQ!Range(Order) = Elements(Order)
<1>1. DOMAIN Order = 1 .. Len(Order)
  BY ContentsAre
<1> QED BY <1>1 DEF Range, MQ!Range, Elements

\* The counter and the set of constructed messages say what the chains hold,
\* and no message is there twice.
Accounted ==
    /\ size = Len(Order)
    /\ built = Elements(Order)
    /\ Once(Order)

QInv == IInv /\ Accounted

LEMMA NoneAccounted == Len(<<>>) = 0 /\ Elements(<<>>) = {} /\ Once(<<>>)
BY EmptySeq DEF Elements, Once

LEMMA InitQueue == Init => QInv /\ Order = <<>>
<1> SUFFICES ASSUME Init PROVE QInv /\ Order = <<>>
  OBVIOUS
<1>1. Contents = <<>>
  BY ContentsNone, ContentsIs DEF Init
<1>2. Order = <<>>
  BY <1>1, ContentsIs DEF MessagesOf
<1> QED BY <1>2, InitHolds, NoneAccounted DEF QInv, Accounted, Init

LEMMA PushQueue ==
    ASSUME QInv, NEW m \in Messages, NEW w \in Sizes, w <= 20, Push(m, w)
    PROVE  Accounted' /\ MQ!Push(m)
<1> USE DEF QInv, Accounted
<1>1. Order \in Seq(Messages) /\ Order' = Append(Order, m)
  BY ContentsAre, PushOrder
<1>2. m \notin Elements(Order) /\ size' = size + 1 /\ built' = built \cup {m}
  BY DEF Push
<1>3. Once(Order') /\ Elements(Order') = Elements(Order) \cup {m}
  BY <1>1, <1>2, Appended
<1>4. Len(Order') = Len(Order) + 1
  BY <1>1, AppendProperties
<1> QED BY <1>1, <1>2, <1>3, <1>4, OrderRange DEF MQ!Push

LEMMA PopQueue ==
    ASSUME QInv, Pop
    PROVE  Accounted' /\ MQ!Pop
<1> USE DEF QInv, Accounted
<1>1. ~IsEmpty
  BY DEF Pop
<1>2. Order \in Seq(Messages) /\ Order # <<>> /\ Order' = Tail(Order)
      /\ Head(Order) = Head(chains[1].items).msg
      /\ Head(chains) = chains[1]
  BY <1>1, ContentsAre, ContentsFront, PopOrder, HeadLaid
<1>3. size' = size - 1 /\ built' = built \ {Head(Order)}
  BY <1>2 DEF Pop
<1>4. Once(Order') /\ Elements(Order') = Elements(Order) \ {Head(Order)}
  BY <1>2, HeadTaken
<1>5. Len(Order') = Len(Order) - 1
  BY <1>2, HeadTailProperties
<1> QED BY <1>2, <1>3, <1>4, <1>5 DEF MQ!Pop

LEMMA TruncateQueue ==
    ASSUME QInv, Truncate
    PROVE  Accounted' /\ MQ!Truncate
<1> USE DEF QInv, Accounted
<1>1. ~IsEmpty
  BY DEF Truncate
<1>2. Order # <<>> /\ Order' = <<Head(Order)>>
      /\ Head(Order) = Head(chains[1].items).msg
      /\ Head(chains) = chains[1]
  BY <1>1, ContentsFront, TruncateOrder, HeadLaid
<1>3. size' = 1 /\ built' = {Head(Order)}
  BY <1>2 DEF Truncate
<1>4. Len(Order') = 1 /\ Order'[1] = Head(Order)
  BY <1>2
<1>5. Once(Order') /\ Elements(Order') = {Head(Order)}
  BY <1>4 DEF Once, Elements
<1> QED BY <1>2, <1>3, <1>4, <1>5 DEF MQ!Truncate

LEMMA DestroyQueue ==
    ASSUME QInv, Destroy
    PROVE  Accounted' /\ MQ!Clear
<1>1. Order' = <<>>
  BY DestroyOrder
<1>2. size' = 0 /\ built' = {}
  BY DEF Destroy
<1> QED BY <1>1, <1>2, NoneAccounted DEF Accounted, MQ!Clear

LEMMA StepQueue ==
    ASSUME SmallMessages, QInv, [Next]_vars
    PROVE  QInv' /\ [MQ!Next]_Order
<1>1. IInv'
  BY StepHolds DEF QInv
<1>2. ASSUME NEW m \in Messages, NEW w \in Sizes, Push(m, w)
      PROVE  Accounted' /\ MQ!Next
  BY <1>2, PushQueue DEF SmallMessages, MQ!Next
<1>3. ASSUME NEW w \in Sizes, PushThrows(w)
      PROVE  Accounted' /\ Order' = Order
  <2>1. Order' = Order
    BY <1>3, PushThrowsOrder DEF SmallMessages, QInv
  <2>2. size' = size /\ built' = built
    BY <1>3 DEF PushThrows
  <2> QED BY <2>1, <2>2 DEF QInv, Accounted, Elements, Once
<1>4. CASE Pop
  BY <1>1, <1>4, PopQueue DEF MQ!Next, QInv
<1>5. CASE Truncate
  BY <1>1, <1>5, TruncateQueue DEF MQ!Next, QInv
<1>6. CASE Destroy
  BY <1>1, <1>6, DestroyQueue DEF MQ!Next, QInv
<1>7. CASE UNCHANGED vars
  <2>1. Order' = Order /\ size' = size /\ built' = built
    BY <1>7, ContentsIs, ContentsIsPrime DEF vars
  <2> QED BY <1>1, <2>1 DEF QInv, Accounted, Elements, Once
<1> QED BY <1>1, <1>2, <1>3, <1>4, <1>5, <1>6, <1>7 DEF Next, QInv

LEMMA QInvHolds == ASSUME SmallMessages PROVE Spec => []QInv
<1>1. Init => QInv
  BY InitQueue
<1>2. QInv /\ [Next]_vars => QInv'
  BY StepQueue
<1> QED BY <1>1, <1>2, PTL DEF Spec

\* Safety, for any messages of up to 20 words: empty(), by which run_some ends
\* its loop, size(), by which enqueue_fn decides to activate, and the messages
\* in the chains never disagree.
THEOREM EmptyAgreesHolds == ASSUME SmallMessages PROVE Spec => []EmptyAgrees
<1>1. QInv => EmptyAgrees
  <2> SUFFICES ASSUME QInv PROVE EmptyAgrees
    OBVIOUS
  <2>1. /\ Contents \in Seq(Item) /\ Len(Order) = Len(Contents)
        /\ IsEmpty <=> Contents = <<>>
    BY ContentsAre DEF QInv
  <2>2. Contents = <<>> <=> Len(Contents) = 0
    BY <2>1, EmptySeq
  <2> QED BY <2>1, <2>2 DEF QInv, Accounted, EmptyAgrees
<1> QED BY <1>1, QInvHolds, PTL

\* Safety, under the same assumption: the messages in the chains are those
\* constructed and not yet destroyed, and every chain allocated is in the list,
\* also after pushes that threw.
THEOREM BalanceHolds == ASSUME SmallMessages PROVE Spec => []Balance
<1>1. QInv => Balance
  BY OrderRange DEF QInv, IInv, Accounted, Balance
<1> QED BY <1>1, QInvHolds, PTL

\* Refinement, under the same assumption: for its users the container is one
\* sequence of messages; new chains, freed chains, chains used again and pushes
\* that throw are steps that change nothing or exactly what push, pop,
\* truncate and the destructor promise.
THEOREM FifoImplementsQueue == ASSUME SmallMessages PROVE Spec => Implements
<1>1. Init => MQ!Init
  BY InitQueue DEF MQ!Init
<1>2. QInv /\ [Next]_vars => [MQ!Next]_Order
  BY StepQueue
<1> QED BY <1>1, <1>2, QInvHolds, PTL DEF Spec, Implements, MQ!Spec
=============================================================================
