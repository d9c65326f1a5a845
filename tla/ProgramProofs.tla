--------------------------- MODULE ProgramProofs ----------------------------
(***************************************************************************)
(* Theorems about the programs that are built on active objects, for any   *)
(* number of the objects in them.                                          *)
(*                                                                         *)
(* Santa: the queue of messages by their priority, and why it makes        *)
(* reindeer come first.                                                    *)
(*                                                                         *)
(* Echo: why select_loop has one do_select while somebody waits and none   *)
(* when nobody does.  The argument is the same for the three programs;     *)
(* what differs is the set D of their objects and what those send.  And    *)
(* why a pipe asks for one thing at a time: what is under way of a kind is *)
(* counted, in mailboxes, calls and lists, and no method makes it more.    *)
(*                                                                         *)
(* Philosophers: where the forks are, and that all stops only in the       *)
(* deadlock that the program is written to show.  It counts as well.       *)
(***************************************************************************)
EXTENDS ProgramInvariants, FiniteSetTheorems, TLAPS

-----------------------------------------------------------------------------
(* Santa: the queue has the reindeer before the elves, for any numbers *)

LEMMA SantaIsNoHelper ==
    /\ SantaClaus \notin Helpers
    /\ \A h \in Helpers : h[1] \in {"elf", "deer"}
    /\ \A h \in Helpers : TurnsUp(h) \in Visit
    /\ Leave \notin Visit
BY DEF SantaClaus, Helpers, Elf, Deer, TurnsUp, Visit,
       Leave, Plain

\* What VisitSanta makes of the queue.
LEMMA Inserted ==
    ASSUME NEW queue \in Seq(Visit), DeerBefore(queue), NEW m \in Visit,
           NEW before,
           before = {n \in Range(queue) : priority(n) >= priority(m)}
    PROVE  LET q == Among(queue, before) \o <<m>> \o Among(queue, Range(queue) \ before)
           IN  q \in Seq(Visit) /\ DeerBefore(q)
<1> DEFINE p == Among(queue, before)
           r == Among(queue, Range(queue) \ before)
           pm == p \o <<m>>
           q == pm \o r
<1>1. /\ p \in Seq(Visit) /\ r \in Seq(Visit)
      /\ \E g : Finds(g, p, queue, Len(queue), before)
      /\ \E g : Finds(g, r, queue, Len(queue), Range(queue) \ before)
  BY AmongFinds
<1> HIDE DEF p, r
<1>2. /\ \A i \in 1 .. Len(p) : p[i] \in before
      /\ \A i \in 1 .. Len(r) : r[i] \in Range(queue) \ before
  BY <1>1 DEF Finds
<1>3. DeerBefore(p) /\ DeerBefore(r)
  <2>1. ASSUME NEW s \in Seq(Visit), NEW S, NEW g, Finds(g, s, queue, Len(queue), S)
        PROVE  DeerBefore(s)
    <3> SUFFICES ASSUME NEW i \in 1 .. Len(s), NEW j \in 1 .. Len(s), i < j, s[j].is = "deer"
                 PROVE  s[i].is = "deer"
      BY DEF DeerBefore
    <3>1. /\ g[i] \in 1 .. Len(queue) /\ g[j] \in 1 .. Len(queue) /\ g[i] < g[j]
          /\ s[i] = queue[g[i]] /\ s[j] = queue[g[j]]
      BY <2>1 DEF Finds
    <3> QED BY <3>1 DEF DeerBefore
  <2> QED BY <1>1, <2>1
<1>4. /\ pm \in Seq(Visit) /\ Len(pm) = Len(p) + 1 /\ pm[Len(p) + 1] = m
      /\ \A i \in 1 .. Len(p) : pm[i] = p[i]
  BY <1>1
<1> HIDE DEF pm
<1>5. /\ q \in Seq(Visit) /\ Len(q) = Len(pm) + Len(r)
      /\ \A i \in 1 .. Len(pm) + Len(r) :
            q[i] = IF i <= Len(pm) THEN pm[i] ELSE r[i - Len(pm)]
  BY <1>1, <1>4, ConcatProperties
<1> HIDE DEF q
<1>6. ASSUME NEW n \in Visit
      PROVE  priority(n) = IF n.is = "deer" THEN 1 ELSE 0
  BY DEF priority
<1>7. /\ \A i \in 1 .. Len(p) : p[i] \in Visit /\ (m.is = "deer" => p[i].is = "deer")
      /\ \A i \in 1 .. Len(r) : r[i] \in Visit /\ m.is = "deer" /\ r[i].is # "deer"
  <2>1. \A n \in before : n \in Visit /\ (m.is = "deer" => n.is = "deer")
    <3>1. Range(queue) \subseteq Visit
      BY DEF Range
    <3> QED BY <3>1, <1>6
  <2>2. \A n \in Range(queue) \ before : n \in Visit /\ m.is = "deer" /\ n.is # "deer"
    <3>1. Range(queue) \subseteq Visit
      BY DEF Range
    <3> QED BY <3>1, <1>6
  <2> QED BY <1>2, <2>1, <2>2
<1>8. DeerBefore(q)
  <2> SUFFICES ASSUME NEW i \in 1 .. Len(q), NEW j \in 1 .. Len(q), i < j, q[j].is = "deer"
               PROVE  q[i].is = "deer"
    BY DEF DeerBefore
  <2>0. Len(p) \in Nat /\ Len(r) \in Nat
    BY <1>1
  <2>1. j <= Len(p) + 1
    <3> SUFFICES ASSUME j > Len(p) + 1 PROVE FALSE
      BY <2>0, <1>4, <1>5
    <3>1. j - Len(pm) \in 1 .. Len(r) /\ q[j] = r[j - Len(pm)]
      BY <2>0, <1>4, <1>5
    <3> QED BY <3>1, <1>7
  <2>2. i \in 1 .. Len(p) /\ q[i] = p[i]
    BY <2>0, <2>1, <1>4, <1>5
  <2>3. CASE j = Len(p) + 1
    <3>1. q[j] = m
      BY <2>3, <2>0, <1>4, <1>5
    <3> QED BY <3>1, <2>2, <1>7
  <2>4. CASE j # Len(p) + 1
    <3>1. j \in 1 .. Len(p) /\ q[j] = pm[j]
      BY <2>4, <2>0, <2>1, <1>4, <1>5
    <3>2. q[j] = p[j]
      BY <3>1, <1>4
    <3>3. p[j].is = "deer"
      BY <3>2
    <3> QED BY <3>1, <3>3, <2>2, <1>3 DEF DeerBefore
  <2> QED BY <2>3, <2>4
<1> QED
  BY <1>5, <1>8 DEF q, pm, p, r

LEMMA SantaStarts == SantaInit => SantaInv
<1> SUFFICES ASSUME SantaInit PROVE SantaInv
  OBVIOUS
<1> DEFINE C == SantaClaus
<1>1. /\ local = [o \in People |-> IF o = C THEN [m_elves_waiting |-> <<>>, m_deer_waiting |-> <<>>]
                                            ELSE <<>>]
      /\ box = [o \in People |-> IF o = C THEN <<>> ELSE <<Leave>>]
      /\ todo = [o \in People |-> <<>>]
  BY DEF SantaInit, Starts, People
<1>2. C \in People /\ \A h \in Helpers : h # C /\ h \in People
  BY SantaIsNoHelper DEF People
<1> HIDE DEF C
<1>3. SantaTypeOK
  <2>1. \A S : <<>> \in Seq(S)
    OBVIOUS
  <2>2. <<Leave>> \in Seq(Visit \cup {Leave})
    OBVIOUS
  <2> DEFINE r == [m_elves_waiting |-> <<>>, m_deer_waiting |-> <<>>]
             R == [m_elves_waiting : Seq(Helpers), m_deer_waiting : Seq(Helpers)]
  <2>3. r \in R
    BY <2>1
  <2> HIDE DEF r, R
  <2>4. /\ local \in [People -> R \cup {<<>>}] /\ local[C] \in R
    BY <2>3, <1>1, <1>2 DEF r
  <2>5. /\ box \in [People -> Seq(Visit \cup {Leave})] /\ box[C] \in Seq(Visit)
    BY <2>1, <2>2, <1>1, <1>2
  <2>6. /\ todo \in [People -> Seq([to : People, msg : Visit \cup {Leave}])]
        /\ todo[C] \in Seq([to : Helpers, msg : {Leave}])
        /\ \A h \in Helpers : todo[h] \in Seq([to : {C}, msg : Visit])
    BY <2>1, <1>1, <1>2
  <2> QED BY <2>4, <2>5, <2>6 DEF SantaTypeOK, R, C
<1>4. DeerBefore(box[C])
  BY <1>1, <1>2 DEF DeerBefore
<1>5. Len(local[C].m_deer_waiting) = 0
  BY <1>1, <1>2
<1>6. Cardinality(Reindeer) \in Nat /\ Cardinality(Reindeer) # 0
  BY FS_CardinalityType, FS_EmptySet, SantaAssumption
<1> QED BY <1>3, <1>4, <1>5, <1>6 DEF SantaInv, C

\* The messages of Santa's that others make are inserted, those of others are not Santa's.
LEMMA SantaVisited ==
    ASSUME SantaInv, NEW h \in Helpers, VisitSanta(h)
    PROVE  SantaInv'
<1> DEFINE C == SantaClaus
           queue == box[C]
           m == Head(todo[h]).msg
           before == {n \in Range(queue) : priority(n) >= priority(m)}
           q == Among(queue, before) \o <<m>> \o Among(queue, Range(queue) \ before)
<1>1. /\ todo[h] # <<>>
      /\ box' = [box EXCEPT ![C] = q]
      /\ todo' = [todo EXCEPT ![h] = <<>> \o Tail(todo[h])]
      /\ local' = local
  BY Zenon DEF VisitSanta, Calling, Continue
<1>2. h \in People /\ C \in People /\ h # C
  BY SantaIsNoHelper DEF People
<1>3. /\ todo[h] \in Seq([to : {C}, msg : Visit])
      /\ todo \in [People -> Seq([to : People, msg : Visit \cup {Leave}])]
      /\ box \in [People -> Seq(Visit \cup {Leave})]
      /\ queue \in Seq(Visit)
      /\ DeerBefore(queue)
  BY DEF SantaInv, SantaTypeOK
<1>4. m \in Visit
  <2>1. \A S : \A s \in Seq(S) : s # <<>> => Head(s) \in S
    OBVIOUS
  <2>2. Head(todo[h]) \in [to : {C}, msg : Visit]
    BY <1>1, <1>3, <2>1
  <2> QED BY <2>2
<1> HIDE DEF m, queue
<1>5. q \in Seq(Visit) /\ DeerBefore(q)
  BY <1>3, <1>4, Inserted
<1> HIDE DEF q
<1>6. <<>> \o Tail(todo[h]) = Tail(todo[h]) /\ Tail(todo[h]) \in Seq([to : {C}, msg : Visit])
  BY <1>1, <1>3
<1>7. /\ todo'[h] = Tail(todo[h])
      /\ \A o \in People : o # h => todo'[o] = todo[o]
      /\ todo' \in [People -> Seq([to : People, msg : Visit \cup {Leave}])]
  <2>1. \A S : \A s \in Seq(S) : s # <<>> => Tail(s) \in Seq(S)
    OBVIOUS
  <2>2. Tail(todo[h]) \in Seq([to : People, msg : Visit \cup {Leave}])
    BY <1>1, <1>2, <1>3, <2>1
  <2> QED BY <1>1, <1>2, <1>3, <1>6, <2>2
<1>8. /\ box'[C] = q
      /\ \A o \in People : o # C => box'[o] = box[o]
      /\ box' \in [People -> Seq(Visit \cup {Leave})]
  <2>1. q \in Seq(Visit \cup {Leave})
    BY <1>5
  <2> QED BY <1>1, <1>2, <1>3, <2>1
<1> HIDE DEF C
<1>9. SantaTypeOK'
  BY <1>1, <1>2, <1>5, <1>6, <1>7, <1>8 DEF SantaInv, SantaTypeOK, C, People
<1> QED BY <1>1, <1>5, <1>8, <1>9 DEF SantaInv, C

Calls == [to : People, msg : Visit \cup {Leave}]

ToSanta == [to : {SantaClaus}, msg : Visit]

FromSanta == [to : Helpers, msg : {Leave}]

Groups == [m_elves_waiting : Seq(Helpers), m_deer_waiting : Seq(Helpers)]

LEMMA SantaCalls ==
    ASSUME SantaInv, Call(SantaClaus)
    PROVE  SantaInv'
<1> DEFINE C == SantaClaus
           call == Head(todo[C])
<1>1. /\ todo[C] # <<>>
      /\ box' = [box EXCEPT ![call.to] = Append(box[call.to], call.msg)]
      /\ todo' = [todo EXCEPT ![C] = <<>> \o Tail(todo[C])]
      /\ local' = local
  BY DEF Call, Calling, Continue
<1>2. C \in People /\ \A h \in Helpers : h # C /\ h \in People
  BY SantaIsNoHelper DEF People
<1>3. /\ todo[C] \in Seq(FromSanta)
      /\ todo \in [People -> Seq(Calls)]
      /\ box \in [People -> Seq(Visit \cup {Leave})]
  BY DEF SantaInv, SantaTypeOK, Calls, FromSanta
<1>4. call.to \in Helpers /\ call.msg = Leave
  <2>1. call \in FromSanta
    BY <1>1, <1>3, SeqFacts
  <2> QED BY <2>1 DEF FromSanta
<1> HIDE DEF call
<1>5. <<>> \o Tail(todo[C]) = Tail(todo[C]) /\ Tail(todo[C]) \in Seq(FromSanta)
  BY <1>1, <1>3
<1>6. Tail(todo[C]) \in Seq(Calls)
  BY <1>1, <1>2, <1>3, SeqFacts
<1>7. /\ todo'[C] = Tail(todo[C])
      /\ \A o \in People : o # C => todo'[o] = todo[o]
      /\ todo' \in [People -> Seq(Calls)]
  BY <1>1, <1>2, <1>3, <1>5, <1>6
<1>8. Append(box[call.to], call.msg) \in Seq(Visit \cup {Leave})
  <2>1. box[call.to] \in Seq(Visit \cup {Leave})
    BY <1>2, <1>3, <1>4
  <2> QED BY <2>1, <1>4, SeqFacts
<1>9. /\ box'[C] = box[C]
      /\ box' \in [People -> Seq(Visit \cup {Leave})]
  BY <1>1, <1>2, <1>3, <1>4, <1>8
<1> HIDE DEF C
<1>10. SantaTypeOK'
  BY <1>1, <1>2, <1>5, <1>7, <1>9 DEF SantaInv, SantaTypeOK, C, People, Calls, FromSanta
<1> QED BY <1>1, <1>9, <1>10 DEF SantaInv, C

LEMMA SantaHelperGoes ==
    ASSUME SantaInv, NEW h \in Helpers, HelperGoes(h)
    PROVE  SantaInv'
<1> DEFINE C == SantaClaus
           call == To(C, TurnsUp(h))
<1>1. /\ box[h] # <<>>
      /\ box' = [box EXCEPT ![h] = Tail(box[h])]
      /\ todo' = [todo EXCEPT ![h] = <<call>>]
      /\ local' = local
  BY DEF HelperGoes, Gets, Does
<1>2. h \in People /\ C \in People /\ h # C
  BY SantaIsNoHelper DEF People
<1>3. /\ todo \in [People -> Seq(Calls)]
      /\ box \in [People -> Seq(Visit \cup {Leave})]
  BY DEF SantaInv, SantaTypeOK, Calls
<1>4. call \in ToSanta /\ call \in Calls
  <2>1. TurnsUp(h) \in Visit
    BY SantaIsNoHelper
  <2> HIDE DEF C
  <2> QED BY <2>1, <1>2 DEF ToSanta, Calls, To, C
<1> HIDE DEF call
<1>5. <<call>> \in Seq(ToSanta) /\ <<call>> \in Seq(Calls)
  BY <1>4, SeqFacts
<1>6. /\ todo'[h] = <<call>>
      /\ \A o \in People : o # h => todo'[o] = todo[o]
      /\ todo' \in [People -> Seq(Calls)]
  BY <1>1, <1>2, <1>3, <1>5
<1>7. Tail(box[h]) \in Seq(Visit \cup {Leave})
  BY <1>1, <1>2, <1>3, SeqFacts
<1>8. /\ box'[C] = box[C]
      /\ box' \in [People -> Seq(Visit \cup {Leave})]
  BY <1>1, <1>2, <1>3, <1>7
<1> HIDE DEF C
<1>9. SantaTypeOK'
  BY <1>1, <1>2, <1>5, <1>6, <1>8 DEF SantaInv, SantaTypeOK, C, People, Calls, ToSanta
<1> QED BY <1>1, <1>8, <1>9 DEF SantaInv, C

\* Santa takes a message, and either keeps it or dismisses its group.
LEMMA SantaTakes ==
    ASSUME SantaInv, NEW calls \in Seq(FromSanta), NEW members \in Groups,
           Len(members.m_deer_waiting) < Cardinality(Reindeer),
           box[SantaClaus] # <<>>, Does(SantaClaus, calls),
           local' = [local EXCEPT ![SantaClaus] = members]
    PROVE  SantaInv'
<1> DEFINE C == SantaClaus
<1>1. /\ box[C] # <<>>
      /\ box' = [box EXCEPT ![C] = Tail(box[C])]
      /\ todo' = [todo EXCEPT ![C] = calls]
      /\ local' = [local EXCEPT ![C] = members]
  BY DEF Does
<1>2. C \in People /\ \A h \in Helpers : h # C /\ h \in People
  BY SantaIsNoHelper DEF People
<1>3. /\ todo \in [People -> Seq(Calls)]
      /\ box \in [People -> Seq(Visit \cup {Leave})]
      /\ box[C] \in Seq(Visit) /\ DeerBefore(box[C])
      /\ local \in [People -> Groups \cup {<<>>}]
  BY DEF SantaInv, SantaTypeOK, Calls, Groups
<1> HIDE DEF C
<1>4. /\ local'[C] = members
      /\ local' \in [People -> Groups \cup {<<>>}]
  BY <1>1, <1>2, <1>3
<1>5. FromSanta \subseteq Calls
  BY <1>2 DEF FromSanta, Calls
<1>6. calls \in Seq(Calls)
  BY <1>5
<1>7. /\ todo'[C] = calls
      /\ \A o \in People : o # C => todo'[o] = todo[o]
      /\ todo' \in [People -> Seq(Calls)]
  BY <1>1, <1>2, <1>3, <1>6
<1>8. /\ Tail(box[C]) \in Seq(Visit) /\ Tail(box[C]) \in Seq(Visit \cup {Leave})
      /\ Len(Tail(box[C])) = Len(box[C]) - 1 /\ Len(box[C]) \in Nat
      /\ \A i \in 1 .. Len(box[C]) - 1 : Tail(box[C])[i] = box[C][i + 1]
  BY <1>1, <1>2, <1>3, SeqFacts
<1>9. DeerBefore(Tail(box[C]))
  <2> SUFFICES ASSUME NEW i \in 1 .. Len(box[C]) - 1, NEW j \in 1 .. Len(box[C]) - 1,
                      i < j, Tail(box[C])[j].is = "deer"
               PROVE  Tail(box[C])[i].is = "deer"
    BY <1>8 DEF DeerBefore
  <2>1. i + 1 \in 1 .. Len(box[C]) /\ j + 1 \in 1 .. Len(box[C]) /\ i + 1 < j + 1
    BY <1>8
  <2> QED BY <2>1, <1>3, <1>8 DEF DeerBefore
<1>10. /\ box'[C] = Tail(box[C])
       /\ box' \in [People -> Seq(Visit \cup {Leave})]
  BY <1>1, <1>2, <1>3, <1>8
<1>11. SantaTypeOK'
  BY <1>2, <1>4, <1>7, <1>8, <1>10
     DEF SantaInv, SantaTypeOK, C, People, Calls, FromSanta, Groups
<1> QED BY <1>4, <1>9, <1>10, <1>11 DEF SantaInv, C

LEMMA DismissGroup ==
    ASSUME NEW group \in Seq(Helpers)
    PROVE  Dismiss(group) \in Seq(FromSanta)
<1>1. \A i \in 1 .. Len(group) : To(group[i], Leave) \in FromSanta
  BY DEF To, FromSanta
<1> QED BY <1>1 DEF Dismiss

LEMMA DeerHolds ==
    ASSUME SantaInv, DeerTurnsUp
    PROVE  SantaInv'
<1> DEFINE C == SantaClaus
           old == local[C]
           group == Append(old.m_deer_waiting, Head(box[C]).who)
           full == Len(group) = Cardinality(Reindeer)
           rest == IF full THEN <<>> ELSE group
           calls == IF full THEN Dismiss(group) ELSE <<>>
           members == [old EXCEPT !.m_deer_waiting = rest]
<1>1. /\ box[C] # <<>>
      /\ Does(C, calls)
      /\ local' = [local EXCEPT ![C].m_deer_waiting = rest]
  BY DEF DeerTurnsUp, Gets, First
<1>2. /\ old \in Groups /\ box[C] \in Seq(Visit) /\ C \in People
      /\ local \in [People -> Groups \cup {<<>>}]
      /\ Len(old.m_deer_waiting) < Cardinality(Reindeer)
      /\ Len(old.m_deer_waiting) \in Nat
  BY DEF SantaInv, SantaTypeOK, Groups, People
<1>3. /\ Cardinality(Reindeer) \in Nat /\ Cardinality(Reindeer) # 0
  BY FS_CardinalityType, FS_EmptySet, SantaAssumption
<1>4. Head(box[C]) \in Visit
  BY <1>1, <1>2, SeqFacts
<1>5. old.m_deer_waiting \in Seq(Helpers) /\ Head(box[C]).who \in Helpers
  BY <1>2, <1>4 DEF Groups, Visit
<1>6. group \in Seq(Helpers) /\ Len(group) = Len(old.m_deer_waiting) + 1
  BY <1>5, SeqFacts
<1> HIDE DEF group, old
<1>7. rest \in Seq(Helpers) /\ Len(rest) < Cardinality(Reindeer)
  <2>1. CASE full
    BY <2>1, <1>3
  <2>2. CASE ~full
    BY <2>2, <1>2, <1>3, <1>6
  <2> QED BY <2>1, <2>2
<1>8. calls \in Seq(FromSanta)
  BY <1>6, DismissGroup, SeqFacts
<1> HIDE DEF rest, calls
<1>9. members \in Groups /\ members.m_deer_waiting = rest
  BY <1>2, <1>7 DEF Groups
<1>10. local' = [local EXCEPT ![C] = members]
  BY <1>1, <1>2 DEF old
<1> HIDE DEF members
<1> QED BY <1>1, <1>7, <1>8, <1>9, <1>10, SantaTakes

LEMMA ElfHolds ==
    ASSUME SantaInv, ElfTurnsUp
    PROVE  SantaInv'
<1> DEFINE C == SantaClaus
           old == local[C]
           group == Append(old.m_elves_waiting, Head(box[C]).who)
           full == Len(group) = min_elves
           rest == IF full THEN <<>> ELSE group
           calls == IF full THEN Dismiss(group) ELSE <<>>
           members == [old EXCEPT !.m_elves_waiting = rest]
<1>1. /\ box[C] # <<>>
      /\ Does(C, calls)
      /\ local' = [local EXCEPT ![C].m_elves_waiting = rest]
  BY DEF ElfTurnsUp, Gets, First
<1>2. /\ old \in Groups /\ box[C] \in Seq(Visit) /\ C \in People
      /\ local \in [People -> Groups \cup {<<>>}]
      /\ Len(old.m_deer_waiting) < Cardinality(Reindeer)
  BY DEF SantaInv, SantaTypeOK, Groups, People
<1>4. Head(box[C]) \in Visit
  BY <1>1, <1>2, SeqFacts
<1>5. old.m_elves_waiting \in Seq(Helpers) /\ Head(box[C]).who \in Helpers
  BY <1>2, <1>4 DEF Groups, Visit
<1>6. group \in Seq(Helpers)
  BY <1>5, SeqFacts
<1> HIDE DEF group, old
<1>7. rest \in Seq(Helpers)
  BY <1>6, SeqFacts
<1>8. calls \in Seq(FromSanta)
  BY <1>6, DismissGroup, SeqFacts
<1> HIDE DEF rest, calls
<1>9. members \in Groups /\ members.m_deer_waiting = old.m_deer_waiting
  BY <1>2, <1>7 DEF Groups
<1>10. local' = [local EXCEPT ![C] = members]
  BY <1>1, <1>2 DEF old
<1> HIDE DEF members
<1> QED BY <1>1, <1>2, <1>8, <1>9, <1>10, SantaTakes

LEMMA SantaGoesOn ==
    SantaInv /\ [SantaNext]_state => SantaInv'
<1> SUFFICES ASSUME SantaInv, [SantaNext]_state PROVE SantaInv'
  OBVIOUS
<1>1. CASE Call(SantaClaus)
  BY <1>1, SantaCalls
<1>2. ASSUME NEW h \in Helpers, HelperGoes(h) PROVE SantaInv'
  BY <1>2, SantaHelperGoes
<1>3. ASSUME NEW h \in Helpers, VisitSanta(h) PROVE SantaInv'
  BY <1>3, SantaVisited
<1>4. CASE DeerTurnsUp
  BY <1>4, DeerHolds
<1>5. CASE ElfTurnsUp
  BY <1>5, ElfHolds
<1>6. CASE UNCHANGED state
  BY <1>6 DEF state, SantaInv, SantaTypeOK
<1> QED BY <1>1, <1>2, <1>3, <1>4, <1>5, <1>6 DEF SantaNext

\* Fewer places than reindeer do not hold all of them.
LEMMA NotAllDeer ==
    ASSUME NEW group \in Seq(Helpers),
           Len(group) < Cardinality(Reindeer)
    PROVE  \E i \in Reindeer : Deer(i) \notin Range(group)
<1> SUFFICES ASSUME \A i \in Reindeer : Deer(i) \in Range(group) PROVE FALSE
  OBVIOUS
<1> DEFINE place == [i \in Reindeer |-> CHOOSE k \in 1 .. Len(group) : group[k] = Deer(i)]
<1>1. \A i \in Reindeer : \E k \in 1 .. Len(group) : group[k] = Deer(i)
  BY DEF Range
<1>2. \A i \in Reindeer : place[i] \in 1 .. Len(group) /\ group[place[i]] = Deer(i)
  BY <1>1
<1>3. place \in Injection(Reindeer, 1 .. Len(group))
  <2>1. place \in [Reindeer -> 1 .. Len(group)]
    BY <1>2
  <2>2. ASSUME NEW i \in Reindeer, NEW j \in Reindeer, place[i] = place[j] PROVE i = j
    <3> HIDE DEF place
    <3>1. Deer(i) = Deer(j)
      BY <1>2, <2>2
    <3>2. Deer(i)[2] = i /\ Deer(j)[2] = j
      BY DEF Deer
    <3> QED BY <3>1, <3>2
  <2> HIDE DEF place
  <2> QED BY <2>1, <2>2 DEF Injection, IsInjective
<1>4. /\ IsFiniteSet(1 .. Len(group)) /\ Cardinality(1 .. Len(group)) = Len(group)
      /\ Len(group) \in Nat
  BY FS_Interval
<1>5. Cardinality(Reindeer) <= Len(group)
  BY <1>3, <1>4, FS_Injection
<1>6. Cardinality(Reindeer) \in Nat
  BY FS_CardinalityType, SantaAssumption
<1> QED BY <1>4, <1>5, <1>6

\* Elves are consulted only when an elf is first in the queue, and then no reindeer is in it.
LEMMA ConsultsLate ==
    ASSUME SantaInv, [SantaNext]_state, Consults
    PROVE  ~AllDeerThere
<1> DEFINE C == SantaClaus
<1>1. ElfTurnsUp
  <2>1. local'[C] # local[C]
    BY DEF Consults
  <2>2. CASE DeerTurnsUp
    <3>1. local'[C].m_elves_waiting = local[C].m_elves_waiting
      <4>1. PICK x : local' = [local EXCEPT ![C].m_deer_waiting = x]
        BY <2>2 DEF DeerTurnsUp
      <4>2. local \in [People -> Groups \cup {<<>>}] /\ local[C] \in Groups /\ C \in People
        BY DEF SantaInv, SantaTypeOK, Groups, People
      <4> QED BY <4>1, <4>2 DEF Groups
    <3> QED BY <3>1 DEF Consults
  <2>3. \A h : ~HelperGoes(h) /\ ~VisitSanta(h)
    BY <2>1 DEF HelperGoes, VisitSanta
  <2>4. ~Call(C) /\ ~(UNCHANGED state)
    BY <2>1 DEF Call, state
  <2> QED BY <2>2, <2>3, <2>4 DEF SantaNext
<1>2. /\ box[C] # <<>> /\ Head(box[C]).is = "elf"
      /\ box[C] \in Seq(Visit) /\ DeerBefore(box[C])
      /\ local[C].m_deer_waiting \in Seq(Helpers)
      /\ Len(local[C].m_deer_waiting) < Cardinality(Reindeer)
  BY <1>1 DEF ElfTurnsUp, Gets, First, SantaInv, SantaTypeOK
<1>3. \A i \in 1 .. Len(box[C]) : box[C][i].is # "deer"
  <2>1. Head(box[C]) = box[C][1] /\ Len(box[C]) \in Nat \ {0}
    BY <1>2, SeqFacts
  <2> QED BY <1>2, <2>1 DEF DeerBefore
<1>4. PICK i \in Reindeer : Deer(i) \notin Range(local[C].m_deer_waiting)
  BY <1>2, NotAllDeer
<1>5. TurnsUp(Deer(i)) \notin Range(box[C])
  BY <1>2, <1>3 DEF Range, TurnsUp, Deer
<1> QED BY <1>4, <1>5 DEF AllDeerThere

\* Action property, for any number of elves and reindeer: whenever Santa consults
\* with elves some reindeer has not come back, and so is neither in his group
\* nor in his queue (santa.cpp:8-10, 29-34).
THEOREM ReindeerFirstHolds == SantaInit /\ [][SantaNext]_state => ReindeerFirst
<1>1. SantaInit => SantaInv
  BY SantaStarts
<1>2. SantaInv /\ [SantaNext]_state => SantaInv'
  BY SantaGoesOn
<1>3. SantaInv /\ [SantaNext]_state => [Consults => ~AllDeerThere]_state
  BY ConsultsLate
<1> QED BY <1>1, <1>2, <1>3, PTL DEF ReindeerFirst

-----------------------------------------------------------------------------
(* select_loop: the invariant *)

\* A step that changes neither select_loop's members nor its mailbox or calls.
LEMMA LoopAlone ==
    ASSUME NEW D, SelectInv(D), Mail(D)', local'[Loop] = local[Loop],
           box'[Loop] = box[Loop], todo'[Loop] = todo[Loop]
    PROVE  SelectInv(D)'
<1> USE DEF SelectInv
<1>1. LoopLists'
  BY DEF LoopLists
<1>2. NobodyWaits' <=> NobodyWaits
  BY DEF NobodyWaits
<1> QED BY <1>1, <1>2

\* A method of another object: what it leaves to be called is polite.
LEMMA OtherDoes ==
    ASSUME NEW D, SelectInv(D), NEW o \in D, o # Loop, box[o] # <<>>,
           NEW calls, IsSequence(calls), \A c \in Range(calls) : Polite(c),
           Does(o, calls), DOMAIN local' = D, local'[Loop] = local[Loop]
    PROVE  SelectInv(D)'
<1>1. /\ Mail(D) /\ DOMAIN box = D /\ DOMAIN todo = D /\ Loop \in D
      /\ box' = [box EXCEPT ![o] = Tail(box[o])]
      /\ todo' = [todo EXCEPT ![o] = calls]
  BY DEF SelectInv, Mail, Does, Objects
<1>2. /\ IsSequence(Tail(box[o])) /\ Range(Tail(box[o])) \subseteq Range(box[o])
      /\ \A m \in Range(box[o]) : Sane(m)
  BY <1>1, SequenceTail DEF Mail
<1>3. /\ DOMAIN box' = D /\ DOMAIN todo' = D
      /\ box'[o] = Tail(box[o]) /\ todo'[o] = calls
      /\ \A p \in D : p # o => box'[p] = box[p] /\ todo'[p] = todo[p]
  BY <1>1
<1>4. Mail(D)'
  <2>1. ASSUME NEW p \in D
        PROVE  /\ IsSequence(box'[p]) /\ \A m \in Range(box'[p]) : Sane(m)
               /\ IsSequence(todo'[p])
               /\ p # Loop => \A c \in Range(todo'[p]) : Polite(c)
    BY <1>1, <1>2, <1>3 DEF Mail
  <2> QED BY <2>1, <1>1, <1>3 DEF Mail
<1> QED BY <1>1, <1>3, <1>4, LoopAlone

\* A call that another object makes.
LEMMA OtherCalls ==
    ASSUME NEW D, SelectInv(D), NEW o \in D, o # Loop, Call(o)
    PROVE  SelectInv(D)'
<1> DEFINE call == Head(todo[o])
<1>1. /\ Mail(D) /\ DOMAIN box = D /\ DOMAIN todo = D /\ Loop \in D
      /\ todo[o] # <<>> /\ call.to \in D
      /\ box' = [box EXCEPT ![call.to] = Append(box[call.to], call.msg)]
      /\ todo' = [todo EXCEPT ![o] = <<>> \o Tail(todo[o])]
      /\ local' = local
  BY DEF SelectInv, Mail, Objects, Call, Calling, Continue
<1>2. /\ IsSequence(todo[o]) /\ IsSequence(Tail(todo[o])) /\ call \in Range(todo[o])
      /\ Range(Tail(todo[o])) \subseteq Range(todo[o])
      /\ <<>> \o Tail(todo[o]) = Tail(todo[o])
  BY <1>1, SequenceTail, SequenceFew DEF Mail
<1>3. Polite(call) /\ \A c \in Range(Tail(todo[o])) : Polite(c)
  BY <1>1, <1>2 DEF Mail
<1> HIDE DEF call
<1> DEFINE q == Append(box[call.to], call.msg)
<1>4. /\ IsSequence(box[call.to]) /\ IsSequence(q) /\ Len(q) = Len(box[call.to]) + 1
      /\ Range(q) = Range(box[call.to]) \cup {call.msg}
      /\ q[Len(box[call.to]) + 1] = call.msg
      /\ \A i \in 1 .. Len(box[call.to]) : q[i] = box[call.to][i]
  BY <1>1, SequenceAppend DEF Mail
<1> HIDE DEF q
<1>5. /\ DOMAIN box' = D /\ DOMAIN todo' = D
      /\ box'[call.to] = q /\ todo'[o] = Tail(todo[o])
      /\ \A p \in D : p # o => todo'[p] = todo[p]
      /\ \A p \in D : p # call.to => box'[p] = box[p]
  BY <1>1, <1>2 DEF q
<1>6. Mail(D)'
  <2>1. ASSUME NEW p \in D
        PROVE  /\ IsSequence(box'[p]) /\ \A m \in Range(box'[p]) : Sane(m)
               /\ IsSequence(todo'[p])
               /\ p # Loop => \A c \in Range(todo'[p]) : Polite(c)
    <3>1. IsSequence(box'[p]) /\ \A m \in Range(box'[p]) : Sane(m)
      <4>1. CASE p = call.to
        <5>1. \A m \in Range(box[call.to]) : Sane(m)
          BY <1>1 DEF Mail
        <5>2. \A m \in Range(q) : Sane(m)
          BY <5>1, <1>3, <1>4 DEF Polite
        <5> QED BY <4>1, <5>2, <1>4, <1>5
      <4>2. CASE p # call.to
        BY <4>2, <1>1, <1>5 DEF Mail
      <4> QED BY <4>1, <4>2
    <3>2. IsSequence(todo'[p]) /\ (p # Loop => \A c \in Range(todo'[p]) : Polite(c))
      BY <1>1, <1>2, <1>3, <1>5 DEF Mail
    <3> QED BY <3>1, <3>2
  <2> QED BY <2>1, <1>1, <1>5 DEF Mail
<1>7. CASE call.to # Loop
  BY <1>1, <1>5, <1>6, <1>7, LoopAlone
<1>8. CASE call.to = Loop
  <2>1. call.msg.is \in {"read", "write"} /\ call.msg # Again
    BY <1>3, <1>8 DEF Polite, Again, Plain
  <2>2. Len(box[Loop]) \in Nat
    BY <1>4, <1>8, SequenceLength
  <2>3. LoopMail(box[Loop])' /\ (Asked(box[Loop])' <=> Asked(box[Loop]))
    <3>1. \A m \in Range(q) : m.is \in {"read", "write"} \/ m = Again
      BY <2>1, <1>4, <1>8 DEF SelectInv, LoopMail
    <3>2. \A i \in 1 .. Len(q) : q[i] = Again => i \in 1 .. Len(box[Loop]) /\ box[Loop][i] = Again
      BY <2>1, <2>2, <1>4, <1>8
    <3>3. \A i, j \in 1 .. Len(q) : q[i] = Again /\ q[j] = Again => i = j
      BY <3>2 DEF SelectInv, LoopMail
    <3>4. Again \in Range(q) <=> Again \in Range(box[Loop])
      BY <2>1, <1>4, <1>8
    <3> QED BY <3>1, <3>3, <3>4, <1>5, <1>8 DEF LoopMail, Asked
  <2>4. LoopLists' /\ (NobodyWaits' <=> NobodyWaits) /\ todo'[Loop] = todo[Loop]
    BY <1>1, <1>5 DEF SelectInv, LoopLists, NobodyWaits
  <2> QED BY <2>3, <2>4, <1>6 DEF SelectInv
<1> QED BY <1>7, <1>8

-----------------------------------------------------------------------------
(* select_loop: its own steps *)

LEMMA LoopIs ==
    /\ Loop # Kernel /\ Wake # Loop /\ Select # Loop
    /\ Again.is = "do_select" /\ DoSelect.to = Loop /\ DoSelect.msg = Again
    /\ \A f : /\ Fd(f) # Loop /\ Socket(f) # Loop /\ Reader(f) # Loop
              /\ Writer(f) # Loop /\ Pipe(f) # Loop
              /\ Fd(f) # Kernel /\ Socket(f) # Kernel /\ Reader(f) # Kernel
              /\ Writer(f) # Kernel /\ Pipe(f) # Kernel
    /\ Select # Kernel /\ Wake # Kernel
BY DEF Loop, Kernel, Wake, Select, Again, DoSelect, To, Plain, Fd, Socket, Reader, Writer, Pipe

\* select_loop calls somebody, or itself.
LEMMA LoopCallsOut ==
    ASSUME NEW D, SelectInv(D), Call(Loop)
    PROVE  SelectInv(D)'
<1> DEFINE call == Head(todo[Loop])
           b == box[Loop]
           s == todo[Loop]
<1>1. /\ Mail(D) /\ DOMAIN box = D /\ DOMAIN todo = D /\ Loop \in D
      /\ s # <<>> /\ call.to \in D /\ call.to # Kernel
      /\ box' = [box EXCEPT ![call.to] = Append(box[call.to], call.msg)]
      /\ todo' = [todo EXCEPT ![Loop] = <<>> \o Tail(s)]
      /\ local' = local
  BY DEF SelectInv, Mail, Objects, Call, Calling, Continue
<1>2. /\ IsSequence(s) /\ IsSequence(Tail(s)) /\ call \in Range(s)
      /\ Len(s) \in Nat \ {0} /\ call = s[1] /\ Len(Tail(s)) = Len(s) - 1
      /\ \A i \in 1 .. Len(s) - 1 : Tail(s)[i] = s[i + 1]
      /\ Range(s) = {call} \cup Range(Tail(s))
      /\ <<>> \o Tail(s) = Tail(s)
  BY <1>1, SequenceTail, SequenceFew DEF Mail
<1>3. \/ call.to # Loop /\ call.msg.is \in {"read_ready", "write_ready"}
      \/ call = DoSelect
  BY <1>1, <1>2, LoopIs DEF SelectInv, LoopCalls, To
<1>4. Sane(call.msg)
  BY <1>3, LoopIs DEF Sane, Requests
<1>5. LoopCalls(Tail(s))
  <2>1. ASSUME NEW i \in 1 .. Len(Tail(s)) - 1 PROVE Tail(s)[i].to \notin {Loop, Kernel}
    <3>1. i + 1 \in 1 .. Len(s) - 1 /\ Tail(s)[i] = s[i + 1]
      BY <1>2
    <3> QED BY <3>1 DEF SelectInv, LoopCalls
  <2> QED BY <2>1, <1>2 DEF SelectInv, LoopCalls
<1> HIDE DEF call
<1> DEFINE q == Append(box[call.to], call.msg)
<1>6. /\ IsSequence(box[call.to]) /\ IsSequence(q) /\ Len(q) = Len(box[call.to]) + 1
      /\ Range(q) = Range(box[call.to]) \cup {call.msg}
      /\ q[Len(box[call.to]) + 1] = call.msg
      /\ \A i \in 1 .. Len(box[call.to]) : q[i] = box[call.to][i]
  BY <1>1, SequenceAppend DEF Mail
<1> HIDE DEF q
<1>7. /\ DOMAIN box' = D /\ DOMAIN todo' = D
      /\ box'[call.to] = q /\ todo'[Loop] = Tail(s)
      /\ \A p \in D : p # Loop => todo'[p] = todo[p]
      /\ \A p \in D : p # call.to => box'[p] = box[p]
  BY <1>1, <1>2 DEF q
<1> HIDE DEF s, b
<1>8. Mail(D)'
  <2>1. ASSUME NEW p \in D
        PROVE  /\ IsSequence(box'[p]) /\ \A m \in Range(box'[p]) : Sane(m)
               /\ IsSequence(todo'[p])
               /\ p # Loop => \A c \in Range(todo'[p]) : Polite(c)
    <3>1. IsSequence(box'[p]) /\ \A m \in Range(box'[p]) : Sane(m)
      <4>1. CASE p = call.to
        <5>1. \A m \in Range(box[call.to]) : Sane(m)
          BY <1>1 DEF Mail
        <5>2. \A m \in Range(q) : Sane(m)
          BY <5>1, <1>4, <1>6
        <5> QED BY <4>1, <5>2, <1>6, <1>7
      <4>2. CASE p # call.to
        BY <4>2, <1>1, <1>7 DEF Mail
      <4> QED BY <4>1, <4>2
    <3>2. IsSequence(todo'[p]) /\ (p # Loop => \A c \in Range(todo'[p]) : Polite(c))
      BY <1>1, <1>2, <1>7 DEF Mail
    <3> QED BY <3>1, <3>2
  <2> QED BY <2>1, <1>1, <1>7 DEF Mail
<1>9. LoopLists' /\ (NobodyWaits' <=> NobodyWaits)
  BY <1>1, <1>7 DEF SelectInv, LoopLists, NobodyWaits
<1>10. CASE call.to # Loop
  <2>1. box'[Loop] = box[Loop]
    BY <1>1, <1>7, <1>10
  <2>2. (AtWork(Tail(s)) <=> AtWork(s)) /\ (Asks(Tail(s)) <=> Asks(s))
    BY <1>1, <1>2, <1>10, LoopIs DEF AtWork, Asks
  <2> QED BY <2>1, <2>2, <1>5, <1>7, <1>8, <1>9 DEF SelectInv, s
<1>11. CASE call = DoSelect
  <2>1. call.to = Loop /\ call.msg = Again /\ AtWork(s) /\ Asks(s)
    BY <1>2, <1>11, LoopIs DEF AtWork, Asks
  <2>2. Len(s) = 1
    <3> SUFFICES ASSUME Len(s) # 1 PROVE FALSE
      OBVIOUS
    <3>1. 1 \in 1 .. Len(s) - 1
      BY <1>2
    <3> QED BY <3>1, <2>1, <1>2 DEF SelectInv, LoopCalls, s
  <2>3. Tail(s) = <<>> /\ Range(Tail(s)) = {}
    <3>1. Len(Tail(s)) = 0
      BY <2>2, <1>2
    <3>2. Tail(s) = <<>>
      BY <3>1, <1>2, SequenceLength, Zenon
    <3> QED BY <3>2, SequenceFew, Zenon
  <2>4. ~AtWork(Tail(s)) /\ ~Asks(Tail(s))
    BY <2>3 DEF AtWork, Asks
  <2>5. ~Asked(b) /\ ~NobodyWaits
    BY <2>1 DEF SelectInv, s, b
  <2>6. LoopMail(q)
    <3>0. Len(b) \in Nat /\ \A i \in 1 .. Len(b) : b[i] \in Range(b)
      BY <2>1, <1>6, SequenceLength DEF b
    <3>1. \A m \in Range(q) : m.is \in {"read", "write"} \/ m = Again
      BY <2>1, <1>6 DEF SelectInv, LoopMail
    <3>2. \A i \in 1 .. Len(q) : q[i] = Again => i = Len(b) + 1
      BY <3>0, <2>1, <2>5, <1>6 DEF Asked, b
    <3> QED BY <3>1, <3>2 DEF LoopMail
  <2>7. Asked(q)
    BY <2>1, <1>6 DEF Asked
  <2>8. box'[Loop] = q
    BY <2>1, <1>7
  <2> QED BY <2>4, <2>5, <2>6, <2>7, <2>8, <1>5, <1>7, <1>8, <1>9 DEF SelectInv
<1> QED BY <1>3, <1>10, <1>11

\* select_loop begins a method.
LEMMA LoopDoes ==
    ASSUME NEW D, SelectInv(D), box[Loop] # <<>>, todo[Loop] = <<>>,
           NEW calls, IsSequence(calls), LoopCalls(calls), Does(Loop, calls),
           DOMAIN local' = D
    PROVE  /\ Mail(D)' /\ LoopMail(box[Loop])' /\ LoopCalls(todo[Loop])'
           /\ todo'[Loop] = calls
           /\ Asked(box'[Loop]) <=> Asked(box[Loop]) /\ First(Loop) # Again
           /\ First(Loop) \in Range(box[Loop]) /\ Sane(First(Loop))
           /\ ~AtWork(todo[Loop]) /\ ~Asks(todo[Loop])
<1> DEFINE b == box[Loop]
           m == Head(b)
<1>1. /\ Mail(D) /\ DOMAIN box = D /\ DOMAIN todo = D /\ Loop \in D
      /\ box' = [box EXCEPT ![Loop] = Tail(b)]
      /\ todo' = [todo EXCEPT ![Loop] = calls]
  BY DEF SelectInv, Mail, Objects, Does
<1>2. /\ IsSequence(b) /\ IsSequence(Tail(b)) /\ m \in Range(b)
      /\ Len(b) \in Nat \ {0} /\ m = b[1] /\ Len(Tail(b)) = Len(b) - 1
      /\ \A i \in 1 .. Len(b) - 1 : Tail(b)[i] = b[i + 1]
      /\ Range(b) = {m} \cup Range(Tail(b))
      /\ \A n \in Range(b) : Sane(n)
      /\ \A n \in Range(Tail(b)) : \E i \in 1 .. Len(b) - 1 : n = Tail(b)[i]
  <2> HIDE DEF m, b
  <2>1. IsSequence(b) /\ b # <<>> /\ \A n \in Range(b) : Sane(n)
    BY <1>1 DEF Mail, b
  <2>2. /\ IsSequence(Tail(b)) /\ Head(b) \in Range(b)
        /\ Len(b) \in Nat \ {0} /\ Head(b) = b[1] /\ Len(Tail(b)) = Len(b) - 1
        /\ \A i \in 1 .. Len(b) - 1 : Tail(b)[i] = b[i + 1]
        /\ Range(b) = {Head(b)} \cup Range(Tail(b))
    BY <2>1, SequenceTail, Zenon
  <2>3. \A n \in Range(Tail(b)) : \E i \in 1 .. Len(Tail(b)) : n = Tail(b)[i]
    BY <2>2, SequenceLength, Zenon
  <2> QED BY <2>1, <2>2, <2>3 DEF m
<1>3. /\ DOMAIN box' = D /\ DOMAIN todo' = D
      /\ box'[Loop] = Tail(b) /\ todo'[Loop] = calls
      /\ \A p \in D : p # Loop => box'[p] = box[p] /\ todo'[p] = todo[p]
  BY <1>1
<1> HIDE DEF m
<1>4. Mail(D)'
  <2>1. ASSUME NEW p \in D
        PROVE  /\ IsSequence(box'[p]) /\ \A n \in Range(box'[p]) : Sane(n)
               /\ IsSequence(todo'[p])
               /\ p # Loop => \A c \in Range(todo'[p]) : Polite(c)
    BY <1>1, <1>2, <1>3 DEF Mail
  <2> QED BY <2>1, <1>1, <1>3 DEF Mail
<1>5. LoopMail(Tail(b))
  <2>1. ASSUME NEW i \in 1 .. Len(Tail(b)), NEW j \in 1 .. Len(Tail(b)),
               Tail(b)[i] = Again, Tail(b)[j] = Again
        PROVE  i = j
    <3>1. i + 1 \in 1 .. Len(b) /\ j + 1 \in 1 .. Len(b) /\ b[i + 1] = Again /\ b[j + 1] = Again
      BY <2>1, <1>2
    <3>2. i + 1 = j + 1
      BY <3>1 DEF SelectInv, LoopMail
    <3> QED BY <3>2
  <2> QED BY <2>1, <1>2 DEF SelectInv, LoopMail
<1>6. Asked(Tail(b)) <=> Asked(b) /\ m # Again
  <2>1. ASSUME m = Again, Again \in Range(Tail(b)) PROVE FALSE
    <3>1. PICK i \in 1 .. Len(b) - 1 : Again = Tail(b)[i]
      BY <2>1, <1>2
    <3>2. i + 1 \in 1 .. Len(b) /\ b[i + 1] = Again /\ 1 \in 1 .. Len(b) /\ b[1] = Again
      BY <3>1, <2>1, <1>2
    <3>3. i + 1 = 1
      BY <3>2 DEF SelectInv, LoopMail
    <3> QED BY <3>3
  <2> QED BY <2>1, <1>2 DEF Asked
<1>7. ~AtWork(todo[Loop]) /\ ~Asks(todo[Loop])
  BY SequenceFew DEF AtWork, Asks
<1> QED BY <1>2, <1>3, <1>4, <1>5, <1>6, <1>7 DEF m, First

\* select_loop is in the kernel, or behind it, and goes on.
LEMMA LoopContinues ==
    ASSUME NEW D, SelectInv(D), todo[Loop] # <<>>, Head(todo[Loop]).to = Kernel,
           NEW calls, IsSequence(calls), LoopCalls(calls), Continue(Loop, calls),
           DOMAIN box' = D, \A p \in D : box'[p] \in {<<>>, box[p]},
           box'[Loop] = box[Loop], DOMAIN local' = D
    PROVE  /\ Mail(D)' /\ LoopMail(box[Loop])' /\ LoopCalls(todo[Loop])'
           /\ todo'[Loop] = calls
           /\ ~Asked(box'[Loop]) /\ ~Asks(todo[Loop])
           /\ Head(todo[Loop]) \in Range(todo[Loop])
<1> DEFINE s == todo[Loop]
<1>1. /\ Mail(D) /\ DOMAIN box = D /\ DOMAIN todo = D /\ Loop \in D
      /\ todo' = [todo EXCEPT ![Loop] = calls \o Tail(s)]
  BY DEF SelectInv, Mail, Objects, Continue
<1>2. /\ IsSequence(s) /\ IsSequence(Tail(s)) /\ Head(s) \in Range(s)
      /\ Len(s) \in Nat \ {0} /\ Head(s) = s[1] /\ Len(Tail(s)) = Len(s) - 1
      /\ Range(s) = {Head(s)} \cup Range(Tail(s))
  BY <1>1, SequenceTail DEF Mail
<1> HIDE DEF s
<1>3. Len(s) = 1
  <2> SUFFICES ASSUME Len(s) # 1 PROVE FALSE
    OBVIOUS
  <2>1. 1 \in 1 .. Len(s) - 1
    BY <1>2
  <2> QED BY <2>1, <1>2 DEF SelectInv, LoopCalls, s
<1>4. Tail(s) = <<>> /\ Range(Tail(s)) = {} /\ calls \o Tail(s) = calls
  <2>1. Len(Tail(s)) = 0
    BY <1>2, <1>3
  <2>2. Tail(s) = <<>>
    BY <2>1, <1>2, SequenceLength, Zenon
  <2>3. calls \o <<>> = calls /\ Range(<<>>) = {}
    BY SequenceFew, Zenon
  <2> QED BY <2>2, <2>3, Zenon
<1>5. AtWork(s) /\ ~Asks(s)
  BY <1>2, <1>4, LoopIs DEF AtWork, Asks, s
<1>6. /\ DOMAIN todo' = D /\ todo'[Loop] = calls
      /\ \A p \in D : p # Loop => todo'[p] = todo[p]
  BY <1>1, <1>4
<1>7. Mail(D)'
  <2>1. ASSUME NEW p \in D
        PROVE  /\ IsSequence(box'[p]) /\ \A n \in Range(box'[p]) : Sane(n)
               /\ IsSequence(todo'[p])
               /\ p # Loop => \A c \in Range(todo'[p]) : Polite(c)
    BY <1>1, <1>6, SequenceFew DEF Mail
  <2> QED BY <2>1, <1>1, <1>6 DEF Mail
<1> QED BY <1>2, <1>5, <1>6, <1>7 DEF SelectInv, s

\* A new reader or writer.
LEMMA LoopAsked ==
    ASSUME NEW D, SelectInv(D), LoopRead \/ LoopWrite
    PROVE  SelectInv(D)'
<1> DEFINE m == First(Loop)
           rs == local[Loop].readers
           ws == local[Loop].writers
           calls == IF NobodyWaits THEN <<DoSelect>> ELSE <<>>
<1>1. /\ box[Loop] # <<>> /\ todo[Loop] = <<>> /\ m.is \in {"read", "write"}
      /\ Does(Loop, calls)
      /\ \/ local' = [local EXCEPT ![Loop].readers = Append(rs, m)]
         \/ local' = [local EXCEPT ![Loop].writers = Append(ws, m)]
  BY DEF LoopRead, LoopWrite, Gets
<1>2. /\ DOMAIN local = D /\ Loop \in D /\ {"readers", "writers"} \subseteq DOMAIN local[Loop]
      /\ IsSequence(rs) /\ IsSequence(ws)
      /\ \A r \in Range(rs) \cup Range(ws) : r.response \notin {Loop, Kernel}
  BY DEF SelectInv, Mail, Objects, LoopLists
<1>3. m # Again /\ m.is \in Requests
  BY <1>1, LoopIs DEF Requests
<1>4. IsSequence(calls) /\ LoopCalls(calls)
  <2>1. IsSequence(<<DoSelect>>) /\ LoopCalls(<<DoSelect>>)
    <3>1. IsSequence(<<DoSelect>>) /\ Len(<<DoSelect>>) = 1 /\ Range(<<DoSelect>>) = {DoSelect}
      BY SequenceFew
    <3>2. 1 .. 1 - 1 = {}
      OBVIOUS
    <3> QED BY <3>1, <3>2 DEF LoopCalls
  <2>2. IsSequence(<<>>) /\ LoopCalls(<<>>)
    <3>1. 1 .. 0 - 1 = {}
      OBVIOUS
    <3> QED BY <3>1, SequenceFew DEF LoopCalls
  <2> QED BY <2>1, <2>2
<1>5. DOMAIN local' = D
  BY <1>1, <1>2
<1> HIDE DEF calls
<1>6. /\ Mail(D)' /\ LoopMail(box[Loop])' /\ LoopCalls(todo[Loop])'
      /\ todo'[Loop] = calls
      /\ Asked(box'[Loop]) <=> Asked(box[Loop])
      /\ Sane(m)
      /\ ~AtWork(todo[Loop]) /\ ~Asks(todo[Loop])
  BY <1>1, <1>3, <1>4, <1>5, LoopDoes
<1>7. m.response \notin {Loop, Kernel}
  BY <1>3, <1>6 DEF Sane
<1>8. /\ IsSequence(Append(rs, m)) /\ Append(rs, m) # <<>>
      /\ Range(Append(rs, m)) = Range(rs) \cup {m}
      /\ IsSequence(Append(ws, m)) /\ Append(ws, m) # <<>>
      /\ Range(Append(ws, m)) = Range(ws) \cup {m}
  <2>1. \A s : IsSequence(s) => /\ IsSequence(Append(s, m)) /\ Append(s, m) # <<>>
                                /\ Range(Append(s, m)) = Range(s) \cup {m}
    <3> SUFFICES ASSUME NEW s, IsSequence(s)
                 PROVE  /\ IsSequence(Append(s, m)) /\ Append(s, m) # <<>>
                        /\ Range(Append(s, m)) = Range(s) \cup {m}
      OBVIOUS
    <3>1. /\ IsSequence(Append(s, m)) /\ Range(Append(s, m)) = Range(s) \cup {m}
      BY SequenceAppend
    <3>2. m \in Range(Append(s, m))
      BY <3>1
    <3>3. Append(s, m) # <<>>
      BY <3>2, SequenceFew
    <3> QED BY <3>1, <3>3
  <2> QED BY <2>1, <1>2
<1> HIDE DEF m, rs, ws
<1>9. LoopLists' /\ ~NobodyWaits'
  <2>1. CASE local' = [local EXCEPT ![Loop].readers = Append(rs, m)]
    <3>1. /\ local'[Loop].readers = Append(rs, m) /\ local'[Loop].writers = ws
          /\ {"readers", "writers"} \subseteq DOMAIN local'[Loop]
      BY <2>1, <1>2 DEF ws
    <3> QED BY <3>1, <1>2, <1>7, <1>8 DEF LoopLists, NobodyWaits
  <2>2. CASE local' = [local EXCEPT ![Loop].writers = Append(ws, m)]
    <3>1. /\ local'[Loop].writers = Append(ws, m) /\ local'[Loop].readers = rs
          /\ {"readers", "writers"} \subseteq DOMAIN local'[Loop]
      BY <2>2, <1>2 DEF rs
    <3> QED BY <3>1, <1>2, <1>7, <1>8 DEF LoopLists, NobodyWaits
  <2> QED BY <2>1, <2>2, <1>1
<1>10. CASE NobodyWaits
  <2>1. ~Asked(box[Loop])
    BY <1>10 DEF SelectInv
  <2>2. Range(calls) = {DoSelect}
    BY <1>10, SequenceFew DEF calls
  <2>3. AtWork(calls)
    BY <2>2, LoopIs DEF AtWork
  <2> QED BY <2>1, <2>3, <1>6, <1>9 DEF SelectInv
<1>11. CASE ~NobodyWaits
  <2>1. Asked(box[Loop])
    BY <1>6, <1>11 DEF SelectInv
  <2>2. Range(calls) = {}
    BY <1>11, SequenceFew DEF calls
  <2>3. ~AtWork(calls)
    BY <2>2 DEF AtWork
  <2> QED BY <2>1, <2>3, <1>6, <1>9 DEF SelectInv
<1> QED BY <1>10, <1>11

LEMMA LoopSelects ==
    ASSUME NEW D, SelectInv(D), LoopSelect
    PROVE  SelectInv(D)'
<1> DEFINE c == To(Kernel, Plain("select"))
           calls == IF NobodyWaits THEN <<>> ELSE <<c>>
<1>1. /\ box[Loop] # <<>> /\ todo[Loop] = <<>> /\ First(Loop).is = "do_select"
      /\ Does(Loop, calls) /\ local' = local
  BY DEF LoopSelect, Gets
<1>2. DOMAIN local = D /\ IsSequence(box[Loop])
  BY DEF SelectInv, Mail, Objects
<1>3. First(Loop) = Again
  <2>1. First(Loop) \in Range(box[Loop])
    BY <1>1, <1>2, SequenceTail DEF First
  <2> QED BY <2>1, <1>1 DEF SelectInv, LoopMail
<1>4. ~NobodyWaits
  <2>1. Again \in Range(box[Loop])
    BY <1>1, <1>2, <1>3, SequenceTail DEF First
  <2> QED BY <2>1 DEF SelectInv, Asked
<1>5. IsSequence(<<c>>) /\ Len(<<c>>) = 1 /\ Range(<<c>>) = {c}
  BY SequenceFew
<1>6. c.to = Kernel /\ c # DoSelect
  BY LoopIs DEF To
<1> HIDE DEF c
<1>7. IsSequence(calls) /\ LoopCalls(calls) /\ AtWork(calls) /\ ~Asks(calls)
  <2>1. 1 .. 1 - 1 = {}
    OBVIOUS
  <2>2. LoopCalls(<<c>>)
    BY <1>5, <2>1 DEF LoopCalls, c
  <2>3. AtWork(<<c>>) /\ ~Asks(<<c>>)
    BY <1>5, <1>6 DEF AtWork, Asks
  <2> QED BY <2>2, <2>3, <1>4, <1>5
<1> HIDE DEF calls
<1>8. /\ Mail(D)' /\ LoopMail(box[Loop])' /\ LoopCalls(todo[Loop])'
      /\ todo'[Loop] = calls /\ ~Asked(box'[Loop])
  BY <1>1, <1>2, <1>3, <1>7, LoopDoes
<1>9. LoopLists' /\ ~NobodyWaits'
  BY <1>1, <1>4 DEF SelectInv, LoopLists, NobodyWaits
<1> QED BY <1>7, <1>8, <1>9 DEF SelectInv

\* Answers to those that are told, and then the rest of do_select.
LEMMA AnswersThen ==
    ASSUME NEW answers, IsSequence(answers), NEW c,
           \A a \in Range(answers) : /\ a.to \notin {Loop, Kernel}
                                     /\ a.msg.is \in {"read_ready", "write_ready"},
           c.to = Kernel, c.msg.is = "scan", c.msg.w \in Nat \ {0}
    PROVE  LET calls == answers \o <<c>>
           IN  IsSequence(calls) /\ LoopCalls(calls) /\ AtWork(calls) /\ ~Asks(calls)
<1> DEFINE calls == answers \o <<c>>
<1>1. /\ IsSequence(calls) /\ Len(calls) = Len(answers) + 1
      /\ Range(calls) = Range(answers) \cup {c}
      /\ \A i \in 1 .. Len(answers) : calls[i] = answers[i]
  <2>1. IsSequence(<<c>>) /\ Len(<<c>>) = 1 /\ Range(<<c>>) = {c}
    BY SequenceFew
  <2> QED BY <2>1, SequenceConcat
<1>2. Len(answers) \in Nat /\ \A i \in 1 .. Len(answers) : answers[i] \in Range(answers)
  BY SequenceLength
<1> HIDE DEF calls
<1>3. \A i \in 1 .. Len(calls) - 1 : calls[i].to \notin {Loop, Kernel}
  BY <1>1, <1>2
<1>4. LoopCalls(calls)
  BY <1>1, <1>3 DEF LoopCalls
<1>5. AtWork(calls) /\ ~Asks(calls)
  BY <1>1, LoopIs DEF AtWork, Asks
<1> QED BY <1>1, <1>4, <1>5 DEF calls

LEMMA ScanIs ==
    \A i, ready, woken : /\ Scan(i, ready, woken).to = Kernel
                         /\ Scan(i, ready, woken).msg.is = "scan"
                         /\ Scan(i, ready, woken).msg.w = i
                         /\ Scan(i, ready, woken).msg.ready = ready
BY DEF Scan, To

\* What is left of a list of those who wait is such a list.
LEMMA LoopSelectReturns ==
    ASSUME NEW D, SelectInv(D), SelectReturns
    PROVE  SelectInv(D)'
<1> DEFINE rs == local[Loop].readers
           waiting == Range(rs)
           readable == {r \in waiting : Readable(r.fd)}
           writable == {w \in Range(local[Loop].writers) : Writable(w.fd)}
           told == Among(rs, readable)
           answers == [i \in DOMAIN told |-> To(told[i].response, Plain("read_ready"))]
           c == Scan(1, writable, box[Wake] # <<>>)
           calls == answers \o <<c>>
           rest == Among(rs, waiting \ readable)
<1>1. /\ InKernel("select")
      /\ local' = [local EXCEPT ![Loop].readers = rest]
      /\ Continue(Loop, calls) /\ box' = box
  BY Zenon DEF SelectReturns
<1>2. /\ DOMAIN local = D /\ DOMAIN box = D /\ Loop \in D /\ Wake \in D
      /\ {"readers", "writers"} \subseteq DOMAIN local[Loop]
      /\ IsSequence(rs) /\ IsSequence(local[Loop].writers)
      /\ \A r \in Range(rs) \cup Range(local[Loop].writers) : r.response \notin {Loop, Kernel}
  BY DEF SelectInv, Mail, Objects, LoopLists
<1>3. todo[Loop] # <<>> /\ Head(todo[Loop]).to = Kernel
  BY <1>1 DEF InKernel, Calling, To
<1> HIDE DEF waiting, readable, writable, rs
<1>4. /\ IsSequence(told) /\ Range(told) \subseteq Range(rs)
      /\ IsSequence(rest) /\ Range(rest) \subseteq Range(rs)
  BY <1>2, SequenceParts
<1> HIDE DEF told, rest
<1>5. /\ IsSequence(answers)
      /\ \A a \in Range(answers) : /\ a.to \notin {Loop, Kernel}
                                   /\ a.msg.is \in {"read_ready", "write_ready"}
  <2>1. DOMAIN told = 1 .. Len(told) /\ Len(told) \in Nat
        /\ \A i \in 1 .. Len(told) : told[i] \in Range(rs)
    BY <1>4, SequenceLength
  <2> DEFINE A == {To(told[i].response, Plain("read_ready")) : i \in 1 .. Len(told)}
  <2>2. answers \in [1 .. Len(told) -> A]
    BY <2>1
  <2>3. answers \in Seq(A)
    <3> HIDE DEF A, answers
    <3> QED BY <2>1, <2>2, IsASeq
  <2>4. \A a \in A : a.to \notin {Loop, Kernel} /\ a.msg.is \in {"read_ready", "write_ready"}
    BY <2>1, <1>2 DEF To, Plain
  <2>5. Range(answers) \subseteq A
    BY <2>2 DEF Range
  <2> HIDE DEF A
  <2> QED BY <2>3, <2>4, <2>5 DEF IsSequence
<1> HIDE DEF answers
<1>6. c.to = Kernel /\ c.msg.is = "scan" /\ c.msg.w \in Nat \ {0}
  BY ScanIs
<1> HIDE DEF c
<1>7. IsSequence(calls) /\ LoopCalls(calls) /\ AtWork(calls) /\ ~Asks(calls)
  BY <1>5, <1>6, AnswersThen
<1> HIDE DEF calls
<1>8. /\ DOMAIN box' = D /\ \A p \in D : box'[p] \in {<<>>, box[p]}
      /\ box'[Loop] = box[Loop]
  BY <1>1, <1>2
<1>9. /\ Mail(D)' /\ LoopMail(box[Loop])' /\ LoopCalls(todo[Loop])'
      /\ todo'[Loop] = calls /\ ~Asked(box'[Loop])
  BY <1>1, <1>2, <1>3, <1>7, <1>8, LoopContinues
<1>10. LoopLists'
  <2>1. /\ local'[Loop].readers = rest /\ local'[Loop].writers = local[Loop].writers
        /\ {"readers", "writers"} \subseteq DOMAIN local'[Loop]
    BY <1>1, <1>2
  <2> QED BY <2>1, <1>2, <1>4 DEF LoopLists
<1> QED BY <1>7, <1>9, <1>10 DEF SelectInv

\* The iterator stays in the list, or is at its end.
LEMMA LoopScansOn ==
    ASSUME NEW D, SelectInv(D), ScanWriter
    PROVE  SelectInv(D)'
<1> DEFINE s == Calling(Loop).msg
           ws == local[Loop].writers
<1>1. todo[Loop] # <<>> /\ s.is = "scan" /\ s.w <= Len(ws) /\ box' = box
  BY DEF ScanWriter, Scanning
<1>2. /\ DOMAIN local = D /\ DOMAIN box = D /\ Loop \in D /\ Wake \in D
      /\ {"readers", "writers"} \subseteq DOMAIN local[Loop]
      /\ IsSequence(ws) /\ IsSequence(local[Loop].readers) /\ IsSequence(todo[Loop])
      /\ \A r \in Range(ws) \cup Range(local[Loop].readers) : r.response \notin {Loop, Kernel}
  BY DEF SelectInv, Mail, Objects, LoopLists
<1>3. Calling(Loop) \in Range(todo[Loop])
  BY <1>1, <1>2, SequenceTail DEF Calling
<1>4. Calling(Loop).to = Kernel /\ s.w \in Nat \ {0}
  BY <1>1, <1>3, LoopIs DEF SelectInv, LoopCalls, To, Plain
<1>5. s.w \in 1 .. Len(ws) /\ Len(ws) \in Nat
  BY <1>1, <1>2, <1>4, SequenceLength
<1>6. /\ DOMAIN box' = D /\ \A p \in D : box'[p] \in {<<>>, box[p]}
      /\ box'[Loop] = box[Loop] /\ Head(todo[Loop]).to = Kernel
  BY <1>1, <1>2, <1>4 DEF Calling
<1>7. \A i \in Nat, n \in Nat : i # 0 => After(i, n) \in Nat \ {0}
  BY DEF After
<1>8. ws[s.w] \in Range(ws)
  BY <1>2, <1>5, SequenceLength
<1>9. ws[s.w].response \notin {Loop, Kernel}
  BY <1>2, <1>8
<1> HIDE DEF s
<1>10. CASE /\ local' = [local EXCEPT ![Loop].writers = RemoveAt(ws, s.w)]
            /\ Continue(Loop, <<To(ws[s.w].response, Plain("write_ready")),
                                Scan(After(s.w, Len(ws) - 1), s.ready, s.woken)>>)
  <2> DEFINE a == To(ws[s.w].response, Plain("write_ready"))
             c == Scan(After(s.w, Len(ws) - 1), s.ready, s.woken)
             calls == <<a>> \o <<c>>
  <2>1. a.to \notin {Loop, Kernel} /\ a.msg.is = "write_ready"
    BY <1>9 DEF To, Plain
  <2>2. c.to = Kernel /\ c.msg.is = "scan" /\ c.msg.w \in Nat \ {0}
    <3>1. Len(ws) - 1 \in Nat
      BY <1>5
    <3>2. After(s.w, Len(ws) - 1) \in Nat \ {0}
      BY <3>1, <1>4, <1>7
    <3> QED BY <3>2, ScanIs
  <2> HIDE DEF a, c
  <2>3. IsSequence(<<a>>) /\ Range(<<a>>) = {a}
    BY SequenceFew
  <2>4. IsSequence(calls) /\ LoopCalls(calls) /\ AtWork(calls) /\ ~Asks(calls)
    BY <2>1, <2>2, <2>3, AnswersThen
  <2>5. Continue(Loop, calls)
    <3>1. <<a>> \o <<c>> = <<a, c>>
      BY SequenceOfTwo
    <3> QED BY <3>1, <1>10 DEF a, c
  <2> HIDE DEF calls
  <2>6. DOMAIN local' = D
    BY <1>2, <1>10
  <2>7. /\ Mail(D)' /\ LoopMail(box[Loop])' /\ LoopCalls(todo[Loop])'
        /\ todo'[Loop] = calls /\ ~Asked(box'[Loop])
    BY <2>4, <2>5, <2>6, <1>1, <1>6, LoopContinues
  <2>8. IsSequence(RemoveAt(ws, s.w)) /\ Range(RemoveAt(ws, s.w)) \subseteq Range(ws)
    BY <1>2, <1>5, SequenceParts
  <2>9. LoopLists'
    <3>1. /\ local'[Loop].writers = RemoveAt(ws, s.w)
          /\ local'[Loop].readers = local[Loop].readers
          /\ {"readers", "writers"} \subseteq DOMAIN local'[Loop]
      BY <1>2, <1>10
    <3> QED BY <3>1, <2>8, <1>2 DEF LoopLists
  <2> QED BY <2>4, <2>7, <2>9 DEF SelectInv
<1>11. CASE /\ Continue(Loop, <<Scan(After(After(s.w, Len(ws)), Len(ws)), s.ready, s.woken)>>)
            /\ local' = local
  <2> DEFINE c == Scan(After(After(s.w, Len(ws)), Len(ws)), s.ready, s.woken)
             calls == <<>> \o <<c>>
  <2>1. c.to = Kernel /\ c.msg.is = "scan" /\ c.msg.w \in Nat \ {0}
    <3>1. After(s.w, Len(ws)) \in Nat \ {0}
      BY <1>4, <1>5, <1>7
    <3>2. After(After(s.w, Len(ws)), Len(ws)) \in Nat \ {0}
      BY <3>1, <1>5, <1>7
    <3> QED BY <3>2, ScanIs
  <2> HIDE DEF c
  <2>2. IsSequence(calls) /\ LoopCalls(calls) /\ AtWork(calls) /\ ~Asks(calls)
    BY <2>1, SequenceFew, AnswersThen
  <2>3. Continue(Loop, calls)
    <3>1. <<>> \o <<c>> = <<c>>
      BY SequenceFew
    <3> QED BY <3>1, <1>11 DEF c
  <2> HIDE DEF calls
  <2>4. /\ Mail(D)' /\ LoopMail(box[Loop])' /\ LoopCalls(todo[Loop])'
        /\ todo'[Loop] = calls /\ ~Asked(box'[Loop])
    BY <2>2, <2>3, <1>1, <1>2, <1>6, <1>11, LoopContinues
  <2>5. LoopLists'
    BY <1>11 DEF SelectInv, LoopLists
  <2> QED BY <2>2, <2>4, <2>5 DEF SelectInv
<1> QED BY <1>10, <1>11 DEF ScanWriter, s

LEMMA LoopGoesOn ==
    ASSUME NEW D, SelectInv(D), LoopAgain
    PROVE  SelectInv(D)'
<1> DEFINE w == IF Calling(Loop).msg.woken THEN <<>> ELSE box[Wake]
           calls == IF NobodyWaits THEN <<>> ELSE <<DoSelect>>
<1>1. /\ todo[Loop] # <<>> /\ Calling(Loop).msg.is = "scan"
      /\ box' = [box EXCEPT ![Wake] = w]
      /\ Continue(Loop, calls) /\ local' = local
  BY DEF LoopAgain, Scanning
<1>2. DOMAIN local = D /\ DOMAIN box = D /\ Loop \in D /\ IsSequence(todo[Loop])
  BY DEF SelectInv, Mail, Objects
<1>3. Calling(Loop) \in Range(todo[Loop])
  BY <1>1, <1>2, SequenceTail DEF Calling
<1>4. Head(todo[Loop]).to = Kernel
  BY <1>1, <1>3, LoopIs DEF SelectInv, LoopCalls, To, Plain, Calling
<1>5. /\ DOMAIN box' = D /\ \A p \in D : box'[p] \in {<<>>, box[p]}
      /\ box'[Loop] = box[Loop]
  BY <1>1, <1>2, LoopIs
<1>6. /\ IsSequence(<<DoSelect>>) /\ Len(<<DoSelect>>) = 1 /\ Range(<<DoSelect>>) = {DoSelect}
      /\ IsSequence(<<>>) /\ Len(<<>>) = 0 /\ Range(<<>>) = {}
      /\ 1 .. 1 - 1 = {} /\ 1 .. 0 - 1 = {}
  BY SequenceFew
<1>7. /\ IsSequence(calls) /\ LoopCalls(calls)
      /\ AtWork(calls) <=> ~NobodyWaits
      /\ Asks(calls) <=> ~NobodyWaits
  <2>1. LoopCalls(<<DoSelect>>) /\ AtWork(<<DoSelect>>) /\ Asks(<<DoSelect>>)
    BY <1>6, LoopIs DEF LoopCalls, AtWork, Asks
  <2>2. LoopCalls(<<>>) /\ ~AtWork(<<>>) /\ ~Asks(<<>>)
    BY <1>6 DEF LoopCalls, AtWork, Asks
  <2> QED BY <2>1, <2>2, <1>6
<1> HIDE DEF calls, w
<1>8. /\ Mail(D)' /\ LoopMail(box[Loop])' /\ LoopCalls(todo[Loop])'
      /\ todo'[Loop] = calls /\ ~Asked(box'[Loop])
  BY <1>1, <1>2, <1>4, <1>5, <1>7, LoopContinues
<1>9. LoopLists' /\ (NobodyWaits' <=> NobodyWaits)
  BY <1>1 DEF SelectInv, LoopLists, NobodyWaits
<1> QED BY <1>7, <1>8, <1>9 DEF SelectInv

-----------------------------------------------------------------------------
(* select, the sockets and the pipes *)

PoliteCalls(calls) == IsSequence(calls) /\ \A c \in Range(calls) : Polite(c)

LEMMA PoliteFew ==
    /\ PoliteCalls(<<>>)
    /\ \A c : Polite(c) => PoliteCalls(<<c>>)
    /\ \A c, d : Polite(c) /\ Polite(d) => PoliteCalls(<<c, d>>)
    /\ \A s, t : PoliteCalls(s) /\ PoliteCalls(t) => PoliteCalls(s \o t)
<1>1. PoliteCalls(<<>>)
  BY SequenceFew DEF PoliteCalls
<1>2. \A c : Polite(c) => PoliteCalls(<<c>>)
  BY SequenceFew DEF PoliteCalls
<1>3. \A c, d : Polite(c) /\ Polite(d) => PoliteCalls(<<c, d>>)
  BY SequenceFew DEF PoliteCalls
<1>4. \A s, t : PoliteCalls(s) /\ PoliteCalls(t) => PoliteCalls(s \o t)
  BY SequenceConcat DEF PoliteCalls
<1> QED BY <1>1, <1>2, <1>3, <1>4

LEMMA PoliteTo ==
    \A o, m : o \notin {Loop, Kernel} /\ Sane(m) => Polite(To(o, m))
BY DEF Polite, To

\* Who answers a request does not answer select_loop.
LEMMA PoliteAnswer ==
    \A r, m : /\ Sane(r) /\ r.is \in Requests
              /\ m.is \in {"read_response", "write_response", "connect_response",
                           "bind_response", "listen_result", "accept_response"}
              => /\ Polite(To(r.response, m)) /\ r.response \notin {Loop, Kernel}
                 /\ "response" \in DOMAIN r
BY DEF Polite, To, Sane, Requests

\* Objects that only pass requests on, or answer them.
Plumbing == {"select", "select_loop", "m_pipe", "kernel", "socket", "reader", "writer"}

\* Calls that a method makes for whoever its message e was for: it asks somebody for
\* the same object, or answers it; or the call concerns nobody.
Silent(c) ==
    /\ c.to[1] \in Plumbing /\ "response" \notin DOMAIN c.msg
    /\ c.msg.is \notin {"accept", "init", "connected", "accept_response"}

PassesOn(e, c) ==
    /\ c.to[1] \in Plumbing \/ Asking(e, c.to)
    /\ "response" \in DOMAIN c.msg => Asking(e, c.msg.response)
    /\ c.msg.is \notin {"accept", "init", "connected"}

Passes(e, calls) ==
    \/ calls = <<>>
    \/ \E c : calls = <<c>> /\ PassesOn(e, c)
    \/ \E c, d : calls = <<c, d>> /\ PassesOn(e, c) /\ Silent(d)

\* What the methods of select, the sockets and the pipes have in common; accept is
\* whether a connection may be accepted.
Moves(D, accept) ==
    \E type, calls : \E o \in D :
        /\ o # Loop /\ type \notin {"init", "connected"}
        /\ Gets(o, type) /\ Does(o, calls)
        /\ PoliteCalls(calls) /\ Passes(To(o, First(o)), calls)
        /\ accept \/ \A c \in Range(calls) : c.msg.is # "accept_response"
        /\ DOMAIN local' = D /\ local'[Loop] = local[Loop]

LEMMA SilentPasses == \A e, c : Silent(c) => PassesOn(e, c)
BY DEF Silent, PassesOn

\* A method of an object other than select_loop that sends politely and leaves the
\* members of select_loop alone.
LEMMA MethodKeeps ==
    ASSUME NEW D, SelectInv(D), NEW o \in D, o # Loop, NEW type, Gets(o, type),
           NEW calls, PoliteCalls(calls), Does(o, calls),
           DOMAIN local' = D, local'[Loop] = local[Loop]
    PROVE  SelectInv(D)'
BY OtherDoes DEF PoliteCalls, Gets

LEMMA MovesKeep ==
    ASSUME NEW D, SelectInv(D), NEW accept, Moves(D, accept)
    PROVE  SelectInv(D)'
BY MethodKeeps DEF Moves

LEMMA FirstIs ==
    ASSUME NEW D, SelectInv(D), NEW o \in D, NEW type, Gets(o, type)
    PROVE  Sane(First(o)) /\ First(o).is = type
BY SequenceTail DEF SelectInv, Mail, Gets, First

LEMMA SocketObjects ==
    ASSUME NEW D, SelectInv(D)
    PROVE  /\ Select \in D /\ Loop \in D /\ Wake \in D /\ DOMAIN local = D
           /\ \A f \in Fds : /\ Fd(f) \in D /\ Socket(f) \in D /\ Reader(f) \in D
                             /\ Writer(f) \in D /\ Pipe(f) \in D
<1>1. Objects \subseteq D /\ DOMAIN local = D
  BY DEF SelectInv, Mail
<1>2. ASSUME NEW f \in Fds
      PROVE  {Fd(f), Socket(f), Reader(f), Writer(f), Pipe(f)} \subseteq Objects
  BY <1>2, Zenon DEF Objects
<1>3. {Select, Loop, Wake} \subseteq Objects
  BY Zenon DEF Objects
<1> QED BY <1>1, <1>2, <1>3

LEMMA SelectForwards ==
    ASSUME NEW D, SelectInv(D), SelectForward
    PROVE  Moves(D, FALSE)
<1> DEFINE c == To(Loop, First(Select))
           d == To(Wake, Plain("X"))
           e == To(Select, First(Select))
<1>1. PICK type \in {"read", "write"} :
         /\ Gets(Select, type)
         /\ Does(Select, <<c, d>>)
         /\ local' = local
  BY DEF SelectForward
<1>2. Sane(First(Select)) /\ First(Select).is \in {"read", "write"}
  BY <1>1, FirstIs, SocketObjects
<1>3. Polite(c) /\ PassesOn(e, c) /\ c.msg.is # "accept_response"
  BY <1>2, LoopIs DEF Polite, To, PassesOn, Asking, Plumbing, Loop
<1>4. Polite(d) /\ Silent(d)
  BY LoopIs DEF Polite, To, Plain, Sane, Requests, Silent, Plumbing, Wake
<1> HIDE DEF c, d, e
<1>5. /\ PoliteCalls(<<c, d>>) /\ Passes(e, <<c, d>>)
      /\ \A x \in Range(<<c, d>>) : x.msg.is # "accept_response"
  BY <1>3, <1>4, PoliteFew, SequenceFew DEF Passes, Silent
<1> QED BY <1>1, <1>5, SocketObjects, LoopIs DEF Moves, e

LEMMA SocketForwards ==
    ASSUME NEW D, SelectInv(D), NEW f \in Fds, SocketForward(f)
    PROVE  Moves(D, FALSE)
<1>1. PICK type \in {"read", "write"}, o \in {Reader(f), Writer(f)} :
         Gets(Socket(f), type) /\ Does(Socket(f), <<To(o, First(Socket(f)))>>) /\ local' = local
  BY DEF SocketForward
<1> DEFINE c == To(o, First(Socket(f)))
           e == To(Socket(f), First(Socket(f)))
<1>2. Sane(First(Socket(f))) /\ First(Socket(f)).is \in {"read", "write"}
  BY <1>1, FirstIs, SocketObjects
<1>3. Polite(c)
  BY <1>1, <1>2, PoliteTo, LoopIs
<1>4. PassesOn(e, c) /\ c.msg.is # "accept_response"
  BY <1>1, <1>2 DEF To, PassesOn, Asking, Plumbing, Reader, Writer
<1> HIDE DEF c, e
<1>5. /\ PoliteCalls(<<c>>) /\ Passes(e, <<c>>)
      /\ \A x \in Range(<<c>>) : x.msg.is # "accept_response"
  BY <1>3, <1>4, PoliteFew, SequenceFew DEF Passes
<1> QED BY <1>1, <1>5, SocketObjects, LoopIs DEF Moves, c, e

LEMMA SocketShuts ==
    ASSUME NEW D, SelectInv(D), NEW f \in Fds, SocketShutdown(f)
    PROVE  Moves(D, FALSE)
<1>1. /\ Gets(Socket(f), "shutdown") /\ Does(Socket(f), <<>>)
      /\ DOMAIN local' = DOMAIN local /\ local'[Loop] = local[Loop]
  BY LoopIs DEF SocketShutdown
<1>2. \A e : Passes(e, <<>>)
  BY DEF Passes
<1>3. \A x \in Range(<<>>) : x.msg.is # "accept_response"
  BY SequenceFew
<1> QED BY <1>1, <1>2, <1>3, PoliteFew, SocketObjects, LoopIs DEF Moves

\* An answer to the request that a socket, its reader or its writer is at.
LEMMA AnswerKeeps ==
    ASSUME NEW D, SelectInv(D), NEW o \in D, o # Loop, NEW type \in Requests, Gets(o, type),
           type # "init", NEW answer, "response" \notin DOMAIN answer,
           answer.is \in {"read_response", "write_response", "connect_response",
                          "bind_response", "listen_result", "accept_response"},
           NEW accept, answer.is = "accept_response" => accept,
           Does(o, <<To(First(o).response, answer)>>),
           DOMAIN local' = DOMAIN local, local'[Loop] = local[Loop]
    PROVE  Moves(D, accept)
<1> DEFINE e == To(o, First(o))
           c == To(First(o).response, answer)
<1>1. Sane(First(o)) /\ First(o).is \in Requests
  BY FirstIs
<1>2. Polite(c) /\ "response" \in DOMAIN First(o)
  BY <1>1, PoliteAnswer
<1>3. PassesOn(e, c) /\ c.msg.is = answer.is
  BY <1>2 DEF PassesOn, Asking, To
<1> HIDE DEF c, e
<1>4. /\ PoliteCalls(<<c>>) /\ Passes(e, <<c>>)
      /\ \A x \in Range(<<c>>) : x.msg.is = answer.is
  BY <1>2, <1>3, PoliteFew, SequenceFew DEF Passes
<1>5. type \notin {"init", "connected"}
  BY DEF Requests
<1> QED BY <1>4, <1>5, SocketObjects DEF Moves, c, e

LEMMA SocketReceives ==
    ASSUME NEW D, SelectInv(D), NEW f \in Fds, Recv(f)
    PROVE  Moves(D, FALSE)
<1> DEFINE p == First(Reader(f)).response
           input == local[Fd(f)].input
           answer(n) == [is |-> "read_response", bytes |-> n]
<1>1. PICK n \in 0 .. MaxBuffer :
         /\ local' = [local EXCEPT ![Fd(f)].input = SubSeq(@, n + 1, Len(@)),
                                   ![p].m_buffer = IF n = 0 THEN @ ELSE SubSeq(input, 1, n)]
         /\ Does(Reader(f), <<To(p, answer(n))>>)
  BY Zenon DEF Recv
<1>2. Gets(Reader(f), "read")
  BY DEF Recv
<1>3. p # Loop
  BY <1>2, FirstIs, SocketObjects DEF Sane, Requests
<1>4. answer(n).is = "read_response" /\ "response" \notin DOMAIN answer(n)
  OBVIOUS
<1> HIDE DEF answer
<1>5. DOMAIN local' = DOMAIN local /\ local'[Loop] = local[Loop]
  <2> HIDE DEF p
  <2> QED BY <1>1, <1>3, LoopIs, SocketObjects
<1>6. "read" \in Requests
  BY DEF Requests
<1>7. Does(Reader(f), <<To(p, answer(n))>>)
  BY <1>1
<1> QED BY <1>2, <1>4, <1>5, <1>6, <1>7, AnswerKeeps, SocketObjects, LoopIs

LEMMA SocketReceivesNot ==
    ASSUME NEW D, SelectInv(D), NEW f \in Fds, RecvFails(f)
    PROVE  Moves(D, FALSE)
<1> DEFINE answer == [is |-> "read_response", bytes |-> 0]
<1>1. /\ Gets(Reader(f), "read")
      /\ local' = [local EXCEPT ![Fd(f)].failed = TRUE]
      /\ Does(Reader(f), <<To(First(Reader(f)).response, answer)>>)
  BY DEF RecvFails
<1>2. DOMAIN local' = DOMAIN local /\ local'[Loop] = local[Loop] /\ "read" \in Requests
  BY <1>1, LoopIs DEF Requests
<1>3. answer.is = "read_response" /\ "response" \notin DOMAIN answer
  OBVIOUS
<1> HIDE DEF answer
<1> QED BY <1>1, <1>2, <1>3, AnswerKeeps, SocketObjects, LoopIs

LEMMA SocketSends ==
    ASSUME NEW D, SelectInv(D), NEW f \in Fds, Send(f)
    PROVE  Moves(D, FALSE)
<1> DEFINE m == First(Writer(f))
           sent(n) == [is |-> "write_response", error |-> FALSE,
                       at |-> m.at + n, left |-> m.left - n]
           failed == [is |-> "write_response", error |-> TRUE, at |-> m.at, left |-> m.left]
<1>1. /\ Gets(Writer(f), "write")
      /\ (\E n \in 1 .. MaxBuffer : SendBytes(f, n)) \/ SendFails(f)
  BY DEF Send
<1>2. "write" \in Requests
  BY DEF Requests
<1>3. ASSUME NEW n, SendBytes(f, n) PROVE Moves(D, FALSE)
  <2> DEFINE bytes == SubSeq(local[m.response].m_buffer, m.at, m.at + n - 1)
  <2>1. PICK room \in IF f \in Stalls THEN BOOLEAN ELSE {TRUE} :
           local' = [local EXCEPT ![Fd(f)].output = @ \o bytes,
                                  ![Fd(f)].coming = IF local[Fd(f)].peer THEN @ \o bytes ELSE @,
                                  ![Fd(f)].room = room]
    BY <1>3, Zenon DEF SendBytes
  <2> HIDE DEF bytes
  <2>2. DOMAIN local' = DOMAIN local /\ local'[Loop] = local[Loop]
    BY <2>1, LoopIs, SocketObjects
  <2>3. sent(n).is = "write_response" /\ "response" \notin DOMAIN sent(n)
    OBVIOUS
  <2>4. Does(Writer(f), <<To(m.response, sent(n))>>)
    BY <1>3 DEF SendBytes
  <2> HIDE DEF sent
  <2> QED BY <1>1, <1>2, <2>2, <2>3, <2>4, AnswerKeeps, SocketObjects, LoopIs
<1>4. CASE SendFails(f)
  <2>1. DOMAIN local' = DOMAIN local /\ local'[Loop] = local[Loop]
    BY <1>4, LoopIs DEF SendFails
  <2>2. failed.is = "write_response" /\ "response" \notin DOMAIN failed
    OBVIOUS
  <2>3. Does(Writer(f), <<To(m.response, failed)>>)
    BY <1>4 DEF SendFails
  <2> HIDE DEF failed
  <2> QED BY <1>1, <1>2, <2>1, <2>2, <2>3, AnswerKeeps, SocketObjects, LoopIs
<1> QED BY <1>1, <1>3, <1>4

LEMMA SocketAnswers ==
    ASSUME NEW D, SelectInv(D), NEW f \in Fds, Connect(f) \/ Bind(f) \/ Listen(f)
    PROVE  Moves(D, FALSE)
<1> DEFINE m == First(Socket(f))
<1>0. {"connect_in", "bind_in", "listen"} \subseteq Requests
  BY DEF Requests
<1>1. CASE Connect(f)
  <2> DEFINE answer(error) == [is |-> "connect_response", error |-> error]
  <2>1. PICK error \in BOOLEAN : /\ local' = [local EXCEPT ![Fd(f)].failed = error]
                                 /\ Does(Socket(f), <<To(m.response, answer(error))>>)
    BY <1>1, Zenon DEF Connect
  <2>2. DOMAIN local' = DOMAIN local /\ local'[Loop] = local[Loop]
    BY <2>1, LoopIs
  <2>3. Gets(Socket(f), "connect_in")
    BY <1>1 DEF Connect
  <2>4. answer(error).is = "connect_response" /\ "response" \notin DOMAIN answer(error)
    OBVIOUS
  <2> HIDE DEF answer
  <2> QED BY <2>1, <2>2, <2>3, <2>4, <1>0, AnswerKeeps, SocketObjects, LoopIs
<1>2. CASE Bind(f)
  <2> DEFINE answer(error) == [is |-> "bind_response", error |-> error]
  <2>1. PICK error \in BOOLEAN : /\ local' = [local EXCEPT ![Fd(f)].failed = error]
                                 /\ Does(Socket(f), <<To(m.response, answer(error))>>)
    BY <1>2, Zenon DEF Bind
  <2>2. DOMAIN local' = DOMAIN local /\ local'[Loop] = local[Loop]
    BY <2>1, LoopIs
  <2>3. Gets(Socket(f), "bind_in")
    BY <1>2 DEF Bind
  <2>4. answer(error).is = "bind_response" /\ "response" \notin DOMAIN answer(error)
    OBVIOUS
  <2> HIDE DEF answer
  <2> QED BY <2>1, <2>2, <2>3, <2>4, <1>0, AnswerKeeps, SocketObjects, LoopIs
<1>3. CASE Listen(f)
  <2> DEFINE answer(error) == [is |-> "listen_result", error |-> error]
  <2>1. PICK ok \in BOOLEAN, errno \in BOOLEAN :
           /\ local' = [local EXCEPT ![Fd(f)].server = IF ok THEN "listening" ELSE @,
                                     ![Fd(f)].failed = ~ok \/ errno]
           /\ Does(Socket(f), <<To(m.response, answer(ok /\ errno))>>)
    BY <1>3, Zenon DEF Listen
  <2>2. DOMAIN local' = DOMAIN local /\ local'[Loop] = local[Loop]
    BY <2>1, LoopIs, SocketObjects
  <2>3. Gets(Socket(f), "listen")
    BY <1>3 DEF Listen
  <2>4. answer(ok /\ errno).is = "listen_result" /\ "response" \notin DOMAIN answer(ok /\ errno)
    OBVIOUS
  <2> HIDE DEF answer
  <2> QED BY <2>1, <2>2, <2>3, <2>4, <1>0, AnswerKeeps, SocketObjects, LoopIs
<1> QED BY <1>1, <1>2, <1>3

LEMMA SocketAccepts ==
    ASSUME NEW D, SelectInv(D), NEW f \in Fds, Accept(f)
    PROVE  Moves(D, TRUE)
<1> DEFINE m == First(Socket(f))
           answer(error, fd) == [is |-> "accept_response", error |-> error, fd |-> fd]
<1>1. /\ Gets(Socket(f), "accept")
      /\ \/ /\ Does(Socket(f), <<To(m.response, answer(TRUE, f))>>)
            /\ local' = local
         \/ /\ Does(Socket(f), <<To(m.response, answer(FALSE, Head(local[Fd(f)].input)))>>)
            /\ local' = [local EXCEPT ![Fd(f)].input = Tail(@)]
  BY Zenon DEF Accept
<1>2. DOMAIN local' = DOMAIN local /\ local'[Loop] = local[Loop]
  BY <1>1, LoopIs, SocketObjects
<1>3. \A error, fd : answer(error, fd).is = "accept_response" /\ "response" \notin DOMAIN answer(error, fd)
  OBVIOUS
<1> HIDE DEF answer
<1>4. PICK error, fd : Does(Socket(f), <<To(m.response, answer(error, fd))>>)
  BY <1>1
<1> DEFINE a == answer(error, fd)
<1>5. "accept" \in Requests /\ Gets(Socket(f), "accept")
  BY <1>1 DEF Requests
<1>6. a.is = "accept_response" /\ "response" \notin DOMAIN a
  BY <1>3
<1>7. Does(Socket(f), <<To(m.response, a)>>) /\ Socket(f) \in D /\ Socket(f) # Loop
  BY <1>4, SocketObjects, LoopIs
<1> HIDE DEF a
<1> QED BY <1>2, <1>5, <1>6, <1>7, AnswerKeeps

LEMMA PipeKeeps ==
    ASSUME NEW D, SelectInv(D), NEW f \in Fds, PipeStep(Pipe(f))
    PROVE  Moves(D, FALSE)
<1> DEFINE p == Pipe(f)
           e == To(p, First(p))
           Fine(c) == Polite(c) /\ PassesOn(e, c) /\ c.msg.is # "accept_response"
           Good(calls) == /\ PoliteCalls(calls) /\ Passes(e, calls)
                          /\ \A c \in Range(calls) : c.msg.is # "accept_response"
<1>1. \A m : Sane(m) => Polite(To(Select, m)) /\ \A g : Polite(To(Socket(g), m))
  BY PoliteTo, LoopIs
<1>2. \A type, g : Sane(Wait(type, g, p)) /\ Sane(Ask(type, p))
  BY LoopIs DEF Sane, Wait, Ask
<1>3. \A at, left : Sane(WriteFrom(p, at, left))
  BY LoopIs DEF Sane, WriteFrom
<1>4. \A mode : Sane([is |-> "shutdown", mode |-> mode])
  BY DEF Sane, Requests
<1>5. p \in D /\ p # Loop /\ DOMAIN local = D /\ Loop \in D
  BY SocketObjects, LoopIs
<1>6. Asking(e, p)
  BY DEF Asking, To
<1>7. Select[1] \in Plumbing /\ \A g : Socket(g)[1] \in Plumbing
  BY DEF Select, Socket, Plumbing
<1>8. Good(<<>>) /\ \A c : Fine(c) => Good(<<c>>)
  BY PoliteFew, SequenceFew DEF Passes
<1>9. Fine(AwaitInput(p)) /\ Fine(AwaitOutput(p))
  <2>1. ASSUME NEW g, NEW type \in {"read", "write"}
        PROVE  Fine(To(Select, Wait(type, g, p)))
    <3>1. Polite(To(Select, Wait(type, g, p)))
      BY <1>1, <1>2
    <3>2. /\ To(Select, Wait(type, g, p)).to = Select
          /\ To(Select, Wait(type, g, p)).msg.is = type
          /\ To(Select, Wait(type, g, p)).msg.response = p
      BY DEF To, Wait
    <3> HIDE DEF p, e
    <3> QED BY <3>1, <3>2, <1>6, <1>7 DEF PassesOn
  <2> HIDE DEF Fine
  <2> QED BY <2>1 DEF AwaitInput, AwaitOutput
<1> DEFINE G(type, calls) == /\ Gets(p, type) /\ Does(p, calls) /\ Good(calls)
                             /\ type \notin {"init", "connected"}
                             /\ DOMAIN local' = D /\ local'[Loop] = local[Loop]
<1>10. PICK type, calls : G(type, calls)
  <2> HIDE DEF p, Good, Fine, e
  <2>1. Good(<<AwaitInput(p)>>) /\ Good(<<AwaitOutput(p)>>)
    BY <1>8, <1>9
  <2>2. ASSUME PipeStart(p) PROVE G("start", <<AwaitInput(p)>>)
    BY <2>1, <2>2, <1>5 DEF PipeStart
  <2>3. ASSUME PipeReadReady(p) PROVE \E calls : G("read_ready", calls)
    <3> DEFINE call == To(Socket(Input(p)), Ask("read", p))
    <3>1. Polite(call)
      BY <1>1, <1>2
    <3>2. call.to[1] \in Plumbing /\ call.msg.is = "read" /\ call.msg.response = p
      BY <1>7 DEF To, Ask
    <3>3. Gets(p, "read_ready") /\ Does(p, <<call>>) /\ local' = local
      BY <2>3 DEF PipeReadReady
    <3> HIDE DEF call
    <3>4. Fine(call)
      BY <3>1, <3>2, <1>6 DEF Fine, PassesOn
    <3>5. G("read_ready", <<call>>)
      BY <3>3, <3>4, <1>5, <1>8
    <3> QED BY <3>5
  <2>4. ASSUME PipeReadResponse(p) PROVE \E calls : G("read_response", calls)
    <3> DEFINE rd == To(Socket(Input(p)), [is |-> "shutdown", mode |-> "rd"])
               wr == To(Socket(Output(p)), [is |-> "shutdown", mode |-> "wr"])
    <3>1. Good(<<rd, wr>>)
      <4>1. Polite(rd) /\ Polite(wr)
        BY <1>1, <1>4
      <4>2. Silent(rd) /\ Silent(wr)
        BY <1>7 DEF Silent, To
      <4>3. PassesOn(e, rd)
        BY <4>2, SilentPasses
      <4> HIDE DEF rd, wr
      <4> QED BY <4>1, <4>2, <4>3, PoliteFew, SequenceFew DEF Good, Passes, Silent
    <3>2. /\ Gets(p, "read_response")
          /\ \/ Does(p, <<rd, wr>>) /\ local' = local
             \/ /\ local' = [local EXCEPT ![p].at = 1, ![p].left = First(p).bytes]
                /\ Does(p, <<AwaitOutput(p)>>)
      BY <2>4, Zenon DEF PipeReadResponse
    <3> HIDE DEF rd, wr
    <3>3. DOMAIN local' = D /\ local'[Loop] = local[Loop]
      BY <3>2, <1>5
    <3> QED BY <3>1, <3>2, <3>3, <2>1
  <2>5. ASSUME PipeWriteReady(p) PROVE \E calls : G("write_ready", calls)
    <3> DEFINE call == To(Socket(Output(p)), WriteFrom(p, local[p].at, local[p].left))
    <3>1. Polite(call)
      BY <1>1, <1>3
    <3>2. call.to[1] \in Plumbing /\ call.msg.is = "write" /\ call.msg.response = p
      BY <1>7 DEF To, WriteFrom
    <3>3. Gets(p, "write_ready") /\ Does(p, <<call>>) /\ local' = local
      BY <2>5 DEF PipeWriteReady
    <3> HIDE DEF call
    <3>4. Fine(call)
      BY <3>1, <3>2, <1>6 DEF Fine, PassesOn
    <3>5. G("write_ready", <<call>>)
      BY <3>3, <3>4, <1>5, <1>8
    <3> QED BY <3>5
  <2>6. ASSUME PipeWriteResponse(p) PROVE \E calls : G("write_response", calls)
    <3>1. /\ Gets(p, "write_response")
          /\ \/ Does(p, <<>>) /\ local' = local
             \/ /\ local' = [local EXCEPT ![p].at = First(p).at, ![p].left = First(p).left]
                /\ Does(p, <<AwaitOutput(p)>>)
             \/ Does(p, <<AwaitInput(p)>>) /\ local' = local
      BY <2>6, Zenon DEF PipeWriteResponse
    <3>2. DOMAIN local' = D /\ local'[Loop] = local[Loop]
      BY <3>1, <1>5
    <3> QED BY <3>1, <3>2, <2>1, <1>8
  <2> HIDE DEF G
  <2> QED BY <2>2, <2>3, <2>4, <2>5, <2>6 DEF PipeStep, p
<1> HIDE DEF p
<1> QED BY <1>5, <1>10 DEF Moves, e

LEMMA EnvironmentKeeps ==
    ASSUME NEW D, SelectInv(D), Environment
    PROVE  SelectInv(D)'
<1>1. PICK f \in Fds : Arrive(f) \/ Drain(f)
  BY DEF Environment
<1>2. Mail(D) /\ Loop \in D /\ DOMAIN local = D
  BY SocketObjects DEF SelectInv
<1>3. box' = box /\ todo' = todo
  BY <1>1 DEF Arrive, Drain
<1>4. DOMAIN local' = D /\ local'[Loop] = local[Loop]
  BY <1>1, <1>2, LoopIs DEF Arrive, Drain
<1>5. Mail(D)'
  BY <1>2, <1>3, <1>4 DEF Mail
<1> QED BY <1>3, <1>4, <1>5, LoopAlone

LEMMA SocketsKeep ==
    ASSUME NEW D, SelectInv(D), Next
    PROVE  SelectInv(D)'
<1>1. ASSUME NEW o \in Objects, Call(o) PROVE SelectInv(D)'
  <2>1. o \in D
    BY DEF SelectInv, Mail
  <2> QED BY <2>1, <1>1, OtherCalls, LoopCallsOut
<1>2. CASE SelectForward
  BY <1>2, SelectForwards, MovesKeep
<1>3. CASE LoopStep
  BY <1>3, LoopAsked, LoopSelects, LoopSelectReturns, LoopScansOn, LoopGoesOn DEF LoopStep
<1>4. ASSUME NEW f \in Fds, SocketStep(f) PROVE SelectInv(D)'
  BY <1>4, SocketForwards, SocketShuts, SocketReceives, SocketReceivesNot, SocketSends,
     SocketAnswers, SocketAccepts, MovesKeep DEF SocketStep
<1>5. ASSUME NEW f \in Fds, PipeStep(Pipe(f)) PROVE SelectInv(D)'
  BY <1>5, PipeKeeps, MovesKeep
<1>6. CASE Environment
  BY <1>6, EnvironmentKeeps
<1> QED BY <1>1, <1>2, <1>3, <1>4, <1>5, <1>6 DEF Next

\* Everything in flight is in a mailbox or among the calls of a method.
LEMMA InFlightIs ==
    ASSUME NEW D, Mail(D)
    PROVE  /\ \A x : x \in InFlight <=>
                 \/ \E o \in D : \E i \in 1 .. Len(box[o]) : x = <<o, "box", i>>
                 \/ \E o \in D : \E i \in 1 .. Len(todo[o]) : x = <<o, "todo", i>>
           /\ \A o \in D : \A i : Envelope(<<o, "box", i>>) = To(o, box[o][i])
           /\ \A o \in D : \A i : Envelope(<<o, "todo", i>>) = todo[o][i]
<1>1. /\ DOMAIN box = D /\ \A o \in D : DOMAIN box[o] = 1 .. Len(box[o])
      /\ DOMAIN todo = D /\ \A o \in D : DOMAIN todo[o] = 1 .. Len(todo[o])
  BY SequenceLength DEF Mail
<1>2. ASSUME NEW x, x \in InFlight
      PROVE  \/ \E o \in D : \E i \in 1 .. Len(box[o]) : x = <<o, "box", i>>
             \/ \E o \in D : \E i \in 1 .. Len(todo[o]) : x = <<o, "todo", i>>
  <2>1. \/ \E o \in DOMAIN box : x \in {<<o, "box", i>> : i \in DOMAIN box[o]}
        \/ \E o \in DOMAIN todo : x \in {<<o, "todo", i>> : i \in DOMAIN todo[o]}
    BY <1>2, Zenon DEF InFlight
  <2> QED BY <1>1, <2>1
<1>3. ASSUME NEW o \in D, NEW i \in 1 .. Len(box[o])
      PROVE  <<o, "box", i>> \in InFlight
  <2>1. o \in DOMAIN box /\ <<o, "box", i>> \in {<<o, "box", j>> : j \in DOMAIN box[o]}
    BY <1>1
  <2> QED BY <2>1, Zenon DEF InFlight
<1>4. ASSUME NEW o \in D, NEW i \in 1 .. Len(todo[o])
      PROVE  <<o, "todo", i>> \in InFlight
  <2>1. o \in DOMAIN todo /\ <<o, "todo", i>> \in {<<o, "todo", j>> : j \in DOMAIN todo[o]}
    BY <1>1
  <2> QED BY <2>1, Zenon DEF InFlight
<1>5. \A x : x \in InFlight <=>
                 \/ \E o \in D : \E i \in 1 .. Len(box[o]) : x = <<o, "box", i>>
                 \/ \E o \in D : \E i \in 1 .. Len(todo[o]) : x = <<o, "todo", i>>
  BY <1>2, <1>3, <1>4, Zenon
<1>6. \A o \in D : \A i : Envelope(<<o, "box", i>>) = To(o, box[o][i])
  BY DEF Envelope, To
<1>7. \A o \in D : \A i : Envelope(<<o, "todo", i>>) = todo[o][i]
  BY DEF Envelope
<1> QED BY <1>5, <1>6, <1>7

LEMMA OneSelectFollows ==
    ASSUME NEW D, SelectInv(D)
    PROVE  OneSelect
<1> DEFINE b == box[Loop]
           s == todo[Loop]
<1>1. /\ Mail(D) /\ Loop \in D /\ IsSequence(b) /\ IsSequence(s)
      /\ LoopMail(b) /\ LoopCalls(s) /\ ~(Asked(b) /\ AtWork(s))
  BY SocketObjects DEF SelectInv, Mail
<1>2. /\ \A x : x \in InFlight <=>
             \/ \E o \in D : \E i \in 1 .. Len(box[o]) : x = <<o, "box", i>>
             \/ \E o \in D : \E i \in 1 .. Len(todo[o]) : x = <<o, "todo", i>>
      /\ \A o \in D : \A i : Envelope(<<o, "box", i>>) = To(o, box[o][i])
      /\ \A o \in D : \A i : Envelope(<<o, "todo", i>>) = todo[o][i]
  BY <1>1, InFlightIs
<1>3. ASSUME NEW x \in Pending
      PROVE  \/ \E i \in 1 .. Len(b) : x = <<Loop, "box", i>> /\ b[i] = Again
             \/ x = <<Loop, "todo", Len(s)>> /\ AtWork(s)
  <2>0. x \in InFlight /\ (Envelope(x) = DoSelect \/ Envelope(x).to = Kernel)
    BY DEF Pending
  <2>1. ASSUME NEW o \in D, NEW i \in 1 .. Len(box[o]), x = <<o, "box", i>>
        PROVE  o = Loop /\ b[i] = Again
    <3>1. Envelope(x) = To(o, box[o][i])
      BY <2>1, <1>2
    <3>2. To(o, box[o][i]).to = o /\ To(o, box[o][i]).msg = box[o][i]
      BY DEF To
    <3>3. o # Kernel
      BY <1>1 DEF Mail
    <3>4. To(o, box[o][i]) = DoSelect
      BY <2>0, <3>1, <3>2, <3>3
    <3> QED BY <3>2, <3>4, LoopIs
  <2>2. ASSUME NEW o \in D, NEW i \in 1 .. Len(todo[o]), x = <<o, "todo", i>>
        PROVE  o = Loop /\ i = Len(s) /\ AtWork(s)
    <3>1. todo[o][i] = DoSelect \/ todo[o][i].to = Kernel
      BY <2>0, <2>2, <1>2
    <3>2. todo[o][i] \in Range(todo[o])
      BY <1>1, SequenceLength DEF Mail
    <3>3. o = Loop
      <4> SUFFICES ASSUME o # Loop PROVE FALSE
        OBVIOUS
      <4>1. Polite(todo[o][i])
        BY <3>2, <1>1 DEF Mail
      <4> QED BY <3>1, <4>1, LoopIs DEF Polite
    <3>4. s[i].to \in {Loop, Kernel} /\ s[i] \in Range(s) /\ i \in 1 .. Len(s) /\ Len(s) \in Nat
      BY <3>1, <3>2, <3>3, <1>1, SequenceLength, LoopIs
    <3>5. i \notin 1 .. Len(s) - 1
      BY <3>4, <1>1 DEF LoopCalls
    <3> QED BY <3>3, <3>4, <3>5 DEF AtWork
  <2> QED BY <2>0, <2>1, <2>2, <1>2
<1>4. ASSUME NEW x \in Pending, NEW y \in Pending PROVE x = y
  <2>1. CASE AtWork(s)
    <3>1. ~(\E i \in 1 .. Len(b) : b[i] = Again)
      BY <2>1, <1>1, SequenceLength DEF Asked
    <3> QED BY <3>1, <1>3
  <2>2. CASE ~AtWork(s)
    <3>1. PICK i \in 1 .. Len(b) : x = <<Loop, "box", i>> /\ b[i] = Again
      BY <2>2, <1>3
    <3>2. PICK j \in 1 .. Len(b) : y = <<Loop, "box", j>> /\ b[j] = Again
      BY <2>2, <1>3
    <3>3. i = j
      BY <3>1, <3>2, <1>1 DEF LoopMail
    <3> QED BY <3>1, <3>2, <3>3
  <2> QED BY <2>1, <2>2
<1>5. Cardinality(Pending) <= 1
  <2>1. CASE Pending = {}
    BY <2>1, FS_EmptySet
  <2>2. CASE Pending # {}
    <3>1. PICK x : x \in Pending
      BY <2>2
    <3>2. Pending = {x}
      BY <3>1, <1>4
    <3> QED BY <3>2, FS_Singleton
  <2> QED BY <2>1, <2>2
<1>6. ASSUME ~NobodyWaits PROVE Pending # {}
  <2>1. CASE Asked(b)
    <3>1. PICK i \in 1 .. Len(b) : Again = b[i]
      BY <2>1, <1>1, SequenceLength DEF Asked
    <3>2. Envelope(<<Loop, "box", i>>) = DoSelect
      BY <3>1, <1>1, <1>2 DEF DoSelect, Again
    <3>3. <<Loop, "box", i>> \in InFlight
      BY <1>1, <1>2
    <3> QED BY <3>2, <3>3 DEF Pending
  <2>2. CASE AtWork(s)
    <3>1. PICK c \in Range(s) : c.to \in {Loop, Kernel}
      BY <2>2 DEF AtWork
    <3>2. PICK i \in 1 .. Len(s) : c = s[i]
      BY <3>1, <1>1, SequenceLength
    <3>3. c = DoSelect \/ c.to = Kernel
      BY <3>1, <1>1 DEF LoopCalls, To
    <3>4. Envelope(<<Loop, "todo", i>>) = c
      BY <3>2, <1>1, <1>2
    <3>5. <<Loop, "todo", i>> \in InFlight
      BY <1>1, <1>2
    <3> QED BY <3>3, <3>4, <3>5 DEF Pending
  <2> QED BY <2>1, <2>2, <1>6 DEF SelectInv
<1> QED BY <1>5, <1>6 DEF OneSelect

-----------------------------------------------------------------------------
(* One do_select: echo.cpp *)

\* The programs start with select_loop idle.
LEMMA StartsIdle ==
    ASSUME NEW D, Objects \subseteq D, Kernel \notin D,
           NEW members, NEW messages, Starts(members, messages),
           DOMAIN members = D, DOMAIN messages = D,
           members[Loop] = EmptyLoop, messages[Loop] = <<>>,
           \A o \in D : IsSequence(messages[o]) /\ \A m \in Range(messages[o]) : Sane(m)
    PROVE  SelectInv(D)
<1>1. /\ local = members /\ box = messages /\ todo = [o \in D |-> <<>>]
  BY DEF Starts
<1>2. Loop \in D
  BY Zenon DEF Objects
<1>3. /\ IsSequence(<<>>) /\ Len(<<>>) = 0 /\ Range(<<>>) = {}
      /\ 1 .. 0 - 1 = {} /\ 1 .. 0 = {}
  BY SequenceFew
<1>4. Mail(D)
  BY <1>1, <1>3 DEF Mail
<1>5. local[Loop] = EmptyLoop /\ box[Loop] = <<>> /\ todo[Loop] = <<>>
  BY <1>1, <1>2
<1>6. LoopLists /\ NobodyWaits
  BY <1>3, <1>5 DEF LoopLists, EmptyLoop, NobodyWaits
<1>7. LoopMail(<<>>) /\ LoopCalls(<<>>) /\ ~Asked(<<>>) /\ ~AtWork(<<>>) /\ ~Asks(<<>>)
  BY <1>3 DEF LoopMail, LoopCalls, Asked, AtWork, Asks
<1> QED BY <1>4, <1>5, <1>6, <1>7 DEF SelectInv

LEMMA ObjectsAre ==
    /\ Kernel \notin Objects /\ Loop \in Objects
    /\ Members[Loop] = EmptyLoop /\ NoMessages[Loop] = <<>>
    /\ DOMAIN Members = Objects /\ DOMAIN NoMessages = Objects
    /\ \A o \in Objects : NoMessages[o] = <<>>
<1>1. Kernel \notin Objects
  <2>1. Kernel \notin {Select, Loop, Wake}
    BY LoopIs
  <2>2. \A f \in Fds : Kernel \notin {Fd(f), Socket(f), Reader(f), Writer(f), Pipe(f)}
    BY LoopIs
  <2> QED BY <2>1, <2>2, Zenon DEF Objects
<1>2. Loop \in Objects
  BY Zenon DEF Objects
<1>3. Members[Loop] = EmptyLoop
  <2>1. Loop[1] # "fd"
    BY DEF Loop
  <2> QED BY <1>2, <2>1 DEF Members
<1>4. NoMessages[Loop] = <<>>
  BY <1>2 DEF NoMessages
<1> QED BY <1>1, <1>2, <1>3, <1>4 DEF Members, NoMessages

LEMMA SaneStart ==
    /\ IsSequence(<<>>) /\ \A m \in Range(<<>>) : Sane(m)
    /\ IsSequence(<<Plain("start")>>) /\ \A m \in Range(<<Plain("start")>>) : Sane(m)
    /\ Sane(Plain("start"))
<1>1. Sane(Plain("start"))
  BY DEF Plain, Sane, Requests
<1> QED BY <1>1, SequenceFew

\* echo.cpp
LEMMA EchoStarts ==
    ASSUME Init
    PROVE  SelectInv(Objects)
<1> DEFINE members == [Members EXCEPT ![Pipe(0)] = NewPipe(1)]
           messages == [NoMessages EXCEPT ![Pipe(0)] = <<Plain("start")>>]
<1>1. Starts(members, messages)
  BY DEF Init
<1>2. DOMAIN members = Objects /\ DOMAIN messages = Objects
  BY ObjectsAre
<1>3. members[Loop] = EmptyLoop /\ messages[Loop] = <<>>
  BY ObjectsAre, LoopIs
<1>4. \A o \in Objects : messages[o] \in {<<>>, <<Plain("start")>>}
  BY ObjectsAre
<1> HIDE DEF members, messages
<1>5. \A o \in Objects : IsSequence(messages[o]) /\ \A m \in Range(messages[o]) : Sane(m)
  BY <1>4, SaneStart
<1> QED BY <1>1, <1>2, <1>3, <1>5, StartsIdle, ObjectsAre

\* Nothing changes.
LEMMA NothingKeeps ==
    ASSUME NEW D, SelectInv(D), UNCHANGED state
    PROVE  SelectInv(D)'
<1>1. local' = local /\ box' = box /\ todo' = todo
  BY DEF state
<1>2. Mail(D) /\ Mail(D)'
  BY <1>1 DEF SelectInv, Mail
<1> QED BY <1>1, <1>2, LoopAlone

\* Safety of echo.cpp, for any descriptors, buffers and threads: select_loop has at
\* most one do_select before it or in progress, and has one while somebody waits,
\* whichever of its three ways to ask for it is taken (active_socket.cpp:217-291).
THEOREM OneSelectHolds == Init /\ [][Next]_state => []OneSelect
<1>1. Init => SelectInv(Objects)
  BY EchoStarts
<1>2. SelectInv(Objects) /\ [Next]_state => SelectInv(Objects)'
  <2> SUFFICES ASSUME SelectInv(Objects), [Next]_state PROVE SelectInv(Objects)'
    OBVIOUS
  <2>1. CASE Next
    BY <2>1, SocketsKeep
  <2>2. CASE UNCHANGED state
    BY <2>2, NothingKeeps
  <2> QED BY <2>1, <2>2
<1>3. SelectInv(Objects) => OneSelect
  BY OneSelectFollows
<1> QED BY <1>1, <1>2, <1>3, PTL

-----------------------------------------------------------------------------
(* One do_select: echo_server.cpp *)

LEMMA ServerIs ==
    /\ Server # Loop /\ Server # Kernel /\ Server \in ServerObjects
    /\ \A f : Connection(f) # Loop /\ Connection(f) # Kernel
    /\ \A f \in Fds : Connection(f) \in ServerObjects
    /\ Kernel \notin ServerObjects /\ Loop \notin ServerObjects
<1>1. Server # Loop /\ Server # Kernel /\ \A f : Connection(f) # Loop /\ Connection(f) # Kernel
  BY DEF Server, Connection, Loop, Kernel
<1> QED BY <1>1, Zenon DEF ServerObjects

LEMMA ServerStarts ==
    ASSUME ServerInit
    PROVE  SelectInv(AllServerObjects)
<1> DEFINE D == AllServerObjects
           members == [o \in Objects \cup ServerObjects |->
              CASE o = Fd(Listener) -> [Open(Listener) EXCEPT !.server = "idle"]
                [] o[1] = "pipe" -> NewPipe(o[2])
                [] o \in Objects \ {Fd(Listener)} -> Members[o]
                [] OTHER -> <<>>]
           messages == [o \in Objects \cup ServerObjects |->
              IF o = Server THEN <<Plain("start")>> ELSE <<>>]
<1>1. Starts(members, messages)
  BY DEF ServerInit
<1>2. Objects \subseteq D /\ Kernel \notin D /\ Loop \in D
  BY ObjectsAre, ServerIs DEF AllServerObjects
<1>3. DOMAIN members = D /\ DOMAIN messages = D
  BY DEF AllServerObjects
<1>4. members[Loop] = EmptyLoop
  <2>1. Loop # Fd(Listener) /\ Loop[1] # "pipe" /\ Loop \in Objects \ {Fd(Listener)}
        /\ Members[Loop] = EmptyLoop
    <3>1. Loop[1] = "select_loop"
      BY DEF Loop
    <3> QED BY <3>1, ObjectsAre, LoopIs
  <2> QED BY <2>1
<1>5. messages[Loop] = <<>>
  BY <1>2, ServerIs DEF AllServerObjects
<1>6. \A o \in D : messages[o] \in {<<>>, <<Plain("start")>>}
  BY DEF AllServerObjects
<1> HIDE DEF members, messages, D
<1>7. \A o \in D : IsSequence(messages[o]) /\ \A m \in Range(messages[o]) : Sane(m)
  BY <1>6, SaneStart
<1>8. SelectInv(D)
  BY <1>1, <1>2, <1>3, <1>4, <1>5, <1>7, StartsIdle
<1> QED BY <1>8 DEF D

LEMMA ServerKeeps ==
    ASSUME NEW D, D = AllServerObjects, SelectInv(D), ServerNext
    PROVE  SelectInv(D)'
<1>0. Server \in D /\ DOMAIN local = D /\ ServerObjects \subseteq D
  BY ServerIs DEF AllServerObjects, SelectInv, Mail
<1>1. CASE Next
  BY <1>1, SocketsKeep
<1>2. ASSUME NEW o \in ServerObjects, Call(o) PROVE SelectInv(D)'
  BY <1>0, <1>2, ServerIs, OtherCalls
<1>3. ASSUME ServerStep, ~\E f \in Fds : ConnectionStart(f)
      PROVE  SelectInv(D)'
  <2> DEFINE G(type, calls) == /\ Gets(Server, type) /\ Does(Server, calls)
                               /\ PoliteCalls(calls) /\ local' = local
             asks(type) == To(Socket(Listener), Ask(type, Server))
  <2>1. \A type : Polite(asks(type))
    <3>1. \A type : Sane(Ask(type, Server))
      BY ServerIs DEF Sane, Ask
    <3> QED BY <3>1, PoliteTo, LoopIs
  <2>2. Polite(AwaitConnection)
    <3>1. Sane(Wait("read", Listener, Server))
      BY ServerIs DEF Sane, Wait
    <3> QED BY <3>1, PoliteTo, LoopIs DEF AwaitConnection
  <2>3. \A f : Polite(To(Connection(f), Plain("start")))
    BY ServerIs, PoliteTo, SaneStart
  <2>4. /\ \A type : PoliteCalls(<<asks(type)>>)
        /\ PoliteCalls(<<AwaitConnection>>) /\ PoliteCalls(<<>>)
    BY <2>1, <2>2, PoliteFew
  <2>5. ASSUME Start PROVE G("start", <<asks("bind_in")>>)
    BY <2>4, <2>5 DEF Start
  <2>6. ASSUME BindResponse PROVE \E calls : G("bind_response", calls)
    <3> DEFINE calls == IF First(Server).error THEN <<>> ELSE <<asks("listen")>>
    <3>1. G("bind_response", calls)
      BY <2>4, <2>6 DEF BindResponse
    <3> QED BY <3>1
  <2>7. ASSUME ListenResult PROVE \E calls : G("listen_result", calls)
    <3> DEFINE calls == IF First(Server).error THEN <<>> ELSE <<AwaitConnection>>
    <3>1. G("listen_result", calls)
      BY <2>4, <2>7 DEF ListenResult
    <3> QED BY <3>1
  <2>8. ASSUME ReadReady PROVE G("read_ready", <<asks("accept")>>)
    BY <2>4, <2>8 DEF ReadReady
  <2>9. ASSUME AcceptResponse PROVE \E calls : G("accept_response", calls)
    <3> DEFINE hello == IF First(Server).error THEN <<>>
                        ELSE <<To(Connection(First(Server).fd), Plain("start"))>>
               calls == hello \o <<AwaitConnection>>
    <3>1. PoliteCalls(hello)
      BY <2>3, PoliteFew
    <3>2. PoliteCalls(calls)
      <4> HIDE DEF hello
      <4> QED BY <3>1, <2>4, PoliteFew
    <3>3. Gets(Server, "accept_response") /\ Does(Server, calls) /\ local' = local
      BY <2>9, Zenon DEF AcceptResponse
    <3> HIDE DEF calls
    <3> QED BY <3>2, <3>3
  <2> HIDE DEF G
  <2>10. \E type, calls : G(type, calls)
    BY <1>3, <2>5, <2>6, <2>7, <2>8, <2>9 DEF ServerStep
  <2> QED BY <1>0, <2>10, ServerIs, MethodKeeps DEF G
<1>4. ASSUME NEW f \in Fds, ConnectionStart(f) PROVE SelectInv(D)'
  <2>1. Polite(To(Pipe(f), Plain("start")))
    BY LoopIs, PoliteTo, SaneStart
  <2>2. PoliteCalls(<<To(Pipe(f), Plain("start"))>>)
    BY <2>1, PoliteFew
  <2>3. /\ Gets(Connection(f), "start") /\ local' = local
        /\ Does(Connection(f), <<To(Pipe(f), Plain("start"))>>)
    BY <1>4 DEF ConnectionStart
  <2>4. Connection(f) \in D
    BY <1>0, ServerIs
  <2> QED BY <1>0, <2>2, <2>3, <2>4, ServerIs, MethodKeeps
<1> QED BY <1>1, <1>2, <1>3, <1>4 DEF ServerNext, ServerStep

\* The same when a server and any number of connections share the loop
\* (echo_server.cpp).
THEOREM ServerOneSelectHolds == ServerInit /\ [][ServerNext]_state => []OneSelect
<1>1. ServerInit => SelectInv(AllServerObjects)
  BY ServerStarts
<1>2. SelectInv(AllServerObjects) /\ [ServerNext]_state => SelectInv(AllServerObjects)'
  <2> DEFINE D == AllServerObjects
  <2>1. ASSUME SelectInv(D), ServerNext PROVE SelectInv(D)'
    BY <2>1, ServerKeeps
  <2>2. ASSUME SelectInv(D), UNCHANGED state PROVE SelectInv(D)'
    BY <2>2, NothingKeeps
  <2> QED BY <2>1, <2>2
<1>3. SelectInv(AllServerObjects) => OneSelect
  BY OneSelectFollows
<1> QED BY <1>1, <1>2, <1>3, PTL

-----------------------------------------------------------------------------
(* One do_select: echo_client.cpp *)

\* Nothing in Sockets.tla changes who an echo_client is to notify, or what it has
\* been told.
SameNotify ==
    \A o \in DOMAIN local : \A m \in {"m_notify", "m_connected", "m_pipe"} :
        m \in DOMAIN local[o] => m \in DOMAIN local'[o] /\ local'[o][m] = local[o][m]

LEMMA SameLocal == local' = local => SameNotify
BY DEF SameNotify

LEMMA LoopNotifies ==
    ASSUME LoopStep
    PROVE  SameNotify
<1>1. ASSUME LoopRead \/ LoopWrite PROVE SameNotify
  BY <1>1 DEF LoopRead, LoopWrite, SameNotify
<1>2. ASSUME LoopSelect \/ LoopAgain PROVE SameNotify
  BY <1>2, SameLocal DEF LoopSelect, LoopAgain
<1>3. ASSUME SelectReturns PROVE SameNotify
  <2> DEFINE rest == Among(local[Loop].readers,
                           Range(local[Loop].readers)
                              \ {r \in Range(local[Loop].readers) : Readable(r.fd)})
  <2>1. local' = [local EXCEPT ![Loop].readers = rest]
    BY <1>3, Zenon DEF SelectReturns
  <2> HIDE DEF rest
  <2> QED BY <2>1 DEF SameNotify
<1>4. ASSUME ScanWriter PROVE SameNotify
  <2> DEFINE rest == RemoveAt(local[Loop].writers, Calling(Loop).msg.w)
  <2>1. local' = local \/ local' = [local EXCEPT ![Loop].writers = rest]
    BY <1>4, Zenon DEF ScanWriter
  <2> HIDE DEF rest
  <2> QED BY <2>1 DEF SameNotify
<1> QED BY <1>1, <1>2, <1>3, <1>4 DEF LoopStep

LEMMA SocketNotifies ==
    ASSUME NEW f \in Fds, SocketStep(f)
    PROVE  SameNotify
<1>1. ASSUME SocketForward(f) PROVE SameNotify
  BY <1>1, SameLocal DEF SocketForward
<1>2. ASSUME SocketShutdown(f) PROVE SameNotify
  BY <1>2 DEF SocketShutdown, SameNotify
<1>3. ASSUME Recv(f) PROVE SameNotify
  <2> DEFINE p == First(Reader(f)).response
             rest(n) == SubSeq(local[Fd(f)].input, n + 1, Len(local[Fd(f)].input))
             bytes(n) == SubSeq(local[Fd(f)].input, 1, n)
  <2>1. PICK n \in 0 .. MaxBuffer :
          local' = [local EXCEPT ![Fd(f)].input = SubSeq(@, n + 1, Len(@)),
                                 ![p].m_buffer = IF n = 0 THEN @ ELSE bytes(n)]
    BY <1>3, Zenon DEF Recv
  <2> HIDE DEF p, bytes
  <2> QED BY <2>1 DEF SameNotify
<1>4. ASSUME RecvFails(f) PROVE SameNotify
  BY <1>4 DEF RecvFails, SameNotify
<1>5. ASSUME Send(f) PROVE SameNotify
  <2>1. ASSUME NEW n, SendBytes(f, n) PROVE SameNotify
    <3> DEFINE m == First(Writer(f))
               bytes == SubSeq(local[m.response].m_buffer, m.at, m.at + n - 1)
    <3>1. PICK room \in IF f \in Stalls THEN BOOLEAN ELSE {TRUE} :
             local' = [local EXCEPT ![Fd(f)].output = @ \o bytes,
                                    ![Fd(f)].coming = IF local[Fd(f)].peer THEN @ \o bytes ELSE @,
                                    ![Fd(f)].room = room]
      BY <2>1, Zenon DEF SendBytes
    <3> HIDE DEF bytes
    <3> QED BY <3>1 DEF SameNotify
  <2>2. ASSUME SendFails(f) PROVE SameNotify
    BY <2>2 DEF SendFails, SameNotify
  <2> QED BY <1>5, <2>1, <2>2 DEF Send
<1>6. ASSUME Connect(f) \/ Bind(f) PROVE SameNotify
  <2>1. PICK error \in BOOLEAN : local' = [local EXCEPT ![Fd(f)].failed = error]
    BY <1>6, Zenon DEF Connect, Bind
  <2> QED BY <2>1 DEF SameNotify
<1>7. ASSUME Listen(f) PROVE SameNotify
  <2>1. PICK ok \in BOOLEAN, errno \in BOOLEAN :
           local' = [local EXCEPT ![Fd(f)].server = IF ok THEN "listening" ELSE @,
                                  ![Fd(f)].failed = ~ok \/ errno]
    BY <1>7, Zenon DEF Listen
  <2> QED BY <2>1 DEF SameNotify
<1>8. ASSUME Accept(f) PROVE SameNotify
  <2>1. local' = local \/ local' = [local EXCEPT ![Fd(f)].input = Tail(@)]
    BY <1>8, Zenon DEF Accept
  <2> QED BY <2>1 DEF SameNotify
<1> QED BY <1>1, <1>2, <1>3, <1>4, <1>5, <1>6, <1>7, <1>8 DEF SocketStep

LEMMA SocketsNotify ==
    ASSUME Next
    PROVE  SameNotify
<1>1. ASSUME NEW o, Call(o) PROVE SameNotify
  BY <1>1, SameLocal DEF Call
<1>2. CASE SelectForward
  BY <1>2, SameLocal DEF SelectForward
<1>3. CASE LoopStep
  BY <1>3, LoopNotifies
<1>4. ASSUME NEW f \in Fds, SocketStep(f) PROVE SameNotify
  BY <1>4, SocketNotifies
<1>5. ASSUME NEW f \in Fds, PipeStep(Pipe(f)) PROVE SameNotify
  <2> DEFINE p == Pipe(f)
  <2>1. \/ local' = local
        \/ local' = [local EXCEPT ![p].at = 1, ![p].left = First(p).bytes]
        \/ local' = [local EXCEPT ![p].at = First(p).at, ![p].left = First(p).left]
    BY <1>5, Zenon DEF PipeStep, PipeStart, PipeReadReady, PipeReadResponse,
                       PipeWriteReady, PipeWriteResponse
  <2> HIDE DEF p
  <2> QED BY <2>1 DEF SameNotify
<1>6. CASE Environment
  <2>1. PICK f \in Fds : Arrive(f) \/ Drain(f)
    BY <1>6 DEF Environment
  <2> QED BY <2>1 DEF Arrive, Drain, SameNotify
<1> QED BY <1>1, <1>2, <1>3, <1>4, <1>5, <1>6 DEF Next

LEMMA ClientsAre ==
    /\ InputObject # Loop /\ InputObject # Kernel /\ InputObject \in ClientObjects
    /\ \A f : Client(f) # Loop /\ Client(f) # Kernel /\ Client(f)[1] = "echo_client"
    /\ \A f, g : Client(f) # Pipe(g)
    /\ \A f, g : Client(f) = Client(g) => f = g
    /\ \A f \in Range(Clients) : Client(f) \in ClientObjects
    /\ Kernel \notin ClientObjects /\ Loop \notin ClientObjects
    /\ Loop[1] # "echo_client" /\ InputObject[1] # "echo_client"
<1>1. /\ InputObject # Loop /\ InputObject # Kernel
      /\ \A f : Client(f) # Loop /\ Client(f) # Kernel /\ Client(f)[1] = "echo_client"
      /\ \A f, g : Client(f) # Pipe(g)
      /\ \A f, g : Client(f) = Client(g) => f = g
      /\ Loop[1] # "echo_client" /\ InputObject[1] # "echo_client"
  BY DEF InputObject, Client, Loop, Kernel, Pipe
<1> QED BY <1>1, Zenon DEF ClientObjects

LEMMA ClientStarts ==
    ASSUME ClientInit
    PROVE  ClientInv
<1> DEFINE D == AllClientObjects
           at(o) == CHOOSE j \in DOMAIN Clients : Clients[j] = o[2]
           out(o) == IF at(o) = Len(Clients) THEN <<Connected(StdOut)>> ELSE <<>>
           sent(o) == <<Ask("init", Before(at(o)))>> \o out(o)
           client == [m_connected |-> FALSE, m_pipe |-> FALSE, m_notify |-> InputObject]
           members == [o \in Objects \cup ClientObjects |->
              IF o[1] = "echo_client" THEN client
              ELSE IF o \in Objects THEN Members[o] ELSE <<>>]
           messages == [o \in Objects \cup ClientObjects |->
              IF o[1] # "echo_client" THEN <<>> ELSE sent(o)]
<1>1. Starts(members, messages)
  BY Zenon DEF ClientInit
<1>2. Objects \subseteq D /\ Kernel \notin D /\ Loop \in D
  BY ObjectsAre, ClientsAre DEF AllClientObjects
<1>3. \A o : IsSequence(sent(o)) /\ \A m \in Range(sent(o)) : Sane(m)
  <2>1. ASSUME NEW o
        PROVE  IsSequence(sent(o)) /\ \A m \in Range(sent(o)) : Sane(m)
    <3>1. Before(at(o)) \notin {Loop, Kernel}
      BY ClientsAre, Zenon DEF Before
    <3>2. Sane(Ask("init", Before(at(o))))
      BY <3>1 DEF Sane, Ask
    <3>3. Sane(Connected(StdOut))
      BY DEF Sane, Connected, Requests
    <3>4. IsSequence(out(o)) /\ \A m \in Range(out(o)) : Sane(m)
      <4> HIDE DEF at
      <4> QED BY <3>3, SequenceFew
    <3> DEFINE first == Ask("init", Before(at(o)))
    <3>5. IsSequence(<<first>>) /\ Range(<<first>>) = {first}
      BY SequenceFew
    <3>6. sent(o) = <<first>> \o out(o)
      OBVIOUS
    <3> HIDE DEF first, out, sent
    <3> QED BY <3>2, <3>4, <3>5, <3>6, SequenceConcat DEF first
  <2> QED BY <2>1
<1> HIDE DEF sent, client
<1>4. DOMAIN members = D /\ DOMAIN messages = D
  BY DEF AllClientObjects
<1>5. members[Loop] = EmptyLoop /\ messages[Loop] = <<>>
  BY ObjectsAre, ClientsAre
<1>6. \A o \in D : IsSequence(messages[o]) /\ \A m \in Range(messages[o]) : Sane(m)
  <2>1. \A o \in D : messages[o] \in {<<>>, sent(o)}
    BY DEF AllClientObjects
  <2> HIDE DEF messages
  <2> QED BY <1>3, <2>1, SaneStart
<1>7. \A f \in Range(Clients) : members[Client(f)] = client
  BY ClientsAre
<1> HIDE DEF members, messages, D
<1>8. SelectInv(D)
  BY <1>1, <1>2, <1>4, <1>5, <1>6, StartsIdle
<1>9. Notifies
  <2>1. local = members
    BY <1>1 DEF Starts
  <2>2. "m_notify" \in DOMAIN client /\ client.m_notify = InputObject
    BY DEF client
  <2> QED BY <1>7, <2>1, <2>2, ClientsAre DEF Notifies
<1> QED BY <1>8, <1>9 DEF ClientInv, D

LEMMA StartsPipePolitely ==
    \A f, when : PoliteCalls(StartPipe(f, when))
<1> SUFFICES ASSUME NEW f, NEW when PROVE PoliteCalls(StartPipe(f, when))
  OBVIOUS
<1>1. Polite(To(Pipe(f), Plain("start")))
  BY LoopIs, PoliteTo, SaneStart
<1> QED BY <1>1, PoliteFew DEF StartPipe

\* A method of an echo_client.
LEMMA ClientKeeps ==
    ASSUME ClientInv, NEW f \in Range(Clients), ClientStep(f)
    PROVE  ClientInv'
<1> DEFINE D == AllClientObjects
           o == Client(f)
<1>1. /\ SelectInv(D) /\ Notifies /\ DOMAIN local = D /\ Loop \in D
      /\ \A g \in Range(Clients) : Client(g) \in D
  BY SocketObjects, ClientsAre DEF ClientInv, AllClientObjects
<1>2. /\ o # Loop /\ o \in D /\ \A g : Client(g) # Pipe(f) /\ Pipe(f) # Loop
      /\ \A g : g # f => Client(g) # o
  BY <1>1, ClientsAre, LoopIs
<1> DEFINE G(type, calls) == /\ Gets(o, type) /\ Does(o, calls) /\ PoliteCalls(calls)
                             /\ DOMAIN local' = D /\ local'[Loop] = local[Loop]
                             /\ Notifies'
<1>3. ASSUME ClientSetsOff(f) PROVE \E calls : G("init", calls)
  <2> DEFINE r == First(o).response
             call == To(Socket(f), Ask("connect_in", o))
  <2>1. /\ Gets(o, "init") /\ Does(o, <<call>>)
        /\ local' = [local EXCEPT ![o].m_notify = r, ![o].m_connected = FALSE]
    BY <1>3 DEF ClientSetsOff
  <2>2. r \notin {Loop, Kernel}
    BY <1>1, <1>2, <2>1, FirstIs DEF Sane, Requests
  <2>3. Sane(Ask("connect_in", o))
    BY ClientsAre DEF Sane, Ask
  <2>4. PoliteCalls(<<call>>)
    BY <2>3, PoliteTo, PoliteFew, LoopIs
  <2> HIDE DEF r, call, o, D
  <2>5. DOMAIN local' = D /\ local'[Loop] = local[Loop]
    BY <1>1, <1>2, <2>1
  <2>6. Notifies'
    <3>1. "m_notify" \in DOMAIN local[o]
      BY <1>1 DEF Notifies, o
    <3>2. "m_notify" \in DOMAIN local'[o] /\ local'[o].m_notify = r
      BY <1>1, <1>2, <2>1, <3>1
    <3>3. \A p \in D : p # o => local'[p] = local[p]
      BY <1>1, <2>1
    <3> QED BY <1>1, <1>2, <2>2, <3>2, <3>3 DEF Notifies, o
  <2> QED BY <2>1, <2>4, <2>5, <2>6
<1>4. ASSUME ConnectResponse(f) PROVE \E calls : G("connect_response", calls)
  <2> DEFINE call == To(local[o].m_notify, Connected(f))
             start == StartPipe(f, local[o].m_pipe)
  <2>1. /\ Gets(o, "connect_response")
        /\ \/ Does(o, <<>>) /\ local' = local
           \/ /\ local' = [local EXCEPT ![o].m_connected = TRUE]
              /\ Does(o, <<call>> \o start)
    BY <1>4, Zenon DEF ConnectResponse
  <2>2. PoliteCalls(<<>>) /\ PoliteCalls(<<call>> \o start)
    <3>1. Sane(Connected(f))
      BY DEF Sane, Connected, Requests
    <3>2. local[o].m_notify \notin {Loop, Kernel}
      BY <1>1 DEF Notifies
    <3>3. Polite(call)
      BY <3>1, <3>2, PoliteTo
    <3>4. PoliteCalls(<<call>>)
      BY <3>3, PoliteFew
    <3>5. PoliteCalls(start)
      BY StartsPipePolitely
    <3> HIDE DEF call, start
    <3> QED BY <3>4, <3>5, PoliteFew
  <2> HIDE DEF call, start, o, D
  <2>3. DOMAIN local' = D /\ local'[Loop] = local[Loop]
    BY <1>1, <1>2, <2>1
  <2>4. Notifies'
    <3>1. \A g \in Range(Clients) : /\ "m_notify" \in DOMAIN local'[Client(g)]
                                    /\ local'[Client(g)].m_notify = local[Client(g)].m_notify
      BY <1>1, <2>1 DEF Notifies
    <3> QED BY <1>1, <3>1 DEF Notifies
  <2> QED BY <2>1, <2>2, <2>3, <2>4
<1>5. ASSUME NeighbourConnected(f) PROVE \E calls : G("connected", calls)
  <2> DEFINE pipe == NewPipe(First(o).sock)
             start == StartPipe(f, local[o].m_connected)
  <2>1. /\ Gets(o, "connected") /\ Does(o, start)
        /\ local' = [local EXCEPT ![o].m_pipe = TRUE, ![Pipe(f)] = pipe]
    BY <1>5 DEF NeighbourConnected
  <2>2. PoliteCalls(start)
    BY StartsPipePolitely
  <2> HIDE DEF pipe, start, o, D
  <2>3. DOMAIN local' = D /\ local'[Loop] = local[Loop]
    BY <1>1, <1>2, <2>1
  <2>4. Notifies'
    <3>1. \A g \in Range(Clients) : /\ "m_notify" \in DOMAIN local'[Client(g)]
                                    /\ local'[Client(g)].m_notify = local[Client(g)].m_notify
      BY <1>1, <1>2, <2>1 DEF Notifies
    <3> QED BY <1>1, <3>1 DEF Notifies
  <2> QED BY <2>1, <2>2, <2>3, <2>4
<1> HIDE DEF G
<1>6. PICK type, calls : G(type, calls)
  BY <1>3, <1>4, <1>5 DEF ClientStep
<1> QED BY <1>1, <1>2, <1>6, MethodKeeps DEF G, ClientInv

LEMMA ClientsKeep ==
    ASSUME ClientInv, ClientNext
    PROVE  ClientInv'
<1> DEFINE D == AllClientObjects
<1>1. /\ SelectInv(D) /\ Notifies /\ DOMAIN local = D /\ Loop \in D
      /\ \A g \in Range(Clients) : Client(g) \in D
      /\ ClientObjects \subseteq D /\ InputObject \in D
  BY SocketObjects, ClientsAre DEF ClientInv, AllClientObjects
<1> HIDE DEF D
<1>2. SameNotify => Notifies'
  BY <1>1 DEF SameNotify, Notifies
<1>3. CASE Next
  BY <1>1, <1>2, <1>3, SocketsKeep, SocketsNotify DEF ClientInv, D
<1>4. ASSUME NEW o \in ClientObjects, Call(o) PROVE ClientInv'
  <2>1. SelectInv(D)'
    BY <1>1, <1>4, ClientsAre, OtherCalls
  <2>2. SameNotify
    BY <1>4, SameLocal DEF Call
  <2> QED BY <1>2, <2>1, <2>2 DEF ClientInv, D
<1>5. ASSUME NEW f \in Range(Clients), ClientStep(f) PROVE ClientInv'
  BY <1>5, ClientKeeps
<1>6. CASE InputConnected
  <2> DEFINE pipe == NewPipe(First(InputObject).sock)
             calls == <<To(Pipe(StdIn), Plain("start"))>>
  <2>1. /\ Gets(InputObject, "connected") /\ Does(InputObject, calls)
        /\ local' = [local EXCEPT ![Pipe(StdIn)] = pipe]
    BY <1>6 DEF InputConnected
  <2>2. PoliteCalls(calls)
    BY LoopIs, PoliteTo, SaneStart, PoliteFew
  <2> HIDE DEF pipe, calls
  <2>3. DOMAIN local' = D /\ local'[Loop] = local[Loop]
    BY <1>1, <2>1, LoopIs
  <2>4. SelectInv(D)'
    BY <1>1, <2>1, <2>2, <2>3, ClientsAre, MethodKeeps
  <2>5. \A g \in Range(Clients) : local'[Client(g)] = local[Client(g)]
    BY <1>1, <2>1, ClientsAre
  <2> QED BY <1>1, <2>4, <2>5 DEF ClientInv, Notifies, D
<1> QED BY <1>3, <1>4, <1>5, <1>6 DEF ClientNext

\* The same for a chain of any number of clients (echo_client.cpp).
THEOREM ClientOneSelectHolds == ClientInit /\ [][ClientNext]_state => []OneSelect
<1>1. ClientInit => ClientInv
  BY ClientStarts
<1>2. ClientInv /\ [ClientNext]_state => ClientInv'
  <2>1. ASSUME ClientInv, UNCHANGED state PROVE ClientInv'
    <3>1. SelectInv(AllClientObjects)'
      BY <2>1, NothingKeeps DEF ClientInv
    <3>2. local' = local
      BY <2>1 DEF state
    <3> QED BY <2>1, <3>1, <3>2 DEF ClientInv, Notifies
  <2> QED BY <2>1, ClientsKeep
<1>3. ClientInv => OneSelect
  BY OneSelectFollows DEF ClientInv
<1> QED BY <1>1, <1>2, <1>3, PTL

-----------------------------------------------------------------------------
(* What is in flight for somebody *)

One(e, k) == IF About(e, k) THEN 1 ELSE 0

Number(calls, k) == Cardinality({i \in 1 .. Len(calls) : About(calls[i], k)})

\* The members of E that are of the kind, or that belong to one of the objects O.
Of(E, k) == {e \in E : About(e, k)}

By(E, O) == {m \in E : m.response \in O}

LEMMA OneIs ==
    /\ \A e, k : One(e, k) \in {0, 1} /\ (One(e, k) = 1 <=> About(e, k))
    /\ \A e, k : One(To(e.to, e.msg), k) = One(e, k)
<1>1. \A e, k : One(e, k) \in {0, 1} /\ (One(e, k) = 1 <=> About(e, k))
  BY DEF One
<1>2. ASSUME NEW e, NEW k PROVE About(To(e.to, e.msg), k) <=> About(e, k)
  <2>1. To(e.to, e.msg).to = e.to /\ To(e.to, e.msg).msg = e.msg
    BY DEF To
  <2> QED BY <2>1, Zenon DEF About
<1> QED BY <1>1, <1>2 DEF One

LEMMA NumberIs ==
    \A s, E, k : IsSequence(s) /\ Range(s) \subseteq E =>
        Number(s, k) = Occurs(s, Of(E, k))
<1> SUFFICES ASSUME NEW s, NEW E, NEW k, IsSequence(s), Range(s) \subseteq E
             PROVE  Number(s, k) = Occurs(s, Of(E, k))
  OBVIOUS
<1>1. \A i \in 1 .. Len(s) : s[i] \in E
  BY SequenceLength
<1>2. {i \in 1 .. Len(s) : About(s[i], k)} = Spots(s, Of(E, k))
  BY <1>1 DEF Spots, Of
<1> QED BY <1>2 DEF Number, Occurs

LEMMA NumberNat ==
    /\ \A s, k : IsSequence(s) => Number(s, k) \in Nat
    /\ \A s, t, k : IsSequence(s) /\ IsSequence(t) =>
          Number(s \o t, k) = Number(s, k) + Number(t, k)
    /\ \A k : Number(<<>>, k) = 0
    /\ \A c, k : Number(<<c>>, k) = One(c, k)
    /\ \A c, d, k : Number(<<c, d>>, k) = One(c, k) + One(d, k)
<1>1. ASSUME NEW s, NEW k, IsSequence(s) PROVE Number(s, k) \in Nat
  <2>1. Number(s, k) = Occurs(s, Of(Range(s), k))
    BY <1>1, NumberIs
  <2> QED BY <2>1, <1>1, OccursNat
<1>2. ASSUME NEW s, NEW t, NEW k, IsSequence(s), IsSequence(t)
      PROVE  Number(s \o t, k) = Number(s, k) + Number(t, k)
  <2> DEFINE q == s \o t
             S == Of(Range(s) \cup Range(t), k)
  <2>1. IsSequence(q) /\ Range(q) = Range(s) \cup Range(t)
    BY <1>2, SequenceConcat
  <2>2. Occurs(q, S) = Occurs(s, S) + Occurs(t, S)
    <3> HIDE DEF S
    <3> QED BY <1>2, OccursConcat
  <2> HIDE DEF q
  <2>3. Number(q, k) = Occurs(q, S) /\ Number(s, k) = Occurs(s, S) /\ Number(t, k) = Occurs(t, S)
    BY <1>2, <2>1, NumberIs
  <2> HIDE DEF S
  <2> QED BY <2>2, <2>3 DEF q
<1>3. ASSUME NEW k PROVE Number(<<>>, k) = 0
  <2>1. Number(<<>>, k) = Occurs(<<>>, Of({}, k))
    BY NumberIs, SequenceFew
  <2> QED BY <2>1, OccursFew
<1>4. ASSUME NEW c, NEW k PROVE Number(<<c>>, k) = One(c, k)
  <2>1. Number(<<c>>, k) = Occurs(<<c>>, Of({c}, k))
    <3> DEFINE s == <<c>>
               E == {c}
    <3>1. IsSequence(s) /\ Range(s) \subseteq E
      BY SequenceFew
    <3> HIDE DEF s, E
    <3>2. Number(s, k) = Occurs(s, Of(E, k))
      BY <3>1, NumberIs
    <3> QED BY <3>2 DEF s, E
  <2>2. c \in Of({c}, k) <=> About(c, k)
    BY DEF Of
  <2>3. Occurs(<<c>>, Of({c}, k)) = IF c \in Of({c}, k) THEN 1 ELSE 0
    BY OccursFew, Zenon
  <2> QED BY <2>1, <2>2, <2>3 DEF One
<1>5. ASSUME NEW c, NEW d, NEW k PROVE Number(<<c, d>>, k) = One(c, k) + One(d, k)
  <2> DEFINE s == <<c>>
             t == <<d>>
  <2>1. <<c, d>> = s \o t
    BY SequenceOfTwo
  <2>2. IsSequence(s) /\ IsSequence(t) /\ Number(s, k) = One(c, k) /\ Number(t, k) = One(d, k)
    BY <1>4, SequenceFew
  <2> HIDE DEF s, t
  <2>3. Number(s \o t, k) = One(c, k) + One(d, k)
    BY <2>2, <1>2
  <2> QED BY <2>1, <2>3, Zenon
<1> QED BY <1>1, <1>2, <1>3, <1>4, <1>5

\* The load is what is flying of a set of envelopes.
Covers(E, b, c) == \A x \in Flight(b, c) : Enveloped(b, c, x) \in E

LEMMA LoadIs ==
    \A b, c, E, k : Covers(E, b, c) => Load(b, c, k) = Flying(b, c, Of(E, k))
<1> SUFFICES ASSUME NEW b, NEW c, NEW E, Covers(E, b, c), NEW k
             PROVE  Load(b, c, k) = Flying(b, c, Of(E, k))
  OBVIOUS
<1>1. Concerning(b, c, k) = Carried(b, c, Of(E, k))
  BY DEF Of, Concerning, Carried, Covers
<1> QED BY <1>1 DEF Load, Flying

LEMMA LoadNat ==
    ASSUME NEW b, NEW c, NEW D, IsFiniteSet(D), Lines(b, c, D), NEW k
    PROVE  Load(b, c, k) \in Nat
<1>1. IsFiniteSet(Flight(b, c)) /\ Concerning(b, c, k) \subseteq Flight(b, c)
  BY FlightFinite DEF Concerning
<1> QED BY <1>1, FS_Subset, FS_CardinalityType DEF Load

\* Envelopes of two states.
Envelopes(b, c, b2, c2) ==
    {Enveloped(b, c, x) : x \in Flight(b, c)} \cup {Enveloped(b2, c2, x) : x \in Flight(b2, c2)}

LEMMA CallLoads ==
    \A b, c, b2, c2, D, o, t :
        IsFiniteSet(D) /\ Lines(b, c, D) /\ MakesCall(b, c, b2, c2, D, o, t) =>
           Lines(b2, c2, D) /\ \A k : Load(b2, c2, k) = Load(b, c, k)
<1> SUFFICES
    ASSUME NEW b, NEW c, NEW b2, NEW c2, NEW D, IsFiniteSet(D), Lines(b, c, D),
           NEW o, NEW t, MakesCall(b, c, b2, c2, D, o, t)
    PROVE  Lines(b2, c2, D) /\ \A k : Load(b2, c2, k) = Load(b, c, k)
  OBVIOUS
<1> DEFINE h == Head(c[o])
           e == To(t, h.msg)
           E == Envelopes(b, c, b2, c2) \cup {h, e}
<1>1. /\ Lines(b2, c2, D)
      /\ \A X : (h \in X <=> e \in X) => Flying(b2, c2, X) = Flying(b, c, X)
  BY CallFlies
<1>2. t = h.to
  BY DEF MakesCall
<1>3. Covers(E, b, c) /\ Covers(E, b2, c2)
  BY DEF Envelopes, Covers
<1>4. ASSUME NEW k PROVE Load(b2, c2, k) = Load(b, c, k)
  <2>1. h \in Of(E, k) <=> e \in Of(E, k)
    <3>1. About(h, k) <=> About(e, k)
      BY <1>2, OneIs
    <3>2. h \in E /\ e \in E
      OBVIOUS
    <3> HIDE DEF E, h, e
    <3> QED BY <3>1, <3>2 DEF Of
  <2> HIDE DEF E, h, e
  <2>2. Load(b, c, k) = Flying(b, c, Of(E, k)) /\ Load(b2, c2, k) = Flying(b2, c2, Of(E, k))
    BY <1>3, LoadIs
  <2> QED BY <1>1, <2>1, <2>2
<1> QED BY <1>1, <1>4

LEMMA DoesLoads ==
    \A b, c, b2, c2, D, o, calls :
        IsFiniteSet(D) /\ Lines(b, c, D) /\ TakesUp(b, c, b2, c2, D, o, calls) =>
           /\ Lines(b2, c2, D)
           /\ \A k : Load(b2, c2, k) + One(To(o, Head(b[o])), k)
                       = Load(b, c, k) + Number(calls, k)
<1> SUFFICES
    ASSUME NEW b, NEW c, NEW b2, NEW c2, NEW D, IsFiniteSet(D), Lines(b, c, D),
           NEW o, NEW calls, TakesUp(b, c, b2, c2, D, o, calls)
    PROVE  /\ Lines(b2, c2, D)
           /\ \A k : Load(b2, c2, k) + One(To(o, Head(b[o])), k)
                       = Load(b, c, k) + Number(calls, k)
  OBVIOUS
<1> DEFINE e == To(o, Head(b[o]))
           E == Envelopes(b, c, b2, c2) \cup {e} \cup Range(calls)
<1>1. /\ Lines(b2, c2, D)
      /\ \A X : Flying(b2, c2, X) + (IF e \in X THEN 1 ELSE 0)
                          = Flying(b, c, X) + Occurs(calls, X)
  BY DoesFlies
<1>2. Covers(E, b, c) /\ Covers(E, b2, c2) /\ Range(calls) \subseteq E /\ e \in E
  BY DEF Envelopes, Covers
<1>3. IsSequence(calls)
  BY DEF TakesUp
<1> HIDE DEF E, e
<1>4. ASSUME NEW k PROVE Load(b2, c2, k) + One(e, k) = Load(b, c, k) + Number(calls, k)
  <2>1. e \in Of(E, k) <=> About(e, k)
    BY <1>2 DEF Of
  <2>2. /\ Load(b, c, k) = Flying(b, c, Of(E, k)) /\ Load(b2, c2, k) = Flying(b2, c2, Of(E, k))
        /\ Number(calls, k) = Occurs(calls, Of(E, k))
    BY <1>2, <1>3, LoadIs, NumberIs
  <2> QED BY <1>1, <2>1, <2>2 DEF One
<1> QED BY <1>1, <1>4 DEF e

LEMMA ContinueLoads ==
    \A b, c, b2, c2, D, o, t, calls :
        IsFiniteSet(D) /\ Lines(b, c, D) /\ Continues(b, c, b2, c2, D, o, t, calls) =>
           /\ Lines(b2, c2, D)
           /\ \A k : Load(b2, c2, k) <= Load(b, c, k) + Number(calls, k)
<1> SUFFICES
    ASSUME NEW b, NEW c, NEW b2, NEW c2, NEW D, IsFiniteSet(D), Lines(b, c, D),
           NEW o, NEW t, NEW calls, Continues(b, c, b2, c2, D, o, t, calls)
    PROVE  /\ Lines(b2, c2, D)
           /\ \A k : Load(b2, c2, k) <= Load(b, c, k) + Number(calls, k)
  OBVIOUS
<1> DEFINE E == Envelopes(b, c, b2, c2) \cup Range(calls)
<1>1. /\ Lines(b2, c2, D)
      /\ \A X : /\ Flying(b2, c2, X) + (IF Head(c[o]) \in X THEN 1 ELSE 0)
                          <= Flying(b, c, X) + Occurs(calls, X)
                /\ Flying(b, c, X) \in Nat /\ Flying(b2, c2, X) \in Nat
                /\ Occurs(calls, X) \in Nat
  BY ContinueFlies
<1>2. Covers(E, b, c) /\ Covers(E, b2, c2) /\ Range(calls) \subseteq E
  BY DEF Envelopes, Covers
<1>3. IsSequence(calls)
  BY DEF Continues
<1> HIDE DEF E
<1>4. ASSUME NEW k PROVE Load(b2, c2, k) <= Load(b, c, k) + Number(calls, k)
  <2>1. /\ Load(b, c, k) = Flying(b, c, Of(E, k)) /\ Load(b2, c2, k) = Flying(b2, c2, Of(E, k))
        /\ Number(calls, k) = Occurs(calls, Of(E, k))
    BY <1>2, <1>3, LoadIs, NumberIs
  <2>2. Flying(b2, c2, Of(E, k)) <= Flying(b, c, Of(E, k)) + Occurs(calls, Of(E, k))
    BY <1>1
  <2> QED BY <2>1, <2>2
<1> QED BY <1>1, <1>4

LEMMA WaitingIs ==
    \A s, E, O : IsSequence(s) /\ Range(s) \subseteq E =>
        Waiting(s, O) = Occurs(s, By(E, O))
<1> SUFFICES ASSUME NEW s, NEW E, NEW O, IsSequence(s), Range(s) \subseteq E
             PROVE  Waiting(s, O) = Occurs(s, By(E, O))
  OBVIOUS
<1>1. \A i \in 1 .. Len(s) : s[i] \in E
  BY SequenceLength
<1>2. {i \in 1 .. Len(s) : s[i].response \in O} = Spots(s, By(E, O))
  BY <1>1 DEF Spots, By
<1> QED BY <1>2 DEF Waiting, Occurs

LEMMA WaitingNat ==
    \A s, O : IsSequence(s) => Waiting(s, O) \in Nat
<1> SUFFICES ASSUME NEW s, NEW O, IsSequence(s) PROVE Waiting(s, O) \in Nat
  OBVIOUS
<1>1. Waiting(s, O) = Occurs(s, By(Range(s), O))
  BY WaitingIs
<1> QED BY <1>1, OccursNat

LEMMA WaitingAppend ==
    \A s, m, O : IsSequence(s) =>
        Waiting(Append(s, m), O) = Waiting(s, O) + IF m.response \in O THEN 1 ELSE 0
<1> SUFFICES ASSUME NEW s, NEW m, NEW O, IsSequence(s)
             PROVE  Waiting(Append(s, m), O) = Waiting(s, O) + IF m.response \in O THEN 1 ELSE 0
  OBVIOUS
<1> DEFINE q == Append(s, m)
           E == Range(s) \cup {m}
           S == By(E, O)
<1>1. IsSequence(q) /\ Range(q) = E
  BY SequenceAppend
<1>2. Occurs(q, S) = Occurs(s, S) + IF m \in S THEN 1 ELSE 0
  <2> HIDE DEF S
  <2> QED BY OccursAppend
<1> HIDE DEF q
<1>3. Waiting(q, O) = Occurs(q, S) /\ Waiting(s, O) = Occurs(s, S)
  BY <1>1, WaitingIs
<1>4. m \in S <=> m.response \in O
  BY DEF By
<1> HIDE DEF S
<1> QED BY <1>2, <1>3, <1>4 DEF q

LEMMA WaitingRemoveAt ==
    \A s, i, O : IsSequence(s) /\ i \in 1 .. Len(s) =>
        Waiting(RemoveAt(s, i), O) + (IF s[i].response \in O THEN 1 ELSE 0) <= Waiting(s, O)
<1> SUFFICES ASSUME NEW s, NEW O, IsSequence(s), NEW i \in 1 .. Len(s)
             PROVE  Waiting(RemoveAt(s, i), O) + (IF s[i].response \in O THEN 1 ELSE 0)
                      <= Waiting(s, O)
  OBVIOUS
<1> DEFINE q == RemoveAt(s, i)
           S == By(Range(s), O)
<1>1. IsSequence(q) /\ Range(q) \subseteq Range(s) /\ s[i] \in Range(s)
  BY SequenceParts, SequenceLength
<1>2. Occurs(q, S) + (IF s[i] \in S THEN 1 ELSE 0) <= Occurs(s, S)
  <2> HIDE DEF S
  <2> QED BY OccursRemoveAt
<1> HIDE DEF q
<1>3. Waiting(q, O) = Occurs(q, S) /\ Waiting(s, O) = Occurs(s, S)
  BY <1>1, WaitingIs
<1>4. s[i] \in S <=> s[i].response \in O
  BY <1>1 DEF By
<1> HIDE DEF S
<1> QED BY <1>2, <1>3, <1>4 DEF q

LEMMA WaitingAmong ==
    ASSUME NEW s, IsSequence(s), NEW A, NEW C, A \cap C = {}
    PROVE  \A O : Waiting(Among(s, A), O) + Waiting(Among(s, C), O) <= Waiting(s, O)
<1> DEFINE a == Among(s, A)
           c == Among(s, C)
<1>1. IsSequence(a) /\ Range(a) \subseteq Range(s) /\ IsSequence(c) /\ Range(c) \subseteq Range(s)
  BY SequenceParts
<1>2. \A X : Occurs(a, X) + Occurs(c, X) <= Occurs(s, X)
  BY OccursAmong
<1> HIDE DEF a, c
<1>3. ASSUME NEW O PROVE Waiting(a, O) + Waiting(c, O) <= Waiting(s, O)
  <2> DEFINE S == By(Range(s), O)
  <2>1. Waiting(a, O) = Occurs(a, S) /\ Waiting(c, O) = Occurs(c, S) /\ Waiting(s, O) = Occurs(s, S)
    BY <1>1, WaitingIs
  <2> HIDE DEF S
  <2> QED BY <1>2, <2>1
<1> QED BY <1>3 DEF a, c

-----------------------------------------------------------------------------
(* What the sockets, the pipes and select do with it *)

\* Kinds that only objects which are no plumbing are asked or told about, and of
\* which the plumbing sends nothing by itself.
KindOK(k) ==
    /\ \A o \in k.of : o[1] \notin Plumbing
    /\ k.type \subseteq {"accept", "init", "connected"}

LEMMA PassedOne ==
    ASSUME NEW k, KindOK(k), NEW e, e.msg.is \notin {"init", "connected"}, NEW c
    PROVE  /\ Silent(c) => One(c, k) = 0
           /\ PassesOn(e, c) /\ c.msg.is # "accept_response" => One(c, k) <= One(e, k)
           /\ PassesOn(e, c) => One(c, k) <= One(e, k) + IF c.msg.fd \in k.fd THEN 1 ELSE 0
           /\ PassesOn(e, c) /\ c.msg.error = TRUE => One(c, k) <= One(e, k)
<1>1. Silent(c) => ~About(c, k)
  BY DEF KindOK, Silent, About
<1>2. PassesOn(e, c) /\ About(c, k) =>
         About(e, k) \/ (c.msg.is = "accept_response" /\ ~c.msg.error /\ c.msg.fd \in k.fd)
  <2>1. SUFFICES ASSUME PassesOn(e, c), About(c, k), ~About(e, k)
                 PROVE  c.msg.is = "accept_response" /\ ~c.msg.error /\ c.msg.fd \in k.fd
    OBVIOUS
  <2>2. e.to \notin k.of /\ ~("response" \in DOMAIN e.msg /\ e.msg.response \in k.of)
    BY <2>1 DEF About
  <2>3. c.to \notin k.of
    BY <2>1, <2>2 DEF PassesOn, Asking, KindOK
  <2>4. ~("response" \in DOMAIN c.msg /\ c.msg.response \in k.of)
    BY <2>1, <2>2 DEF PassesOn, Asking
  <2>5. c.msg.is \notin {"accept", "init", "connected"} /\ c.msg.is \notin k.type
    BY <2>1 DEF PassesOn, KindOK
  <2> QED BY <2>1, <2>3, <2>4, <2>5 DEF About
<1>3. One(e, k) \in {0, 1} /\ One(c, k) \in {0, 1}
      /\ (One(e, k) = 1 <=> About(e, k)) /\ (One(c, k) = 1 <=> About(c, k))
  BY OneIs
<1> QED BY <1>1, <1>2, <1>3

LEMMA PassesNumber ==
    ASSUME NEW k, KindOK(k), NEW e, e.msg.is \notin {"init", "connected"},
           NEW calls, Passes(e, calls),
           k.fd = {} \/ \A c \in Range(calls) : c.msg.is # "accept_response"
    PROVE  Number(calls, k) <= One(e, k)
<1>0. ASSUME k.fd = {}, NEW c, PassesOn(e, c) PROVE One(c, k) <= One(e, k)
  <2>1. c.msg.fd \notin k.fd /\ One(c, k) \in {0, 1} /\ One(e, k) \in {0, 1}
    BY <1>0, OneIs
  <2>2. One(c, k) <= One(e, k) + IF c.msg.fd \in k.fd THEN 1 ELSE 0
    BY <1>0, PassedOne
  <2> QED BY <2>1, <2>2
<1>1. One(e, k) \in {0, 1}
  BY OneIs
<1>2. CASE calls = <<>>
  BY <1>1, <1>2, NumberNat
<1>3. ASSUME NEW c, calls = <<c>>, PassesOn(e, c) PROVE Number(calls, k) <= One(e, k)
  <2>1. k.fd = {} \/ c.msg.is # "accept_response"
    BY <1>3, SequenceFew
  <2>2. One(c, k) <= One(e, k)
    BY <1>0, <1>3, <2>1, PassedOne
  <2>3. Number(<<c>>, k) = One(c, k)
    BY NumberNat
  <2> QED BY <1>3, <2>2, <2>3
<1>4. ASSUME NEW c, NEW d, calls = <<c, d>>, PassesOn(e, c), Silent(d)
      PROVE  Number(calls, k) <= One(e, k)
  <2>1. k.fd = {} \/ c.msg.is # "accept_response"
    BY <1>4, SequenceFew
  <2>2. One(c, k) <= One(e, k) /\ One(d, k) = 0 /\ One(c, k) \in {0, 1}
    BY <1>0, <1>4, <2>1, PassedOne, OneIs
  <2> QED BY <1>4, <2>2, <1>1, NumberNat
<1> QED BY <1>2, <1>3, <1>4 DEF Passes

LEMMA HeldNat ==
    ASSUME NEW D, IsFiniteSet(D), SelectInv(D), NEW k
    PROVE  /\ Lines(box, todo, D)
           /\ Load(box, todo, k) \in Nat /\ Lists(local, k.of) \in Nat
           /\ Underway(local, box, todo, k) \in Nat
<1>1. Lines(box, todo, D) /\ LoopLists
  BY DEF SelectInv, Mail, Lines
<1>2. Load(box, todo, k) \in Nat
  BY <1>1, LoadNat
<1>3. Lists(local, k.of) \in Nat
  BY <1>1, WaitingNat DEF LoopLists, Lists
<1> QED BY <1>1, <1>2, <1>3 DEF Underway

\* A method that makes these calls and leaves select_loop's members alone.
LEMMA MethodHolds ==
    ASSUME NEW D, IsFiniteSet(D), SelectInv(D), NEW o \in D, NEW type, Gets(o, type),
           NEW calls, IsSequence(calls), Does(o, calls)
    PROVE  \A k : /\ Load(box', todo', k) + One(To(o, First(o)), k)
                       = Load(box, todo, k) + Number(calls, k)
                  /\ Load(box, todo, k) \in Nat /\ Load(box', todo', k) \in Nat
                  /\ One(To(o, First(o)), k) \in {0, 1} /\ Number(calls, k) \in Nat
<1>1. Lines(box, todo, D)
  BY HeldNat
<1>2. TakesUp(box, todo, box', todo', D, o, calls)
  BY <1>1 DEF TakesUp, Gets, Does, Lines
<1>3. /\ Lines(box', todo', D)
      /\ \A k : Load(box', todo', k) + One(To(o, First(o)), k)
                  = Load(box, todo, k) + Number(calls, k)
  BY <1>1, <1>2, DoesLoads DEF First
<1>4. \A k : Load(box, todo, k) \in Nat
  BY <1>1, LoadNat
<1>5. \A k : Load(box', todo', k) \in Nat
  BY <1>3, LoadNat
<1>6. \A k : One(To(o, First(o)), k) \in {0, 1} /\ Number(calls, k) \in Nat
  BY OneIs, NumberNat
<1> QED BY <1>3, <1>4, <1>5, <1>6

LEMMA MovesHold ==
    ASSUME NEW D, IsFiniteSet(D), SelectInv(D), NEW k, KindOK(k),
           Moves(D, FALSE) \/ (Moves(D, TRUE) /\ k.fd = {})
    PROVE  Underway(local', box', todo', k) <= Underway(local, box, todo, k)
<1>1. PICK type, calls : \E o \in D :
        /\ o # Loop /\ type \notin {"init", "connected"}
        /\ Gets(o, type) /\ Does(o, calls)
        /\ PoliteCalls(calls) /\ Passes(To(o, First(o)), calls)
        /\ k.fd = {} \/ \A c \in Range(calls) : c.msg.is # "accept_response"
        /\ local'[Loop] = local[Loop]
  BY DEF Moves
<1>2. PICK o \in D :
        /\ Gets(o, type) /\ Does(o, calls) /\ type \notin {"init", "connected"}
        /\ PoliteCalls(calls) /\ Passes(To(o, First(o)), calls)
        /\ k.fd = {} \/ \A c \in Range(calls) : c.msg.is # "accept_response"
        /\ local'[Loop] = local[Loop]
  BY <1>1
<1>3. To(o, First(o)).msg.is \notin {"init", "connected"}
  BY <1>2, FirstIs DEF To
<1>4. Number(calls, k) <= One(To(o, First(o)), k)
  BY <1>2, <1>3, PassesNumber
<1>5. /\ Load(box', todo', k) + One(To(o, First(o)), k) = Load(box, todo, k) + Number(calls, k)
      /\ Load(box, todo, k) \in Nat /\ Load(box', todo', k) \in Nat
      /\ One(To(o, First(o)), k) \in {0, 1} /\ Number(calls, k) \in Nat
  BY <1>2, MethodHolds DEF PoliteCalls
<1>6. Lists(local', k.of) = Lists(local, k.of) /\ Lists(local, k.of) \in Nat
  BY <1>2, HeldNat DEF Lists
<1> QED BY <1>4, <1>5, <1>6 DEF Underway

\* Any object's next call.
LEMMA CallHolds ==
    ASSUME NEW D, IsFiniteSet(D), SelectInv(D), NEW o \in D, Call(o)
    PROVE  \A k : /\ Load(box', todo', k) = Load(box, todo, k)
                  /\ Underway(local', box', todo', k) = Underway(local, box, todo, k)
<1>1. Lines(box, todo, D)
  BY HeldNat
<1> DEFINE t == Head(todo[o]).to
<1>2. /\ todo[o] # <<>> /\ t \in D /\ local' = local
      /\ box' = [box EXCEPT ![t] = Append(box[t], Head(todo[o]).msg)]
      /\ todo' = [todo EXCEPT ![o] = <<>> \o Tail(todo[o])]
  BY <1>1 DEF Call, Calling, Continue, Lines
<1>3. IsSequence(todo[o])
  BY <1>1 DEF Lines
<1>4. IsSequence(Tail(todo[o]))
  BY <1>2, <1>3, SequenceTail
<1>5. <<>> \o Tail(todo[o]) = Tail(todo[o])
  BY <1>4, SequenceFew
<1>6. MakesCall(box, todo, box', todo', D, o, t)
  BY <1>2, <1>5 DEF MakesCall
<1>7. \A k : Load(box', todo', k) = Load(box, todo, k)
  BY <1>1, <1>6, CallLoads
<1> QED BY <1>2, <1>7 DEF Underway

\* What select_loop says to itself and to the kernel concerns nobody.
LEMMA LoopSays ==
    ASSUME NEW k, KindOK(k)
    PROVE  /\ One(DoSelect, k) = 0 /\ One(To(Kernel, Plain("select")), k) = 0
           /\ \A i, ready, woken : One(Scan(i, ready, woken), k) = 0
           /\ \A o, type : type \in {"read_ready", "write_ready"} =>
                 One(To(o, Plain(type)), k) = IF o \in k.of THEN 1 ELSE 0
<1>1. Loop \notin k.of /\ Kernel \notin k.of
  BY DEF KindOK, Plumbing, Loop, Kernel
<1>2. \A m : m.is \in {"do_select", "select", "scan", "read_ready", "write_ready"} =>
         m.is \notin k.type \cup {"init", "connected", "accept_response"}
  BY DEF KindOK
<1>3. \A type : Plain(type).is = type /\ "response" \notin DOMAIN Plain(type)
  BY DEF Plain
<1>4. \A o, m : To(o, m).to = o /\ To(o, m).msg = m
  BY DEF To
<1>5. ~About(DoSelect, k) /\ ~About(To(Kernel, Plain("select")), k)
  <2>1. /\ DoSelect.to = Loop /\ DoSelect.msg = Plain("do_select")
        /\ To(Kernel, Plain("select")).to = Kernel
        /\ To(Kernel, Plain("select")).msg = Plain("select")
    BY <1>4 DEF DoSelect
  <2> QED BY <2>1, <1>1, <1>2, <1>3 DEF About
<1>6. ASSUME NEW i, NEW ready, NEW woken PROVE ~About(Scan(i, ready, woken), k)
  <2>1. /\ Scan(i, ready, woken).to = Kernel /\ Scan(i, ready, woken).msg.is = "scan"
        /\ "response" \notin DOMAIN Scan(i, ready, woken).msg
    BY DEF Scan, To
  <2> HIDE DEF Scan
  <2> QED BY <2>1, <1>1, <1>2 DEF About
<1>7. ASSUME NEW o, NEW type, type \in {"read_ready", "write_ready"}
      PROVE  About(To(o, Plain(type)), k) <=> o \in k.of
  <2> DEFINE c == To(o, Plain(type))
  <2>1. /\ c.to = o /\ c.msg.is = type /\ "response" \notin DOMAIN c.msg
        /\ type \notin k.type \cup {"init", "connected", "accept_response"}
    BY <1>2, <1>3, <1>4, <1>7
  <2> HIDE DEF c
  <2>2. About(c, k) <=> o \in k.of
    BY <2>1 DEF About
  <2> QED BY <2>2 DEF c
<1> QED BY <1>5, <1>6, <1>7 DEF One

\* A new reader or writer was a request before.
LEMMA RequestHolds ==
    ASSUME NEW D, IsFiniteSet(D), SelectInv(D), LoopRead \/ LoopWrite, NEW k, KindOK(k)
    PROVE  Underway(local', box', todo', k) <= Underway(local, box, todo, k)
<1> DEFINE m == First(Loop)
           e == To(Loop, m)
           calls == IF NobodyWaits THEN <<DoSelect>> ELSE <<>>
           rs == local[Loop].readers
           ws == local[Loop].writers
<1>1. PICK type \in {"read", "write"} :
        /\ Gets(Loop, type) /\ Does(Loop, calls)
        /\ \/ type = "read" /\ local' = [local EXCEPT ![Loop].readers = Append(@, m)]
           \/ type = "write" /\ local' = [local EXCEPT ![Loop].writers = Append(@, m)]
  BY DEF LoopRead, LoopWrite
<1>2. /\ Loop \in D /\ DOMAIN local = D /\ IsSequence(rs) /\ IsSequence(ws)
      /\ {"readers", "writers"} \subseteq DOMAIN local[Loop]
  BY SocketObjects DEF SelectInv, LoopLists
<1>3. Sane(m) /\ m.is = type
  BY <1>1, <1>2, FirstIs
<1>4. m.response \in k.of => One(e, k) = 1
  <2>1. "response" \in DOMAIN m /\ m.is \notin {"init", "connected"}
    BY <1>3 DEF Sane, Requests
  <2>2. e.msg = m
    BY DEF To
  <2> HIDE DEF e, m
  <2>3. m.response \in k.of => About(e, k)
    BY <2>1, <2>2 DEF About
  <2> QED BY <2>3, OneIs
<1>5. IsSequence(calls) /\ Number(calls, k) = 0
  <2>1. One(DoSelect, k) = 0
    BY LoopSays
  <2> QED BY <2>1, SequenceFew, NumberNat
<1> HIDE DEF calls
<1>6. /\ Load(box', todo', k) + One(e, k) = Load(box, todo, k) + Number(calls, k)
      /\ Load(box, todo, k) \in Nat /\ Load(box', todo', k) \in Nat
      /\ One(e, k) \in {0, 1}
  BY <1>1, <1>2, <1>5, MethodHolds
<1>7. /\ Waiting(Append(rs, m), k.of) = Waiting(rs, k.of) + IF m.response \in k.of THEN 1 ELSE 0
      /\ Waiting(Append(ws, m), k.of) = Waiting(ws, k.of) + IF m.response \in k.of THEN 1 ELSE 0
      /\ Waiting(rs, k.of) \in Nat /\ Waiting(ws, k.of) \in Nat
  BY <1>2, WaitingAppend, WaitingNat
<1> HIDE DEF m, e
<1>8. \/ local'[Loop].readers = Append(rs, m) /\ local'[Loop].writers = ws
      \/ local'[Loop].readers = rs /\ local'[Loop].writers = Append(ws, m)
  BY <1>1, <1>2
<1> DEFINE more == IF m.response \in k.of THEN 1 ELSE 0
<1>9. Lists(local', k.of) = Lists(local, k.of) + more /\ more \in {0, 1}
  <2>1. more \in {0, 1}
    OBVIOUS
  <2>2. /\ Waiting(Append(rs, m), k.of) = Waiting(rs, k.of) + more
        /\ Waiting(Append(ws, m), k.of) = Waiting(ws, k.of) + more
    BY <1>7
  <2> HIDE DEF more, rs, ws
  <2>3. CASE local'[Loop].readers = Append(rs, m) /\ local'[Loop].writers = ws
    BY <1>7, <2>1, <2>2, <2>3 DEF Lists, rs, ws
  <2>4. CASE local'[Loop].readers = rs /\ local'[Loop].writers = Append(ws, m)
    BY <1>7, <2>1, <2>2, <2>4 DEF Lists, rs, ws
  <2> QED BY <1>8, <2>1, <2>3, <2>4
<1>10. Lists(local, k.of) \in Nat
  BY <1>7 DEF Lists
<1> QED BY <1>4, <1>5, <1>6, <1>9, <1>10 DEF Underway

LEMMA SelectHolds ==
    ASSUME NEW D, IsFiniteSet(D), SelectInv(D), LoopSelect, NEW k, KindOK(k)
    PROVE  Underway(local', box', todo', k) <= Underway(local, box, todo, k)
<1> DEFINE c == To(Kernel, Plain("select"))
           calls == IF NobodyWaits THEN <<>> ELSE <<c>>
<1>1. Gets(Loop, "do_select") /\ Does(Loop, calls) /\ local' = local /\ Loop \in D
  BY SocketObjects DEF LoopSelect
<1>2. IsSequence(calls) /\ Number(calls, k) = 0
  <2>1. One(c, k) = 0
    BY LoopSays
  <2> HIDE DEF c
  <2> QED BY <2>1, SequenceFew, NumberNat
<1> HIDE DEF calls
<1>3. Load(box', todo', k) <= Load(box, todo, k)
      /\ Load(box', todo', k) \in Nat /\ Load(box, todo, k) \in Nat
  <2>1. /\ Load(box', todo', k) + One(To(Loop, First(Loop)), k) = Load(box, todo, k) + Number(calls, k)
        /\ Load(box, todo, k) \in Nat /\ Load(box', todo', k) \in Nat
        /\ One(To(Loop, First(Loop)), k) \in {0, 1}
    BY <1>1, <1>2, MethodHolds
  <2> QED BY <2>1, <1>2
<1>4. Lists(local', k.of) = Lists(local, k.of) /\ Lists(local, k.of) \in Nat
  BY <1>1, HeldNat
<1> QED BY <1>3, <1>4 DEF Underway

\* A method of select_loop that goes on with other calls.
LEMMA GoingOnHolds ==
    ASSUME NEW D, IsFiniteSet(D), SelectInv(D), todo[Loop] # <<>>,
           NEW calls, IsSequence(calls), Continue(Loop, calls),
           \E q \in {box[Wake], <<>>} : box' = [box EXCEPT ![Wake] = q] \/ box' = box
    PROVE  \A k : /\ Load(box', todo', k) <= Load(box, todo, k) + Number(calls, k)
                  /\ Load(box, todo, k) \in Nat /\ Load(box', todo', k) \in Nat
                  /\ Number(calls, k) \in Nat
<1>1. Lines(box, todo, D)
  BY HeldNat
<1>2. Continues(box, todo, box', todo', D, Loop, Wake, calls)
  BY SocketObjects DEF Continues, Continue
<1>3. /\ Lines(box', todo', D)
      /\ \A k : Load(box', todo', k) <= Load(box, todo, k) + Number(calls, k)
  BY <1>1, <1>2, ContinueLoads
<1>4. \A k : Load(box, todo, k) \in Nat
  BY <1>1, LoadNat
<1>5. \A k : Load(box', todo', k) \in Nat
  BY <1>3, LoadNat
<1> QED BY <1>3, <1>4, <1>5, NumberNat

LEMMA AgainHolds ==
    ASSUME NEW D, IsFiniteSet(D), SelectInv(D), LoopAgain, NEW k, KindOK(k)
    PROVE  Underway(local', box', todo', k) <= Underway(local, box, todo, k)
<1> DEFINE calls == IF NobodyWaits THEN <<>> ELSE <<DoSelect>>
<1>1. /\ todo[Loop] # <<>> /\ Continue(Loop, calls) /\ local' = local
      /\ box' = [box EXCEPT ![Wake] = IF Calling(Loop).msg.woken THEN <<>> ELSE box[Wake]]
  BY DEF LoopAgain, Scanning
<1>2. \E q \in {box[Wake], <<>>} : box' = [box EXCEPT ![Wake] = q]
  BY <1>1
<1>3. IsSequence(calls) /\ Number(calls, k) = 0
  <2>1. One(DoSelect, k) = 0
    BY LoopSays
  <2> QED BY <2>1, SequenceFew, NumberNat
<1> HIDE DEF calls
<1>4. Load(box', todo', k) <= Load(box, todo, k)
      /\ Load(box', todo', k) \in Nat /\ Load(box, todo, k) \in Nat
  <2>1. /\ Load(box', todo', k) <= Load(box, todo, k) + Number(calls, k)
        /\ Load(box, todo, k) \in Nat /\ Load(box', todo', k) \in Nat
    BY <1>1, <1>2, <1>3, GoingOnHolds
  <2> QED BY <2>1, <1>3
<1>5. Lists(local', k.of) = Lists(local, k.of) /\ Lists(local, k.of) \in Nat
  BY <1>1, HeldNat
<1> QED BY <1>4, <1>5 DEF Underway

\* Those that were ready get their answer and leave the list.
LEMMA AnswersNumber ==
    ASSUME NEW told, IsSequence(told), NEW k, KindOK(k)
    PROVE  LET answers == [i \in DOMAIN told |-> To(told[i].response, Plain("read_ready"))]
           IN  IsSequence(answers) /\ Number(answers, k) = Waiting(told, k.of)
<1> DEFINE a(i) == To(told[i].response, Plain("read_ready"))
           answers == [i \in DOMAIN told |-> a(i)]
           A == {a(i) : i \in 1 .. Len(told)}
<1>1. DOMAIN told = 1 .. Len(told) /\ Len(told) \in Nat
  BY SequenceLength
<1>2. answers \in [1 .. Len(told) -> A]
  BY <1>1
<1>3. answers \in Seq(A)
  <2> HIDE DEF A, answers
  <2> QED BY <1>1, <1>2, IsASeq
<1>4. Len(answers) = Len(told)
  <2> HIDE DEF A, answers
  <2> QED BY <1>1, <1>2, <1>3
<1>5. \A i \in 1 .. Len(told) : About(answers[i], k) <=> told[i].response \in k.of
  <2>1. \A i : One(a(i), k) = IF told[i].response \in k.of THEN 1 ELSE 0
    BY LoopSays
  <2>2. \A i \in 1 .. Len(told) : answers[i] = a(i)
    BY <1>1
  <2> HIDE DEF answers, a
  <2> QED BY <2>1, <2>2, OneIs
<1>6. IsSequence(answers)
  BY <1>3 DEF IsSequence
<1> HIDE DEF answers
<1>7. Number(answers, k) = Waiting(told, k.of)
  BY <1>4, <1>5 DEF Number, Waiting
<1> QED BY <1>6, <1>7 DEF answers

LEMMA ReturnHolds ==
    ASSUME NEW D, IsFiniteSet(D), SelectInv(D), SelectReturns, NEW k, KindOK(k)
    PROVE  Underway(local', box', todo', k) <= Underway(local, box, todo, k)
<1> DEFINE rs == local[Loop].readers
           waiting == Range(rs)
           readable == {r \in waiting : Readable(r.fd)}
           writable == {w \in Range(local[Loop].writers) : Writable(w.fd)}
           told == Among(rs, readable)
           answers == [i \in DOMAIN told |-> To(told[i].response, Plain("read_ready"))]
           c == Scan(1, writable, box[Wake] # <<>>)
           calls == answers \o <<c>>
           rest == Among(rs, waiting \ readable)
<1>1. /\ InKernel("select")
      /\ local' = [local EXCEPT ![Loop].readers = rest]
      /\ Continue(Loop, calls) /\ box' = box
  BY Zenon DEF SelectReturns
<1>2. /\ Loop \in D /\ DOMAIN local = D /\ IsSequence(rs) /\ IsSequence(local[Loop].writers)
      /\ {"readers", "writers"} \subseteq DOMAIN local[Loop] /\ todo[Loop] # <<>>
  BY <1>1, SocketObjects DEF SelectInv, LoopLists, InKernel
<1>3. Waiting(told, k.of) + Waiting(rest, k.of) <= Waiting(rs, k.of)
  <2> HIDE DEF rs
  <2>1. readable \cap (waiting \ readable) = {}
    OBVIOUS
  <2> HIDE DEF waiting, readable
  <2> QED BY <1>2, <2>1, WaitingAmong
<1>4. IsSequence(told) /\ IsSequence(rest)
  <2> HIDE DEF rs, waiting, readable
  <2> QED BY <1>2, SequenceParts
<1> HIDE DEF told, rest, waiting, readable, writable
<1>5. IsSequence(answers) /\ Number(answers, k) = Waiting(told, k.of)
  BY <1>4, AnswersNumber
<1> HIDE DEF answers
<1>6. One(c, k) = 0
  BY LoopSays
<1> HIDE DEF c
<1>7. IsSequence(<<c>>) /\ Number(<<c>>, k) = 0
  BY <1>6, SequenceFew, NumberNat
<1>8. IsSequence(calls) /\ Number(calls, k) = Waiting(told, k.of) + 0
  <2> DEFINE last == <<c>>
  <2>1. IsSequence(last) /\ Number(last, k) = 0 /\ calls = answers \o last
    BY <1>7
  <2> HIDE DEF last, calls
  <2> QED BY <1>5, <2>1, SequenceConcat, NumberNat
<1> HIDE DEF calls
<1>9. /\ Load(box', todo', k) <= Load(box, todo, k) + Number(calls, k)
      /\ Load(box, todo, k) \in Nat /\ Load(box', todo', k) \in Nat
  BY <1>1, <1>2, <1>8, GoingOnHolds
<1>10. local'[Loop].readers = rest /\ local'[Loop].writers = local[Loop].writers
  BY <1>1, <1>2
<1>11. /\ Waiting(told, k.of) \in Nat /\ Waiting(rest, k.of) \in Nat /\ Waiting(rs, k.of) \in Nat
       /\ Waiting(local[Loop].writers, k.of) \in Nat
  BY <1>2, <1>4, WaitingNat
<1> QED BY <1>3, <1>8, <1>9, <1>10, <1>11 DEF Underway, Lists

LEMMA ScanHolds ==
    ASSUME NEW D, IsFiniteSet(D), SelectInv(D), ScanWriter, NEW k, KindOK(k)
    PROVE  Underway(local', box', todo', k) <= Underway(local, box, todo, k)
<1> DEFINE s == Calling(Loop).msg
           ws == local[Loop].writers
<1>1. todo[Loop] # <<>> /\ s.is = "scan" /\ s.w <= Len(ws) /\ box' = box
  BY DEF ScanWriter, Scanning
<1>2. /\ Loop \in D /\ DOMAIN local = D
      /\ {"readers", "writers"} \subseteq DOMAIN local[Loop]
      /\ IsSequence(ws) /\ IsSequence(local[Loop].readers) /\ IsSequence(todo[Loop])
  BY SocketObjects DEF SelectInv, Mail, LoopLists
<1>3. Calling(Loop) \in Range(todo[Loop])
  BY <1>1, <1>2, SequenceTail DEF Calling
<1>4. s.w \in Nat \ {0}
  BY <1>1, <1>3, LoopIs DEF SelectInv, LoopCalls, To, Plain
<1>5. s.w \in 1 .. Len(ws)
  BY <1>1, <1>2, <1>4, SequenceLength
<1>6. /\ Waiting(RemoveAt(ws, s.w), k.of) + (IF ws[s.w].response \in k.of THEN 1 ELSE 0)
           <= Waiting(ws, k.of)
      /\ Waiting(ws, k.of) \in Nat /\ Waiting(RemoveAt(ws, s.w), k.of) \in Nat
      /\ Waiting(local[Loop].readers, k.of) \in Nat
  BY <1>2, <1>5, WaitingRemoveAt, WaitingNat, SequenceParts
<1> HIDE DEF s
<1>7. CASE /\ local' = [local EXCEPT ![Loop].writers = RemoveAt(ws, s.w)]
           /\ Continue(Loop, <<To(ws[s.w].response, Plain("write_ready")),
                               Scan(After(s.w, Len(ws) - 1), s.ready, s.woken)>>)
  <2> DEFINE a == To(ws[s.w].response, Plain("write_ready"))
             c == Scan(After(s.w, Len(ws) - 1), s.ready, s.woken)
             calls == <<a, c>>
  <2>1. One(a, k) = (IF ws[s.w].response \in k.of THEN 1 ELSE 0) /\ One(c, k) = 0
    BY LoopSays
  <2> HIDE DEF a, c
  <2>2. IsSequence(calls) /\ Number(calls, k) = One(a, k) + One(c, k)
    BY SequenceFew, NumberNat
  <2>3. Continue(Loop, calls)
    BY <1>7 DEF a, c
  <2> HIDE DEF calls
  <2>4. /\ Load(box', todo', k) <= Load(box, todo, k) + Number(calls, k)
        /\ Load(box, todo, k) \in Nat /\ Load(box', todo', k) \in Nat
    BY <1>1, <1>2, <2>2, <2>3, GoingOnHolds
  <2>5. /\ local'[Loop].writers = RemoveAt(ws, s.w)
        /\ local'[Loop].readers = local[Loop].readers
    BY <1>2, <1>7
  <2> QED BY <1>6, <2>1, <2>2, <2>4, <2>5 DEF Underway, Lists
<1>8. CASE /\ Continue(Loop, <<Scan(After(After(s.w, Len(ws)), Len(ws)), s.ready, s.woken)>>)
           /\ local' = local
  <2> DEFINE c == Scan(After(After(s.w, Len(ws)), Len(ws)), s.ready, s.woken)
             calls == <<c>>
  <2>1. One(c, k) = 0
    BY LoopSays
  <2> HIDE DEF c
  <2>2. IsSequence(calls) /\ Number(calls, k) = 0
    BY <2>1, SequenceFew, NumberNat
  <2>3. Continue(Loop, calls)
    BY <1>8 DEF c
  <2> HIDE DEF calls
  <2>4. /\ Load(box', todo', k) <= Load(box, todo, k) + Number(calls, k)
        /\ Load(box, todo, k) \in Nat /\ Load(box', todo', k) \in Nat
    BY <1>1, <1>2, <2>2, <2>3, GoingOnHolds
  <2>5. Lists(local', k.of) = Lists(local, k.of) /\ Lists(local, k.of) \in Nat
    BY <1>8, HeldNat
  <2> QED BY <2>2, <2>4, <2>5 DEF Underway
<1> QED BY <1>7, <1>8 DEF ScanWriter, s

LEMMA LoopHolds ==
    ASSUME NEW D, IsFiniteSet(D), SelectInv(D), LoopStep, NEW k, KindOK(k)
    PROVE  Underway(local', box', todo', k) <= Underway(local, box, todo, k)
BY RequestHolds, SelectHolds, ReturnHolds, ScanHolds, AgainHolds DEF LoopStep

\* A step that leaves alone what arrives at g.
Spares(g) ==
    /\ DOMAIN local'[Fd(g)] = DOMAIN local[Fd(g)]
    /\ local'[Fd(g)].input = local[Fd(g)].input
    /\ local'[Fd(g)].coming = local[Fd(g)].coming
    /\ local'[Fd(g)].peer = local[Fd(g)].peer

\* A step by which no more is to arrive than before.
BringsNoMore(g) ==
    /\ Descriptor(local', g)
    /\ \A S : /\ Arrivals(local', g, S) <= Arrivals(local, g, S)
              /\ Arrivals(local', g, S) \in Nat /\ Arrivals(local, g, S) \in Nat

LEMMA ArrivalsNat ==
    ASSUME NEW l, NEW g, Descriptor(l, g)
    PROVE  \A S : Arrivals(l, g, S) \in Nat
BY OccursNat DEF Descriptor, Arrivals

LEMMA SparesBrings ==
    ASSUME NEW g, Descriptor(local, g), Spares(g)
    PROVE  BringsNoMore(g)
<1>1. Descriptor(local', g) /\ \A S : Arrivals(local', g, S) = Arrivals(local, g, S)
  BY DEF Descriptor, Spares, Arrivals
<1> QED BY <1>1, ArrivalsNat DEF BringsNoMore

LEMMA LoopSpares ==
    ASSUME NEW D, SelectInv(D), NEW g \in Fds, LoopStep
    PROVE  Spares(g)
<1>1. Fd(g) # Loop /\ Fd(g) \in D /\ DOMAIN local = D
  BY LoopIs, SocketObjects
<1>2. local'[Fd(g)] = local[Fd(g)]
  <2>1. ASSUME LoopRead \/ LoopWrite PROVE local'[Fd(g)] = local[Fd(g)]
    BY <1>1, <2>1 DEF LoopRead, LoopWrite
  <2>2. ASSUME LoopSelect \/ LoopAgain PROVE local'[Fd(g)] = local[Fd(g)]
    BY <2>2 DEF LoopSelect, LoopAgain
  <2>3. ASSUME SelectReturns PROVE local'[Fd(g)] = local[Fd(g)]
    <3> DEFINE rest == Among(local[Loop].readers,
                             Range(local[Loop].readers)
                                \ {r \in Range(local[Loop].readers) : Readable(r.fd)})
    <3>1. local' = [local EXCEPT ![Loop].readers = rest]
      BY <2>3, Zenon DEF SelectReturns
    <3> HIDE DEF rest
    <3> QED BY <1>1, <3>1
  <2>4. ASSUME ScanWriter PROVE local'[Fd(g)] = local[Fd(g)]
    <3> DEFINE rest == RemoveAt(local[Loop].writers, Calling(Loop).msg.w)
    <3>1. local' = local \/ local' = [local EXCEPT ![Loop].writers = rest]
      BY <2>4, Zenon DEF ScanWriter
    <3> HIDE DEF rest
    <3> QED BY <1>1, <3>1
  <2> QED BY <2>1, <2>2, <2>3, <2>4 DEF LoopStep
<1> QED BY <1>2 DEF Spares

LEMMA PipeSpares ==
    ASSUME NEW D, SelectInv(D), NEW g \in Fds, NEW f \in Fds, PipeStep(Pipe(f))
    PROVE  Spares(g)
<1> DEFINE p == Pipe(f)
<1>1. Fd(g) # p /\ Fd(g) \in D /\ DOMAIN local = D
  BY SocketObjects DEF Fd, Pipe
<1>2. \/ local' = local
      \/ local' = [local EXCEPT ![p].at = 1, ![p].left = First(p).bytes]
      \/ local' = [local EXCEPT ![p].at = First(p).at, ![p].left = First(p).left]
  BY Zenon DEF PipeStep, PipeStart, PipeReadReady, PipeReadResponse,
               PipeWriteReady, PipeWriteResponse
<1> HIDE DEF p
<1>3. local'[Fd(g)] = local[Fd(g)]
  BY <1>1, <1>2
<1> QED BY <1>3 DEF Spares

LEMMA SocketBrings ==
    ASSUME NEW D, SelectInv(D), NEW g \in Fds, Descriptor(local, g),
           NEW f \in Fds, SocketStep(f), ~(f = g /\ Accept(f))
    PROVE  BringsNoMore(g)
<1>0. Fd(g) \in D /\ Fd(f) \in D /\ DOMAIN local = D /\ \A h : Fd(g) = Fd(h) => g = h
  BY SocketObjects DEF Fd
<1>1. ASSUME SocketForward(f) PROVE Spares(g)
  BY <1>1 DEF SocketForward, Spares
<1>2. ASSUME SocketShutdown(f) PROVE Spares(g)
  BY <1>0, <1>2 DEF SocketShutdown, Spares
<1>3. ASSUME Recv(f) PROVE BringsNoMore(g)
  <2> DEFINE p == First(Reader(f)).response
             input == local[Fd(f)].input
             rest(n) == SubSeq(input, n + 1, Len(input))
             bytes(n) == SubSeq(input, 1, n)
  <2>1. PICK n \in 0 .. MaxBuffer :
          /\ n <= Len(input)
          /\ local' = [local EXCEPT ![Fd(f)].input = rest(n),
                                    ![p].m_buffer = IF n = 0 THEN @ ELSE bytes(n)]
    BY <1>3, Zenon DEF Recv
  <2> HIDE DEF p, bytes, rest
  <2>2. CASE f # g
    <3>1. Spares(g)
      BY <1>0, <2>1, <2>2 DEF Spares
    <3> QED BY <3>1, SparesBrings
  <2>3. CASE f = g
    <3>1. /\ DOMAIN local'[Fd(g)] = DOMAIN local[Fd(g)]
          /\ local'[Fd(g)].input = rest(n)
          /\ local'[Fd(g)].coming = local[Fd(g)].coming
          /\ local'[Fd(g)].peer = local[Fd(g)].peer
      BY <1>0, <2>1, <2>3 DEF Descriptor
    <3>2. IsSequence(input) /\ Len(input) \in Nat
      BY <2>3, SequenceLength DEF Descriptor
    <3>3. n \in 0 .. Len(input)
      BY <2>1, <3>2
    <3>4. /\ IsSequence(rest(n))
          /\ \A S : Occurs(rest(n), S) <= Occurs(input, S)
      <4> HIDE DEF input
      <4> QED BY <3>2, <3>3, OccursRest DEF rest
    <3>5. Descriptor(local', g)
      BY <3>1, <3>4 DEF Descriptor
    <3>6. /\ \A S : Occurs(rest(n), S) \in Nat /\ Occurs(input, S) \in Nat
          /\ \A S : Occurs(local[Fd(g)].coming, S) \in Nat
      BY <3>2, <3>4, OccursNat DEF Descriptor
    <3>7. ASSUME NEW S PROVE Arrivals(local', g, S) <= Arrivals(local, g, S)
      BY <2>3, <3>1, <3>4, <3>6 DEF Arrivals
    <3> QED BY <3>5, <3>7, ArrivalsNat DEF BringsNoMore
  <2> QED BY <2>2, <2>3
<1>4. ASSUME RecvFails(f) PROVE Spares(g)
  BY <1>0, <1>4 DEF RecvFails, Spares
<1>5. ASSUME Send(f) PROVE Spares(g)
  <2>1. ASSUME NEW n, SendBytes(f, n) PROVE Spares(g)
    <3> DEFINE m == First(Writer(f))
               bytes == SubSeq(local[m.response].m_buffer, m.at, m.at + n - 1)
    <3>1. PICK room \in IF f \in Stalls THEN BOOLEAN ELSE {TRUE} :
             local' = [local EXCEPT ![Fd(f)].output = @ \o bytes,
                                    ![Fd(f)].coming = IF local[Fd(f)].peer THEN @ \o bytes ELSE @,
                                    ![Fd(f)].room = room]
      BY <2>1, Zenon DEF SendBytes
    <3> HIDE DEF bytes
    <3>2. CASE f # g
      BY <1>0, <3>1, <3>2 DEF Spares
    <3>3. CASE f = g
      BY <1>0, <3>1, <3>3 DEF Spares, Descriptor
    <3> QED BY <3>2, <3>3
  <2>2. ASSUME SendFails(f) PROVE Spares(g)
    BY <1>0, <2>2 DEF SendFails, Spares
  <2> QED BY <1>5, <2>1, <2>2 DEF Send
<1>6. ASSUME Connect(f) \/ Bind(f) PROVE Spares(g)
  <2>1. PICK error \in BOOLEAN : local' = [local EXCEPT ![Fd(f)].failed = error]
    BY <1>6, Zenon DEF Connect, Bind
  <2> QED BY <1>0, <2>1 DEF Spares
<1>7. ASSUME Listen(f) PROVE Spares(g)
  <2>1. PICK ok \in BOOLEAN, errno \in BOOLEAN :
           local' = [local EXCEPT ![Fd(f)].server = IF ok THEN "listening" ELSE @,
                                  ![Fd(f)].failed = ~ok \/ errno]
    BY <1>7, Zenon DEF Listen
  <2> QED BY <1>0, <2>1 DEF Spares
<1>8. ASSUME Accept(f) PROVE Spares(g)
  <2>1. f # g
    BY <1>8
  <2>2. local' = local \/ local' = [local EXCEPT ![Fd(f)].input = Tail(@)]
    BY <1>8, Zenon DEF Accept
  <2> QED BY <1>0, <2>1, <2>2 DEF Spares
<1> QED BY <1>1, <1>2, <1>3, <1>4, <1>5, <1>6, <1>7, <1>8, SparesBrings DEF SocketStep

LEMMA EnvironmentBrings ==
    ASSUME NEW D, SelectInv(D), NEW g \in Fds, Descriptor(local, g), Environment
    PROVE  BringsNoMore(g)
<1>1. PICK f \in Fds : Arrive(f) \/ Drain(f)
  BY DEF Environment
<1>2. Fd(g) \in D /\ Fd(f) \in D /\ DOMAIN local = D /\ \A h : Fd(g) = Fd(h) => g = h
  BY SocketObjects DEF Fd
<1>3. CASE Drain(f) \/ f # g
  <2>1. ASSUME Drain(f) PROVE Spares(g)
    BY <1>2, <2>1 DEF Drain, Spares
  <2>2. ASSUME Arrive(f), f # g PROVE Spares(g)
    <3>1. local'[Fd(g)] = local[Fd(g)]
      BY <1>2, <2>2 DEF Arrive
    <3> QED BY <3>1 DEF Spares
  <2> QED BY <1>1, <1>3, <2>1, <2>2, SparesBrings
<1>4. CASE Arrive(f) /\ f = g
  <2> DEFINE coming == local[Fd(g)].coming
             input == local[Fd(g)].input
             rest == Tail(coming)
             more == Append(input, Head(coming))
  <2>1. /\ coming # <<>> /\ IsSequence(coming) /\ IsSequence(input)
        /\ local' = [local EXCEPT ![Fd(g)].coming = rest, ![Fd(g)].input = more]
    BY <1>4 DEF Arrive, Descriptor
  <2> HIDE DEF rest, more
  <2>2. /\ DOMAIN local'[Fd(g)] = DOMAIN local[Fd(g)]
        /\ local'[Fd(g)].input = more /\ local'[Fd(g)].coming = rest
        /\ local'[Fd(g)].peer = local[Fd(g)].peer
    BY <1>2, <2>1 DEF Descriptor
  <2>3. IsSequence(rest) /\ IsSequence(more)
    BY <2>1, SequenceTail, SequenceAppend DEF rest, more
  <2>4. Descriptor(local', g)
    BY <2>2, <2>3 DEF Descriptor
  <2>5. ASSUME NEW S PROVE Arrivals(local', g, S) <= Arrivals(local, g, S)
    <3> DEFINE one == IF Head(coming) \in S THEN 1 ELSE 0
    <3>1. /\ Occurs(coming, S) = Occurs(rest, S) + one
          /\ Occurs(more, S) = Occurs(input, S) + one
      BY <2>1, OccursTail, OccursAppend DEF rest, more
    <3>2. one \in Nat /\ Occurs(rest, S) \in Nat /\ Occurs(input, S) \in Nat
      BY <2>1, <2>3, OccursNat
    <3> HIDE DEF one
    <3> QED BY <2>2, <3>1, <3>2 DEF Arrivals
  <2> QED BY <2>4, <2>5, ArrivalsNat DEF BringsNoMore
<1> QED BY <1>1, <1>3, <1>4

LEMMA NothingBrought ==
    ASSUME NEW D, SelectInv(D), NEW g \in Fds, Descriptor(local, g), Next,
           ~Accept(g)
    PROVE  BringsNoMore(g)
<1>1. ASSUME NEW o \in Objects, Call(o) PROVE Spares(g)
  BY <1>1 DEF Call, Spares
<1>2. ASSUME SelectForward PROVE Spares(g)
  BY <1>2 DEF SelectForward, Spares
<1>3. ASSUME NEW f \in Fds, SocketStep(f) PROVE BringsNoMore(g)
  BY <1>3, SocketBrings
<1> QED BY <1>1, <1>2, <1>3, SparesBrings, LoopSpares, PipeSpares, EnvironmentBrings DEF Next

\* A kind without connections.
LEMMA SocketsHold ==
    ASSUME NEW D, IsFiniteSet(D), SelectInv(D), Next, NEW k, KindOK(k),
           k.fd = {} \/ ~\E f \in Fds : Accept(f)
    PROVE  Underway(local', box', todo', k) <= Underway(local, box, todo, k)
<1> DEFINE Kept == Underway(local', box', todo', k) <= Underway(local, box, todo, k)
<1>1. ASSUME NEW o \in Objects, Call(o) PROVE Kept
  <2>1. o \in D
    BY DEF SelectInv, Mail
  <2>2. Underway(local', box', todo', k) = Underway(local, box, todo, k)
    BY <2>1, <1>1, CallHolds
  <2>3. Underway(local, box, todo, k) \in Nat
    BY HeldNat
  <2> QED BY <2>2, <2>3
<1>2. ASSUME SelectForward PROVE Kept
  BY <1>2, SelectForwards, MovesHold
<1>3. ASSUME LoopStep PROVE Kept
  BY <1>3, LoopHolds
<1>4. ASSUME NEW f \in Fds, SocketStep(f), ~Accept(f) PROVE Kept
  <2>1. Moves(D, FALSE)
    BY <1>4, SocketForwards, SocketShuts, SocketReceives, SocketReceivesNot, SocketSends,
       SocketAnswers DEF SocketStep
  <2> QED BY <2>1, MovesHold
<1>5. ASSUME NEW f \in Fds, Accept(f) PROVE Kept
  <2>1. Moves(D, TRUE) /\ k.fd = {}
    BY <1>5, SocketAccepts
  <2> QED BY <2>1, MovesHold
<1>6. ASSUME NEW f \in Fds, PipeStep(Pipe(f)) PROVE Kept
  BY <1>6, PipeKeeps, MovesHold
<1>7. ASSUME Environment PROVE Kept
  <2>1. box' = box /\ todo' = todo /\ local'[Loop] = local[Loop]
    BY <1>7, SocketObjects, LoopIs DEF Environment, Arrive, Drain
  <2>2. Underway(local', box', todo', k) = Underway(local, box, todo, k)
    BY <2>1 DEF Underway, Lists
  <2>3. Underway(local, box, todo, k) \in Nat
    BY HeldNat
  <2> QED BY <2>2, <2>3
<1> HIDE DEF Kept
<1>8. ASSUME NEW f \in Fds, SocketStep(f) PROVE Kept
  BY <1>4, <1>5, <1>8
<1>9. Kept
  BY <1>1, <1>2, <1>3, <1>6, <1>7, <1>8 DEF Next
<1> QED BY <1>9 DEF Kept

LEMMA AcceptWeighs ==
    ASSUME NEW D, IsFiniteSet(D), SelectInv(D), NEW k, KindOK(k),
           k.listener \in Fds, Descriptor(local, k.listener), Accept(k.listener)
    PROVE  /\ Weight(local', box', todo', k) <= Weight(local, box, todo, k)
           /\ Descriptor(local', k.listener)
<1> DEFINE f == k.listener
           m == First(Socket(f))
           e == To(Socket(f), m)
           answer(error, fd) == [is |-> "accept_response", error |-> error, fd |-> fd]
           c(error, fd) == To(m.response, answer(error, fd))
           input == local[Fd(f)].input
<1>1. /\ Gets(Socket(f), "accept") /\ Socket(f) \in D /\ DOMAIN local = D
      /\ Fd(f) \in D /\ Fd(f) # Loop
  BY SocketObjects, LoopIs DEF Accept
<1>2. Sane(m) /\ m.is = "accept"
  BY <1>1, FirstIs
<1>3. \A error, fd : PassesOn(e, c(error, fd))
  <2>1. "response" \in DOMAIN m
    BY <1>2 DEF Sane, Requests
  <2>2. ASSUME NEW error, NEW fd PROVE PassesOn(e, c(error, fd))
    <3> DEFINE a == answer(error, fd)
    <3>1. a.is = "accept_response" /\ "response" \notin DOMAIN a
      OBVIOUS
    <3>2. e.msg = m /\ c(error, fd).to = m.response /\ c(error, fd).msg = a
      BY DEF To
    <3> HIDE DEF a, e, c, m
    <3> QED BY <2>1, <3>1, <3>2 DEF PassesOn, Asking
  <2> QED BY <2>2
<1>4. e.msg.is \notin {"init", "connected"}
  BY <1>2 DEF To
<1>5. \A error, fd : /\ c(error, fd).msg.error = error /\ c(error, fd).msg.fd = fd
  BY DEF To
<1>6. IsSequence(input) /\ IsSequence(local[Fd(f)].coming)
  BY DEF Descriptor
<1>7. \A error, fd : IsSequence(<<c(error, fd)>>) /\ Number(<<c(error, fd)>>, k) = One(c(error, fd), k)
                     /\ One(c(error, fd), k) \in {0, 1}
  <2> HIDE DEF c
  <2> QED BY SequenceFew, NumberNat, OneIs
<1>8. Lists(local, k.of) \in Nat /\ Arrivals(local, f, k.fd) \in Nat
  BY HeldNat, ArrivalsNat
<1>9. CASE Does(Socket(f), <<c(TRUE, f)>>) /\ local' = local
  <2> DEFINE d == c(TRUE, f)
  <2>1. d.msg.error = TRUE /\ PassesOn(e, d)
    BY <1>3, <1>5
  <2>2. One(d, k) <= One(e, k)
    <3> HIDE DEF d, e
    <3> QED BY <1>4, <2>1, PassedOne
  <2>3. IsSequence(<<d>>) /\ Number(<<d>>, k) = One(d, k) /\ One(d, k) \in {0, 1}
        /\ Does(Socket(f), <<d>>)
    BY <1>7, <1>9
  <2> HIDE DEF d, e
  <2>4. /\ Load(box', todo', k) + One(e, k) = Load(box, todo, k) + One(d, k)
        /\ Load(box, todo, k) \in Nat /\ Load(box', todo', k) \in Nat
        /\ One(e, k) \in {0, 1}
    BY <1>1, <2>3, MethodHolds DEF e
  <2>5. /\ Lists(local', k.of) = Lists(local, k.of)
        /\ Arrivals(local', f, k.fd) = Arrivals(local, f, k.fd)
        /\ Descriptor(local', f)
    BY <1>9
  <2> QED BY <1>8, <2>2, <2>3, <2>4, <2>5 DEF Weight, Underway
<1>10. CASE /\ input # <<>> /\ Does(Socket(f), <<c(FALSE, Head(input))>>)
            /\ local' = [local EXCEPT ![Fd(f)].input = Tail(input)]
  <2> DEFINE one == IF Head(input) \in k.fd THEN 1 ELSE 0
             d == c(FALSE, Head(input))
  <2>1. d.msg.fd = Head(input) /\ PassesOn(e, d)
    BY <1>3, <1>5
  <2>2. /\ local'[Fd(f)].input = Tail(input) /\ local'[Fd(f)].coming = local[Fd(f)].coming
        /\ DOMAIN local'[Fd(f)] = DOMAIN local[Fd(f)] /\ local'[Fd(f)].peer = local[Fd(f)].peer
        /\ local'[Loop] = local[Loop]
    BY <1>1, <1>10 DEF Descriptor
  <2>3. /\ Occurs(input, k.fd) = Occurs(Tail(input), k.fd) + one
        /\ IsSequence(Tail(input)) /\ Occurs(Tail(input), k.fd) \in Nat
        /\ Occurs(local[Fd(f)].coming, k.fd) \in Nat
    BY <1>6, <1>10, OccursTail, SequenceTail, OccursNat
  <2>4. one \in {0, 1}
    OBVIOUS
  <2>5. One(d, k) <= One(e, k) + one
    <3> HIDE DEF d, e
    <3> QED BY <1>4, <2>1, PassedOne
  <2>6. IsSequence(<<d>>) /\ Number(<<d>>, k) = One(d, k) /\ One(d, k) \in {0, 1}
        /\ Does(Socket(f), <<d>>)
    BY <1>7, <1>10
  <2> HIDE DEF one, d, e
  <2>7. /\ Load(box', todo', k) + One(e, k) = Load(box, todo, k) + One(d, k)
        /\ Load(box, todo, k) \in Nat /\ Load(box', todo', k) \in Nat
        /\ One(e, k) \in {0, 1}
    BY <1>1, <2>6, MethodHolds DEF e
  <2>8. Lists(local', k.of) = Lists(local, k.of)
    BY <2>2 DEF Lists
  <2>9. Arrivals(local', f, k.fd) + one = Arrivals(local, f, k.fd)
        /\ Arrivals(local', f, k.fd) \in Nat
    BY <2>2, <2>3, <2>4 DEF Arrivals
  <2>10. Descriptor(local', f)
    BY <2>2, <2>3 DEF Descriptor
  <2> QED BY <1>8, <2>4, <2>5, <2>6, <2>7, <2>8, <2>9, <2>10 DEF Weight, Underway
<1>11. \/ Does(Socket(f), <<c(TRUE, f)>>) /\ local' = local
       \/ /\ input # <<>> /\ Does(Socket(f), <<c(FALSE, Head(input))>>)
          /\ local' = [local EXCEPT ![Fd(f)].input = Tail(input)]
  BY DEF Accept
<1> HIDE DEF c, input
<1> QED BY <1>9, <1>10, <1>11

LEMMA SocketsWeigh ==
    ASSUME NEW D, IsFiniteSet(D), SelectInv(D), Next, NEW k, KindOK(k),
           k.listener \in Fds, Descriptor(local, k.listener),
           \A f \in Fds : Gets(Socket(f), "accept") => f = k.listener
    PROVE  /\ Weight(local', box', todo', k) <= Weight(local, box, todo, k)
           /\ Descriptor(local', k.listener)
<1>1. CASE Accept(k.listener)
  BY <1>1, AcceptWeighs
<1>2. CASE ~Accept(k.listener)
  <2>1. ~\E f \in Fds : Accept(f)
    BY <1>2 DEF Accept
  <2>2. Underway(local', box', todo', k) <= Underway(local, box, todo, k)
    BY <2>1, SocketsHold
  <2>3. BringsNoMore(k.listener)
    BY <1>2, NothingBrought
  <2>4. Underway(local, box, todo, k) \in Nat
    BY HeldNat
  <2>5. SelectInv(D)'
    BY SocketsKeep
  <2>6. Underway(local', box', todo', k) \in Nat
    <3>1. Lines(box', todo', D) /\ LoopLists'
      BY <2>5 DEF SelectInv, Mail, Lines
    <3>2. Load(box', todo', k) \in Nat
      BY <3>1, LoadNat
    <3>3. Lists(local', k.of) \in Nat
      BY <3>1, WaitingNat DEF LoopLists, Lists
    <3> QED BY <3>2, <3>3 DEF Underway
  <2> QED BY <2>2, <2>3, <2>4, <2>6 DEF BringsNoMore, Weight
<1> QED BY <1>1, <1>2

-----------------------------------------------------------------------------
(* One request: what follows from a bound on what is held *)

InFlightFlies == InFlight = Flight(box, todo) /\ \A x : Envelope(x) = Enveloped(box, todo, x)

LEMMA FlightIsInFlight == InFlightFlies
BY DEF InFlightFlies, InFlight, Flight, Envelope, Enveloped

LEMMA NoLoad ==
    ASSUME NEW D, IsFiniteSet(D), SelectInv(D), NEW k, Load(box, todo, k) = 0
    PROVE  /\ \A x \in Flight(box, todo) : ~About(Enveloped(box, todo, x), k)
           /\ \A o \in D : \A type : Gets(o, type) => ~About(To(o, First(o)), k)
<1>1. Lines(box, todo, D)
  BY HeldNat
<1>2. IsFiniteSet(Flight(box, todo))
  BY <1>1, FlightFinite
<1>3. IsFiniteSet(Concerning(box, todo, k))
  <2>1. Concerning(box, todo, k) \subseteq Flight(box, todo)
    BY DEF Concerning
  <2> QED BY <1>2, <2>1, FS_Subset
<1>4. Concerning(box, todo, k) = {}
  BY <1>3, FS_EmptySet DEF Load
<1>5. \A x \in Flight(box, todo) : ~About(Enveloped(box, todo, x), k)
  BY <1>4 DEF Concerning
<1>6. ASSUME NEW o \in D, NEW type, Gets(o, type) PROVE ~About(To(o, First(o)), k)
  <2>1. IsSequence(box[o]) /\ box[o] # <<>>
    BY <1>1, <1>6 DEF Gets, Lines
  <2>2. 1 \in 1 .. Len(box[o]) /\ Head(box[o]) = box[o][1]
    BY <2>1, SequenceTail
  <2>3. /\ <<o, "box", 1>> \in Flight(box, todo)
        /\ Enveloped(box, todo, <<o, "box", 1>>) = To(o, box[o][1])
    BY <1>1, <2>2, FlightIs
  <2> QED BY <1>5, <2>2, <2>3 DEF First
<1> QED BY <1>5, <1>6

\* The places of p in a list, as members of Tokens.
Tagged(tag, s, p) == {<<tag, i>> : i \in Listed(s, p)}

LEMMA TaggedWait ==
    \A tag, s, p, O : IsSequence(s) /\ O = {p} =>
        /\ IsFiniteSet(Tagged(tag, s, p))
        /\ Cardinality(Tagged(tag, s, p)) = Waiting(s, O) /\ Waiting(s, O) \in Nat
<1> SUFFICES ASSUME NEW tag, NEW s, NEW p, NEW O, IsSequence(s), O = {p}
             PROVE  /\ IsFiniteSet(Tagged(tag, s, p))
                    /\ Cardinality(Tagged(tag, s, p)) = Waiting(s, O) /\ Waiting(s, O) \in Nat
  OBVIOUS
<1> DEFINE L == Listed(s, p)
           F == Tagged(tag, s, p)
           g == [i \in L |-> <<tag, i>>]
<1>1. L = {i \in 1 .. Len(s) : s[i].response \in O}
  BY SequenceLength DEF Listed
<1>2. IsFiniteSet(L)
  <2>1. IsFiniteSet(1 .. Len(s)) /\ L \subseteq 1 .. Len(s)
    BY <1>1, SequenceLength, FS_Interval
  <2> QED BY <2>1, FS_Subset
<1>3. Cardinality(L) = Waiting(s, O)
  BY <1>1 DEF Waiting
<1>4. g \in [L -> F] /\ (\A x, y \in L : g[x] = g[y] => x = y) /\ \A y \in F : \E x \in L : g[x] = y
  BY DEF Tagged
<1> HIDE DEF L, F, g
<1>5. IsFiniteSet(F) /\ Cardinality(F) = Cardinality(L)
  BY <1>2, <1>4, AsMany
<1>6. Waiting(s, O) \in Nat
  BY WaitingNat
<1> QED BY <1>3, <1>5, <1>6 DEF F

LEMMA TokensFollow ==
    ASSUME NEW D, IsFiniteSet(D), SelectInv(D), NEW p, NEW k, k.of = {p},
           Underway(local, box, todo, k) <= 1,
           \A x \in Flight(box, todo) :
              Asking(Enveloped(box, todo, x), p) =>
                 Enveloped(box, todo, x).msg.is \notin {"init", "connected"}
    PROVE  Cardinality(Tokens(p)) <= 1
<1> DEFINE A == {y \in InFlight : Asking(Envelope(y), p)}
           B == Tagged("reader", local[Loop].readers, p)
           C == Tagged("writer", local[Loop].writers, p)
<1>1. Lines(box, todo, D) /\ Load(box, todo, k) \in Nat
  BY HeldNat
<1>2. IsFiniteSet(A) /\ Cardinality(A) <= Load(box, todo, k) /\ Cardinality(A) \in Nat
  <2>1. A \subseteq Concerning(box, todo, k)
    BY FlightIsInFlight DEF InFlightFlies, Concerning, About, Asking
  <2>2. IsFiniteSet(Concerning(box, todo, k))
    <3>1. IsFiniteSet(Flight(box, todo)) /\ Concerning(box, todo, k) \subseteq Flight(box, todo)
      BY <1>1, FlightFinite DEF Concerning
    <3> QED BY <3>1, FS_Subset
  <2> QED BY <2>1, <2>2, FS_Subset, FS_CardinalityType DEF Load
<1>4. IsSequence(local[Loop].readers) /\ IsSequence(local[Loop].writers)
  BY DEF SelectInv, LoopLists
<1>5. IsFiniteSet(B) /\ Cardinality(B) = Waiting(local[Loop].readers, k.of)
      /\ Waiting(local[Loop].readers, k.of) \in Nat
  BY <1>4, TaggedWait
<1>6. IsFiniteSet(C) /\ Cardinality(C) = Waiting(local[Loop].writers, k.of)
      /\ Waiting(local[Loop].writers, k.of) \in Nat
  BY <1>4, TaggedWait
<1>7. Tokens(p) = (A \cup B) \cup C
  BY DEF Tokens, Tagged
<1> HIDE DEF A, B, C
<1>8. IsFiniteSet(A \cup B) /\ Cardinality(A \cup B) <= Cardinality(A) + Cardinality(B)
      /\ Cardinality(A \cup B) \in Nat
  <2>1. IsFiniteSet(A \cup B) /\ IsFiniteSet(A \cap B)
    BY <1>2, <1>5, FS_Union, FS_Intersection
  <2>2. Cardinality(A \cap B) \in Nat /\ Cardinality(A \cup B) \in Nat
    BY <2>1, FS_CardinalityType
  <2>3. Cardinality(A \cup B) = Cardinality(A) + Cardinality(B) - Cardinality(A \cap B)
    BY <1>2, <1>5, FS_Union
  <2> QED BY <1>2, <1>5, <2>1, <2>2, <2>3
<1>9. Cardinality((A \cup B) \cup C) <= Cardinality(A \cup B) + Cardinality(C)
      /\ Cardinality((A \cup B) \cup C) \in Nat
  <2> DEFINE X == A \cup B
  <2>1. IsFiniteSet(X \cup C) /\ IsFiniteSet(X \cap C)
    BY <1>6, <1>8, FS_Union, FS_Intersection
  <2>2. Cardinality(X \cap C) \in Nat /\ Cardinality(X \cup C) \in Nat
    BY <2>1, FS_CardinalityType
  <2>3. Cardinality(X \cup C) = Cardinality(X) + Cardinality(C) - Cardinality(X \cap C)
    BY <1>6, <1>8, FS_Union
  <2> QED BY <1>6, <1>8, <2>2, <2>3
<1> QED BY <1>1, <1>2, <1>5, <1>6, <1>7, <1>8, <1>9 DEF Underway, Lists

LEMMA HeldNatNext ==
    ASSUME NEW D, IsFiniteSet(D), SelectInv(D)', NEW k
    PROVE  Underway(local', box', todo', k) \in Nat
<1>1. Lines(box', todo', D) /\ LoopLists'
  BY DEF SelectInv, Mail, Lines
<1>2. Load(box', todo', k) \in Nat
  BY <1>1, LoadNat
<1>3. Lists(local', k.of) \in Nat
  BY <1>1, WaitingNat DEF LoopLists, Lists
<1> QED BY <1>2, <1>3 DEF Underway

\* What main has sent.
LEMMA StartsFlight ==
    ASSUME NEW D, IsFiniteSet(D), SelectInv(D), NEW members, NEW messages,
           Starts(members, messages), DOMAIN members = D, DOMAIN messages = D,
           members[Loop] = EmptyLoop
    PROVE  /\ \A k : Underway(local, box, todo, k) = Load(box, todo, k)
           /\ \A k : Load(box, todo, k) \in Nat
           /\ \A o \in D : IsSequence(messages[o])
           /\ \A x \in Flight(box, todo) :
                 \E o \in D : \E i \in 1 .. Len(messages[o]) :
                    /\ x = <<o, "box", i>>
                    /\ Enveloped(box, todo, x) = To(o, messages[o][i])
<1>1. local = members /\ box = messages /\ todo = [o \in D |-> <<>>]
  BY DEF Starts
<1>2. Lines(box, todo, D) /\ Len(<<>>) = 0 /\ 1 .. 0 = {}
  BY HeldNat, SequenceFew
<1>3. ASSUME NEW k PROVE Underway(local, box, todo, k) = Load(box, todo, k) /\ Load(box, todo, k) \in Nat
  <2>1. Waiting(<<>>, k.of) = 0
    <3>1. {i \in 1 .. Len(<<>>) : <<>>[i].response \in k.of} = {}
      BY <1>2
    <3> QED BY <3>1, FS_EmptySet DEF Waiting
  <2>2. local[Loop].readers = <<>> /\ local[Loop].writers = <<>>
    BY <1>1 DEF EmptyLoop
  <2>3. Load(box, todo, k) \in Nat
    BY HeldNat
  <2> QED BY <2>1, <2>2, <2>3 DEF Lists, Underway
<1>4. \A x \in Flight(box, todo) :
         \E o \in D : \E i \in 1 .. Len(messages[o]) :
            /\ x = <<o, "box", i>>
            /\ Enveloped(box, todo, x) = To(o, messages[o][i])
  <2>1. \A o \in D : 1 .. Len(todo[o]) = {}
    BY <1>1, <1>2
  <2> QED BY <1>1, <1>2, <2>1, FlightIs
<1>5. \A o \in D : IsSequence(messages[o])
  BY <1>1, <1>2 DEF Lines
<1> QED BY <1>3, <1>4, <1>5

LEMMA StartsNone ==
    ASSUME NEW D, IsFiniteSet(D), SelectInv(D), NEW members, NEW messages,
           Starts(members, messages), DOMAIN members = D, DOMAIN messages = D,
           members[Loop] = EmptyLoop, NEW k,
           \A o \in D : \A m \in Range(messages[o]) : ~About(To(o, m), k)
    PROVE  Underway(local, box, todo, k) = 0
<1>1. \A o \in D : \A i \in 1 .. Len(messages[o]) : ~About(To(o, messages[o][i]), k)
  BY StartsFlight, SequenceLength
<1>2. Concerning(box, todo, k) = {}
  BY <1>1, StartsFlight DEF Concerning
<1>3. Load(box, todo, k) = 0
  BY <1>2, FS_EmptySet DEF Load
<1> QED BY <1>3, StartsFlight

\* Of the messages only the j-th one of o is of the kind.
OnlyAt(messages, D, k, o, j) ==
    \A p \in D : \A i \in 1 .. Len(messages[p]) :
       About(To(p, messages[p][i]), k) => p = o /\ i = j

LEMMA StartsOne ==
    ASSUME NEW D, IsFiniteSet(D), SelectInv(D), NEW members, NEW messages,
           Starts(members, messages), DOMAIN members = D, DOMAIN messages = D,
           members[Loop] = EmptyLoop, NEW k, NEW o, NEW j, OnlyAt(messages, D, k, o, j)
    PROVE  Underway(local, box, todo, k) <= 1
<1> DEFINE S == {<<o, "box", j>>}
<1>1. Concerning(box, todo, k) \subseteq S
  BY StartsFlight DEF Concerning, OnlyAt
<1>2. IsFiniteSet(S) /\ Cardinality(S) = 1
  BY FS_Singleton
<1>3. Load(box, todo, k) <= 1 /\ Load(box, todo, k) \in Nat
  <2> HIDE DEF S
  <2> QED BY <1>1, <1>2, FS_Subset, FS_CardinalityType DEF Load
<1> QED BY <1>3, StartsFlight

-----------------------------------------------------------------------------
(* One request: echo.cpp *)

LEMMA KindsOK ==
    /\ \A f : KindOK(KindOf({Pipe(f)}))
    /\ \A at : KindOK(Stray(at))
<1>1. \A f : Pipe(f)[1] \notin Plumbing
  BY DEF Pipe, Plumbing
<1> QED BY <1>1 DEF KindOK, KindOf, Stray

LEMMA ObjectsFinite ==
    ASSUME SocketsAssumption
    PROVE  IsFiniteSet(Objects)
<1> DEFINE own(f) == {Fd(f), Socket(f), Reader(f), Writer(f), Pipe(f)}
           All == {own(f) : f \in Fds}
           g == [f \in Fds |-> own(f)]
<1>1. IsFiniteSet(Fds)
  BY DEF SocketsAssumption, Fds
<1>2. \A f : IsFiniteSet(own(f))
  <2>1. ASSUME NEW f PROVE IsFiniteSet(own(f))
    <3>1. IsFiniteSet({Fd(f)} \cup {Socket(f)} \cup {Reader(f)} \cup {Writer(f)} \cup {Pipe(f)})
      BY FS_Singleton, FS_Union
    <3>2. own(f) = {Fd(f)} \cup {Socket(f)} \cup {Reader(f)} \cup {Writer(f)} \cup {Pipe(f)}
      OBVIOUS
    <3> HIDE DEF own
    <3> QED BY <3>1, <3>2
  <2> QED BY <2>1
<1> HIDE DEF own
<1>3. IsFiniteSet(All)
  <2>1. g \in Surjection(Fds, All)
    BY DEF Surjection
  <2> HIDE DEF g, All
  <2> QED BY <1>1, <2>1, FS_Surjection
<1>4. \A X \in All : IsFiniteSet(X)
  BY <1>2
<1>5. IsFiniteSet(UNION All)
  <2> HIDE DEF All
  <2> QED BY <1>3, <1>4, FS_UNION
<1>6. IsFiniteSet({Select, Loop, Wake})
  <2>1. IsFiniteSet({Select} \cup {Loop} \cup {Wake})
    BY FS_Singleton, FS_Union
  <2>2. {Select, Loop, Wake} = {Select} \cup {Loop} \cup {Wake}
    OBVIOUS
  <2> QED BY <2>1, <2>2
<1>7. Objects = {Select, Loop, Wake} \cup UNION All
  BY DEF Objects, own
<1> HIDE DEF All
<1> QED BY <1>5, <1>6, <1>7, FS_Union

LEMMA PipesAre ==
    \A o \in Objects : o[1] = "pipe" => \E f \in Fds : o = Pipe(f)
<1> SUFFICES ASSUME NEW o \in Objects, o[1] = "pipe" PROVE \E f \in Fds : o = Pipe(f)
  OBVIOUS
<1>1. o \in {Select, Loop, Wake} \/ \E f \in Fds : o \in {Fd(f), Socket(f), Reader(f), Writer(f), Pipe(f)}
  BY Zenon DEF Objects
<1>2. o \notin {Select, Loop, Wake}
  BY DEF Select, Loop, Wake
<1>3. \A f : o \notin {Fd(f), Socket(f), Reader(f), Writer(f)}
  BY DEF Fd, Socket, Reader, Writer
<1> QED BY <1>1, <1>2, <1>3

\* No init or connected is on its way.
LEMMA NothingStray ==
    ASSUME NEW D, IsFiniteSet(D), SelectInv(D), NEW at, Underway(local, box, todo, Stray(at)) = 0
    PROVE  /\ \A x \in Flight(box, todo) : ~About(Enveloped(box, todo, x), Stray(at))
           /\ \A o \in D : \A type : Gets(o, type) => ~About(To(o, First(o)), Stray(at))
<1>1. Load(box, todo, Stray(at)) = 0
  <2>1. /\ Load(box, todo, Stray(at)) \in Nat /\ Lists(local, Stray(at).of) \in Nat
        /\ Underway(local, box, todo, Stray(at)) = Load(box, todo, Stray(at)) + Lists(local, Stray(at).of)
    BY HeldNat DEF Underway
  <2> QED BY <2>1
<1> QED BY <1>1, NoLoad

LEMMA EchoBegins ==
    ASSUME SocketsAssumption, Init
    PROVE  EchoInv
<1> DEFINE members == [Members EXCEPT ![Pipe(0)] = NewPipe(1)]
           messages == [NoMessages EXCEPT ![Pipe(0)] = <<Plain("start")>>]
<1>1. Starts(members, messages)
  BY DEF Init
<1>2. DOMAIN members = Objects /\ DOMAIN messages = Objects
  BY ObjectsAre
<1>3. members[Loop] = EmptyLoop
  BY ObjectsAre, LoopIs
<1>4. \A o \in Objects : /\ messages[o] \in {<<>>, <<Plain("start")>>}
                         /\ o # Pipe(0) => messages[o] = <<>>
  BY ObjectsAre
<1>5. SelectInv(Objects) /\ IsFiniteSet(Objects)
  BY EchoStarts, ObjectsFinite
<1> HIDE DEF members, messages
<1>6. Underway(local, box, todo, Stray({})) = 0
  <2>1. \A o \in Objects : \A m \in Range(messages[o]) : m = Plain("start")
    BY <1>4, SequenceFew
  <2>2. \A o : ~About(To(o, Plain("start")), Stray({}))
    BY DEF About, To, Plain, Stray
  <2> QED BY <1>1, <1>2, <1>3, <1>5, <2>1, <2>2, StartsNone
<1>7. ASSUME NEW f \in Fds PROVE Underway(local, box, todo, KindOf({Pipe(f)})) <= 1
  <2>1. \A p \in Objects : \A i \in 1 .. Len(messages[p]) : p = Pipe(0) /\ i = 1
    <3>1. Len(<<>>) = 0 /\ Len(<<Plain("start")>>) = 1 /\ 1 .. 0 = {} /\ 1 .. 1 = {1}
      BY SequenceFew
    <3> QED BY <1>4, <3>1
  <2> DEFINE k == KindOf({Pipe(f)})
             o == Pipe(0)
  <2>2. OnlyAt(messages, Objects, k, o, 1)
    BY <2>1 DEF OnlyAt
  <2> HIDE DEF k, o
  <2>3. Underway(local, box, todo, k) <= 1
    BY <1>1, <1>2, <1>3, <1>5, <2>2, StartsOne
  <2> QED BY <2>3 DEF k
<1> QED BY <1>5, <1>6, <1>7 DEF EchoInv

LEMMA EchoKeeps ==
    ASSUME SocketsAssumption, EchoInv, Next
    PROVE  EchoInv'
<1>1. SelectInv(Objects) /\ IsFiniteSet(Objects) /\ SelectInv(Objects)'
  BY ObjectsFinite, SocketsKeep DEF EchoInv
<1>2. ASSUME NEW k, KindOK(k), k.fd = {}
      PROVE  /\ Underway(local', box', todo', k) <= Underway(local, box, todo, k)
             /\ Underway(local', box', todo', k) \in Nat /\ Underway(local, box, todo, k) \in Nat
  BY <1>1, <1>2, SocketsHold, HeldNat, HeldNatNext
<1>3. Underway(local', box', todo', Stray({})) = 0
  <2>1. KindOK(Stray({})) /\ Stray({}).fd = {}
    BY KindsOK DEF Stray
  <2>2. /\ Underway(local', box', todo', Stray({})) <= Underway(local, box, todo, Stray({}))
        /\ Underway(local', box', todo', Stray({})) \in Nat
    BY <1>2, <2>1
  <2> QED BY <2>2 DEF EchoInv
<1>4. ASSUME NEW f \in Fds PROVE Underway(local', box', todo', KindOf({Pipe(f)})) <= 1
  <2> DEFINE k == KindOf({Pipe(f)})
  <2>1. KindOK(k) /\ k.fd = {}
    BY KindsOK DEF KindOf
  <2>2. Underway(local, box, todo, k) <= 1
    BY DEF EchoInv
  <2> HIDE DEF k
  <2>3. Underway(local', box', todo', k) <= 1
    BY <1>2, <2>1, <2>2
  <2> QED BY <2>3 DEF k
<1> QED BY <1>1, <1>3, <1>4 DEF EchoInv

LEMMA EchoOneRequest ==
    ASSUME SocketsAssumption, EchoInv
    PROVE  OneRequest
<1>1. SelectInv(Objects) /\ IsFiniteSet(Objects) /\ DOMAIN local = Objects
  BY ObjectsFinite DEF EchoInv, SelectInv, Mail
<1>2. \A x \in Flight(box, todo) : Enveloped(box, todo, x).msg.is \notin {"init", "connected"}
  <2>1. \A x \in Flight(box, todo) : ~About(Enveloped(box, todo, x), Stray({}))
    BY <1>1, NothingStray DEF EchoInv
  <2> QED BY <2>1 DEF About, Stray
<1>3. ASSUME NEW o \in DOMAIN local, o[1] = "pipe" PROVE Cardinality(Tokens(o)) <= 1
  <2>1. PICK f \in Fds : o = Pipe(f)
    BY <1>1, <1>3, PipesAre
  <2>2. KindOf({o}).of = {o}
    BY DEF KindOf
  <2>3. Underway(local, box, todo, KindOf({o})) <= 1
    BY <2>1 DEF EchoInv
  <2> QED BY <1>1, <1>2, <2>2, <2>3, TokensFollow
<1> QED BY <1>3 DEF OneRequest

\* Safety of echo.cpp, for any descriptors, buffers and threads: a pipe asks for one
\* thing at a time, so that nothing is read into its buffer while the writer still
\* writes from it (active_socket.cpp:305-368).
THEOREM OneRequestHolds ==
    ASSUME SocketsAssumption
    PROVE  Init /\ [][Next]_state => []OneRequest
<1>1. Init => EchoInv
  BY EchoBegins
<1>2. EchoInv /\ [Next]_state => EchoInv'
  <2>1. ASSUME EchoInv, UNCHANGED state PROVE EchoInv'
    <3>1. SelectInv(Objects)'
      BY <2>1, NothingKeeps DEF EchoInv
    <3>2. local' = local /\ box' = box /\ todo' = todo
      BY <2>1 DEF state
    <3> QED BY <2>1, <3>1, <3>2 DEF EchoInv
  <2> QED BY <2>1, EchoKeeps
<1>3. EchoInv => OneRequest
  BY EchoOneRequest
<1> QED BY <1>1, <1>2, <1>3, PTL

-----------------------------------------------------------------------------
(* One request: echo_server.cpp *)

LEMMA ServerKindIs ==
    ASSUME NEW f
    PROVE  /\ KindOK(ServerKind(f)) /\ ServerKind(f).listener = Listener
           /\ ServerKind(f).fd = {f}
           /\ \A e : About(e, ServerKind(f)) <=>
                 \/ /\ e.msg.is \notin {"init", "connected"}
                    /\ \/ e.to \in {Pipe(f), Connection(f)}
                       \/ "response" \in DOMAIN e.msg /\ e.msg.response \in {Pipe(f), Connection(f)}
                 \/ e.msg.is = "accept_response" /\ ~e.msg.error /\ e.msg.fd = f
<1>1. Pipe(f)[1] \notin Plumbing /\ Connection(f)[1] \notin Plumbing
  BY DEF Pipe, Connection, Plumbing
<1> QED BY <1>1 DEF KindOK, ServerKind, About

LEMMA ServerFinite ==
    ASSUME SocketsAssumption
    PROVE  IsFiniteSet(AllServerObjects)
<1> DEFINE C == {Connection(f) : f \in Fds}
           g == [f \in Fds |-> Connection(f)]
<1>1. IsFiniteSet(Fds) /\ IsFiniteSet(Objects)
  BY ObjectsFinite DEF SocketsAssumption, Fds
<1>2. g \in Surjection(Fds, C)
  BY DEF Surjection
<1> HIDE DEF g, C
<1>3. IsFiniteSet(C)
  BY <1>1, <1>2, FS_Surjection
<1>4. IsFiniteSet({Server} \cup C)
  BY <1>3, FS_Singleton, FS_Union
<1>5. ServerObjects = {Server} \cup C
  BY DEF ServerObjects, C
<1> QED BY <1>1, <1>4, <1>5, FS_Union DEF AllServerObjects

\* What a method of the server or of a connection sends.
Proper(o, calls) ==
    /\ IsSequence(calls) /\ Number(calls, Stray(Accepts)) = 0
    /\ \A f : Number(calls, ServerKind(f)) <= One(To(o, First(o)), ServerKind(f))

LEMMA ServerSends ==
    /\ \A type \in {"bind_in", "listen", "accept"} :
          LET c == To(Socket(Listener), Ask(type, Server))
          IN  One(c, Stray(Accepts)) = 0 /\ \A f : One(c, ServerKind(f)) = 0
    /\ One(AwaitConnection, Stray(Accepts)) = 0
    /\ \A f : One(AwaitConnection, ServerKind(f)) = 0
    /\ \A g : LET c == To(Connection(g), Plain("start"))
              IN  /\ One(c, Stray(Accepts)) = 0
                  /\ \A f : One(c, ServerKind(f)) = IF f = g THEN 1 ELSE 0
    /\ \A g : LET c == To(Pipe(g), Plain("start"))
              IN  /\ One(c, Stray(Accepts)) = 0
                  /\ \A f : One(c, ServerKind(f)) = IF f = g THEN 1 ELSE 0
<1>0. /\ \A f : Server # Pipe(f) /\ Server # Connection(f)
      /\ \A f : Socket(Listener) # Pipe(f) /\ Socket(Listener) # Connection(f)
      /\ \A f : Select # Pipe(f) /\ Select # Connection(f)
      /\ \A f, g : Pipe(f) # Connection(g)
      /\ \A f, g : Pipe(f) = Pipe(g) => f = g
      /\ \A f, g : Connection(f) = Connection(g) => f = g
  BY DEF Server, Pipe, Connection, Socket, Select
<1>1. ASSUME NEW type \in {"bind_in", "listen", "accept"}
      PROVE  LET c == To(Socket(Listener), Ask(type, Server))
             IN  One(c, Stray(Accepts)) = 0 /\ \A f : One(c, ServerKind(f)) = 0
  <2> DEFINE c == To(Socket(Listener), Ask(type, Server))
  <2>1. /\ c.to = Socket(Listener) /\ c.msg.is = type /\ c.msg.response = Server
        /\ To(c.to, c.msg) = c /\ (type = "accept" => c \in Accepts)
    BY DEF To, Ask, Accepts
  <2> HIDE DEF c
  <2>2. \A f : ~About(c, ServerKind(f))
    BY <1>0, <2>1, ServerKindIs
  <2>3. ~About(c, Stray(Accepts))
    <3>1. type = "accept" => To(c.to, c.msg) \in Accepts
      BY <2>1
    <3> QED BY <2>1, <3>1 DEF About, Stray
  <2> QED BY <2>2, <2>3, OneIs DEF c
<1>2. One(AwaitConnection, Stray(Accepts)) = 0 /\ \A f : One(AwaitConnection, ServerKind(f)) = 0
  <2>1. /\ AwaitConnection.to = Select /\ AwaitConnection.msg.is = "read"
        /\ AwaitConnection.msg.response = Server
    BY DEF AwaitConnection, To, Wait
  <2>2. \A f : ~About(AwaitConnection, ServerKind(f))
    BY <1>0, <2>1, ServerKindIs
  <2>3. ~About(AwaitConnection, Stray(Accepts))
    BY <2>1 DEF About, Stray
  <2> QED BY <2>2, <2>3, OneIs
<1>3. ASSUME NEW o PROVE LET c == To(o, Plain("start"))
                         IN  /\ One(c, Stray(Accepts)) = 0
                             /\ \A f : About(c, ServerKind(f)) <=> o \in {Pipe(f), Connection(f)}
  <2> DEFINE c == To(o, Plain("start"))
  <2>1. c.to = o /\ c.msg.is = "start" /\ "response" \notin DOMAIN c.msg
    BY DEF To, Plain
  <2> HIDE DEF c
  <2>2. \A f : About(c, ServerKind(f)) <=> o \in {Pipe(f), Connection(f)}
    BY <2>1, ServerKindIs
  <2>3. ~About(c, Stray(Accepts))
    BY <2>1 DEF About, Stray
  <2> QED BY <2>2, <2>3, OneIs DEF c
<1>4. ASSUME NEW g
      PROVE  LET c == To(Connection(g), Plain("start"))
             IN  /\ One(c, Stray(Accepts)) = 0
                 /\ \A f : One(c, ServerKind(f)) = IF f = g THEN 1 ELSE 0
  BY <1>0, <1>3 DEF One
<1>5. ASSUME NEW g
      PROVE  LET c == To(Pipe(g), Plain("start"))
             IN  /\ One(c, Stray(Accepts)) = 0
                 /\ \A f : One(c, ServerKind(f)) = IF f = g THEN 1 ELSE 0
  BY <1>0, <1>3 DEF One
<1> QED BY <1>1, <1>2, <1>4, <1>5

LEMMA ServerProper ==
    ASSUME ServerRequestInv, ServerStep
    PROVE  \E o \in ServerObjects : \E type, calls :
              /\ Gets(o, type) /\ Does(o, calls) /\ Proper(o, calls) /\ local' = local
<1> DEFINE G(o, type, calls) ==
             /\ Gets(o, type) /\ Does(o, calls) /\ Proper(o, calls) /\ local' = local
           asks(type) == To(Socket(Listener), Ask(type, Server))
<1>1. \A e, f : One(e, ServerKind(f)) \in {0, 1}
  BY OneIs
<1>2. /\ \A o : Proper(o, <<>>) /\ Proper(o, <<AwaitConnection>>)
      /\ \A o, type : type \in {"bind_in", "listen", "accept"} => Proper(o, <<asks(type)>>)
  <2>1. ASSUME NEW o, NEW c, One(c, Stray(Accepts)) = 0, \A f : One(c, ServerKind(f)) = 0
        PROVE  Proper(o, <<c>>)
    <3>1. IsSequence(<<c>>) /\ \A k : Number(<<c>>, k) = One(c, k)
      BY SequenceFew, NumberNat
    <3>2. Number(<<c>>, Stray(Accepts)) = 0 /\ \A f : Number(<<c>>, ServerKind(f)) = 0
      BY <2>1, <3>1
    <3> HIDE DEF G
    <3> QED BY <1>1, <3>1, <3>2 DEF Proper
  <2>2. ASSUME NEW o PROVE Proper(o, <<>>)
    <3>1. IsSequence(<<>>) /\ \A k : Number(<<>>, k) = 0
      BY SequenceFew, NumberNat
    <3> QED BY <1>1, <3>1 DEF Proper
  <2> QED BY <2>1, <2>2, ServerSends
<1>3. ASSUME Start PROVE G(Server, "start", <<asks("bind_in")>>)
  BY <1>2, <1>3 DEF Start
<1>4. ASSUME BindResponse PROVE \E calls : G(Server, "bind_response", calls)
  <2> DEFINE calls == IF First(Server).error THEN <<>> ELSE <<asks("listen")>>
  <2>1. G(Server, "bind_response", calls)
    BY <1>2, <1>4 DEF BindResponse
  <2> QED BY <2>1
<1>5. ASSUME ListenResult PROVE \E calls : G(Server, "listen_result", calls)
  <2> DEFINE calls == IF First(Server).error THEN <<>> ELSE <<AwaitConnection>>
  <2>1. G(Server, "listen_result", calls)
    BY <1>2, <1>5 DEF ListenResult
  <2> QED BY <2>1
<1>6. ASSUME ReadReady PROVE G(Server, "read_ready", <<asks("accept")>>)
  BY <1>2, <1>6 DEF ReadReady
<1>7. ASSUME AcceptResponse PROVE \E calls : G(Server, "accept_response", calls)
  <2> DEFINE m == First(Server)
             e == To(Server, m)
             c == To(Connection(m.fd), Plain("start"))
             hello == IF m.error THEN <<>> ELSE <<c>>
             last == <<AwaitConnection>>
             calls == hello \o last
  <2>1. Gets(Server, "accept_response") /\ Does(Server, calls) /\ local' = local
    BY <1>7, Zenon DEF AcceptResponse
  <2>2. IsSequence(last) /\ Number(last, Stray(Accepts)) = 0 /\ \A f : Number(last, ServerKind(f)) = 0
    BY SequenceFew, NumberNat, ServerSends
  <2>3. e.msg = m /\ m.is = "accept_response"
    BY <2>1 DEF To, Gets
  <2>4. CASE m.error
    <3>1. calls = last
      <4>1. calls = <<>> \o last
        BY <2>4
      <4> HIDE DEF last, calls
      <4> QED BY <4>1, <2>2, SequenceFew
    <3>2. Proper(Server, last)
      BY <1>2
    <3> QED BY <2>1, <3>1, <3>2
  <2>5. CASE ~m.error
    <3>1. /\ One(c, Stray(Accepts)) = 0
          /\ \A f : One(c, ServerKind(f)) = IF f = m.fd THEN 1 ELSE 0
      BY ServerSends
    <3> HIDE DEF c
    <3> DEFINE first == <<c>>
    <3>2. IsSequence(first) /\ \A k : Number(first, k) = One(c, k)
      BY SequenceFew, NumberNat
    <3>3. calls = first \o last
      BY <2>5
    <3> HIDE DEF first, last, calls, G
    <3>4. IsSequence(calls) /\ \A k : Number(calls, k) = Number(first, k) + Number(last, k)
      BY <2>2, <3>2, <3>3, SequenceConcat, NumberNat
    <3>5. Number(calls, Stray(Accepts)) = 0
      BY <2>2, <3>1, <3>2, <3>4
    <3>6. ASSUME NEW f PROVE Number(calls, ServerKind(f)) <= One(e, ServerKind(f))
      <4>1. m.fd = f => About(e, ServerKind(f))
        <5> HIDE DEF e, m
        <5> QED BY <2>3, <2>5, ServerKindIs
      <4>2. Number(calls, ServerKind(f)) = One(c, ServerKind(f)) + 0
        BY <2>2, <3>2, <3>4
      <4>3. One(e, ServerKind(f)) \in {0, 1} /\ (One(e, ServerKind(f)) = 1 <=> About(e, ServerKind(f)))
        BY OneIs
      <4>4. One(c, ServerKind(f)) = IF f = m.fd THEN 1 ELSE 0
        BY <3>1
      <4> HIDE DEF e, m
      <4> QED BY <4>1, <4>2, <4>3, <4>4
    <3>7. Proper(Server, calls)
      BY <3>4, <3>5, <3>6 DEF Proper
    <3> QED BY <2>1, <3>7 DEF G
  <2> QED BY <2>4, <2>5
<1>8. ASSUME NEW g \in Fds, ConnectionStart(g)
      PROVE  G(Connection(g), "start", <<To(Pipe(g), Plain("start"))>>)
  <2> DEFINE o == Connection(g)
             e == To(o, First(o))
             c == To(Pipe(g), Plain("start"))
  <2>1. Gets(o, "start") /\ Does(o, <<c>>) /\ local' = local
    BY <1>8 DEF ConnectionStart
  <2>2. /\ One(c, Stray(Accepts)) = 0
        /\ \A f : One(c, ServerKind(f)) = IF f = g THEN 1 ELSE 0
    BY ServerSends
  <2>3. e.to = o /\ e.msg.is = "start"
    BY <2>1 DEF To, Gets
  <2> HIDE DEF c, e
  <2>4. IsSequence(<<c>>) /\ \A k : Number(<<c>>, k) = One(c, k)
    BY SequenceFew, NumberNat
  <2>5. ASSUME NEW f PROVE One(c, ServerKind(f)) <= One(e, ServerKind(f))
    <3>1. f = g => About(e, ServerKind(f))
      BY <2>3, ServerKindIs
    <3>2. One(e, ServerKind(f)) \in {0, 1} /\ (One(e, ServerKind(f)) = 1 <=> About(e, ServerKind(f)))
      BY OneIs
    <3> QED BY <2>2, <3>1, <3>2
  <2>6. Proper(o, <<c>>)
    BY <2>2, <2>4, <2>5 DEF Proper, e
  <2> QED BY <2>1, <2>6 DEF c
<1>9. Server \in ServerObjects /\ \A g \in Fds : Connection(g) \in ServerObjects
  BY ServerIs
<1> HIDE DEF G
<1>10. \E o \in ServerObjects : \E type, calls : G(o, type, calls)
  BY <1>3, <1>4, <1>5, <1>6, <1>7, <1>8, <1>9 DEF ServerStep
<1> QED BY <1>10 DEF G

\* Every connection arrives at most once.
LEMMA ComesOnce ==
    ASSUME SocketsAssumption, ServerAssumption, NEW f
    PROVE  Occurs(<<>>, {f}) = 0 /\ Occurs(Source[Listener], {f}) <= 1
           /\ IsSequence(Source[Listener])
<1> DEFINE s == Source[Listener]
<1>1. s \in Seq(Fds) /\ IsSequence(s)
  BY DEF ServerAssumption, IsSequence
<1>2. Occurs(<<>>, {f}) = 0
  BY OccursFew
<1>3. DOMAIN s = 1 .. Len(s)
  BY <1>1
<1>4. \A i, j \in Spots(s, {f}) : i = j
  BY <1>3 DEF Spots, ServerAssumption, IsInjective
<1>5. Cardinality(Spots(s, {f})) <= 1
  <2> DEFINE P == Spots(s, {f})
  <2>1. ASSUME P = {} PROVE Cardinality(P) <= 1
    BY <2>1, FS_EmptySet
  <2>2. ASSUME NEW i \in P PROVE Cardinality(P) <= 1
    <3>1. P = {i}
      BY <1>4, <2>2
    <3>2. Cardinality({i}) = 1
      BY FS_Singleton
    <3> HIDE DEF P
    <3> QED BY <3>1, <3>2
  <2> HIDE DEF P
  <2>3. Cardinality(P) <= 1
    BY <2>1, <2>2
  <2> QED BY <2>3 DEF P
<1> QED BY <1>1, <1>2, <1>5 DEF Occurs

LEMMA ServerBegins ==
    ASSUME SocketsAssumption, ServerAssumption, ServerInit
    PROVE  ServerRequestInv
<1> DEFINE D == AllServerObjects
           members == [o \in Objects \cup ServerObjects |->
              CASE o = Fd(Listener) -> [Open(Listener) EXCEPT !.server = "idle"]
                [] o[1] = "pipe" -> NewPipe(o[2])
                [] o \in Objects \ {Fd(Listener)} -> Members[o]
                [] OTHER -> <<>>]
           messages == [o \in Objects \cup ServerObjects |->
              IF o = Server THEN <<Plain("start")>> ELSE <<>>]
<1>1. Starts(members, messages)
  BY DEF ServerInit
<1>2. DOMAIN members = D /\ DOMAIN messages = D
  BY DEF AllServerObjects
<1>3. Listener \in Fds /\ Listener \notin Peers
  BY DEF ServerAssumption
<1>4. members[Loop] = EmptyLoop
  <2>1. Loop \in Objects /\ Loop # Fd(Listener) /\ Loop[1] # "pipe"
    <3>1. Loop[1] = "select_loop"
      BY DEF Loop
    <3> QED BY <3>1, ObjectsAre, LoopIs
  <2>2. Members[Loop] = EmptyLoop
    BY ObjectsAre
  <2> QED BY <2>1, <2>2
<1>5. members[Fd(Listener)] = [Open(Listener) EXCEPT !.server = "idle"]
  <2>1. Fd(Listener) \in Objects
    BY <1>3, Zenon DEF Objects
  <2>2. Fd(Listener)[1] # "pipe"
    BY DEF Fd
  <2> QED BY <2>1, <2>2
<1>6. \A o \in D : messages[o] = IF o = Server THEN <<Plain("start")>> ELSE <<>>
  BY DEF AllServerObjects
<1>7. SelectInv(D) /\ IsFiniteSet(D)
  BY ServerStarts, ServerFinite
<1>8. local = members
  BY <1>1 DEF Starts
<1> HIDE DEF members, messages
<1>9. Descriptor(local, Listener) /\ \A f : Arrivals(local, Listener, {f}) <= 1
  <2>1. /\ local[Fd(Listener)].input = <<>> /\ local[Fd(Listener)].coming = Source[Listener]
        /\ local[Fd(Listener)].peer = FALSE
        /\ {"input", "coming", "peer"} \subseteq DOMAIN local[Fd(Listener)]
    <3> DEFINE r == [Open(Listener) EXCEPT !.server = "idle"]
    <3>1. /\ r.input = <<>> /\ r.coming = Source[Listener]
          /\ {"input", "coming", "peer"} \subseteq DOMAIN r
      BY DEF Open
    <3>2. r.peer = Open(Listener).peer
      BY DEF Open
    <3>3. Open(Listener).peer = (Listener \in Peers)
      BY Zenon DEF Open
    <3>4. (Listener \in Peers) = FALSE
      BY <1>3
    <3> HIDE DEF r
    <3> QED BY <1>5, <1>8, <3>1, <3>2, <3>3, <3>4 DEF r
  <2>2. IsSequence(<<>>)
    BY SequenceFew
  <2>3. \A f : Occurs(<<>>, {f}) = 0 /\ Occurs(Source[Listener], {f}) <= 1
               /\ IsSequence(Source[Listener]) /\ Occurs(Source[Listener], {f}) \in Nat
    BY ComesOnce, OccursNat
  <2>4. Descriptor(local, Listener)
    BY <2>1, <2>2, <2>3 DEF Descriptor
  <2>5. ASSUME NEW f PROVE Arrivals(local, Listener, {f}) <= 1
    <3>1. Arrivals(local, Listener, {f}) = Occurs(<<>>, {f}) + Occurs(Source[Listener], {f})
      BY <2>1 DEF Arrivals
    <3> DEFINE none == Occurs(<<>>, {f})
               some == Occurs(Source[Listener], {f})
    <3>2. none = 0 /\ some <= 1 /\ some \in Nat
      BY <2>3
    <3> HIDE DEF none, some
    <3>3. none + some <= 1
      BY <3>2
    <3> QED BY <3>1, <3>3 DEF none, some
  <2> QED BY <2>4, <2>5
<1>10. \A o \in D : \A m \in Range(messages[o]) : o = Server /\ m = Plain("start")
  BY <1>6, SequenceFew
<1>11. ASSUME NEW k, ~About(To(Server, Plain("start")), k) PROVE Underway(local, box, todo, k) = 0
  BY <1>1, <1>2, <1>4, <1>7, <1>10, <1>11, StartsNone
<1>12. ~About(To(Server, Plain("start")), Stray(Accepts))
  BY DEF About, To, Plain, Stray
<1>13. \A f : ~About(To(Server, Plain("start")), ServerKind(f))
  <2>1. \A f : Server # Pipe(f) /\ Server # Connection(f)
    BY DEF Server, Pipe, Connection
  <2> QED BY <2>1, ServerKindIs DEF To, Plain
<1>14. ASSUME NEW f PROVE Weight(local, box, todo, ServerKind(f)) <= 1
  <2>1. Underway(local, box, todo, ServerKind(f)) = 0
    BY <1>11, <1>13
  <2>2. Arrivals(local, Listener, {f}) <= 1 /\ Arrivals(local, Listener, {f}) \in Nat
    BY <1>9, ArrivalsNat
  <2>3. Weight(local, box, todo, ServerKind(f)) = 0 + Arrivals(local, Listener, {f})
    BY <2>1, ServerKindIs DEF Weight
  <2> QED BY <2>2, <2>3
<1> QED BY <1>7, <1>9, <1>11, <1>12, <1>14 DEF ServerRequestInv

LEMMA ServerRequestsStay ==
    ASSUME NEW D, D = AllServerObjects, IsFiniteSet(D), ServerRequestInv, SelectInv(D)',
           local' = local,
           \A k : Underway(local', box', todo', k) \in Nat /\ Underway(local, box, todo, k) \in Nat,
           Underway(local', box', todo', Stray(Accepts)) <= Underway(local, box, todo, Stray(Accepts)),
           \A f : Underway(local', box', todo', ServerKind(f)) <= Underway(local, box, todo, ServerKind(f))
    PROVE  ServerRequestInv'
<1>1. Underway(local', box', todo', Stray(Accepts)) = 0
  <2> DEFINE new == Underway(local', box', todo', Stray(Accepts))
  <2>1. new <= 0 /\ new \in Nat
    BY DEF ServerRequestInv
  <2> HIDE DEF new
  <2>2. new = 0
    BY <2>1
  <2> QED BY <2>2 DEF new
<1>2. Descriptor(local', Listener)
  BY DEF ServerRequestInv
<1>3. ASSUME NEW f \in Fds PROVE Weight(local', box', todo', ServerKind(f)) <= 1
  <2> DEFINE k == ServerKind(f)
             old == Underway(local, box, todo, k)
             new == Underway(local', box', todo', k)
             there == Arrivals(local, k.listener, k.fd)
  <2>1. new <= old /\ new \in Nat /\ old \in Nat
    OBVIOUS
  <2>2. there \in Nat
    BY ServerKindIs, ArrivalsNat DEF ServerRequestInv
  <2>3. old + there <= 1
    BY DEF ServerRequestInv, Weight
  <2>4. Weight(local', box', todo', k) = new + there
    BY DEF Weight
  <2> HIDE DEF old, new, there, k
  <2>5. Weight(local', box', todo', k) <= 1
    BY <2>1, <2>2, <2>3, <2>4
  <2> QED BY <2>5 DEF k
<1>4. SelectInv(AllServerObjects)'
  OBVIOUS
<1> QED BY <1>1, <1>2, <1>3, <1>4 DEF ServerRequestInv

LEMMA ServerKeepsRequests ==
    ASSUME SocketsAssumption, ServerAssumption, ServerRequestInv, ServerNext
    PROVE  ServerRequestInv'
<1> DEFINE D == AllServerObjects
<1>1. SelectInv(D) /\ IsFiniteSet(D) /\ SelectInv(D)'
  BY ServerFinite, ServerKeeps DEF ServerRequestInv
<1>2. \A k : Underway(local', box', todo', k) \in Nat /\ Underway(local, box, todo, k) \in Nat
  <2> HIDE DEF D
  <2> QED BY <1>1, HeldNat, HeldNatNext
<1>3. ASSUME NEW o \in ServerObjects, Call(o) PROVE ServerRequestInv'
  <2>1. o \in D
    BY DEF AllServerObjects
  <2>2. \A k : Underway(local', box', todo', k) = Underway(local, box, todo, k)
    <3> HIDE DEF D
    <3> QED BY <1>1, <1>3, <2>1, CallHolds
  <2>3. local' = local
    BY <1>3 DEF Call
  <2>4. \A k : Underway(local', box', todo', k) <= Underway(local, box, todo, k)
    BY <1>2, <2>2
  <2> QED BY <1>1, <1>2, <2>3, <2>4, ServerRequestsStay
<1>4. ASSUME ServerStep PROVE ServerRequestInv'
  <2>1. PICK o \in ServerObjects : \E type, calls :
           /\ Gets(o, type) /\ Does(o, calls) /\ Proper(o, calls) /\ local' = local
    BY <1>4, ServerProper
  <2>2. PICK type, calls :
           /\ Gets(o, type) /\ Does(o, calls) /\ Proper(o, calls) /\ local' = local
    BY <2>1
  <2>3. o \in D
    BY DEF AllServerObjects
  <2>4. ASSUME NEW k, Number(calls, k) <= One(To(o, First(o)), k) \/ Number(calls, k) = 0
        PROVE  Underway(local', box', todo', k) <= Underway(local, box, todo, k)
    <3> HIDE DEF D
    <3>1. /\ Load(box', todo', k) + One(To(o, First(o)), k) = Load(box, todo, k) + Number(calls, k)
          /\ Load(box, todo, k) \in Nat /\ Load(box', todo', k) \in Nat
          /\ One(To(o, First(o)), k) \in {0, 1} /\ Number(calls, k) \in Nat
      BY <1>1, <2>2, <2>3, MethodHolds DEF Proper
    <3>2. Lists(local', k.of) = Lists(local, k.of) /\ Lists(local, k.of) \in Nat
      BY <1>1, <2>2, HeldNat
    <3>3. Load(box', todo', k) <= Load(box, todo, k)
      BY <2>4, <3>1
    <3> QED BY <3>1, <3>2, <3>3 DEF Underway
  <2>5. Underway(local', box', todo', Stray(Accepts)) <= Underway(local, box, todo, Stray(Accepts))
    BY <2>2, <2>4 DEF Proper
  <2>6. \A f : Underway(local', box', todo', ServerKind(f)) <= Underway(local, box, todo, ServerKind(f))
    BY <2>2, <2>4 DEF Proper
  <2> QED BY <1>1, <1>2, <2>2, <2>5, <2>6, ServerRequestsStay
<1>5. ASSUME Next PROVE ServerRequestInv'
  <2> DEFINE stray == Stray(Accepts)
  <2>1. KindOK(stray) /\ stray.fd = {} /\ Underway(local, box, todo, stray) = 0
    BY KindsOK DEF Stray, ServerRequestInv
  <2>2. Underway(local', box', todo', stray) = 0
    <3> HIDE DEF D, stray
    <3>1. Underway(local', box', todo', stray) <= 0 /\ Underway(local', box', todo', stray) \in Nat
      BY <1>1, <1>2, <1>5, <2>1, SocketsHold
    <3> QED BY <3>1
  <2>3. \A f \in Fds : Gets(Socket(f), "accept") => f = Listener
    <3>1. ASSUME NEW f \in Fds, Gets(Socket(f), "accept") PROVE f = Listener
      <4> DEFINE e == To(Socket(f), First(Socket(f)))
      <4>1. Socket(f) \in D
        BY <1>1, <3>1, SocketObjects
      <4>2. ~About(e, stray)
        <5> HIDE DEF D
        <5>1. \A p \in D : \A type : Gets(p, type) => ~About(To(p, First(p)), Stray(Accepts))
          BY <1>1, <2>1, NothingStray
        <5> QED BY <3>1, <4>1, <5>1
      <4>3. e.to = Socket(f) /\ e.msg.is = "accept" /\ To(e.to, e.msg) = e
        BY <3>1 DEF Gets, To
      <4> HIDE DEF e
      <4>4. e \in Accepts
        BY <4>2, <4>3 DEF About, Stray
      <4>5. e.to = Socket(Listener)
        BY <4>4 DEF Accepts, To
      <4> QED BY <4>3, <4>5 DEF Socket
    <3> QED BY <3>1
  <2>4. Descriptor(local, Listener) /\ Listener \in Fds
    BY DEF ServerRequestInv, ServerAssumption
  <2>5. ASSUME NEW f
        PROVE  /\ Weight(local', box', todo', ServerKind(f)) <= Weight(local, box, todo, ServerKind(f))
               /\ Descriptor(local', Listener)
    <3> DEFINE k == ServerKind(f)
    <3>1. KindOK(k) /\ k.listener = Listener
      BY ServerKindIs
    <3> HIDE DEF D, k
    <3>2. Weight(local', box', todo', k) <= Weight(local, box, todo, k) /\ Descriptor(local', k.listener)
      BY <1>1, <1>5, <2>3, <2>4, <3>1, SocketsWeigh
    <3> QED BY <3>1, <3>2 DEF k
  <2>6. Descriptor(local', Listener)
    BY <2>5
  <2>7. ASSUME NEW f \in Fds PROVE Weight(local', box', todo', ServerKind(f)) <= 1
    <3> DEFINE k == ServerKind(f)
               old == Weight(local, box, todo, k)
               new == Weight(local', box', todo', k)
    <3>1. new <= old
      BY <2>5
    <3>2. old <= 1
      BY DEF ServerRequestInv
    <3>3. old \in Nat /\ new \in Nat
      <4>1. k.listener = Listener /\ \A S : Arrivals(local, Listener, S) \in Nat /\ Arrivals(local', Listener, S) \in Nat
        BY <2>4, <2>6, ServerKindIs, ArrivalsNat
      <4>2. Underway(local, box, todo, k) \in Nat /\ Underway(local', box', todo', k) \in Nat
        BY <1>2
      <4> HIDE DEF k
      <4> QED BY <4>1, <4>2 DEF Weight
    <3> HIDE DEF old, new
    <3>4. new <= 1
      BY <3>1, <3>2, <3>3
    <3> QED BY <3>4 DEF new, k
  <2> QED BY <1>1, <2>2, <2>6, <2>7 DEF ServerRequestInv, D
<1> QED BY <1>3, <1>4, <1>5 DEF ServerNext

LEMMA ServerPipes ==
    \A o \in AllServerObjects : o[1] = "pipe" => \E f \in Fds : o = Pipe(f)
<1>1. Server[1] = "my_server" /\ \A f : Connection(f)[1] = "connection"
  BY DEF Server, Connection
<1>2. \A o \in ServerObjects : o[1] # "pipe"
  BY <1>1, Zenon DEF ServerObjects
<1> QED BY <1>2, PipesAre DEF AllServerObjects

\* A kind that includes another holds more.
Includes(k, j) == j.of \subseteq k.of /\ \A e : About(e, j) => About(e, k)

LEMMA WaitingMore ==
    \A s, O, P : IsSequence(s) /\ O \subseteq P => Waiting(s, O) <= Waiting(s, P)
<1> SUFFICES ASSUME NEW s, NEW O, NEW P, IsSequence(s), O \subseteq P
             PROVE  Waiting(s, O) <= Waiting(s, P)
  OBVIOUS
<1> DEFINE A == {i \in 1 .. Len(s) : s[i].response \in O}
           B == {i \in 1 .. Len(s) : s[i].response \in P}
<1>1. A \subseteq B /\ B \subseteq 1 .. Len(s) /\ Len(s) \in Nat
  BY SequenceLength
<1>2. IsFiniteSet(1 .. Len(s))
  BY <1>1, FS_Interval
<1> HIDE DEF A, B
<1>3. Cardinality(A) <= Cardinality(B)
  BY <1>1, <1>2, FS_Subset
<1> QED BY <1>3 DEF A, B, Waiting

LEMMA HeldMore ==
    ASSUME NEW D, IsFiniteSet(D), SelectInv(D), NEW k, NEW j, Includes(k, j)
    PROVE  Underway(local, box, todo, j) <= Underway(local, box, todo, k)
<1>1. Lines(box, todo, D) /\ LoopLists
  BY DEF SelectInv, Mail, Lines
<1>2. Load(box, todo, j) <= Load(box, todo, k)
  <2> DEFINE A == Concerning(box, todo, j)
             B == Concerning(box, todo, k)
  <2>1. A \subseteq B /\ B \subseteq Flight(box, todo)
    BY DEF Concerning, Includes
  <2>2. IsFiniteSet(Flight(box, todo))
    BY <1>1, FlightFinite
  <2> HIDE DEF A, B
  <2>3. Cardinality(A) <= Cardinality(B)
    BY <2>1, <2>2, FS_Subset
  <2> QED BY <2>3 DEF A, B, Load
<1>3. Lists(local, j.of) <= Lists(local, k.of)
  <2> DEFINE rs == local[Loop].readers
             ws == local[Loop].writers
  <2>1. IsSequence(rs) /\ IsSequence(ws)
    BY <1>1 DEF LoopLists
  <2> HIDE DEF rs, ws
  <2>2. Waiting(rs, j.of) <= Waiting(rs, k.of) /\ Waiting(ws, j.of) <= Waiting(ws, k.of)
    BY <2>1, WaitingMore DEF Includes
  <2>3. /\ Waiting(rs, j.of) \in Nat /\ Waiting(rs, k.of) \in Nat
        /\ Waiting(ws, j.of) \in Nat /\ Waiting(ws, k.of) \in Nat
    BY <2>1, WaitingNat
  <2> QED BY <2>2, <2>3 DEF Lists, rs, ws
<1>4. /\ Load(box, todo, j) \in Nat /\ Load(box, todo, k) \in Nat
      /\ Lists(local, j.of) \in Nat /\ Lists(local, k.of) \in Nat
  BY HeldNat
<1> QED BY <1>2, <1>3, <1>4 DEF Underway

LEMMA ServerOneRequest ==
    ASSUME SocketsAssumption, ServerRequestInv
    PROVE  OneRequest
<1> DEFINE D == AllServerObjects
<1>1. SelectInv(D) /\ IsFiniteSet(D) /\ DOMAIN local = D
  BY ServerFinite DEF ServerRequestInv, SelectInv, Mail
<1>2. \A x \in Flight(box, todo) : Enveloped(box, todo, x).msg.is \notin {"init", "connected"}
  <2>1. \A x \in Flight(box, todo) : ~About(Enveloped(box, todo, x), Stray(Accepts))
    BY <1>1, NothingStray DEF ServerRequestInv
  <2>2. \A e \in Accepts : e.msg.is = "accept"
    BY DEF Accepts, To, Ask
  <2>3. \A e : To(e.to, e.msg).msg = e.msg
    BY DEF To
  <2> QED BY <2>1, <2>2, <2>3 DEF About, Stray
<1>3. ASSUME NEW o \in DOMAIN local, o[1] = "pipe" PROVE Cardinality(Tokens(o)) <= 1
  <2>1. PICK f \in Fds : o = Pipe(f)
    BY <1>1, <1>3, ServerPipes
  <2> DEFINE j == KindOf({o})
             k == ServerKind(f)
  <2>2. j.of = {o}
    BY DEF KindOf
  <2>3. Includes(k, j)
    <3>1. k.of = {Pipe(f), Connection(f)}
      BY DEF ServerKind
    <3>2. \A e : About(e, j) => About(e, k)
      BY <2>1 DEF About, KindOf, ServerKind
    <3> QED BY <2>1, <2>2, <3>1, <3>2 DEF Includes
  <2>4. Underway(local, box, todo, k) <= 1
    <3>1. k.listener = Listener
      BY ServerKindIs
    <3>2. Weight(local, box, todo, k) <= 1
      BY DEF ServerRequestInv
    <3> HIDE DEF D, k
    <3>3. Arrivals(local, k.listener, k.fd) \in Nat
      BY <3>1, ArrivalsNat DEF ServerRequestInv
    <3>4. Underway(local, box, todo, k) \in Nat
      BY <1>1, HeldNat
    <3> QED BY <3>2, <3>3, <3>4 DEF Weight
  <2> HIDE DEF D, j, k
  <2>5. Underway(local, box, todo, j) <= Underway(local, box, todo, k)
        /\ Underway(local, box, todo, j) \in Nat /\ Underway(local, box, todo, k) \in Nat
    BY <1>1, <2>3, HeldMore, HeldNat
  <2>6. Underway(local, box, todo, j) <= 1
    BY <2>4, <2>5
  <2> QED BY <1>1, <1>2, <2>2, <2>6, TokensFollow
<1> QED BY <1>3 DEF OneRequest

\* Safety of echo_server.cpp, for any descriptors, connections and threads: a connection
\* is accepted once and started once, so that its pipe asks for one thing at a time
\* (active_socket.cpp:305-368, echo_server.cpp:54-95).
THEOREM ServerOneRequestHolds ==
    ASSUME SocketsAssumption, ServerAssumption
    PROVE  ServerInit /\ [][ServerNext]_state => []OneRequest
<1>1. ServerInit => ServerRequestInv
  BY ServerBegins
<1>2. ServerRequestInv /\ [ServerNext]_state => ServerRequestInv'
  <2>1. ASSUME ServerRequestInv, UNCHANGED state PROVE ServerRequestInv'
    <3>1. SelectInv(AllServerObjects)'
      BY <2>1, NothingKeeps DEF ServerRequestInv
    <3>2. local' = local /\ box' = box /\ todo' = todo
      BY <2>1 DEF state
    <3> QED BY <2>1, <3>1, <3>2 DEF ServerRequestInv
  <2> QED BY <2>1, ServerKeepsRequests
<1>3. ServerRequestInv => OneRequest
  BY ServerOneRequest
<1> QED BY <1>1, <1>2, <1>3, PTL

-----------------------------------------------------------------------------
(* One request: echo_client.cpp *)

\* What a method does to what is held.
LEMMA MethodHeld ==
    ASSUME NEW D, IsFiniteSet(D), SelectInv(D), NEW o \in D, NEW type, Gets(o, type),
           NEW calls, IsSequence(calls), Does(o, calls), local'[Loop] = local[Loop]
    PROVE  \A k : /\ Underway(local', box', todo', k) + One(To(o, First(o)), k)
                       = Underway(local, box, todo, k) + Number(calls, k)
                  /\ Underway(local, box, todo, k) \in Nat /\ Underway(local', box', todo', k) \in Nat
                  /\ One(To(o, First(o)), k) \in {0, 1} /\ Number(calls, k) \in Nat
                  /\ One(To(o, First(o)), k) <= Underway(local, box, todo, k)
<1> SUFFICES ASSUME NEW k
             PROVE  /\ Underway(local', box', todo', k) + One(To(o, First(o)), k)
                         = Underway(local, box, todo, k) + Number(calls, k)
                    /\ Underway(local, box, todo, k) \in Nat /\ Underway(local', box', todo', k) \in Nat
                    /\ One(To(o, First(o)), k) \in {0, 1} /\ Number(calls, k) \in Nat
                    /\ One(To(o, First(o)), k) <= Underway(local, box, todo, k)
  OBVIOUS
<1> DEFINE e == To(o, First(o))
<1>1. /\ Load(box', todo', k) + One(e, k) = Load(box, todo, k) + Number(calls, k)
      /\ Load(box, todo, k) \in Nat /\ Load(box', todo', k) \in Nat
      /\ One(e, k) \in {0, 1} /\ Number(calls, k) \in Nat
  BY MethodHolds
<1>2. Lists(local', k.of) = Lists(local, k.of) /\ Lists(local, k.of) \in Nat
  BY HeldNat DEF Lists
<1>3. Load(box, todo, k) = 0 => One(e, k) = 0
  <2>1. Load(box, todo, k) = 0 => ~About(e, k)
    BY NoLoad
  <2> QED BY <2>1 DEF One
<1> HIDE DEF e
<1>4. /\ Underway(local', box', todo', k) + One(e, k) = Underway(local, box, todo, k) + Number(calls, k)
      /\ Underway(local, box, todo, k) \in Nat /\ Underway(local', box', todo', k) \in Nat
      /\ One(e, k) <= Underway(local, box, todo, k)
  BY <1>1, <1>2, <1>3 DEF Underway
<1> QED BY <1>1, <1>4 DEF e

NoPlumbing(O) == \A o \in O : o[1] \notin Plumbing

LEMMA ClientKindIs ==
    \A O, I, J :
        /\ NoPlumbing(O) => KindOK(ClientKind(O, I, J))
        /\ ClientKind(O, I, J).fd = {} /\ ClientKind(O, I, J).of = O
        /\ \A e : About(e, ClientKind(O, I, J)) <=>
              \/ /\ e.msg.is \notin {"init", "connected"}
                 /\ e.to \in O \/ ("response" \in DOMAIN e.msg /\ e.msg.response \in O)
              \/ e.msg.is = "init" /\ e.to \in I
              \/ e.msg.is = "connected" /\ e.to \in J
BY DEF KindOK, ClientKind, NoPlumbing, About

LEMMA ClientSends ==
    ASSUME NEW O, NEW I, NEW J, NoPlumbing(O)
    PROVE  LET k == ClientKind(O, I, J)
           IN  /\ \A f : One(To(Socket(f), Ask("connect_in", Client(f))), k) = In(Client(f), O)
               /\ \A o, s : One(To(o, Connected(s)), k) = In(o, J)
               /\ \A o : One(To(o, Plain("start")), k) = In(o, O)
               /\ \A o, m : m.is = "init" => One(To(o, m), k) = In(o, I)
               /\ \A o, m : m.is = "connected" => One(To(o, m), k) = In(o, J)
               /\ \A o, m : m.is = "connect_response" => In(o, O) <= One(To(o, m), k)
<1> DEFINE k == ClientKind(O, I, J)
<1>0. \A e : About(e, k) <=>
              \/ /\ e.msg.is \notin {"init", "connected"}
                 /\ e.to \in O \/ ("response" \in DOMAIN e.msg /\ e.msg.response \in O)
              \/ e.msg.is = "init" /\ e.to \in I
              \/ e.msg.is = "connected" /\ e.to \in J
  BY ClientKindIs
<1> HIDE DEF k
<1>1. \A o, m : To(o, m).to = o /\ To(o, m).msg = m
  BY DEF To
<1>2. ASSUME NEW f PROVE One(To(Socket(f), Ask("connect_in", Client(f))), k) = In(Client(f), O)
  <2> DEFINE c == To(Socket(f), Ask("connect_in", Client(f)))
  <2>1. /\ c.to = Socket(f) /\ c.msg.is = "connect_in" /\ c.msg.response = Client(f)
        /\ "response" \in DOMAIN c.msg
    BY DEF To, Ask
  <2>2. Socket(f) \notin O
    BY DEF NoPlumbing, Socket, Plumbing
  <2> HIDE DEF c
  <2>3. About(c, k) <=> Client(f) \in O
    BY <1>0, <2>1, <2>2
  <2> QED BY <2>3 DEF One, In, c
<1>3. ASSUME NEW o, NEW m, m.is = "connected" PROVE One(To(o, m), k) = In(o, J)
  BY <1>0, <1>1, <1>3 DEF One, In
<1>4. \A o, s : One(To(o, Connected(s)), k) = In(o, J)
  BY <1>3 DEF Connected
<1>5. ASSUME NEW o PROVE One(To(o, Plain("start")), k) = In(o, O)
  <2>1. Plain("start").is = "start" /\ "response" \notin DOMAIN Plain("start")
    BY DEF Plain
  <2>2. About(To(o, Plain("start")), k) <=> o \in O
    BY <1>0, <1>1, <2>1
  <2> QED BY <2>2 DEF One, In
<1>6. ASSUME NEW o, NEW m, m.is = "init" PROVE One(To(o, m), k) = In(o, I)
  BY <1>0, <1>1, <1>6 DEF One, In
<1>7. ASSUME NEW o, NEW m, m.is = "connect_response" PROVE In(o, O) <= One(To(o, m), k)
  <2>1. o \in O => About(To(o, m), k)
    BY <1>0, <1>1, <1>7
  <2> QED BY <2>1 DEF One, In
<1> QED BY <1>2, <1>3, <1>4, <1>5, <1>6, <1>7 DEF k

-----------------------------------------------------------------------------

\* What a method does to what is held of a kind: of m that were there it makes at
\* most n.
Turns(O, I, J, m, n) ==
    /\ HeldOf(local', box', todo', O, I, J) + m <= HeldOf(local, box, todo, O, I, J) + n
    /\ m <= HeldOf(local, box, todo, O, I, J)
    /\ HeldOf(local, box, todo, O, I, J) \in Nat /\ HeldOf(local', box', todo', O, I, J) \in Nat

LEMMA ClientsFinite ==
    ASSUME SocketsAssumption, ClientAssumption
    PROVE  /\ IsFiniteSet(AllClientObjects)
           /\ DOMAIN Clients = 1 .. Len(Clients) /\ Len(Clients) \in Nat \ {0}
           /\ Range(Clients) = {Clients[i] : i \in DOMAIN Clients}
           /\ \A i \in DOMAIN Clients : Clients[i] \in Fds \ {StdIn}
           /\ \A i, j \in DOMAIN Clients : Clients[i] = Clients[j] => i = j
<1>1. Clients \in Seq(Fds \ {StdIn}) /\ Clients # <<>>
  BY DEF ClientAssumption
<1>2. DOMAIN Clients = 1 .. Len(Clients) /\ Len(Clients) \in Nat \ {0}
      /\ \A i \in DOMAIN Clients : Clients[i] \in Fds \ {StdIn}
  BY <1>1
<1>3. Range(Clients) = {Clients[i] : i \in DOMAIN Clients}
  BY DEF Range
<1>4. \A i, j \in DOMAIN Clients : Clients[i] = Clients[j] => i = j
  BY DEF ClientAssumption, IsInjective
<1>5. IsFiniteSet(AllClientObjects)
  <2> DEFINE C == {Client(f) : f \in Range(Clients)}
             g == [i \in DOMAIN Clients |-> Client(Clients[i])]
  <2>1. g \in Surjection(DOMAIN Clients, C)
    BY <1>3 DEF Surjection
  <2>2. IsFiniteSet(DOMAIN Clients) /\ IsFiniteSet(Objects)
    BY <1>2, FS_Interval, ObjectsFinite
  <2> HIDE DEF g, C
  <2>3. IsFiniteSet(C)
    BY <2>1, <2>2, FS_Surjection
  <2>4. IsFiniteSet({InputObject} \cup C)
    BY <2>3, FS_Singleton, FS_Union
  <2>5. ClientObjects = {InputObject} \cup C
    BY DEF ClientObjects, C
  <2> QED BY <2>2, <2>4, <2>5, FS_Union DEF AllClientObjects
<1> QED BY <1>2, <1>3, <1>4, <1>5

LEMMA SetsOffTurns ==
    ASSUME NEW D, D = AllClientObjects, IsFiniteSet(D), SelectInv(D),
           NEW f \in Range(Clients), ClientSetsOff(f)
    PROVE  \A O, I, J : NoPlumbing(O) => Turns(O, I, J, In(Client(f), I), In(Client(f), O))
<1> DEFINE o == Client(f)
           c == To(Socket(f), Ask("connect_in", o))
           m == First(o)
<1>1. /\ Gets(o, "init") /\ Does(o, <<c>>) /\ o \in D /\ o # Loop
      /\ local' = [local EXCEPT ![o].m_notify = m.response, ![o].m_connected = FALSE]
      /\ DOMAIN local = D /\ Loop \in D
  BY ClientsAre, SocketObjects DEF ClientSetsOff, AllClientObjects
<1>2. m.is = "init"
  BY <1>1 DEF Gets
<1>3. IsSequence(<<c>>) /\ \A k : Number(<<c>>, k) = One(c, k)
  BY SequenceFew, NumberNat
<1> HIDE DEF o, m
<1>4. local'[Loop] = local[Loop]
  BY <1>1
<1> HIDE DEF c
<1> SUFFICES ASSUME NEW O, NEW I, NEW J, NoPlumbing(O)
             PROVE  Turns(O, I, J, In(Client(f), I), In(Client(f), O))
  OBVIOUS
<1> DEFINE k == ClientKind(O, I, J)
<1>5. One(To(o, m), k) = In(o, I) /\ One(c, k) = In(o, O)
  BY <1>2, ClientSends DEF c, o
<1> HIDE DEF k
<1>6. /\ Underway(local', box', todo', k) + One(To(o, m), k) = Underway(local, box, todo, k) + Number(<<c>>, k)
      /\ Underway(local, box, todo, k) \in Nat /\ Underway(local', box', todo', k) \in Nat
      /\ One(To(o, m), k) \in {0, 1} /\ Number(<<c>>, k) \in Nat
      /\ One(To(o, m), k) <= Underway(local, box, todo, k)
  BY <1>1, <1>3, <1>4, MethodHeld DEF m
<1> QED BY <1>3, <1>5, <1>6 DEF Turns, HeldOf, k, o

LEMMA NeighbourTurns ==
    ASSUME NEW D, D = AllClientObjects, IsFiniteSet(D), SelectInv(D),
           NEW f \in Range(Clients), NeighbourConnected(f)
    PROVE  \A O, I, J : NoPlumbing(O) =>
              Turns(O, I, J, In(Client(f), J),
                    IF local[Client(f)].m_connected THEN In(Pipe(f), O) ELSE 0)
<1> DEFINE o == Client(f)
           m == First(o)
           pipe == NewPipe(m.sock)
           calls == StartPipe(f, local[o].m_connected)
<1>1. /\ Gets(o, "connected") /\ Does(o, calls) /\ o \in D /\ o # Loop /\ Pipe(f) # Loop
      /\ local' = [local EXCEPT ![o].m_pipe = TRUE, ![Pipe(f)] = pipe]
      /\ DOMAIN local = D /\ Loop \in D
  BY ClientsAre, SocketObjects, LoopIs DEF NeighbourConnected, AllClientObjects
<1>2. m.is = "connected"
  BY <1>1 DEF Gets
<1> HIDE DEF o, m, pipe
<1>3. local'[Loop] = local[Loop]
  BY <1>1
<1> SUFFICES ASSUME NEW O, NEW I, NEW J, NoPlumbing(O)
             PROVE  Turns(O, I, J, In(Client(f), J),
                          IF local[Client(f)].m_connected THEN In(Pipe(f), O) ELSE 0)
  OBVIOUS
<1> DEFINE k == ClientKind(O, I, J)
           n == IF local[o].m_connected THEN In(Pipe(f), O) ELSE 0
<1>4. IsSequence(calls) /\ Number(calls, k) = n
  BY SequenceFew, NumberNat, ClientSends DEF StartPipe
<1>5. One(To(o, m), k) = In(o, J)
  BY <1>2, ClientSends
<1> HIDE DEF k, calls, n
<1>6. /\ Underway(local', box', todo', k) + One(To(o, m), k) = Underway(local, box, todo, k) + Number(calls, k)
      /\ Underway(local, box, todo, k) \in Nat /\ Underway(local', box', todo', k) \in Nat
      /\ One(To(o, m), k) \in {0, 1} /\ Number(calls, k) \in Nat
      /\ One(To(o, m), k) <= Underway(local, box, todo, k)
  BY <1>1, <1>3, <1>4, MethodHeld DEF m
<1> QED BY <1>4, <1>5, <1>6 DEF Turns, HeldOf, k, o, n

LEMMA InputTurns ==
    ASSUME NEW D, D = AllClientObjects, IsFiniteSet(D), SelectInv(D), InputConnected
    PROVE  \A O, I, J : NoPlumbing(O) => Turns(O, I, J, In(InputObject, J), In(Pipe(StdIn), O))
<1> DEFINE o == InputObject
           c == To(Pipe(StdIn), Plain("start"))
           m == First(o)
           pipe == NewPipe(m.sock)
<1>1. /\ Gets(o, "connected") /\ Does(o, <<c>>) /\ o \in D /\ o # Loop /\ Pipe(StdIn) # Loop
      /\ local' = [local EXCEPT ![Pipe(StdIn)] = pipe]
      /\ DOMAIN local = D /\ Loop \in D
  BY ClientsAre, SocketObjects, LoopIs DEF InputConnected, AllClientObjects
<1>2. m.is = "connected"
  BY <1>1 DEF Gets
<1>3. IsSequence(<<c>>) /\ \A k : Number(<<c>>, k) = One(c, k)
  BY SequenceFew, NumberNat
<1> HIDE DEF o, m, pipe
<1>4. local'[Loop] = local[Loop]
  BY <1>1
<1> HIDE DEF c
<1> SUFFICES ASSUME NEW O, NEW I, NEW J, NoPlumbing(O)
             PROVE  Turns(O, I, J, In(InputObject, J), In(Pipe(StdIn), O))
  OBVIOUS
<1> DEFINE k == ClientKind(O, I, J)
<1>5. One(To(o, m), k) = In(o, J) /\ One(c, k) = In(Pipe(StdIn), O)
  BY <1>2, ClientSends DEF c, o
<1> HIDE DEF k
<1>6. /\ Underway(local', box', todo', k) + One(To(o, m), k) = Underway(local, box, todo, k) + Number(<<c>>, k)
      /\ Underway(local, box, todo, k) \in Nat /\ Underway(local', box', todo', k) \in Nat
      /\ One(To(o, m), k) \in {0, 1} /\ Number(<<c>>, k) \in Nat
      /\ One(To(o, m), k) <= Underway(local, box, todo, k)
  BY <1>1, <1>3, <1>4, MethodHeld DEF m
<1> QED BY <1>3, <1>5, <1>6 DEF Turns, HeldOf, k, o

\* The neighbour is told, or the connection has failed.
Succeeds(f) ==
    local' = [local EXCEPT ![Client(f)].m_connected = TRUE]

LEMMA ResponseTurns ==
    ASSUME NEW D, D = AllClientObjects, IsFiniteSet(D), SelectInv(D),
           NEW f \in Range(Clients), ConnectResponse(f)
    PROVE  \/ /\ local' = local
              /\ \A O, I, J : NoPlumbing(O) => Turns(O, I, J, 0, 0)
           \/ /\ Succeeds(f)
              /\ \A O, I, J : NoPlumbing(O) =>
                    Turns(O, I, J, In(Client(f), O),
                          In(local[Client(f)].m_notify, J)
                             + IF local[Client(f)].m_pipe THEN In(Pipe(f), O) ELSE 0)
<1> DEFINE o == Client(f)
           m == First(o)
           c == To(local[o].m_notify, Connected(f))
           start == StartPipe(f, local[o].m_pipe)
<1>1. /\ Gets(o, "connect_response") /\ o \in D /\ o # Loop
      /\ DOMAIN local = D /\ Loop \in D
      /\ \/ Does(o, <<>>) /\ local' = local
         \/ Does(o, <<c>> \o start) /\ Succeeds(f)
  BY ClientsAre, SocketObjects, Zenon DEF ConnectResponse, AllClientObjects, Succeeds
<1>2. m.is = "connect_response"
  BY <1>1 DEF Gets
<1>3. IsSequence(<<>>) /\ \A k : Number(<<>>, k) = 0
  BY SequenceFew, NumberNat
<1> HIDE DEF o, m
<1>4. local'[Loop] = local[Loop]
  BY <1>1 DEF Succeeds, o
<1>5. ASSUME Does(o, <<>>), local' = local, NEW O, NEW I, NEW J, NoPlumbing(O)
      PROVE  Turns(O, I, J, 0, 0)
  <2> DEFINE k == ClientKind(O, I, J)
  <2> HIDE DEF k
  <2>1. /\ Underway(local', box', todo', k) + One(To(o, m), k) = Underway(local, box, todo, k) + Number(<<>>, k)
        /\ Underway(local, box, todo, k) \in Nat /\ Underway(local', box', todo', k) \in Nat
        /\ One(To(o, m), k) \in {0, 1}
    BY <1>1, <1>3, <1>4, <1>5, MethodHeld DEF m
  <2> QED BY <1>3, <2>1 DEF Turns, HeldOf, k
<1> DEFINE n(O, J) == In(local[o].m_notify, J)
                         + IF local[o].m_pipe THEN In(Pipe(f), O) ELSE 0
<1>6. ASSUME Does(o, <<c>> \o start), NEW O, NEW I, NEW J, NoPlumbing(O)
      PROVE  Turns(O, I, J, In(o, O), n(O, J))
  <2> DEFINE k == ClientKind(O, I, J)
             there == IF local[o].m_pipe THEN In(Pipe(f), O) ELSE 0
             first == <<c>>
             calls == first \o start
  <2>1. IsSequence(start) /\ Number(start, k) = there
    BY <1>6, SequenceFew, NumberNat, ClientSends DEF StartPipe
  <2>2. IsSequence(first) /\ Number(first, k) = One(c, k)
    BY SequenceFew, NumberNat
  <2>3. One(c, k) = In(local[o].m_notify, J) /\ In(o, O) <= One(To(o, m), k)
    BY <1>2, <1>6, ClientSends
  <2>4. In(o, O) \in {0, 1}
    BY DEF In
  <2> HIDE DEF k, there, first, start, c
  <2>5. IsSequence(calls) /\ Number(calls, k) = Number(first, k) + Number(start, k)
    BY <2>1, <2>2, SequenceConcat, NumberNat
  <2>6. Does(o, calls)
    BY <1>6 DEF first
  <2> HIDE DEF calls
  <2>7. /\ Underway(local', box', todo', k) + One(To(o, m), k) = Underway(local, box, todo, k) + Number(calls, k)
        /\ Underway(local, box, todo, k) \in Nat /\ Underway(local', box', todo', k) \in Nat
        /\ One(To(o, m), k) \in {0, 1} /\ Number(calls, k) \in Nat
        /\ One(To(o, m), k) <= Underway(local, box, todo, k)
    BY <1>1, <1>4, <2>5, <2>6, MethodHeld DEF m
  <2>8. Number(calls, k) = In(local[o].m_notify, J) + there
    BY <2>1, <2>2, <2>3, <2>5
  <2>9. Underway(local', box', todo', k) + In(o, O) <= Underway(local, box, todo, k) + Number(calls, k)
        /\ In(o, O) <= Underway(local, box, todo, k)
    BY <2>3, <2>4, <2>7
  <2> QED BY <2>7, <2>8, <2>9 DEF Turns, HeldOf, k, there
<1> QED BY <1>1, <1>5, <1>6 DEF o

\* Who is whose neighbour.
LEMMA NeighboursAre ==
    ASSUME SocketsAssumption, ClientAssumption
    PROVE  /\ \A i, j \in DOMAIN Clients :
                /\ In(Nth(j), {Nth(i)}) = (IF i = j THEN 1 ELSE 0)
                /\ In(Nth(j), Following(i)) = (IF j = i + 1 THEN 1 ELSE 0)
                /\ In(Before(j), {Nth(i)}) = (IF j = i + 1 THEN 1 ELSE 0)
                /\ In(Pipe(Clients[j]), {Pipe(Clients[i])}) = (IF i = j THEN 1 ELSE 0)
                /\ In(Pipe(Clients[j]), {Nth(i)}) = 0 /\ In(Pipe(Clients[j]), Following(i)) = 0
                /\ In(Nth(j), {Pipe(Clients[i])}) = 0
           /\ \A i \in DOMAIN Clients :
                /\ In(InputObject, {Nth(i)}) = 0
                /\ In(Pipe(StdIn), {Nth(i)}) = 0 /\ In(Pipe(StdIn), Following(i)) = 0
                /\ In(Pipe(StdIn), {Pipe(Clients[i])}) = 0
                /\ In(Nth(i), {InputObject}) = 0
                /\ In(Before(i), {InputObject}) = (IF i = 1 THEN 1 ELSE 0)
           /\ \A f : f \notin Range(Clients) =>
                /\ \A i \in DOMAIN Clients :
                     /\ In(Nth(i), {Pipe(f), Nth(1)}) = (IF i = 1 THEN 1 ELSE 0)
                     /\ In(Pipe(Clients[i]), {Pipe(f), Nth(1)}) = 0
                /\ In(Pipe(StdIn), {Pipe(f), Nth(1)}) \in {0, 1}
           /\ \A o : In(o, {}) = 0 /\ In(o, {o}) = 1
<1>1. /\ \A f, g : Client(f) # Pipe(g) /\ (Client(f) = Client(g) => f = g)
      /\ \A f, g : Pipe(f) = Pipe(g) => f = g
      /\ \A f : InputObject # Pipe(f) /\ InputObject # Client(f)
  BY DEF Client, Pipe, InputObject
<1>2. /\ DOMAIN Clients = 1 .. Len(Clients) /\ Len(Clients) \in Nat \ {0}
      /\ Range(Clients) = {Clients[i] : i \in DOMAIN Clients}
      /\ \A i \in DOMAIN Clients : Clients[i] \in Fds \ {StdIn}
      /\ \A i, j \in DOMAIN Clients : Clients[i] = Clients[j] => i = j
  BY ClientsFinite
<1>3. \A i, j \in DOMAIN Clients : Nth(i) = Nth(j) => i = j
  BY <1>1, <1>2 DEF Nth
<1>4. \A i : Nth(i) # InputObject /\ \A f : Nth(i) # Pipe(f)
  BY <1>1 DEF Nth
<1>5. \A i \in DOMAIN Clients : Clients[i] # StdIn /\ Clients[i] \in Range(Clients)
  BY <1>2
<1>6. \A o : In(o, {}) = 0 /\ In(o, {o}) = 1
  BY DEF In
<1>7. ASSUME NEW i \in DOMAIN Clients, NEW j \in DOMAIN Clients
      PROVE  /\ In(Nth(j), {Nth(i)}) = (IF i = j THEN 1 ELSE 0)
             /\ In(Nth(j), Following(i)) = (IF j = i + 1 THEN 1 ELSE 0)
             /\ In(Before(j), {Nth(i)}) = (IF j = i + 1 THEN 1 ELSE 0)
             /\ In(Pipe(Clients[j]), {Pipe(Clients[i])}) = (IF i = j THEN 1 ELSE 0)
             /\ In(Pipe(Clients[j]), {Nth(i)}) = 0 /\ In(Pipe(Clients[j]), Following(i)) = 0
             /\ In(Nth(j), {Pipe(Clients[i])}) = 0
  <2>1. In(Nth(j), {Nth(i)}) = (IF i = j THEN 1 ELSE 0)
    BY <1>3 DEF In
  <2>2. In(Nth(j), Following(i)) = (IF j = i + 1 THEN 1 ELSE 0)
    <3>1. CASE i < Len(Clients)
      <4>1. i + 1 \in DOMAIN Clients /\ Following(i) = {Nth(i + 1)}
        BY <1>2, <3>1 DEF Following
      <4> QED BY <1>3, <4>1 DEF In
    <3>2. CASE ~(i < Len(Clients))
      BY <1>2, <3>2 DEF In, Following
    <3> QED BY <3>1, <3>2
  <2>3. In(Before(j), {Nth(i)}) = (IF j = i + 1 THEN 1 ELSE 0)
    <3>1. CASE j = 1
      BY <1>2, <1>4, <3>1 DEF Before, In
    <3>2. CASE j # 1
      <4>1. Before(j) = Nth(j - 1) /\ j - 1 \in DOMAIN Clients /\ (j = i + 1 <=> j - 1 = i)
        BY <1>2, <3>2 DEF Before, Nth
      <4> QED BY <1>3, <4>1 DEF In
    <3> QED BY <3>1, <3>2
  <2>4. In(Pipe(Clients[j]), {Pipe(Clients[i])}) = (IF i = j THEN 1 ELSE 0)
    BY <1>1, <1>2 DEF In
  <2>5. In(Pipe(Clients[j]), {Nth(i)}) = 0 /\ In(Nth(j), {Pipe(Clients[i])}) = 0
    BY <1>4 DEF In
  <2>6. In(Pipe(Clients[j]), Following(i)) = 0
    BY <1>4 DEF In, Following
  <2> QED BY <2>1, <2>2, <2>3, <2>4, <2>5, <2>6
<1>8. ASSUME NEW i \in DOMAIN Clients
      PROVE  /\ In(InputObject, {Nth(i)}) = 0
             /\ In(Pipe(StdIn), {Nth(i)}) = 0 /\ In(Pipe(StdIn), Following(i)) = 0
             /\ In(Pipe(StdIn), {Pipe(Clients[i])}) = 0
             /\ In(Nth(i), {InputObject}) = 0
             /\ In(Before(i), {InputObject}) = (IF i = 1 THEN 1 ELSE 0)
  <2>1. In(InputObject, {Nth(i)}) = 0 /\ In(Nth(i), {InputObject}) = 0 /\ In(Pipe(StdIn), {Nth(i)}) = 0
    BY <1>4 DEF In
  <2>2. In(Pipe(StdIn), Following(i)) = 0
    BY <1>4 DEF In, Following
  <2>3. In(Pipe(StdIn), {Pipe(Clients[i])}) = 0
    BY <1>1, <1>5 DEF In
  <2>4. In(Before(i), {InputObject}) = (IF i = 1 THEN 1 ELSE 0)
    BY <1>1 DEF In, Before
  <2> QED BY <2>1, <2>2, <2>3, <2>4
<1>9. ASSUME NEW f, f \notin Range(Clients)
      PROVE  /\ \A i \in DOMAIN Clients :
                  /\ In(Nth(i), {Pipe(f), Nth(1)}) = (IF i = 1 THEN 1 ELSE 0)
                  /\ In(Pipe(Clients[i]), {Pipe(f), Nth(1)}) = 0
             /\ In(Pipe(StdIn), {Pipe(f), Nth(1)}) \in {0, 1}
  <2>1. 1 \in DOMAIN Clients
    BY <1>2
  <2>2. ASSUME NEW i \in DOMAIN Clients
        PROVE  /\ In(Nth(i), {Pipe(f), Nth(1)}) = (IF i = 1 THEN 1 ELSE 0)
               /\ In(Pipe(Clients[i]), {Pipe(f), Nth(1)}) = 0
    <3>1. Clients[i] # f
      BY <1>5, <1>9
    <3>2. Pipe(Clients[i]) # Pipe(f)
      BY <1>1, <3>1
    <3> QED BY <1>3, <1>4, <2>1, <3>2 DEF In
  <2> QED BY <2>2 DEF In
<1> QED BY <1>6, <1>7, <1>8, <1>9

LEMMA ChainPlumbing ==
    /\ \A i : NoPlumbing({Nth(i)}) /\ NoPlumbing(Following(i)) /\ NoPlumbing({Pipe(Clients[i])})
    /\ \A f : NoPlumbing({Pipe(f), Nth(1)}) /\ NoPlumbing({Pipe(f)})
<1>1. \A f : Client(f)[1] \notin Plumbing /\ Pipe(f)[1] \notin Plumbing
  BY DEF Client, Pipe, Plumbing
<1> QED BY <1>1 DEF NoPlumbing, Nth, Following

\* A step that makes nothing more and tells no client anything.
MakesNothing == \A O, I, J : NoPlumbing(O) => Turns(O, I, J, 0, 0)

LEMMA LinksStay ==
    ASSUME SocketsAssumption, ClientAssumption, ClientRequestInv, ClientInv',
           MakesNothing, SameNotify, Underway(local', box', todo', Stray(Settled)) = 0
    PROVE  ClientRequestInv'
<1>1. ASSUME NEW i \in DOMAIN Clients PROVE ChainLink(i)'
  <2>1. Nth(i) \in DOMAIN local
    <3>1. Nth(i) \in AllClientObjects
      BY ClientsFinite, ClientsAre DEF AllClientObjects, Nth
    <3> QED BY <3>1 DEF ClientRequestInv, ClientInv, SelectInv, Mail
  <2>2. ChainLink(i)
    BY DEF ClientRequestInv
  <2>3. /\ ClientMembers(i)' /\ IsConnected(i)' = IsConnected(i) /\ HasPipe(i)' = HasPipe(i)
        /\ local'[Nth(i)].m_notify = local[Nth(i)].m_notify
    BY <2>1, <2>2 DEF ChainLink, ClientMembers, SameNotify, IsConnected, HasPipe
  <2>4. /\ Turns({Nth(i)}, {}, {}, 0, 0) /\ Turns({Nth(i)}, {Nth(i)}, {}, 0, 0)
        /\ Turns(Following(i), Following(i), {Nth(i)}, 0, 0)
        /\ Turns({Pipe(Clients[i])}, {}, {}, 0, 0)
    BY ChainPlumbing DEF MakesNothing
  <2>5. /\ Dials(i)' <= Dials(i) /\ Dials(i)' \in Nat /\ Dials(i) \in Nat
        /\ Connecting(i)' <= Connecting(i) /\ Connecting(i)' \in Nat /\ Connecting(i) \in Nat
        /\ Expecting(i)' <= Expecting(i) /\ Expecting(i)' \in Nat /\ Expecting(i) \in Nat
        /\ Copying(i)' <= Copying(i) /\ Copying(i)' \in Nat /\ Copying(i) \in Nat
    BY <2>4 DEF Turns, Dials, Connecting, Expecting, Copying
  <2>6. IsConnected(i) \in {0, 1} /\ HasPipe(i) \in {0, 1}
    BY DEF IsConnected, HasPipe
  <2> QED BY <2>2, <2>3, <2>5, <2>6 DEF ChainLink
<1>2. ASSUME NEW f \in Fds \ Range(Clients) PROVE Entering(f)' <= 1
  <2>1. Turns({Pipe(f), Nth(1)}, {Nth(1)}, {InputObject}, 0, 0)
    BY ChainPlumbing DEF MakesNothing
  <2>2. Entering(f)' <= Entering(f) /\ Entering(f)' \in Nat /\ Entering(f) \in Nat
    BY <2>1 DEF Turns, Entering
  <2>3. Entering(f) <= 1
    BY DEF ClientRequestInv
  <2> QED BY <2>2, <2>3
<1> QED BY <1>1, <1>2 DEF ClientRequestInv

\* What a client's method sends is as it should be.
LEMMA StrayNumber ==
    /\ \A o, s : o \in ClientObjects /\ s \in Range(Clients) \cup {StdOut} =>
          One(To(o, Connected(s)), Stray(Settled)) = 0
    /\ \A f : One(To(Socket(f), Ask("connect_in", Client(f))), Stray(Settled)) = 0
    /\ \A o : One(To(o, Plain("start")), Stray(Settled)) = 0
<1>1. ASSUME NEW o, NEW m, m.is \notin {"accept", "init", "connected"} \/ To(o, m) \in Settled
      PROVE  One(To(o, m), Stray(Settled)) = 0
  <2>1. To(o, m).to = o /\ To(o, m).msg = m
    BY DEF To
  <2> QED BY <1>1, <2>1 DEF One, About, Stray
<1>2. \A type, o : Plain(type).is = type /\ Ask(type, o).is = type
  BY DEF Plain, Ask
<1>3. ASSUME NEW o \in ClientObjects, NEW s \in Range(Clients) \cup {StdOut}
      PROVE  To(o, Connected(s)) \in Settled
  BY DEF Settled
<1> QED BY <1>1, <1>2, <1>3

LEMMA BeforeIs ==
    ASSUME SocketsAssumption, ClientAssumption, NEW i \in DOMAIN Clients
    PROVE  Before(i) \in ClientObjects
<1>1. CASE i = 1
  BY <1>1, ClientsAre DEF Before
<1>2. CASE i # 1
  <2>1. i - 1 \in DOMAIN Clients
    BY <1>2, ClientsFinite
  <2>2. Clients[i - 1] \in Range(Clients)
    BY <2>1, ClientsFinite
  <2> QED BY <1>2, <2>2, ClientsAre DEF Before
<1> QED BY <1>1, <1>2

\* A client that hears from its socket knows whom to tell.
LEMMA KnowsBefore ==
    ASSUME SocketsAssumption, ClientAssumption, ClientRequestInv,
           NEW i \in DOMAIN Clients, Gets(Nth(i), "connect_response")
    PROVE  local[Nth(i)].m_notify = Before(i)
<1> DEFINE k == ClientKind({Nth(i)}, {}, {})
           D == AllClientObjects
<1>1. SelectInv(D) /\ IsFiniteSet(D) /\ Nth(i) \in D
  BY ClientsFinite, ClientsAre DEF ClientRequestInv, ClientInv, AllClientObjects, Nth
<1>2. About(To(Nth(i), First(Nth(i))), k)
  BY ClientKindIs DEF Gets, To
<1> HIDE DEF D, k
<1>3. Load(box, todo, k) # 0
  BY <1>1, <1>2, NoLoad
<1>4. Underway(local, box, todo, k) # 0
  <2>1. Load(box, todo, k) \in Nat /\ Lists(local, k.of) \in Nat
    BY <1>1, HeldNat
  <2> QED BY <1>3, <2>1 DEF Underway
<1>5. Dials(i) # 0
  BY <1>4 DEF Dials, HeldOf, k
<1> QED BY <1>5 DEF ClientRequestInv, ChainLink

LEMMA NothingStrays ==
    ASSUME SocketsAssumption, ClientAssumption, ClientRequestInv,
           (\E f \in Range(Clients) : ClientStep(f)) \/ InputConnected
    PROVE  Underway(local', box', todo', Stray(Settled)) = 0
<1> DEFINE D == AllClientObjects
           k == Stray(Settled)
<1>1. /\ SelectInv(D) /\ IsFiniteSet(D) /\ DOMAIN local = D /\ Loop \in D
      /\ \A f \in Range(Clients) : Client(f) \in D /\ Client(f) # Loop
      /\ InputObject \in D /\ InputObject # Loop /\ \A f : Pipe(f) # Loop
  BY ClientsFinite, ClientsAre, LoopIs, SocketObjects
  DEF ClientRequestInv, ClientInv, AllClientObjects
<1>2. ASSUME NEW o \in D, NEW type, Gets(o, type), NEW calls, IsSequence(calls),
             Number(calls, k) = 0, Does(o, calls), local'[Loop] = local[Loop]
      PROVE  Underway(local', box', todo', k) = 0
  <2> HIDE DEF D, k
  <2>1. /\ Underway(local', box', todo', k) + One(To(o, First(o)), k) = Underway(local, box, todo, k) + Number(calls, k)
        /\ Underway(local, box, todo, k) \in Nat /\ Underway(local', box', todo', k) \in Nat
        /\ One(To(o, First(o)), k) \in {0, 1}
    BY <1>1, <1>2, MethodHeld
  <2>2. Underway(local, box, todo, k) = 0
    BY DEF ClientRequestInv, k
  <2> QED BY <1>2, <2>1, <2>2
<1>3. \A c : One(c, k) = 0 => IsSequence(<<c>>) /\ Number(<<c>>, k) = 0
  BY SequenceFew, NumberNat
<1>4. IsSequence(<<>>) /\ Number(<<>>, k) = 0
  BY SequenceFew, NumberNat
<1>5. \A f, when : IsSequence(StartPipe(f, when)) /\ Number(StartPipe(f, when), k) = 0
  <2>1. \A f : One(To(Pipe(f), Plain("start")), k) = 0
    BY StrayNumber
  <2> HIDE DEF k
  <2> QED BY <1>3, <1>4, <2>1 DEF StartPipe
<1>6. ASSUME NEW f \in Range(Clients), ClientSetsOff(f) PROVE Underway(local', box', todo', k) = 0
  <2> DEFINE c == To(Socket(f), Ask("connect_in", Client(f)))
             r == First(Client(f)).response
             calls == <<c>>
  <2>1. /\ Gets(Client(f), "init") /\ Does(Client(f), <<c>>)
        /\ local' = [local EXCEPT ![Client(f)].m_notify = r, ![Client(f)].m_connected = FALSE]
    BY <1>6 DEF ClientSetsOff
  <2>2. One(c, k) = 0
    BY StrayNumber
  <2> HIDE DEF c, r, k, D
  <2>3. IsSequence(<<c>>) /\ Number(<<c>>, k) = 0
    BY <1>3, <2>2
  <2>4. local'[Loop] = local[Loop]
    BY <1>1, <2>1
  <2> QED BY <1>1, <1>2, <2>1, <2>3, <2>4
<1>7. ASSUME NEW f \in Range(Clients), ConnectResponse(f) PROVE Underway(local', box', todo', k) = 0
  <2> DEFINE c == To(local[Client(f)].m_notify, Connected(f))
             start == StartPipe(f, local[Client(f)].m_pipe)
             first == <<c>>
             calls == first \o start
  <2>1. /\ Gets(Client(f), "connect_response")
        /\ \/ Does(Client(f), <<>>) /\ local' = local
           \/ Does(Client(f), calls) /\ local' = [local EXCEPT ![Client(f)].m_connected = TRUE]
    BY <1>7, Zenon DEF ConnectResponse
  <2>2. local[Client(f)].m_notify \in ClientObjects
    <3>1. PICK i \in DOMAIN Clients : f = Clients[i]
      BY ClientsFinite
    <3>2. local[Nth(i)].m_notify = Before(i)
      BY <2>1, <3>1, KnowsBefore DEF Nth
    <3> QED BY <3>1, <3>2, BeforeIs DEF Nth
  <2>3. One(c, k) = 0
    BY <2>2, StrayNumber
  <2>4. IsSequence(start) /\ Number(start, k) = 0
    BY <1>5
  <2> HIDE DEF c, start, k, D
  <2>5. IsSequence(first) /\ Number(first, k) = 0
    BY <1>3, <2>3
  <2> HIDE DEF first
  <2>6. IsSequence(calls) /\ Number(calls, k) = 0
    BY <2>4, <2>5, SequenceConcat, NumberNat
  <2> HIDE DEF calls
  <2>7. local'[Loop] = local[Loop]
    BY <1>1, <2>1
  <2> QED BY <1>1, <1>2, <1>4, <2>1, <2>6, <2>7
<1>8. ASSUME NEW f \in Range(Clients), NeighbourConnected(f) PROVE Underway(local', box', todo', k) = 0
  <2> DEFINE pipe == NewPipe(First(Client(f)).sock)
             calls == StartPipe(f, local[Client(f)].m_connected)
  <2>1. /\ Gets(Client(f), "connected") /\ Does(Client(f), calls)
        /\ local' = [local EXCEPT ![Client(f)].m_pipe = TRUE, ![Pipe(f)] = pipe]
    BY <1>8 DEF NeighbourConnected
  <2>2. IsSequence(calls) /\ Number(calls, k) = 0
    BY <1>5
  <2> HIDE DEF pipe, calls, k, D
  <2>3. local'[Loop] = local[Loop]
    BY <1>1, <2>1
  <2> QED BY <1>1, <1>2, <2>1, <2>2, <2>3
<1>9. ASSUME InputConnected PROVE Underway(local', box', todo', k) = 0
  <2> DEFINE pipe == NewPipe(First(InputObject).sock)
             c == To(Pipe(StdIn), Plain("start"))
  <2>1. /\ Gets(InputObject, "connected") /\ Does(InputObject, <<c>>)
        /\ local' = [local EXCEPT ![Pipe(StdIn)] = pipe]
    BY <1>9 DEF InputConnected
  <2>2. One(c, k) = 0
    BY StrayNumber
  <2> HIDE DEF pipe, c, k, D
  <2>3. IsSequence(<<c>>) /\ Number(<<c>>, k) = 0
    BY <1>3, <2>2
  <2>4. local'[Loop] = local[Loop]
    BY <1>1, <2>1
  <2> QED BY <1>1, <1>2, <2>1, <2>3, <2>4
<1> QED BY <1>6, <1>7, <1>8, <1>9 DEF ClientStep

\* What is held of the kinds of the i-th client, of which there are so many more now.
Kinds(i, dials, connecting, expecting, copying) ==
    /\ Dials(i)' <= Dials(i) + dials /\ Dials(i)' \in Nat /\ Dials(i) \in Nat
    /\ Connecting(i)' <= Connecting(i) + connecting
    /\ Connecting(i)' \in Nat /\ Connecting(i) \in Nat
    /\ Expecting(i)' <= Expecting(i) + expecting
    /\ Expecting(i)' \in Nat /\ Expecting(i) \in Nat
    /\ Copying(i)' <= Copying(i) + copying /\ Copying(i)' \in Nat /\ Copying(i) \in Nat

\* What another client does leaves the link of the i-th alone.
LEMMA LinkStays ==
    ASSUME NEW i, ChainLink(i), ClientMembers(i)', local'[Nth(i)] = local[Nth(i)],
           IsConnected(i)' = IsConnected(i), HasPipe(i)' = HasPipe(i), Kinds(i, 0, 0, 0, 0)
    PROVE  ChainLink(i)'
<1>1. IsConnected(i) \in {0, 1} /\ HasPipe(i) \in {0, 1}
  BY DEF IsConnected, HasPipe
<1>2. /\ Dials(i)' <= Dials(i) /\ Connecting(i)' <= Connecting(i)
      /\ Expecting(i)' <= Expecting(i) /\ Copying(i)' <= Copying(i)
      /\ Dials(i)' \in Nat /\ Dials(i) \in Nat /\ Connecting(i)' \in Nat
      /\ Connecting(i) \in Nat /\ Expecting(i)' \in Nat /\ Expecting(i) \in Nat
      /\ Copying(i)' \in Nat /\ Copying(i) \in Nat
  BY DEF Kinds
<1>3. Dials(i)' = 0 \/ local'[Nth(i)].m_notify = Before(i)
  BY <1>2 DEF ChainLink
<1>4. /\ Connecting(i)' + IsConnected(i)' <= 1 /\ Expecting(i)' + HasPipe(i)' <= 1
      /\ Copying(i)' <= IsConnected(i)' /\ Copying(i)' <= HasPipe(i)'
  BY <1>1, <1>2 DEF ChainLink
<1> QED BY <1>3, <1>4 DEF ChainLink, Before, Client

LEMMA TurnsIs ==
    \A O, I, J, m, n :
        Turns(O, I, J, m, n) /\ m \in {0, 1} /\ n \in {0, 1} =>
           /\ HeldOf(local', box', todo', O, I, J) <= HeldOf(local, box, todo, O, I, J) + (n - m)
           /\ m <= HeldOf(local, box, todo, O, I, J)
           /\ HeldOf(local, box, todo, O, I, J) \in Nat
           /\ HeldOf(local', box', todo', O, I, J) \in Nat
BY DEF Turns

\* The kinds of the i-th client are the ones that they are.
LEMMA KindsAre ==
    \A i :
        /\ \A m, n : Turns({Nth(i)}, {}, {}, m, n) /\ m \in {0, 1} /\ n \in {0, 1} =>
              /\ Dials(i)' <= Dials(i) + (n - m) /\ m <= Dials(i)
              /\ Dials(i)' \in Nat /\ Dials(i) \in Nat
        /\ \A m, n : Turns({Nth(i)}, {Nth(i)}, {}, m, n) /\ m \in {0, 1} /\ n \in {0, 1} =>
              /\ Connecting(i)' <= Connecting(i) + (n - m) /\ m <= Connecting(i)
              /\ Connecting(i)' \in Nat /\ Connecting(i) \in Nat
        /\ \A m, n : Turns(Following(i), Following(i), {Nth(i)}, m, n)
                        /\ m \in {0, 1} /\ n \in {0, 1} =>
              /\ Expecting(i)' <= Expecting(i) + (n - m) /\ m <= Expecting(i)
              /\ Expecting(i)' \in Nat /\ Expecting(i) \in Nat
        /\ \A m, n : Turns({Pipe(Clients[i])}, {}, {}, m, n) /\ m \in {0, 1} /\ n \in {0, 1} =>
              /\ Copying(i)' <= Copying(i) + (n - m) /\ m <= Copying(i)
              /\ Copying(i)' \in Nat /\ Copying(i) \in Nat
BY TurnsIs DEF Dials, Connecting, Expecting, Copying

LEMMA EnteringIs ==
    \A f, m, n :
        /\ Turns({Pipe(f), Nth(1)}, {Nth(1)}, {InputObject}, m, n)
        /\ m \in {0, 1} /\ n \in {0, 1} /\ n <= m /\ Entering(f) <= 1
        => Entering(f)' <= 1
<1> SUFFICES
    ASSUME NEW f, NEW m, NEW n, Turns({Pipe(f), Nth(1)}, {Nth(1)}, {InputObject}, m, n),
           m \in {0, 1}, n \in {0, 1}, n <= m, Entering(f) <= 1
    PROVE  Entering(f)' <= 1
  OBVIOUS
<1>1. Entering(f)' <= Entering(f) + (n - m) /\ Entering(f) \in Nat /\ Entering(f)' \in Nat
  BY TurnsIs DEF Entering
<1> QED BY <1>1

\* Where the clients are.
LEMMA NthIs ==
    ASSUME SocketsAssumption, ClientAssumption, ClientRequestInv
    PROVE  /\ SelectInv(AllClientObjects) /\ IsFiniteSet(AllClientObjects)
           /\ \A i \in DOMAIN Clients :
                /\ Nth(i) \in DOMAIN local /\ Clients[i] \in Range(Clients)
                /\ \A f : Nth(i) # Pipe(f)
                /\ \A j \in DOMAIN Clients : Nth(i) = Nth(j) => i = j
<1>1. SelectInv(AllClientObjects) /\ DOMAIN local = AllClientObjects
  BY DEF ClientRequestInv, ClientInv, SelectInv, Mail
<1>2. \A i \in DOMAIN Clients : Clients[i] \in Range(Clients)
  BY ClientsFinite
<1>3. \A i \in DOMAIN Clients : Nth(i) \in AllClientObjects
  BY <1>2, ClientsAre DEF Nth, AllClientObjects
<1>4. \A i, f : Nth(i) # Pipe(f)
  BY ClientsAre DEF Nth
<1>5. \A i, j \in DOMAIN Clients : Nth(i) = Nth(j) => i = j
  BY ClientsFinite, ClientsAre DEF Nth
<1> QED BY <1>1, <1>2, <1>3, <1>4, <1>5, ClientsFinite

LEMMA SetsOffLinks ==
    ASSUME SocketsAssumption, ClientAssumption, ClientRequestInv,
           NEW j \in DOMAIN Clients, ClientSetsOff(Clients[j])
    PROVE  /\ \A i \in DOMAIN Clients : ChainLink(i)'
           /\ \A f \in Fds \ Range(Clients) : Entering(f)' <= 1
<1> DEFINE o == Nth(j)
           r == First(o).response
<1>0. SelectInv(AllClientObjects) /\ IsFiniteSet(AllClientObjects) /\ Clients[j] \in Range(Clients)
  BY NthIs
<1>1. Gets(o, "init") /\ local' = [local EXCEPT ![o].m_notify = r, ![o].m_connected = FALSE]
  BY DEF ClientSetsOff, Nth
<1>2. \A O, I, J : NoPlumbing(O) => Turns(O, I, J, In(o, I), In(o, O))
  BY <1>0, SetsOffTurns DEF Nth
<1>3. r = Before(j)
  <2> DEFINE e == To(o, First(o))
  <2>1. ~About(e, Stray(Settled))
    <3>1. Nth(j) \in AllClientObjects
      BY NthIs DEF SelectInv, Mail
    <3> QED BY <1>0, <1>1, <3>1, NothingStray DEF ClientRequestInv
  <2>2. e.to = o /\ e.msg = First(o) /\ e.msg.is = "init" /\ To(e.to, e.msg) = e
    BY <1>1 DEF To, Gets
  <2> HIDE DEF e, r
  <2>3. e \in Settled
    BY <2>1, <2>2 DEF About, Stray
  <2>4. \A p, f : Connected(f).is = "connected" /\ To(p, Connected(f)).msg.is = "connected"
    BY DEF Connected, To
  <2>5. PICK i \in DOMAIN Clients : e = To(Nth(i), Ask("init", Before(i)))
    BY <2>2, <2>3, <2>4 DEF Settled
  <2>6. e.to = Nth(i) /\ e.msg.response = Before(i)
    BY <2>5 DEF To, Ask
  <2>7. i = j
    BY <2>2, <2>6, NthIs
  <2> QED BY <2>2, <2>6, <2>7 DEF r
<1> HIDE DEF o, r
<1>4. ASSUME NEW i \in DOMAIN Clients PROVE ChainLink(i)'
  <2> DEFINE here == IF i = j THEN 1 ELSE 0
             next == IF j = i + 1 THEN 1 ELSE 0
  <2>1. /\ Turns({Nth(i)}, {}, {}, 0, here) /\ Turns({Nth(i)}, {Nth(i)}, {}, here, here)
        /\ Turns(Following(i), Following(i), {Nth(i)}, next, next)
        /\ Turns({Pipe(Clients[i])}, {}, {}, 0, 0)
    <3>1. /\ In(o, {}) = 0 /\ In(o, {Nth(i)}) = here /\ In(o, Following(i)) = next
          /\ In(o, {Pipe(Clients[i])}) = 0
      BY NeighboursAre DEF o
    <3>2. /\ Turns({Nth(i)}, {}, {}, In(o, {}), In(o, {Nth(i)}))
          /\ Turns({Nth(i)}, {Nth(i)}, {}, In(o, {Nth(i)}), In(o, {Nth(i)}))
          /\ Turns(Following(i), Following(i), {Nth(i)}, In(o, Following(i)), In(o, Following(i)))
          /\ Turns({Pipe(Clients[i])}, {}, {}, In(o, {}), In(o, {Pipe(Clients[i])}))
      BY <1>2, ChainPlumbing
    <3> QED BY <3>1, <3>2
  <2>2. here \in {0, 1} /\ next \in {0, 1} /\ (here = 1 <=> i = j)
    OBVIOUS
  <2> HIDE DEF here, next
  <2>3. Kinds(i, here, 0, 0, 0) /\ here <= Connecting(i)
    BY <2>1, <2>2, KindsAre DEF Kinds
  <2>4. ChainLink(i) /\ Nth(i) \in DOMAIN local
    BY NthIs DEF ClientRequestInv
  <2>5. IsConnected(i) \in {0, 1} /\ HasPipe(i) \in {0, 1}
    BY DEF IsConnected, HasPipe
  <2>6. CASE i # j
    <3>1. local'[Nth(i)] = local[Nth(i)]
      BY <1>1, <2>4, <2>6, NthIs DEF o
    <3>2. /\ ClientMembers(i)' /\ IsConnected(i)' = IsConnected(i) /\ HasPipe(i)' = HasPipe(i)
      BY <2>4, <3>1 DEF ChainLink, ClientMembers, IsConnected, HasPipe
    <3>3. Kinds(i, 0, 0, 0, 0)
      <4>1. here = 0
        BY <2>2, <2>6
      <4> QED BY <2>3, <4>1 DEF Kinds
    <3> QED BY <2>4, <3>1, <3>2, <3>3, LinkStays
  <2>7. CASE i = j
    <3>1. /\ ClientMembers(i)' /\ local'[Nth(i)].m_notify = Before(i)
          /\ local'[Nth(i)].m_connected = FALSE /\ local'[Nth(i)].m_pipe = local[Nth(i)].m_pipe
      BY <1>1, <1>3, <2>4, <2>7 DEF ChainLink, ClientMembers, o
    <3>2. IsConnected(i)' = 0 /\ HasPipe(i)' = HasPipe(i)
      BY <3>1 DEF IsConnected, HasPipe
    <3> QED BY <2>2, <2>3, <2>4, <2>5, <2>7, <3>1, <3>2, SMTT(60) DEF ChainLink, Kinds
  <2> QED BY <2>6, <2>7
<1>5. ASSUME NEW f \in Fds \ Range(Clients) PROVE Entering(f)' <= 1
  <2> DEFINE n == IF j = 1 THEN 1 ELSE 0
  <2>1. 1 \in DOMAIN Clients
    BY ClientsFinite
  <2>2. Turns({Pipe(f), Nth(1)}, {Nth(1)}, {InputObject}, n, n)
    <3>1. In(o, {Nth(1)}) = n /\ In(o, {Pipe(f), Nth(1)}) = n
      BY <2>1, NeighboursAre DEF o
    <3> QED BY <1>2, <3>1, ChainPlumbing
  <2>3. n \in {0, 1} /\ n <= n
    OBVIOUS
  <2> HIDE DEF n
  <2> QED BY <2>2, <2>3, EnteringIs DEF ClientRequestInv
<1> QED BY <1>4, <1>5

LEMMA ResponseLinks ==
    ASSUME SocketsAssumption, ClientAssumption, ClientRequestInv,
           NEW j \in DOMAIN Clients, ConnectResponse(Clients[j]), Succeeds(Clients[j]),
           \A O, I, J : NoPlumbing(O) =>
              Turns(O, I, J, In(Nth(j), O),
                    In(local[Nth(j)].m_notify, J)
                       + IF local[Nth(j)].m_pipe THEN In(Pipe(Clients[j]), O) ELSE 0)
    PROVE  /\ \A i \in DOMAIN Clients : ChainLink(i)'
           /\ \A f \in Fds \ Range(Clients) : Entering(f)' <= 1
<1> DEFINE o == Nth(j)
           p == Pipe(Clients[j])
           told == Before(j)
           n(O, J) == In(told, J) + IF local[o].m_pipe THEN In(p, O) ELSE 0
<1>1. Gets(o, "connect_response") /\ local' = [local EXCEPT ![o].m_connected = TRUE]
  BY DEF ConnectResponse, Succeeds, Nth
<1>2. local[o].m_notify = told
  BY <1>1, KnowsBefore
<1>3. \A O, I, J : NoPlumbing(O) => Turns(O, I, J, In(o, O), n(O, J))
  BY <1>2
<1> HIDE DEF o, p, told
<1>4. ASSUME NEW i \in DOMAIN Clients PROVE ChainLink(i)'
  <2> DEFINE here == IF i = j THEN 1 ELSE 0
             next == IF j = i + 1 THEN 1 ELSE 0
             made == IF i = j THEN HasPipe(i) ELSE 0
  <2>1. /\ Turns({Nth(i)}, {}, {}, here, 0) /\ Turns({Nth(i)}, {Nth(i)}, {}, here, 0)
        /\ Turns(Following(i), Following(i), {Nth(i)}, next, next)
        /\ Turns({Pipe(Clients[i])}, {}, {}, 0, made)
    <3>1. /\ In(o, {}) = 0 /\ In(o, {Nth(i)}) = here /\ In(o, Following(i)) = next
          /\ In(o, {Pipe(Clients[i])}) = 0
          /\ In(told, {}) = 0 /\ In(told, {Nth(i)}) = next
          /\ In(p, {Nth(i)}) = 0 /\ In(p, Following(i)) = 0
          /\ In(p, {Pipe(Clients[i])}) = here
      BY NeighboursAre DEF o, p, told
    <3>2. /\ n({Nth(i)}, {}) = 0 /\ n(Following(i), {Nth(i)}) = next
          /\ n({Pipe(Clients[i])}, {}) = made
      BY <3>1 DEF HasPipe, o
    <3> HIDE DEF n
    <3>3. /\ Turns({Nth(i)}, {}, {}, In(o, {Nth(i)}), n({Nth(i)}, {}))
          /\ Turns({Nth(i)}, {Nth(i)}, {}, In(o, {Nth(i)}), n({Nth(i)}, {}))
          /\ Turns(Following(i), Following(i), {Nth(i)}, In(o, Following(i)), n(Following(i), {Nth(i)}))
          /\ Turns({Pipe(Clients[i])}, {}, {}, In(o, {Pipe(Clients[i])}), n({Pipe(Clients[i])}, {}))
      BY <1>3, ChainPlumbing
    <3> QED BY <3>1, <3>2, <3>3
  <2>2. /\ here \in {0, 1} /\ next \in {0, 1} /\ (here = 1 <=> i = j)
        /\ made \in {0, 1} /\ (i = j => made = HasPipe(i)) /\ (i # j => made = 0)
    BY DEF HasPipe
  <2> HIDE DEF here, next, made, n
  <2>3. Kinds(i, 0 - here, 0 - here, 0, made) /\ here <= Connecting(i)
    BY <2>1, <2>2, KindsAre DEF Kinds
  <2>4. ChainLink(i) /\ Nth(i) \in DOMAIN local
    BY NthIs DEF ClientRequestInv
  <2>5. IsConnected(i) \in {0, 1} /\ HasPipe(i) \in {0, 1}
    BY DEF IsConnected, HasPipe
  <2>6. CASE i # j
    <3>1. local'[Nth(i)] = local[Nth(i)]
      BY <1>1, <2>4, <2>6, NthIs DEF o
    <3>2. /\ ClientMembers(i)' /\ IsConnected(i)' = IsConnected(i) /\ HasPipe(i)' = HasPipe(i)
      BY <2>4, <3>1 DEF ChainLink, ClientMembers, IsConnected, HasPipe
    <3>3. Kinds(i, 0, 0, 0, 0)
      <4>1. here = 0 /\ made = 0
        BY <2>2, <2>6
      <4> QED BY <2>3, <4>1 DEF Kinds
    <3> QED BY <2>4, <3>1, <3>2, <3>3, LinkStays
  <2>7. CASE i = j
    <3>1. /\ ClientMembers(i)' /\ local'[Nth(i)].m_notify = local[Nth(i)].m_notify
          /\ local'[Nth(i)].m_connected = TRUE /\ local'[Nth(i)].m_pipe = local[Nth(i)].m_pipe
      BY <1>1, <2>4, <2>7 DEF ChainLink, ClientMembers, o
    <3>2. IsConnected(i)' = 1 /\ HasPipe(i)' = HasPipe(i)
      BY <3>1 DEF IsConnected, HasPipe
    <3> QED BY <2>2, <2>3, <2>4, <2>5, <2>7, <3>1, <3>2, SMTT(60) DEF ChainLink, Kinds
  <2> QED BY <2>6, <2>7
<1>5. ASSUME NEW f \in Fds \ Range(Clients) PROVE Entering(f)' <= 1
  <2> DEFINE m == IF j = 1 THEN 1 ELSE 0
  <2>1. Turns({Pipe(f), Nth(1)}, {Nth(1)}, {InputObject}, m, m)
    <3>1. In(o, {Pipe(f), Nth(1)}) = m /\ In(told, {InputObject}) = m /\ In(p, {Pipe(f), Nth(1)}) = 0
      BY NeighboursAre DEF o, p, told
    <3>2. n({Pipe(f), Nth(1)}, {InputObject}) = m
      BY <3>1
    <3> HIDE DEF n, m
    <3>3. Turns({Pipe(f), Nth(1)}, {Nth(1)}, {InputObject}, In(o, {Pipe(f), Nth(1)}),
                n({Pipe(f), Nth(1)}, {InputObject}))
      BY <1>3, ChainPlumbing
    <3> QED BY <3>1, <3>2, <3>3
  <2>2. m \in {0, 1} /\ m <= m
    OBVIOUS
  <2> HIDE DEF m
  <2> QED BY <2>1, <2>2, EnteringIs DEF ClientRequestInv
<1> QED BY <1>4, <1>5

LEMMA NeighbourLinks ==
    ASSUME SocketsAssumption, ClientAssumption, ClientRequestInv,
           NEW j \in DOMAIN Clients, NeighbourConnected(Clients[j])
    PROVE  /\ \A i \in DOMAIN Clients : ChainLink(i)'
           /\ \A f \in Fds \ Range(Clients) : Entering(f)' <= 1
<1> DEFINE o == Nth(j)
           p == Pipe(Clients[j])
           pipe == NewPipe(First(o).sock)
           n(O) == IF local[o].m_connected THEN In(p, O) ELSE 0
<1>0. SelectInv(AllClientObjects) /\ IsFiniteSet(AllClientObjects) /\ Clients[j] \in Range(Clients)
  BY NthIs
<1>1. local' = [local EXCEPT ![o].m_pipe = TRUE, ![p] = pipe]
  BY DEF NeighbourConnected, Nth
<1>2. \A O, I, J : NoPlumbing(O) => Turns(O, I, J, In(o, J), n(O))
  BY <1>0, NeighbourTurns DEF Nth
<1> HIDE DEF o, p, pipe
<1>3. \A i \in DOMAIN Clients : Nth(i) # p
  BY NthIs DEF p
<1>4. ASSUME NEW i \in DOMAIN Clients PROVE ChainLink(i)'
  <2> DEFINE here == IF i = j THEN 1 ELSE 0
             made == IF i = j THEN IsConnected(i) ELSE 0
  <2>1. /\ Turns({Nth(i)}, {}, {}, 0, 0) /\ Turns({Nth(i)}, {Nth(i)}, {}, 0, 0)
        /\ Turns(Following(i), Following(i), {Nth(i)}, here, 0)
        /\ Turns({Pipe(Clients[i])}, {}, {}, 0, made)
    <3>1. /\ In(o, {}) = 0 /\ In(o, {Nth(i)}) = here
          /\ In(p, {Nth(i)}) = 0 /\ In(p, Following(i)) = 0
          /\ In(p, {Pipe(Clients[i])}) = here
      BY NeighboursAre DEF o, p
    <3>2. n({Nth(i)}) = 0 /\ n(Following(i)) = 0 /\ n({Pipe(Clients[i])}) = made
      BY <3>1 DEF IsConnected, o
    <3> HIDE DEF n
    <3>3. /\ Turns({Nth(i)}, {}, {}, In(o, {}), n({Nth(i)}))
          /\ Turns({Nth(i)}, {Nth(i)}, {}, In(o, {}), n({Nth(i)}))
          /\ Turns(Following(i), Following(i), {Nth(i)}, In(o, {Nth(i)}), n(Following(i)))
          /\ Turns({Pipe(Clients[i])}, {}, {}, In(o, {}), n({Pipe(Clients[i])}))
      BY <1>2, ChainPlumbing
    <3> QED BY <3>1, <3>2, <3>3
  <2>2. /\ here \in {0, 1} /\ (here = 1 <=> i = j)
        /\ made \in {0, 1} /\ (i = j => made = IsConnected(i)) /\ (i # j => made = 0)
    BY DEF IsConnected
  <2> HIDE DEF here, made, n
  <2>3. Kinds(i, 0, 0, 0 - here, made) /\ here <= Expecting(i)
    BY <2>1, <2>2, KindsAre DEF Kinds
  <2>4. ChainLink(i) /\ Nth(i) \in DOMAIN local
    BY NthIs DEF ClientRequestInv
  <2>5. IsConnected(i) \in {0, 1} /\ HasPipe(i) \in {0, 1}
    BY DEF IsConnected, HasPipe
  <2>6. CASE i # j
    <3>1. local'[Nth(i)] = local[Nth(i)]
      BY <1>1, <1>3, <2>4, <2>6, NthIs DEF o
    <3>2. /\ ClientMembers(i)' /\ IsConnected(i)' = IsConnected(i) /\ HasPipe(i)' = HasPipe(i)
      BY <2>4, <3>1 DEF ChainLink, ClientMembers, IsConnected, HasPipe
    <3>3. Kinds(i, 0, 0, 0, 0)
      <4>1. here = 0 /\ made = 0
        BY <2>2, <2>6
      <4> QED BY <2>3, <4>1 DEF Kinds
    <3> QED BY <2>4, <3>1, <3>2, <3>3, LinkStays
  <2>7. CASE i = j
    <3>1. /\ ClientMembers(i)' /\ local'[Nth(i)].m_notify = local[Nth(i)].m_notify
          /\ local'[Nth(i)].m_pipe = TRUE /\ local'[Nth(i)].m_connected = local[Nth(i)].m_connected
      BY <1>1, <1>3, <2>4, <2>7 DEF ChainLink, ClientMembers, o
    <3>2. HasPipe(i)' = 1 /\ IsConnected(i)' = IsConnected(i)
      BY <3>1 DEF IsConnected, HasPipe
    <3> QED BY <2>2, <2>3, <2>4, <2>5, <2>7, <3>1, <3>2, SMTT(60) DEF ChainLink, Kinds
  <2> QED BY <2>6, <2>7
<1>5. ASSUME NEW f \in Fds \ Range(Clients) PROVE Entering(f)' <= 1
  <2>1. Turns({Pipe(f), Nth(1)}, {Nth(1)}, {InputObject}, 0, 0)
    <3>1. In(o, {InputObject}) = 0 /\ In(p, {Pipe(f), Nth(1)}) = 0
      BY NeighboursAre DEF o, p
    <3>2. n({Pipe(f), Nth(1)}) = 0
      BY <3>1
    <3> HIDE DEF n
    <3>3. Turns({Pipe(f), Nth(1)}, {Nth(1)}, {InputObject}, In(o, {InputObject}), n({Pipe(f), Nth(1)}))
      BY <1>2, ChainPlumbing
    <3> QED BY <3>1, <3>2, <3>3
  <2> QED BY <2>1, EnteringIs DEF ClientRequestInv
<1> QED BY <1>4, <1>5

LEMMA InputLinks ==
    ASSUME SocketsAssumption, ClientAssumption, ClientRequestInv, InputConnected
    PROVE  /\ \A i \in DOMAIN Clients : ChainLink(i)'
           /\ \A f \in Fds \ Range(Clients) : Entering(f)' <= 1
<1> DEFINE p == Pipe(StdIn)
           pipe == NewPipe(First(InputObject).sock)
<1>0. SelectInv(AllClientObjects) /\ IsFiniteSet(AllClientObjects)
  BY NthIs
<1>1. local' = [local EXCEPT ![p] = pipe]
  BY DEF InputConnected
<1>2. \A O, I, J : NoPlumbing(O) => Turns(O, I, J, In(InputObject, J), In(p, O))
  BY <1>0, InputTurns
<1> HIDE DEF p, pipe
<1>3. \A i \in DOMAIN Clients : Nth(i) # p
  BY NthIs DEF p
<1>4. ASSUME NEW i \in DOMAIN Clients PROVE ChainLink(i)'
  <2>1. /\ Turns({Nth(i)}, {}, {}, 0, 0) /\ Turns({Nth(i)}, {Nth(i)}, {}, 0, 0)
        /\ Turns(Following(i), Following(i), {Nth(i)}, 0, 0)
        /\ Turns({Pipe(Clients[i])}, {}, {}, 0, 0)
    <3>1. /\ In(InputObject, {}) = 0 /\ In(InputObject, {Nth(i)}) = 0
          /\ In(p, {Nth(i)}) = 0 /\ In(p, Following(i)) = 0 /\ In(p, {Pipe(Clients[i])}) = 0
      BY NeighboursAre DEF p
    <3>2. /\ Turns({Nth(i)}, {}, {}, In(InputObject, {}), In(p, {Nth(i)}))
          /\ Turns({Nth(i)}, {Nth(i)}, {}, In(InputObject, {}), In(p, {Nth(i)}))
          /\ Turns(Following(i), Following(i), {Nth(i)}, In(InputObject, {Nth(i)}), In(p, Following(i)))
          /\ Turns({Pipe(Clients[i])}, {}, {}, In(InputObject, {}), In(p, {Pipe(Clients[i])}))
      BY <1>2, ChainPlumbing
    <3> QED BY <3>1, <3>2
  <2>2. Kinds(i, 0, 0, 0, 0)
    BY <2>1, KindsAre DEF Kinds
  <2>3. ChainLink(i) /\ Nth(i) \in DOMAIN local
    BY NthIs DEF ClientRequestInv
  <2>4. IsConnected(i) \in {0, 1} /\ HasPipe(i) \in {0, 1}
    BY DEF IsConnected, HasPipe
  <2>5. local'[Nth(i)] = local[Nth(i)]
    BY <1>1, <1>3, <2>3
  <2>6. /\ ClientMembers(i)' /\ IsConnected(i)' = IsConnected(i) /\ HasPipe(i)' = HasPipe(i)
    BY <2>3, <2>5 DEF ChainLink, ClientMembers, IsConnected, HasPipe
  <2> QED BY <2>2, <2>3, <2>4, <2>5, <2>6 DEF ChainLink, Kinds
<1>5. ASSUME NEW f \in Fds \ Range(Clients) PROVE Entering(f)' <= 1
  <2> DEFINE n == In(p, {Pipe(f), Nth(1)})
  <2>1. In(InputObject, {InputObject}) = 1 /\ n \in {0, 1}
    BY NeighboursAre DEF p
  <2>2. Turns({Pipe(f), Nth(1)}, {Nth(1)}, {InputObject}, 1, n)
    BY <1>2, <2>1, ChainPlumbing
  <2>3. n <= 1 /\ 1 \in {0, 1}
    BY <2>1
  <2> HIDE DEF n
  <2> QED BY <2>1, <2>2, <2>3, EnteringIs DEF ClientRequestInv
<1> QED BY <1>4, <1>5

LEMMA ClientsKeepRequests ==
    ASSUME SocketsAssumption, ClientAssumption, ClientRequestInv, ClientNext
    PROVE  ClientRequestInv'
<1> DEFINE D == AllClientObjects
<1>1. ClientInv /\ ClientInv' /\ IsFiniteSet(D) /\ SelectInv(D) /\ SelectInv(D)'
  BY ClientsKeep, ClientsFinite DEF ClientRequestInv, ClientInv
<1>2. \A k : Underway(local', box', todo', k) \in Nat /\ Underway(local, box, todo, k) \in Nat
  <2> HIDE DEF D
  <2> QED BY <1>1, HeldNat, HeldNatNext
<1>3. ASSUME SameNotify, NEW S, S = Stray(Settled),
             \A k : KindOK(k) /\ k.fd = {} =>
                      Underway(local', box', todo', k) <= Underway(local, box, todo, k)
      PROVE  ClientRequestInv'
  <2>1. MakesNothing
    <3>1. ASSUME NEW O, NEW I, NEW J, NoPlumbing(O) PROVE Turns(O, I, J, 0, 0)
      <4> DEFINE k == ClientKind(O, I, J)
      <4>1. KindOK(k) /\ k.fd = {}
        BY <3>1, ClientKindIs
      <4> HIDE DEF k
      <4>2. /\ Underway(local', box', todo', k) <= Underway(local, box, todo, k)
            /\ Underway(local', box', todo', k) \in Nat /\ Underway(local, box, todo, k) \in Nat
        BY <1>2, <1>3, <4>1
      <4> QED BY <4>2 DEF Turns, HeldOf, k
    <3> QED BY <3>1 DEF MakesNothing
  <2>2. KindOK(S) /\ S.fd = {}
    BY <1>3, KindsOK DEF Stray
  <2>3. Underway(local, box, todo, S) = 0
    BY <1>3 DEF ClientRequestInv
  <2>4. Underway(local', box', todo', S) <= Underway(local, box, todo, S) /\ Underway(local', box', todo', S) \in Nat
    BY <1>2, <1>3, <2>2
  <2>5. Underway(local', box', todo', S) = 0
    BY <2>3, <2>4
  <2> QED BY <1>1, <1>3, <2>1, <2>5, LinksStay
<1>4. CASE Next
  <2>1. \A k : KindOK(k) /\ k.fd = {} => Underway(local', box', todo', k) <= Underway(local, box, todo, k)
    <3> HIDE DEF D
    <3> QED BY <1>1, <1>4, SocketsHold
  <2> QED BY <1>3, <1>4, <2>1, SocketsNotify
<1>5. ASSUME NEW o \in ClientObjects, Call(o) PROVE ClientRequestInv'
  <2>1. \A k : Underway(local', box', todo', k) <= Underway(local, box, todo, k)
    <3>1. o \in D
      BY DEF AllClientObjects
    <3> HIDE DEF D
    <3>2. \A k : Underway(local', box', todo', k) = Underway(local, box, todo, k)
      BY <1>1, <1>5, <3>1, CallHolds
    <3> QED BY <1>2, <3>2
  <2>2. SameNotify
    BY <1>5, SameLocal DEF Call
  <2> QED BY <1>3, <2>1, <2>2
<1>6. ASSUME /\ \A i \in DOMAIN Clients : ChainLink(i)'
             /\ \A f \in Fds \ Range(Clients) : Entering(f)' <= 1,
             (\E f \in Range(Clients) : ClientStep(f)) \/ InputConnected
      PROVE  ClientRequestInv'
  <2>1. Underway(local', box', todo', Stray(Settled)) = 0
    BY <1>6, NothingStrays
  <2> QED BY <1>1, <1>6, <2>1 DEF ClientRequestInv
<1>7. ASSUME NEW f \in Range(Clients), ClientStep(f) PROVE ClientRequestInv'
  <2>1. PICK j \in DOMAIN Clients : f = Clients[j]
    BY ClientsFinite
  <2>2. CASE ClientSetsOff(f)
    BY <1>6, <1>7, <2>1, <2>2, SetsOffLinks
  <2>3. CASE NeighbourConnected(f)
    BY <1>6, <1>7, <2>1, <2>3, NeighbourLinks
  <2>4. CASE ConnectResponse(f)
    <3>1. CASE local' = local /\ MakesNothing
      <4>1. SameNotify
        BY <3>1, SameLocal
      <4>2. Underway(local', box', todo', Stray(Settled)) = 0
        BY <1>7, NothingStrays
      <4> QED BY <1>1, <3>1, <4>1, <4>2, LinksStay
    <3> DEFINE n(O, J) == In(local[Nth(j)].m_notify, J)
                             + IF local[Nth(j)].m_pipe THEN In(Pipe(Clients[j]), O) ELSE 0
               Told == \A O, I, J : NoPlumbing(O) => Turns(O, I, J, In(Nth(j), O), n(O, J))
    <3>2. CASE Succeeds(Clients[j]) /\ Told
      BY <1>6, <1>7, <2>1, <2>4, <3>2, ResponseLinks
    <3>3. (local' = local /\ MakesNothing) \/ (Succeeds(Clients[j]) /\ Told)
      BY <1>1, <2>1, <2>4, ResponseTurns DEF Nth, MakesNothing
    <3> QED BY <3>1, <3>2, <3>3
  <2> QED BY <1>7, <2>2, <2>3, <2>4 DEF ClientStep
<1>8. CASE InputConnected
  BY <1>6, <1>8, InputLinks
<1> QED BY <1>4, <1>5, <1>7, <1>8 DEF ClientNext

LEMMA ClientsOneRequest ==
    ASSUME SocketsAssumption, ClientAssumption, ClientRequestInv
    PROVE  OneRequest
<1> DEFINE D == AllClientObjects
<1>1. SelectInv(D) /\ IsFiniteSet(D) /\ DOMAIN local = D
  BY NthIs DEF SelectInv, Mail
<1>2. \A f, m : Pipe(f) # InputObject /\ Pipe(f) \notin ClientObjects
  <2>1. \A f, g : Pipe(f) # InputObject /\ Pipe(f) # Client(g)
    BY DEF Pipe, InputObject, Client
  <2> QED BY <2>1, Zenon DEF ClientObjects
<1>3. \A e \in Settled : /\ e.to \in ClientObjects
                         /\ "response" \in DOMAIN e.msg => e.msg.response \in ClientObjects
  <2>1. ASSUME NEW i \in DOMAIN Clients
        PROVE  LET e == To(Nth(i), Ask("init", Before(i)))
               IN  /\ e.to \in ClientObjects
                   /\ "response" \in DOMAIN e.msg => e.msg.response \in ClientObjects
    <3>1. Nth(i) \in ClientObjects
      BY ClientsFinite, ClientsAre DEF Nth
    <3> QED BY <3>1, BeforeIs DEF To, Ask
  <2>2. ASSUME NEW o \in ClientObjects, NEW s
        PROVE  LET e == To(o, Connected(s))
               IN  /\ e.to \in ClientObjects
                   /\ "response" \in DOMAIN e.msg => e.msg.response \in ClientObjects
    BY DEF To, Connected
  <2> QED BY <2>1, <2>2 DEF Settled
<1>4. ASSUME NEW f, NEW x \in Flight(box, todo), Asking(Enveloped(box, todo, x), Pipe(f))
      PROVE  Enveloped(box, todo, x).msg.is \notin {"init", "connected"}
  <2> DEFINE e == Enveloped(box, todo, x)
  <2>1. ~About(e, Stray(Settled))
    <3>1. \A y \in Flight(box, todo) : ~About(Enveloped(box, todo, y), Stray(Settled))
      BY <1>1, NothingStray DEF ClientRequestInv
    <3> QED BY <3>1
  <2> HIDE DEF e
  <2>2. e.msg.is \in {"init", "connected"} => To(e.to, e.msg) \in Settled
    BY <2>1 DEF About, Stray
  <2>3. To(e.to, e.msg).to = e.to /\ To(e.to, e.msg).msg = e.msg
    BY DEF To
  <2>4. e.to = Pipe(f) \/ ("response" \in DOMAIN e.msg /\ e.msg.response = Pipe(f))
    BY <1>4 DEF Asking, e
  <2> QED BY <1>2, <1>3, <2>2, <2>3, <2>4 DEF e
<1>5. ASSUME NEW f \in Fds PROVE HeldOf(local, box, todo, {Pipe(f)}, {}, {}) <= 1
  <2>1. CASE f \in Range(Clients)
    <3>1. PICK i \in DOMAIN Clients : f = Clients[i]
      BY <2>1, ClientsFinite
    <3>2. Copying(i) <= IsConnected(i) /\ IsConnected(i) \in {0, 1}
      BY DEF ClientRequestInv, ChainLink, IsConnected
    <3>3. Copying(i) \in Nat
      BY <1>1, HeldNat DEF Copying, HeldOf
    <3>4. Copying(i) <= 1
      BY <3>2, <3>3
    <3> QED BY <3>1, <3>4 DEF Copying
  <2>2. CASE f \notin Range(Clients)
    <3> DEFINE j == ClientKind({Pipe(f)}, {}, {})
               k == ClientKind({Pipe(f), Nth(1)}, {Nth(1)}, {InputObject})
    <3>1. Includes(k, j)
      BY DEF Includes, About, ClientKind
    <3>2. Underway(local, box, todo, k) <= 1
      BY <2>2 DEF ClientRequestInv, Entering, HeldOf
    <3> HIDE DEF j, k, D
    <3>3. /\ Underway(local, box, todo, j) <= Underway(local, box, todo, k)
          /\ Underway(local, box, todo, j) \in Nat /\ Underway(local, box, todo, k) \in Nat
      BY <1>1, <3>1, HeldMore, HeldNat
    <3>4. Underway(local, box, todo, j) <= 1
      BY <3>2, <3>3
    <3> QED BY <3>4 DEF j, HeldOf
  <2> QED BY <2>1, <2>2
<1>6. ASSUME NEW o \in DOMAIN local, o[1] = "pipe" PROVE Cardinality(Tokens(o)) <= 1
  <2>1. o \notin ClientObjects
    <3>1. InputObject[1] # "pipe" /\ \A f : Client(f)[1] # "pipe"
      BY DEF InputObject, Client
    <3> QED BY <1>6, <3>1, Zenon DEF ClientObjects
  <2>2. PICK f \in Fds : o = Pipe(f)
    BY <1>1, <1>6, <2>1, PipesAre DEF AllClientObjects
  <2> DEFINE k == ClientKind({o}, {}, {})
  <2>3. Underway(local, box, todo, k) <= 1
    BY <1>5, <2>2 DEF HeldOf
  <2>4. k.of = {o}
    BY DEF ClientKind
  <2>5. \A x \in Flight(box, todo) :
           Asking(Enveloped(box, todo, x), o) =>
              Enveloped(box, todo, x).msg.is \notin {"init", "connected"}
    BY <1>4, <2>2
  <2> HIDE DEF k, D
  <2> QED BY <1>1, <2>3, <2>4, <2>5, TokensFollow
<1> QED BY <1>6 DEF OneRequest

\* What main has sent to the clients.
SentTo(i) == <<Ask("init", Before(i))>> \o IF i = Len(Clients) THEN <<Connected(StdOut)>> ELSE <<>>

\* A message of main's: the x-th one, m, of o.
FromMain(o, x, m) ==
    \E i \in DOMAIN Clients :
       /\ o = Nth(i)
       /\ \/ x = 1 /\ m = Ask("init", Before(i))
          \/ x = 2 /\ m = Connected(StdOut) /\ i = Len(Clients)

LEMMA SentToIs ==
    \A i : /\ \A x \in 1 .. Len(SentTo(i)) :
                \/ x = 1 /\ SentTo(i)[x] = Ask("init", Before(i))
                \/ x = 2 /\ SentTo(i)[x] = Connected(StdOut) /\ i = Len(Clients)
           /\ Range(SentTo(i)) = {SentTo(i)[x] : x \in 1 .. Len(SentTo(i))}
<1> SUFFICES ASSUME NEW i
             PROVE  /\ \A x \in 1 .. Len(SentTo(i)) :
                         \/ x = 1 /\ SentTo(i)[x] = Ask("init", Before(i))
                         \/ x = 2 /\ SentTo(i)[x] = Connected(StdOut) /\ i = Len(Clients)
                    /\ Range(SentTo(i)) = {SentTo(i)[x] : x \in 1 .. Len(SentTo(i))}
  OBVIOUS
<1> DEFINE a == Ask("init", Before(i))
           c == Connected(StdOut)
<1> HIDE DEF a, c
<1>1. CASE i = Len(Clients)
  <2> DEFINE s == <<a, c>>
  <2>1. SentTo(i) = s
    <3>1. SentTo(i) = <<a>> \o <<c>>
      BY <1>1 DEF SentTo, a, c
    <3> QED BY <3>1, SequenceOfTwo
  <2>2. Len(s) = 2 /\ s[1] = a /\ s[2] = c /\ IsSequence(s)
    BY SequenceFew
  <2> HIDE DEF s
  <2>3. \A x \in 1 .. Len(SentTo(i)) : (x = 1 /\ SentTo(i)[x] = a) \/ (x = 2 /\ SentTo(i)[x] = c)
    BY <2>1, <2>2
  <2>4. Range(SentTo(i)) = {SentTo(i)[x] : x \in 1 .. Len(SentTo(i))}
    BY <2>1, <2>2, SequenceLength
  <2> QED BY <1>1, <2>3, <2>4 DEF a, c
<1>2. CASE i # Len(Clients)
  <2> DEFINE s == <<a>>
  <2>1. IsSequence(s) /\ Len(s) = 1 /\ s[1] = a /\ s \o <<>> = s
    BY SequenceFew
  <2>2. SentTo(i) = s
    <3>1. SentTo(i) = s \o <<>>
      BY <1>2 DEF SentTo, a
    <3> QED BY <2>1, <3>1
  <2> HIDE DEF s
  <2>3. Len(SentTo(i)) = 1 /\ SentTo(i)[1] = a
    BY <2>1, <2>2
  <2>5. \A x \in 1 .. 1 : x = 1
    OBVIOUS
  <2>6. \A x \in 1 .. Len(SentTo(i)) : x = 1 /\ SentTo(i)[x] = a
    BY <2>3, <2>5
  <2>4. Range(SentTo(i)) = {SentTo(i)[x] : x \in 1 .. Len(SentTo(i))}
    BY <2>1, <2>2, SequenceLength
  <2> QED BY <2>6, <2>4 DEF a
<1> QED BY <1>1, <1>2

LEMMA MainSends ==
    ASSUME SocketsAssumption, ClientAssumption, ClientInit
    PROVE  \E members, messages :
              /\ Starts(members, messages)
              /\ DOMAIN members = AllClientObjects /\ DOMAIN messages = AllClientObjects
              /\ members[Loop] = EmptyLoop
              /\ \A i \in DOMAIN Clients :
                    members[Nth(i)] = [m_connected |-> FALSE, m_pipe |-> FALSE,
                                       m_notify |-> InputObject]
              /\ \A o \in AllClientObjects : \A x \in 1 .. Len(messages[o]) :
                    FromMain(o, x, messages[o][x])
              /\ \A o \in AllClientObjects : \A m \in Range(messages[o]) :
                    \E x : FromMain(o, x, m)
<1> DEFINE at(o) == CHOOSE j \in DOMAIN Clients : Clients[j] = o[2]
           client == [m_connected |-> FALSE, m_pipe |-> FALSE, m_notify |-> InputObject]
           members == [o \in Objects \cup ClientObjects |->
              IF o[1] = "echo_client" THEN client
              ELSE IF o \in Objects THEN Members[o] ELSE <<>>]
           messages == [o \in Objects \cup ClientObjects |->
              IF o[1] # "echo_client" THEN <<>> ELSE SentTo(at(o))]
<1>1. Starts(members, messages)
  BY Zenon DEF ClientInit, SentTo
<1>2. DOMAIN members = AllClientObjects /\ DOMAIN messages = AllClientObjects
  BY DEF AllClientObjects
<1>3. members[Loop] = EmptyLoop
  BY ObjectsAre, ClientsAre
<1>4. \A i \in DOMAIN Clients : members[Nth(i)] = client
  BY ClientsFinite, ClientsAre DEF Nth
<1>5. \A o \in AllClientObjects :
         messages[o] = <<>> \/ \E i \in DOMAIN Clients : o = Nth(i) /\ messages[o] = SentTo(i)
  <2>1. ASSUME NEW o \in AllClientObjects, o[1] = "echo_client"
        PROVE  \E i \in DOMAIN Clients : o = Nth(i) /\ messages[o] = SentTo(i)
    <3>1. o \notin Objects
      <4>1. /\ Select[1] # "echo_client" /\ Loop[1] # "echo_client" /\ Wake[1] # "echo_client"
            /\ \A f : /\ Fd(f)[1] # "echo_client" /\ Socket(f)[1] # "echo_client"
                      /\ Reader(f)[1] # "echo_client" /\ Writer(f)[1] # "echo_client"
                      /\ Pipe(f)[1] # "echo_client"
        BY DEF Select, Loop, Wake, Fd, Socket, Reader, Writer, Pipe
      <4> QED BY <2>1, <4>1, Zenon DEF Objects
    <3>2. InputObject[1] # "echo_client"
      BY ClientsAre
    <3>3. PICK f \in Range(Clients) : o = Client(f)
      BY <2>1, <3>1, <3>2, Zenon DEF AllClientObjects, ClientObjects
    <3>4. PICK i \in DOMAIN Clients : f = Clients[i]
      BY ClientsFinite
    <3>5. o[2] = Clients[i] /\ o = Nth(i)
      BY <3>3, <3>4 DEF Client, Nth
    <3>6. at(o) = i
      BY <3>5, ClientsFinite
    <3>7. messages[o] = SentTo(at(o))
      <4> HIDE DEF at
      <4> QED BY <2>1 DEF AllClientObjects
    <3> QED BY <3>5, <3>6, <3>7
  <2>2. \A o \in AllClientObjects : o[1] # "echo_client" => messages[o] = <<>>
    BY DEF AllClientObjects
  <2> QED BY <2>1, <2>2
<1> HIDE DEF members, messages
<1>6. Len(<<>>) = 0 /\ 1 .. 0 = {} /\ Range(<<>>) = {}
  BY SequenceFew
<1>7. \A o \in AllClientObjects : \A x \in 1 .. Len(messages[o]) : FromMain(o, x, messages[o][x])
  BY <1>5, <1>6, SentToIs DEF FromMain
<1>8. \A o \in AllClientObjects : \A m \in Range(messages[o]) : \E x : FromMain(o, x, m)
  <2>1. ASSUME NEW o \in AllClientObjects, NEW m \in Range(messages[o])
        PROVE  \E x \in 1 .. Len(messages[o]) : m = messages[o][x]
    <3>1. PICK i \in DOMAIN Clients : messages[o] = SentTo(i)
      BY <1>5, <1>6, <2>1
    <3> QED BY <2>1, <3>1, SentToIs
  <2> QED BY <1>7, <2>1
<1> QED BY <1>1, <1>2, <1>3, <1>4, <1>7, <1>8

LEMMA ClientBegins ==
    ASSUME SocketsAssumption, ClientAssumption, ClientInit
    PROVE  ClientRequestInv
<1> DEFINE D == AllClientObjects
           client == [m_connected |-> FALSE, m_pipe |-> FALSE, m_notify |-> InputObject]
<1>1. ClientInv /\ SelectInv(D) /\ IsFiniteSet(D)
  BY ClientStarts, ClientsFinite DEF ClientInv
<1>2. PICK members, messages :
        /\ Starts(members, messages)
        /\ DOMAIN members = D /\ DOMAIN messages = D
        /\ members[Loop] = EmptyLoop
        /\ \A i \in DOMAIN Clients : members[Nth(i)] = client
        /\ \A o \in D : \A x \in 1 .. Len(messages[o]) : FromMain(o, x, messages[o][x])
        /\ \A o \in D : \A m \in Range(messages[o]) : \E x : FromMain(o, x, m)
  BY MainSends
<1>3. local = members
  BY <1>2 DEF Starts
<1> HIDE DEF D, client
<1>4. ASSUME NEW k, \A o, x, m : FromMain(o, x, m) => ~About(To(o, m), k)
      PROVE  Underway(local, box, todo, k) = 0
  <2>1. \A o \in D : \A m \in Range(messages[o]) : ~About(To(o, m), k)
    BY <1>2, <1>4
  <2> QED BY <1>1, <1>2, <2>1, StartsNone
<1>5. ASSUME NEW k, NEW p, NEW y,
             \A o, x, m : FromMain(o, x, m) /\ About(To(o, m), k) => o = p /\ x = y
      PROVE  Underway(local, box, todo, k) <= 1
  <2>1. OnlyAt(messages, D, k, p, y)
    BY <1>2, <1>5 DEF OnlyAt
  <2> QED BY <1>1, <1>2, <2>1, StartsOne
<1>6. /\ \A o, x, m : FromMain(o, x, m) => m.is \in {"init", "connected"} /\ To(o, m) \in Settled
      /\ \A o, m : To(o, m).to = o /\ To(o, m).msg = m
      /\ \A o, x, m : FromMain(o, x, m) /\ m.is = "init" => x = 1
      /\ \A o, x, m : FromMain(o, x, m) /\ m.is = "connected" => x = 2 /\ o = Nth(Len(Clients))
  <2>1. \A i \in DOMAIN Clients : Nth(i) \in ClientObjects
    BY ClientsFinite, ClientsAre DEF Nth
  <2>2. \A o : Ask("init", o).is = "init" /\ Connected(StdOut).is = "connected"
    BY DEF Ask, Connected
  <2>3. \A i \in DOMAIN Clients : To(Nth(i), Ask("init", Before(i))) \in Settled
    BY DEF Settled
  <2>4. \A o \in ClientObjects : To(o, Connected(StdOut)) \in Settled
    BY DEF Settled
  <2> QED BY <2>1, <2>2, <2>3, <2>4 DEF FromMain, To
<1>7. Underway(local, box, todo, Stray(Settled)) = 0
  <2>1. \A o, x, m : FromMain(o, x, m) => ~About(To(o, m), Stray(Settled))
    BY <1>6 DEF About, Stray
  <2> QED BY <1>4, <2>1
<1>8. ASSUME NEW O PROVE HeldOf(local, box, todo, O, {}, {}) = 0
  <2>1. \A o, x, m : FromMain(o, x, m) => ~About(To(o, m), ClientKind(O, {}, {}))
    BY <1>6, ClientKindIs
  <2> QED BY <1>4, <2>1 DEF HeldOf
<1>9. ASSUME NEW O, NEW p, NEW J, Nth(Len(Clients)) \notin J
      PROVE  HeldOf(local, box, todo, O, {p}, J) <= 1
  <2> DEFINE k == ClientKind(O, {p}, J)
  <2>1. \A o, x, m : FromMain(o, x, m) /\ About(To(o, m), k) => o = p /\ x = 1
    BY <1>6, <1>9, ClientKindIs
  <2> HIDE DEF k
  <2>2. Underway(local, box, todo, k) <= 1
    BY <1>5, <2>1
  <2> QED BY <2>2 DEF HeldOf, k
<1>10. ASSUME NEW J PROVE HeldOf(local, box, todo, {}, {}, J) <= 1
  <2> DEFINE k == ClientKind({}, {}, J)
             last == Nth(Len(Clients))
  <2>1. \A o, x, m : FromMain(o, x, m) /\ About(To(o, m), k) => o = last /\ x = 2
    BY <1>6, ClientKindIs
  <2> HIDE DEF k, last
  <2>2. Underway(local, box, todo, k) <= 1
    BY <1>5, <2>1
  <2> QED BY <2>2 DEF HeldOf, k
<1>11. /\ DOMAIN Clients = 1 .. Len(Clients) /\ Len(Clients) \in Nat \ {0}
       /\ \A i, j \in DOMAIN Clients : Nth(i) = Nth(j) => i = j
       /\ \A i : Nth(i) # InputObject
  BY ClientsFinite, ClientsAre DEF Nth
<1>12. ASSUME NEW i \in DOMAIN Clients PROVE ChainLink(i)
  <2>1. local[Nth(i)] = client
    BY <1>2, <1>3
  <2>2. ClientMembers(i) /\ IsConnected(i) = 0 /\ HasPipe(i) = 0
    BY <2>1 DEF ClientMembers, IsConnected, HasPipe, client
  <2>3. Dials(i) = 0 /\ Copying(i) = 0
    BY <1>8 DEF Dials, Copying
  <2>4. Connecting(i) <= 1
    BY <1>9 DEF Connecting
  <2>5. Expecting(i) <= 1
    <3>1. CASE i < Len(Clients)
      <4>1. Following(i) = {Nth(i + 1)} /\ Nth(Len(Clients)) \notin {Nth(i)}
        BY <1>11, <3>1 DEF Following
      <4> QED BY <1>9, <4>1 DEF Expecting
    <3>2. CASE ~(i < Len(Clients))
      <4>1. Following(i) = {}
        BY <3>2 DEF Following
      <4> QED BY <1>10, <4>1 DEF Expecting
    <3> QED BY <3>1, <3>2
  <2>6. Connecting(i) \in Nat /\ Expecting(i) \in Nat
    BY <1>1, HeldNat DEF Connecting, Expecting, HeldOf
  <2> QED BY <2>2, <2>3, <2>4, <2>5, <2>6 DEF ChainLink
<1>13. ASSUME NEW f PROVE Entering(f) <= 1
  <2>1. Nth(Len(Clients)) \notin {InputObject}
    BY <1>11
  <2> QED BY <1>9, <2>1 DEF Entering
<1> QED BY <1>1, <1>7, <1>12, <1>13 DEF ClientRequestInv

\* Safety of echo_client.cpp, for a chain of any number of clients: a client that hears
\* from its socket and from its neighbour, in either order, starts its pipe once, and
\* the pipe asks for one thing at a time (echo_client.cpp:36-86, active_socket.cpp:305-368).
THEOREM ClientOneRequestHolds ==
    ASSUME SocketsAssumption, ClientAssumption
    PROVE  ClientInit /\ [][ClientNext]_state => []OneRequest
<1>1. ClientInit => ClientRequestInv
  BY ClientBegins
<1>2. ClientRequestInv /\ [ClientNext]_state => ClientRequestInv'
  <2>1. ASSUME ClientRequestInv, UNCHANGED state PROVE ClientRequestInv'
    <3>1. SelectInv(AllClientObjects)'
      BY <2>1, NothingKeeps DEF ClientRequestInv, ClientInv
    <3>2. local' = local /\ box' = box /\ todo' = todo
      BY <2>1 DEF state
    <3>3. ClientInv'
      BY <2>1, <3>1, <3>2 DEF ClientRequestInv, ClientInv, Notifies
    <3>4. \A i : ChainLink(i)' <=> ChainLink(i)
      BY <3>2 DEF ChainLink, ClientMembers, Dials, Connecting, Expecting, Copying,
                  IsConnected, HasPipe
    <3>5. \A f : Entering(f)' = Entering(f)
      BY <3>2 DEF Entering
    <3> QED BY <2>1, <3>2, <3>3, <3>4, <3>5 DEF ClientRequestInv
  <2> QED BY <2>1, ClientsKeepRequests
<1>3. ClientRequestInv => OneRequest
  BY ClientsOneRequest
<1> QED BY <1>1, <1>2, <1>3, PTL

-----------------------------------------------------------------------------
(* Philosophers *)

\* Who sits where.
LEMMA TableIs ==
    ASSUME N \in Nat \ {0, 1}
    PROVE  /\ IsFiniteSet(Table) /\ IsFiniteSet(Philosophers) /\ IsFiniteSet(Forks)
           /\ Cardinality(Philosophers) = N /\ Cardinality(Forks) = N
           /\ \A p \in Philosophers : p[1] = "philosopher" /\ p \notin Forks
           /\ \A f \in Forks : f[1] = "fork" /\ f \notin Philosophers
           /\ Nobody \notin Table
<1>1. 1 \in Int /\ N \in Int /\ N - 1 + 1 = N
  OBVIOUS
<1>2. IsFiniteSet(1 .. N) /\ Cardinality(1 .. N) = N
  BY <1>1, FS_Interval
<1>3. IsFiniteSet(Philosophers) /\ Cardinality(Philosophers) = N
  <2> DEFINE g == [i \in 1 .. N |-> Philosopher(i)]
  <2>1. g \in [1 .. N -> Philosophers]
    BY DEF Philosophers
  <2>2. \A i, j \in 1 .. N : g[i] = g[j] => i = j
    BY DEF Philosopher
  <2>3. \A p \in Philosophers : \E i \in 1 .. N : g[i] = p
    BY DEF Philosophers
  <2> DEFINE A == 1 .. N
  <2>4. IsFiniteSet(A) /\ Cardinality(A) = N
    BY <1>2
  <2>5. /\ g \in [A -> Philosophers] /\ \A x, y \in A : g[x] = g[y] => x = y
        /\ \A y \in Philosophers : \E x \in A : g[x] = y
    BY <2>1, <2>2, <2>3
  <2> HIDE DEF g, A
  <2> QED BY <2>4, <2>5, AsMany
<1>4. IsFiniteSet(Forks) /\ Cardinality(Forks) = N
  <2> DEFINE g == [i \in 1 .. N |-> Fork(i)]
  <2>1. g \in [1 .. N -> Forks]
    BY DEF Forks
  <2>2. \A i, j \in 1 .. N : g[i] = g[j] => i = j
    BY DEF Fork
  <2>3. \A p \in Forks : \E i \in 1 .. N : g[i] = p
    BY DEF Forks
  <2> DEFINE A == 1 .. N
  <2>4. IsFiniteSet(A) /\ Cardinality(A) = N
    BY <1>2
  <2>5. /\ g \in [A -> Forks] /\ \A x, y \in A : g[x] = g[y] => x = y
        /\ \A y \in Forks : \E x \in A : g[x] = y
    BY <2>1, <2>2, <2>3
  <2> HIDE DEF g, A
  <2> QED BY <2>4, <2>5, AsMany
<1>5. IsFiniteSet(Table)
  BY <1>3, <1>4, FS_Union DEF Table
<1>6. \A p \in Philosophers : p[1] = "philosopher"
  BY DEF Philosophers, Philosopher
<1>7. \A f \in Forks : f[1] = "fork"
  BY DEF Forks, Fork
<1>8. Nobody[1] = "nobody"
  BY DEF Nobody
<1> QED BY <1>3, <1>4, <1>5, <1>6, <1>7, <1>8 DEF Table

LEMMA SidesAre ==
    ASSUME N \in Nat \ {0, 1}
    PROVE  /\ \A p \in Philosophers : /\ Left(p) \in Forks /\ Right(p) \in Forks
                                      /\ Left(p) # Right(p)
           /\ \A f \in Forks : /\ Owner(f) \in Philosophers /\ Neighbour(f) \in Philosophers
                               /\ Owner(f) # Neighbour(f)
           /\ \A p \in Philosophers, f \in Forks : p \in Users(f) <=> f \in Sides(p)
<1>1. \A i, j : (Philosopher(i) = Philosopher(j) => i = j) /\ (Fork(i) = Fork(j) => i = j)
  BY DEF Philosopher, Fork
<1>2. \A i : Philosopher(i)[2] = i /\ Fork(i)[2] = i
  BY DEF Philosopher, Fork
<1>3. ASSUME NEW i \in 1 .. N
      PROVE  /\ Left(Philosopher(i)) = Fork(i)
             /\ Right(Philosopher(i)) = Fork(IF i = N THEN 1 ELSE i + 1)
             /\ Owner(Fork(i)) = Philosopher(i)
             /\ Neighbour(Fork(i)) = Philosopher(IF i = 1 THEN N ELSE i - 1)
  BY <1>2 DEF Left, Right, Owner, Neighbour
<1>4. \A i \in 1 .. N : /\ (IF i = N THEN 1 ELSE i + 1) \in 1 .. N \ {i}
                        /\ (IF i = 1 THEN N ELSE i - 1) \in 1 .. N \ {i}
  OBVIOUS
<1>5. \A i, j \in 1 .. N : (IF i = N THEN 1 ELSE i + 1) = j <=> i = (IF j = 1 THEN N ELSE j - 1)
  OBVIOUS
<1>6. \A p : p \in Philosophers <=> \E i \in 1 .. N : p = Philosopher(i)
  BY DEF Philosophers
<1>7. \A f : f \in Forks <=> \E i \in 1 .. N : f = Fork(i)
  BY DEF Forks
<1>8. ASSUME NEW p \in Philosophers
      PROVE  Left(p) \in Forks /\ Right(p) \in Forks /\ Left(p) # Right(p)
  <2>1. PICK i \in 1 .. N : p = Philosopher(i)
    BY <1>6
  <2>2. (IF i = N THEN 1 ELSE i + 1) \in 1 .. N \ {i}
    BY <1>4
  <2> QED BY <2>1, <2>2, <1>1, <1>3, <1>7
<1>9. ASSUME NEW f \in Forks
      PROVE  Owner(f) \in Philosophers /\ Neighbour(f) \in Philosophers /\ Owner(f) # Neighbour(f)
  <2>1. PICK i \in 1 .. N : f = Fork(i)
    BY <1>7
  <2>2. (IF i = 1 THEN N ELSE i - 1) \in 1 .. N \ {i}
    BY <1>4
  <2> QED BY <2>1, <2>2, <1>1, <1>3, <1>6
<1>10. ASSUME NEW p \in Philosophers, NEW f \in Forks
       PROVE  p \in Users(f) <=> f \in Sides(p)
  <2>1. PICK i \in 1 .. N : p = Philosopher(i)
    BY <1>6
  <2>2. PICK j \in 1 .. N : f = Fork(j)
    BY <1>7
  <2>3. p = Owner(f) <=> f = Left(p)
    BY <2>1, <2>2, <1>1, <1>3
  <2> DEFINE r == IF i = N THEN 1 ELSE i + 1
             l == IF j = 1 THEN N ELSE j - 1
  <2>4. r = j <=> i = l
    BY <1>5
  <2>5. Right(p) = Fork(r) /\ Neighbour(f) = Philosopher(l)
    BY <2>1, <2>2, <1>3
  <2> HIDE DEF r, l
  <2>6. p = Neighbour(f) <=> f = Right(p)
    BY <2>1, <2>2, <2>4, <2>5, <1>1
  <2> QED BY <2>3, <2>6 DEF Users, Sides
<1> QED BY <1>8, <1>9, <1>10

\* Messages that differ.
LEMMA EnvelopesDiffer ==
    /\ \A o, m, p, n : To(o, m) = To(p, n) <=> o = p /\ m = n
    /\ \A p, f : Pickup(p) = Pickup(f) <=> p = f
    /\ \A p : Pickup(p) # Plain("start") /\ Pickup(p) # Plain("putdown")
    /\ Plain("start") # Plain("putdown")
    /\ \A p : Pickup(p).is = "pickup" /\ Pickup(p).from = p
    /\ Plain("start").is = "start" /\ Plain("putdown").is = "putdown"
    /\ \A o, m : To(o, m).to = o /\ To(o, m).msg = m
<1>1. \A o, m : To(o, m).to = o /\ To(o, m).msg = m
  BY DEF To
<1>2. \A p : Pickup(p).is = "pickup" /\ Pickup(p).from = p
  BY DEF Pickup
<1>3. Plain("start").is = "start" /\ Plain("putdown").is = "putdown"
  BY DEF Plain
<1>4. \A o, m, p, n : To(o, m) = To(p, n) <=> o = p /\ m = n
  <2> SUFFICES ASSUME NEW o, NEW m, NEW p, NEW n, To(o, m) = To(p, n) PROVE o = p /\ m = n
    OBVIOUS
  <2> QED BY <1>1
<1>5. \A p, f : Pickup(p) = Pickup(f) <=> p = f
  <2> SUFFICES ASSUME NEW p, NEW f, Pickup(p) = Pickup(f) PROVE p = f
    OBVIOUS
  <2> QED BY <1>2
<1>6. \A p : Pickup(p) # Plain("start") /\ Pickup(p) # Plain("putdown")
  <2> SUFFICES ASSUME NEW p PROVE Pickup(p) # Plain("start") /\ Pickup(p) # Plain("putdown")
    OBVIOUS
  <2> QED BY <1>2, <1>3
<1> QED BY <1>1, <1>2, <1>3, <1>4, <1>5, <1>6

\* One call or none.
Same(x, y) == IF x = y THEN 1 ELSE 0

\* What a method of the table's does to the lines of messages.
Serves(o, calls) ==
    /\ o \in Table /\ IsSequence(calls) /\ box[o] # <<>> /\ todo[o] = <<>> /\ Does(o, calls)

LEMMA TableDoes ==
    ASSUME N \in Nat \ {0, 1}, TableOK
    PROVE  \A o, calls : Serves(o, calls) =>
              /\ Lines(box', todo', Table)
              /\ \A S : Flying(box', todo', S) + (IF To(o, First(o)) \in S THEN 1 ELSE 0)
                           = Flying(box, todo, S) + Occurs(calls, S)
              /\ \A S : Flying(box', todo', S) \in Nat /\ Flying(box, todo, S) \in Nat
                        /\ Occurs(calls, S) \in Nat
              /\ box'[o] = Tail(box[o]) /\ todo'[o] = calls
              /\ \A t \in Table : t # o => box'[t] = box[t] /\ todo'[t] = todo[t]
              /\ First(o) \in Range(box[o]) /\ Range(Tail(box[o])) \subseteq Range(box[o])
              /\ First(o) = Head(box[o]) /\ IsSequence(box[o])
<1> SUFFICES
    ASSUME NEW o, NEW calls, Serves(o, calls)
    PROVE     /\ Lines(box', todo', Table)
              /\ \A S : Flying(box', todo', S) + (IF To(o, First(o)) \in S THEN 1 ELSE 0)
                           = Flying(box, todo, S) + Occurs(calls, S)
              /\ \A S : Flying(box', todo', S) \in Nat /\ Flying(box, todo, S) \in Nat
                        /\ Occurs(calls, S) \in Nat
              /\ box'[o] = Tail(box[o]) /\ todo'[o] = calls
              /\ \A t \in Table : t # o => box'[t] = box[t] /\ todo'[t] = todo[t]
              /\ First(o) \in Range(box[o]) /\ Range(Tail(box[o])) \subseteq Range(box[o])
              /\ First(o) = Head(box[o]) /\ IsSequence(box[o])
  OBVIOUS
<1>1. /\ o \in Table /\ IsSequence(calls) /\ box[o] # <<>> /\ todo[o] = <<>>
      /\ box' = [box EXCEPT ![o] = Tail(box[o])] /\ todo' = [todo EXCEPT ![o] = calls]
  BY DEF Serves, Does
<1>2. Lines(box, todo, Table) /\ IsFiniteSet(Table)
  BY TableIs DEF TableOK
<1>3. DOMAIN box = Table /\ DOMAIN todo = Table /\ IsSequence(box[o])
  BY <1>1, <1>2 DEF Lines
<1>4. TakesUp(box, todo, box', todo', Table, o, calls)
  BY <1>1 DEF TakesUp
<1>5. /\ Lines(box', todo', Table)
      /\ \A S : /\ Flying(box', todo', S) + (IF To(o, Head(box[o])) \in S THEN 1 ELSE 0)
                     = Flying(box, todo, S) + Occurs(calls, S)
                /\ Flying(box, todo, S) \in Nat /\ Flying(box', todo', S) \in Nat
                /\ Occurs(calls, S) \in Nat
  BY <1>2, <1>4, DoesFlies
<1>6. First(o) = Head(box[o])
  BY DEF First
<1>7. First(o) \in Range(box[o]) /\ Range(Tail(box[o])) \subseteq Range(box[o])
  BY <1>1, <1>3, <1>6, SequenceTail
<1>8. /\ box'[o] = Tail(box[o]) /\ todo'[o] = calls
      /\ \A t \in Table : t # o => box'[t] = box[t] /\ todo'[t] = todo[t]
  BY <1>1, <1>3
<1> QED BY <1>3, <1>5, <1>6, <1>7, <1>8

\* Who puts a fork down asks for it afterwards, whatever else is done.
LEMMA ReturnsStay ==
    ASSUME N \in Nat \ {0, 1}, TableOK, NEW o, NEW calls, Serves(o, calls),
           NEW f \in Forks, NEW p \in Users(f), Returns(p, f), local'[f].waiting # p,
           f = o => First(o) # Plain("putdown")
    PROVE  Returns(p, f)'
<1>1. /\ box'[o] = Tail(box[o]) /\ todo'[o] = calls
      /\ \A t \in Table : t # o => box'[t] = box[t] /\ todo'[t] = todo[t]
      /\ Range(Tail(box[o])) \subseteq Range(box[o]) /\ First(o) = Head(box[o])
      /\ IsSequence(box[o])
  BY TableDoes
<1>2. p \in Philosophers /\ p \in Table /\ f \in Table
  BY SidesAre DEF Users, Table
<1>3. todo[o] = <<>>
  BY DEF Serves
<1>4. ASSUME Ahead(todo[p], PutsDown(f), AsksFor(p, f)), Pickup(p) \notin Range(box[f])
      PROVE  Ahead(todo'[p], PutsDown(f), AsksFor(p, f)) /\ Pickup(p) \notin Range(box'[f])
  <2>1. p # o
    <3>1. Len(<<>>) = 0 /\ 1 .. 0 = {}
      BY SequenceFew
    <3>2. todo[p] # <<>>
      BY <1>4, <3>1 DEF Ahead
    <3> QED BY <3>2, <1>3
  <2> QED BY <2>1, <1>1, <1>2, <1>4
<1>5. ASSUME Ahead(box[f], Plain("putdown"), Pickup(p))
      PROVE  Ahead(box'[f], Plain("putdown"), Pickup(p))
  <2>1. CASE f = o
    <3>1. Head(box[f]) # Plain("putdown")
      BY <1>1, <2>1
    <3> QED BY <3>1, <1>1, <1>5, <2>1, AheadTail
  <2>2. CASE f # o
    BY <2>2, <1>1, <1>2, <1>5
  <2> QED BY <2>1, <2>2
<1>6. \/ Ahead(todo[p], PutsDown(f), AsksFor(p, f)) /\ Pickup(p) \notin Range(box[f])
      \/ Ahead(box[f], Plain("putdown"), Pickup(p))
  BY DEF Returns
<1>7. Returns(p, f)' <=>
         /\ local'[f].waiting # p
         /\ \/ Ahead(todo'[p], PutsDown(f), AsksFor(p, f)) /\ Pickup(p) \notin Range(box'[f])
            \/ Ahead(box'[f], Plain("putdown"), Pickup(p))
  BY DEF Returns, Ahead, PutsDown, AsksFor, Pickup, To, Plain
<1> QED BY <1>4, <1>5, <1>6, <1>7

\* What can be on its way, by who sends it.
LEMMA TableMail ==
    ASSUME N \in Nat \ {0, 1}, TableOK
    PROVE  /\ \A p \in Philosophers : \A c \in Range(todo[p]) :
                 \E f \in Sides(p) : c = AsksFor(p, f) \/ c = PutsDown(f)
           /\ \A f \in Forks : \A c \in Range(todo[f]) : \E p \in Users(f) : c = Gives(p, f)
           /\ \A p \in Philosophers : \A m \in Range(box[p]) :
                 m = Plain("start") \/ \E f \in Sides(p) : m = Pickup(f)
           /\ \A f \in Forks : \A m \in Range(box[f]) :
                 m = Plain("putdown") \/ \E p \in Users(f) : m = Pickup(p)
           /\ \A p \in Philosophers : Sides(p) \subseteq Forks
           /\ \A f \in Forks : Users(f) \subseteq Philosophers
<1>1. /\ \A p \in Philosophers : Sides(p) \subseteq Forks
      /\ \A f \in Forks : Users(f) \subseteq Philosophers
  BY SidesAre DEF Sides, Users
<1>2. ASSUME NEW p \in Philosophers
      PROVE  /\ \A c \in Range(todo[p]) : \E f \in Sides(p) : c = AsksFor(p, f) \/ c = PutsDown(f)
             /\ \A m \in Range(box[p]) : m = Plain("start") \/ \E f \in Sides(p) : m = Pickup(f)
  <2>1. /\ Range(todo[p]) \subseteq UNION {{AsksFor(p, f), PutsDown(f)} : f \in Sides(p)}
        /\ Range(box[p]) \subseteq {Plain("start")} \cup {Pickup(f) : f \in Sides(p)}
    BY DEF TableOK
  <2> QED BY <2>1
<1>3. ASSUME NEW f \in Forks
      PROVE  /\ \A c \in Range(todo[f]) : \E p \in Users(f) : c = Gives(p, f)
             /\ \A m \in Range(box[f]) : m = Plain("putdown") \/ \E p \in Users(f) : m = Pickup(p)
  <2>1. /\ Range(todo[f]) \subseteq {Gives(p, f) : p \in Users(f)}
        /\ Range(box[f]) \subseteq {Plain("putdown")} \cup {Pickup(p) : p \in Users(f)}
    BY DEF TableOK
  <2> QED BY <2>1
<1> QED BY <1>1, <1>2, <1>3

LEMMA TableCalls ==
    ASSUME N \in Nat \ {0, 1}, TableInv, NEW o \in Table, Call(o)
    PROVE  TableInv'
<1> DEFINE c == Head(todo[o])
           t == c.to
           m == c.msg
<1>1. TableOK /\ Lines(box, todo, Table) /\ IsFiniteSet(Table)
  BY TableIs DEF TableInv, TableOK
<1>2. /\ todo[o] # <<>> /\ t \in DOMAIN box
      /\ box' = [box EXCEPT ![t] = Append(box[t], m)]
      /\ todo' = [todo EXCEPT ![o] = <<>> \o Tail(todo[o])] /\ local' = local
  BY DEF Call, Calling, Continue
<1>3. /\ DOMAIN box = Table /\ DOMAIN todo = Table
      /\ \A x \in Table : IsSequence(box[x]) /\ IsSequence(todo[x])
  BY <1>1 DEF Lines
<1>4. <<>> \o Tail(todo[o]) = Tail(todo[o]) /\ c \in Range(todo[o])
      /\ Range(Tail(todo[o])) \subseteq Range(todo[o])
  BY <1>2, <1>3, SequenceTail, SequenceFew
<1>5. MakesCall(box, todo, box', todo', Table, o, t)
  BY <1>2, <1>3, <1>4 DEF MakesCall
<1>6. \/ o \in Philosophers /\ \E f \in Sides(o) : c = AsksFor(o, f) \/ c = PutsDown(f)
      \/ o \in Forks /\ \E p \in Users(o) : c = Gives(p, o)
  <2> HIDE DEF c
  <2> QED BY <1>1, <1>4, TableMail DEF Table
<1>7. c = To(t, m)
  <2>1. \E x, n : c = To(x, n)
    BY <1>6 DEF AsksFor, PutsDown, Gives
  <2> QED BY <2>1, EnvelopesDiffer
<1>8. /\ Lines(box', todo', Table)
      /\ \A S : Flying(box', todo', S) = Flying(box, todo, S)
  <2>1. \A S : c \in S <=> To(t, m) \in S
    BY <1>7
  <2> QED BY <2>1, <1>1, <1>5, CallFlies
<1>9. /\ box'[t] = Append(box[t], m) /\ todo'[o] = Tail(todo[o]) /\ t \in Table
      /\ \A x \in Table : x # t => box'[x] = box[x]
      /\ \A x \in Table : x # o => todo'[x] = todo[x]
  BY <1>2, <1>3, <1>4
<1>10. Range(box'[t]) = Range(box[t]) \cup {m}
  BY <1>3, <1>9, SequenceAppend
<1> HIDE DEF c
<1>11. /\ t \in Philosophers => \E f \in Sides(t) : m = Pickup(f)
       /\ t \in Forks => m = Plain("putdown") \/ \E p \in Users(t) : m = Pickup(p)
  <2>1. ASSUME o \in Philosophers, NEW f \in Sides(o), c = AsksFor(o, f) \/ c = PutsDown(f)
        PROVE  t = f /\ f \in Forks /\ o \in Users(f) /\ m \in {Plain("putdown"), Pickup(o)}
    <3>1. f \in Forks /\ o \in Users(f)
      BY <2>1, SidesAre DEF Sides
    <3> QED BY <2>1, <3>1, EnvelopesDiffer DEF AsksFor, PutsDown
  <2>2. ASSUME o \in Forks, NEW p \in Users(o), c = Gives(p, o)
        PROVE  t = p /\ p \in Philosophers /\ o \in Sides(p) /\ m = Pickup(o)
    <3>1. p \in Philosophers /\ o \in Sides(p)
      BY <2>2, SidesAre DEF Users
    <3> QED BY <2>2, <3>1, EnvelopesDiffer DEF Gives
  <2> QED BY <2>1, <2>2, <1>6, TableIs
<1>12. TableOK'
  <2>1. ASSUME NEW p \in Philosophers
        PROVE  /\ Range(box'[p]) \subseteq {Plain("start")} \cup {Pickup(f) : f \in Sides(p)}
               /\ Range(todo'[p]) \subseteq UNION {{AsksFor(p, f), PutsDown(f)} : f \in Sides(p)}
    <3>1. /\ Range(box[p]) \subseteq {Plain("start")} \cup {Pickup(f) : f \in Sides(p)}
          /\ Range(todo[p]) \subseteq UNION {{AsksFor(p, f), PutsDown(f)} : f \in Sides(p)}
          /\ p \in Table
      BY <1>1 DEF TableOK, Table
    <3>2. Range(todo'[p]) \subseteq Range(todo[p])
      BY <3>1, <1>4, <1>9
    <3>3. Range(box'[p]) \subseteq {Plain("start")} \cup {Pickup(f) : f \in Sides(p)}
      <4>1. CASE p # t
        BY <3>1, <1>9, <4>1
      <4>2. CASE p = t
        <5>1. m \in {Pickup(f) : f \in Sides(p)}
          BY <4>2, <1>11
        <5> QED BY <3>1, <1>10, <4>2, <5>1
      <4> QED BY <4>1, <4>2
    <3> QED BY <3>1, <3>2, <3>3
  <2>2. ASSUME NEW f \in Forks
        PROVE  /\ Range(box'[f]) \subseteq {Plain("putdown")} \cup {Pickup(p) : p \in Users(f)}
               /\ Range(todo'[f]) \subseteq {Gives(p, f) : p \in Users(f)}
    <3>1. /\ Range(box[f]) \subseteq {Plain("putdown")} \cup {Pickup(p) : p \in Users(f)}
          /\ Range(todo[f]) \subseteq {Gives(p, f) : p \in Users(f)}
          /\ f \in Table
      BY <1>1 DEF TableOK, Table
    <3>2. Range(todo'[f]) \subseteq Range(todo[f])
      BY <3>1, <1>4, <1>9
    <3>3. Range(box'[f]) \subseteq {Plain("putdown")} \cup {Pickup(p) : p \in Users(f)}
      <4>1. CASE f # t
        BY <3>1, <1>9, <4>1
      <4>2. CASE f = t
        <5>1. m \in {Plain("putdown")} \cup {Pickup(p) : p \in Users(f)}
          BY <4>2, <1>11
        <5> QED BY <3>1, <1>10, <4>2, <5>1
      <4> QED BY <4>1, <4>2
    <3> QED BY <3>1, <3>2, <3>3
  <2> QED BY <2>1, <2>2, <1>1, <1>2, <1>8 DEF TableOK
<1>13. \A e : Count(e)' = Count(e)
  BY <1>8 DEF Count
<1>14. \A p, f : Wants(p, f)' = Wants(p, f)
  BY <1>2, <1>13 DEF Wants, IsWaiting, Begins, AsksFor
<1>15. \A p \in Philosophers : Served(p)'
  BY <1>2, <1>13, <1>14 DEF Served, TableInv, Gives
<1>16. \A f \in Forks : Placed(f)'
  BY <1>2, <1>13, <1>14 DEF Placed, TableInv, Lies, PutsDown
<1>17. AllThere'
  BY <1>2, <1>8 DEF AllThere, TableInv, OnTable, Waiters
<1>18. ASSUME NEW f \in Forks, NEW p \in Users(f), Returns(p, f)
       PROVE  Returns(p, f)'
  <2>0. p \in Philosophers /\ p \in Table /\ f \in Table /\ f # p
    <3>1. p \in Philosophers
      BY SidesAre DEF Users
    <3> QED BY <3>1, TableIs DEF Table
  <2>1. Returns(p, f)' <=>
         /\ local'[f].waiting # p
         /\ \/ Ahead(todo'[p], PutsDown(f), AsksFor(p, f)) /\ Pickup(p) \notin Range(box'[f])
            \/ Ahead(box'[f], Plain("putdown"), Pickup(p))
    BY DEF Returns, Ahead, PutsDown, AsksFor, Pickup, To, Plain
  <2>2. local'[f].waiting # p
    BY <1>2, <1>18 DEF Returns
  <2>3. c = AsksFor(p, f) <=> t = f /\ m = Pickup(p)
    BY <1>7, EnvelopesDiffer DEF AsksFor
  <2>4. c = AsksFor(p, f) => o = p
    BY <1>6, <2>0, EnvelopesDiffer, TableMail, <1>1 DEF AsksFor, PutsDown, Gives
  <2>5. CASE Ahead(box[f], Plain("putdown"), Pickup(p))
    <3>1. Ahead(Append(box[f], m), Plain("putdown"), Pickup(p))
      BY <2>0, <2>5, <1>3, AheadAppend
    <3>2. box'[f] = box[f] \/ box'[f] = Append(box[f], m)
      BY <2>0, <1>9
    <3> QED BY <3>1, <3>2, <2>1, <2>2, <2>5
  <2>6. ASSUME Ahead(todo[p], PutsDown(f), AsksFor(p, f)), Pickup(p) \notin Range(box[f])
        PROVE  Returns(p, f)'
    <3>1. CASE o # p
      <4>1. Pickup(p) \notin Range(box'[f])
        BY <2>3, <2>4, <2>6, <3>1, <2>0, <1>9, <1>10
      <4> QED BY <4>1, <2>0, <2>1, <2>2, <2>6, <3>1, <1>9
    <3>2. CASE o = p /\ c = PutsDown(f)
      <4>1. t = f /\ m = Plain("putdown")
        BY <3>2, EnvelopesDiffer DEF PutsDown
      <4>2. Ahead(box'[f], Plain("putdown"), Pickup(p))
        BY <4>1, <2>0, <2>6, <1>3, <1>9, EnvelopesDiffer, AheadAppend
      <4> QED BY <4>2, <2>1, <2>2
    <3>3. CASE o = p /\ c # PutsDown(f)
      <4>1. c # AsksFor(p, f) /\ Ahead(Tail(todo[p]), PutsDown(f), AsksFor(p, f))
        BY <3>3, <2>0, <2>6, <1>3, AheadTail DEF c
      <4>2. Pickup(p) \notin Range(box'[f])
        BY <4>1, <2>0, <2>3, <2>6, <1>9, <1>10
      <4> QED BY <4>1, <4>2, <3>3, <2>1, <2>2, <1>9
    <3> QED BY <3>1, <3>2, <3>3
  <2> QED BY <1>18, <2>5, <2>6 DEF Returns
<1>19. \A f \in Forks : InTurn(f)'
  <2> SUFFICES ASSUME NEW f \in Forks, (Count(PutsDown(f)) > 0)' PROVE \E p \in Users(f) : Returns(p, f)'
    BY DEF InTurn, Users, Owner, Neighbour
  <2>1. Count(PutsDown(f)) > 0
    BY <1>13 DEF PutsDown
  <2>2. PICK p \in Users(f) : Returns(p, f)
    BY <2>1 DEF TableInv, InTurn
  <2> QED BY <2>2, <1>18
<1> QED BY <1>12, <1>15, <1>16, <1>17, <1>19 DEF TableInv

LEMMA EnvelopesApart ==
    ASSUME N \in Nat \ {0, 1}
    PROVE  /\ \A p, q \in Philosophers : \A f, g \in Forks :
                /\ AsksFor(p, f) = AsksFor(q, g) <=> p = q /\ f = g
                /\ Gives(p, f) = Gives(q, g) <=> p = q /\ f = g
                /\ AsksFor(p, f) # Gives(q, g)
           /\ \A p, q \in Philosophers : Begins(p) = Begins(q) <=> p = q
           /\ \A f, g \in Forks : PutsDown(f) = PutsDown(g) <=> f = g
           /\ \A p, q \in Philosophers : \A f, g \in Forks :
                /\ Begins(q) # AsksFor(p, f) /\ Begins(q) # Gives(p, f)
                /\ Begins(q) # PutsDown(f)
                /\ PutsDown(g) # AsksFor(p, f) /\ PutsDown(g) # Gives(p, f)
<1>1. ASSUME NEW p \in Philosophers, NEW q \in Philosophers, NEW f \in Forks, NEW g \in Forks
      PROVE  /\ AsksFor(p, f) = AsksFor(q, g) <=> p = q /\ f = g
             /\ Gives(p, f) = Gives(q, g) <=> p = q /\ f = g
             /\ AsksFor(p, f) # Gives(q, g)
             /\ Begins(q) # AsksFor(p, f) /\ Begins(q) # Gives(p, f)
             /\ Begins(q) # PutsDown(f)
             /\ PutsDown(g) # AsksFor(p, f) /\ PutsDown(g) # Gives(p, f)
  <2>1. p # g /\ p # f
    BY TableIs
  <2> QED BY <2>1, EnvelopesDiffer DEF AsksFor, Gives, Begins, PutsDown
<1>2. \A p, q : Begins(p) = Begins(q) <=> p = q
  BY EnvelopesDiffer DEF Begins
<1>3. \A f, g : PutsDown(f) = PutsDown(g) <=> f = g
  BY EnvelopesDiffer DEF PutsDown
<1> QED BY <1>1, <1>2, <1>3

LEMMA MovingIs ==
    ASSUME N \in Nat \ {0, 1}
    PROVE  \A p \in Philosophers : \A f \in Forks :
              /\ Gives(p, f) \in Moving /\ PutsDown(f) \in Moving
              /\ AsksFor(p, f) \notin Moving /\ Begins(p) \notin Moving
<1> SUFFICES ASSUME NEW p \in Philosophers, NEW f \in Forks
             PROVE  /\ Gives(p, f) \in Moving /\ PutsDown(f) \in Moving
                    /\ AsksFor(p, f) \notin Moving /\ Begins(p) \notin Moving
  OBVIOUS
<1>1. p \in Table /\ p \notin Forks
  BY TableIs DEF Table
<1>2. Gives(p, f) \in Moving /\ PutsDown(f) \in Moving
  BY <1>1 DEF Gives, Moving
<1>3. \A e \in Moving : \E o, m : e = To(o, m) /\ (m = Plain("putdown") \/ \E g \in Forks : m = Pickup(g))
  BY DEF Moving, PutsDown
<1>4. \A o, m : To(o, m) \in Moving => m = Plain("putdown") \/ \E g \in Forks : m = Pickup(g)
  BY <1>3, EnvelopesDiffer
<1>5. AsksFor(p, f) \notin Moving
  BY <1>1, <1>4, EnvelopesDiffer DEF AsksFor
<1>6. Begins(p) \notin Moving
  BY <1>4, EnvelopesDiffer DEF Begins
<1> QED BY <1>2, <1>5, <1>6

LEMMA AskForForksIs ==
    ASSUME N \in Nat \ {0, 1}, NEW p \in Philosophers
    PROVE  /\ IsSequence(AskForForks(p)) /\ Len(AskForForks(p)) = 2
           /\ Range(AskForForks(p)) = {AsksFor(p, Left(p)), AsksFor(p, Right(p))}
           /\ \A q \in Philosophers, f \in Forks :
                /\ Occurs(AskForForks(p), {AsksFor(q, f)}) = Same(p, q) * In(f, Sides(p))
                /\ Occurs(AskForForks(p), {Begins(q)}) = 0
                /\ Occurs(AskForForks(p), {Gives(q, f)}) = 0
                /\ Occurs(AskForForks(p), {PutsDown(f)}) = 0
           /\ Occurs(AskForForks(p), Moving) = 0
<1>0. Left(p) \in Forks /\ Right(p) \in Forks /\ Left(p) # Right(p)
  BY SidesAre
<1> DEFINE a == AsksFor(p, Left(p))
           c == AsksFor(p, Right(p))
<1>1. AskForForks(p) = <<a, c>>
  BY DEF AskForForks, AsksFor
<1> HIDE DEF a, c
<1>2. /\ IsSequence(AskForForks(p)) /\ Len(AskForForks(p)) = 2
      /\ Range(AskForForks(p)) = {a, c}
  BY <1>1, SequenceFew
<1>3. \A S : Occurs(AskForForks(p), S) = (IF a \in S THEN 1 ELSE 0) + (IF c \in S THEN 1 ELSE 0)
  BY <1>1, OccursTwo
<1>4. ASSUME NEW q \in Philosophers, NEW f \in Forks
      PROVE  /\ a # Begins(q) /\ c # Begins(q) /\ a # Gives(q, f) /\ c # Gives(q, f)
             /\ a # PutsDown(f) /\ c # PutsDown(f)
             /\ a = AsksFor(q, f) <=> p = q /\ Left(p) = f
             /\ c = AsksFor(q, f) <=> p = q /\ Right(p) = f
  BY <1>0, EnvelopesApart DEF a, c
<1>5. ASSUME NEW q \in Philosophers, NEW f \in Forks
      PROVE  /\ Occurs(AskForForks(p), {Begins(q)}) = 0
             /\ Occurs(AskForForks(p), {Gives(q, f)}) = 0
             /\ Occurs(AskForForks(p), {PutsDown(f)}) = 0
  BY <1>3, <1>4, <1>5
<1>6. ASSUME NEW q \in Philosophers, NEW f \in Forks
      PROVE  Occurs(AskForForks(p), {AsksFor(q, f)}) = Same(p, q) * In(f, Sides(p))
  <2>1. Occurs(AskForForks(p), {AsksFor(q, f)})
           = (IF p = q /\ Left(p) = f THEN 1 ELSE 0) + (IF p = q /\ Right(p) = f THEN 1 ELSE 0)
    BY <1>3, <1>4, <1>6
  <2>2. In(f, Sides(p)) = IF Left(p) = f \/ Right(p) = f THEN 1 ELSE 0
    BY DEF In, Sides
  <2> QED BY <2>1, <2>2, <1>0 DEF Same
<1>7. Occurs(AskForForks(p), Moving) = 0
  BY <1>0, <1>3, MovingIs DEF a, c
<1> QED BY <1>2, <1>5, <1>6, <1>7 DEF a, c

\* The types, when a philosopher or a fork has taken a message.
LEMMA PhilosopherTypes ==
    ASSUME N \in Nat \ {0, 1}, TableOK, NEW p \in Philosophers, NEW calls, Serves(p, calls),
           DOMAIN local' = Table, local'[p] \in [m_forks : {0, 1}],
           \A t \in Table : t # p => local'[t] = local[t],
           \A c \in Range(calls) : \E f \in Sides(p) : c = AsksFor(p, f) \/ c = PutsDown(f)
    PROVE  TableOK'
<1>1. /\ Lines(box', todo', Table) /\ box'[p] = Tail(box[p]) /\ todo'[p] = calls
      /\ \A t \in Table : t # p => box'[t] = box[t] /\ todo'[t] = todo[t]
      /\ Range(Tail(box[p])) \subseteq Range(box[p])
  BY TableDoes
<1>2. /\ \A q \in Philosophers : q \in Table
      /\ \A f \in Forks : f \in Table /\ f # p
  BY TableIs DEF Table
<1>3. ASSUME NEW q \in Philosophers
      PROVE  /\ local'[q] \in [m_forks : {0, 1}]
             /\ Range(box'[q]) \subseteq {Plain("start")} \cup {Pickup(f) : f \in Sides(q)}
             /\ Range(todo'[q]) \subseteq UNION {{AsksFor(q, f), PutsDown(f)} : f \in Sides(q)}
  <2>1. /\ local[q] \in [m_forks : {0, 1}]
        /\ Range(box[q]) \subseteq {Plain("start")} \cup {Pickup(f) : f \in Sides(q)}
        /\ Range(todo[q]) \subseteq UNION {{AsksFor(q, f), PutsDown(f)} : f \in Sides(q)}
    BY DEF TableOK
  <2>2. CASE q = p
    <3>1. Range(calls) \subseteq UNION {{AsksFor(p, f), PutsDown(f)} : f \in Sides(p)}
      OBVIOUS
    <3> QED BY <3>1, <2>1, <2>2, <1>1
  <2>3. CASE q # p
    BY <2>1, <2>3, <1>1, <1>2
  <2> QED BY <2>2, <2>3
<1>4. ASSUME NEW f \in Forks
      PROVE  /\ local'[f] \in [available : BOOLEAN, waiting : Users(f) \cup {Nobody}]
             /\ Range(box'[f]) \subseteq {Plain("putdown")} \cup {Pickup(q) : q \in Users(f)}
             /\ Range(todo'[f]) \subseteq {Gives(q, f) : q \in Users(f)}
  <2>1. local'[f] = local[f] /\ box'[f] = box[f] /\ todo'[f] = todo[f]
    BY <1>1, <1>2
  <2> QED BY <2>1 DEF TableOK
<1> QED BY <1>1, <1>3, <1>4 DEF TableOK

LEMMA ForkTypes ==
    ASSUME N \in Nat \ {0, 1}, TableOK, NEW f \in Forks, NEW calls, Serves(f, calls),
           DOMAIN local' = Table,
           local'[f] \in [available : BOOLEAN, waiting : Users(f) \cup {Nobody}],
           \A t \in Table : t # f => local'[t] = local[t],
           \A c \in Range(calls) : \E p \in Users(f) : c = Gives(p, f)
    PROVE  TableOK'
<1>1. /\ Lines(box', todo', Table) /\ box'[f] = Tail(box[f]) /\ todo'[f] = calls
      /\ \A t \in Table : t # f => box'[t] = box[t] /\ todo'[t] = todo[t]
      /\ Range(Tail(box[f])) \subseteq Range(box[f])
  BY TableDoes
<1>2. /\ \A q \in Philosophers : q \in Table /\ q # f
      /\ \A g \in Forks : g \in Table
  BY TableIs DEF Table
<1>3. ASSUME NEW g \in Forks
      PROVE  /\ local'[g] \in [available : BOOLEAN, waiting : Users(g) \cup {Nobody}]
             /\ Range(box'[g]) \subseteq {Plain("putdown")} \cup {Pickup(q) : q \in Users(g)}
             /\ Range(todo'[g]) \subseteq {Gives(q, g) : q \in Users(g)}
  <2>1. /\ local[g] \in [available : BOOLEAN, waiting : Users(g) \cup {Nobody}]
        /\ Range(box[g]) \subseteq {Plain("putdown")} \cup {Pickup(q) : q \in Users(g)}
        /\ Range(todo[g]) \subseteq {Gives(q, g) : q \in Users(g)}
    BY DEF TableOK
  <2>2. CASE g = f
    <3>1. Range(calls) \subseteq {Gives(p, f) : p \in Users(f)}
      OBVIOUS
    <3> QED BY <3>1, <2>1, <2>2, <1>1
  <2>3. CASE g # f
    BY <2>1, <2>3, <1>1, <1>2
  <2> QED BY <2>2, <2>3
<1>4. ASSUME NEW q \in Philosophers
      PROVE  /\ local'[q] \in [m_forks : {0, 1}]
             /\ Range(box'[q]) \subseteq {Plain("start")} \cup {Pickup(g) : g \in Sides(q)}
             /\ Range(todo'[q]) \subseteq UNION {{AsksFor(q, g), PutsDown(g)} : g \in Sides(q)}
  <2>1. local'[q] = local[q] /\ box'[q] = box[q] /\ todo'[q] = todo[q]
    BY <1>1, <1>2
  <2> QED BY <2>1 DEF TableOK
<1> QED BY <1>1, <1>3, <1>4 DEF TableOK

\* How the counts of messages change when o has taken one.
LEMMA TableCounts ==
    ASSUME N \in Nat \ {0, 1}, TableOK
    PROVE  \A o, calls : Serves(o, calls) =>
              \A e : /\ Count(e)' = Count(e) + Occurs(calls, {e}) - Same(To(o, First(o)), e)
                     /\ Count(e)' \in Nat /\ Count(e) \in Nat /\ Occurs(calls, {e}) \in Nat
<1> SUFFICES
    ASSUME NEW o, NEW calls, Serves(o, calls), NEW e
    PROVE  /\ Count(e)' = Count(e) + Occurs(calls, {e}) - Same(To(o, First(o)), e)
           /\ Count(e)' \in Nat /\ Count(e) \in Nat /\ Occurs(calls, {e}) \in Nat
  BY DEF Count
<1> DEFINE x == To(o, First(o))
           S == {e}
<1>1. /\ Flying(box', todo', S) + (IF x \in S THEN 1 ELSE 0) = Flying(box, todo, S) + Occurs(calls, S)
      /\ Flying(box', todo', S) \in Nat /\ Flying(box, todo, S) \in Nat /\ Occurs(calls, S) \in Nat
  BY TableDoes
<1>2. Count(e)' = Flying(box', todo', S) /\ Count(e) = Flying(box, todo, S)
  BY DEF Count
<1>3. (IF x \in S THEN 1 ELSE 0) = Same(x, e)
  BY DEF Same
<1>4. Same(x, e) \in {0, 1}
  BY DEF Same
<1> HIDE DEF x, S
<1>5. Flying(box', todo', S) + Same(x, e) = Flying(box, todo, S) + Occurs(calls, S)
  BY <1>1, <1>3
<1>6. Count(e)' = Count(e) + Occurs(calls, S) - Same(x, e)
  BY <1>1, <1>2, <1>4, <1>5
<1> QED BY <1>1, <1>2, <1>6 DEF x, S

\* What a philosopher wants, as its messages and the fork's member say.
LEMMA WantsIs ==
    ASSUME N \in Nat \ {0, 1}, TableOK
    PROVE  \A p \in Philosophers, f \in Forks :
              /\ Wants(p, f) = Count(Begins(p)) + Count(AsksFor(p, f)) + IsWaiting(p, f)
              /\ Wants(p, f)' = Count(Begins(p))' + Count(AsksFor(p, f))' + IsWaiting(p, f)'
              /\ Count(Begins(p)) \in Nat /\ Count(AsksFor(p, f)) \in Nat
              /\ Count(Gives(p, f)) \in Nat /\ Count(PutsDown(f)) \in Nat
              /\ IsWaiting(p, f) \in {0, 1} /\ IsWaiting(p, f)' \in {0, 1}
              /\ Lies(f) \in {0, 1} /\ Lies(f)' \in {0, 1}
              /\ Wants(p, f) \in Nat
<1>1. \A e : Count(e) \in Nat
  BY TableIs, FlightFinite DEF TableOK, Count
<1>2. \A p, f : /\ IsWaiting(p, f) \in {0, 1} /\ IsWaiting(p, f)' \in {0, 1}
                /\ Lies(f) \in {0, 1} /\ Lies(f)' \in {0, 1}
  BY DEF IsWaiting, Lies
<1> QED BY <1>1, <1>2 DEF Wants, Begins, AsksFor

\* Forks stay where they are when nothing but the philosophers' messages changes.
LEMMA SitDownKeeps ==
    ASSUME N \in Nat \ {0, 1}, TableInv, NEW p \in Philosophers, SitDown(p)
    PROVE  TableInv'
<1> DEFINE calls == AskForForks(p)
<1>1. /\ TableOK /\ box[p] # <<>> /\ First(p).is = "start" /\ todo[p] = <<>>
      /\ Does(p, calls) /\ local' = local /\ p \in Table
  BY DEF SitDown, Gets, TableInv, Table
<1>2. Serves(p, calls)
  BY <1>1, AskForForksIs DEF Serves
<1>3. First(p) = Plain("start")
  <2>1. First(p) \in Range(box[p])
    BY <1>1, <1>2, TableDoes
  <2> QED BY <2>1, <1>1, TableMail, EnvelopesDiffer
<1> HIDE DEF calls
<1>4. ASSUME NEW q \in Philosophers, NEW f \in Forks
      PROVE  /\ Count(Begins(q))' = Count(Begins(q)) - Same(p, q)
             /\ Count(AsksFor(q, f))' = Count(AsksFor(q, f)) + Same(p, q) * In(f, Sides(p))
             /\ Count(Gives(q, f))' = Count(Gives(q, f))
             /\ Count(PutsDown(f))' = Count(PutsDown(f))
  <2>1. \A e : /\ Count(e)' = Count(e) + Occurs(calls, {e}) - Same(Begins(p), e)
               /\ Count(e)' \in Nat /\ Count(e) \in Nat
    BY <1>1, <1>2, <1>3, TableCounts DEF Begins
  <2>2. /\ Same(Begins(p), Begins(q)) = Same(p, q) /\ Same(Begins(p), AsksFor(q, f)) = 0
        /\ Same(Begins(p), Gives(q, f)) = 0 /\ Same(Begins(p), PutsDown(f)) = 0
    BY EnvelopesApart DEF Same
  <2>3. /\ Occurs(calls, {AsksFor(q, f)}) = Same(p, q) * In(f, Sides(p))
        /\ Occurs(calls, {Begins(q)}) = 0 /\ Occurs(calls, {Gives(q, f)}) = 0
        /\ Occurs(calls, {PutsDown(f)}) = 0
    BY AskForForksIs DEF calls
  <2>4. Same(p, q) \in {0, 1} /\ In(f, Sides(p)) \in {0, 1}
    BY DEF Same, In
  <2>5. /\ Count(Begins(q))' = Count(Begins(q)) + 0 - Same(p, q)
        /\ Count(AsksFor(q, f))' = Count(AsksFor(q, f)) + Same(p, q) * In(f, Sides(p)) - 0
        /\ Count(Gives(q, f))' = Count(Gives(q, f)) + 0 - 0
        /\ Count(PutsDown(f))' = Count(PutsDown(f)) + 0 - 0
    BY <2>1, <2>2, <2>3 DEF Begins, AsksFor, Gives, PutsDown
  <2>6. /\ Count(Begins(q)) \in Nat /\ Count(AsksFor(q, f)) \in Nat
        /\ Count(Gives(q, f)) \in Nat /\ Count(PutsDown(f)) \in Nat
    BY <2>1
  <2>7. Same(p, q) * In(f, Sides(p)) \in {0, 1}
    BY <2>4
  <2> DEFINE k == Same(p, q) * In(f, Sides(p))
             l == Same(p, q)
  <2>8. k \in {0, 1} /\ l \in {0, 1} /\ Count(AsksFor(q, f))' = Count(AsksFor(q, f)) + k - 0
        /\ Count(Begins(q))' = Count(Begins(q)) + 0 - l
    BY <2>4, <2>5, <2>7
  <2> HIDE DEF k, l
  <2>9. /\ Count(AsksFor(q, f))' = Count(AsksFor(q, f)) + k
        /\ Count(Begins(q))' = Count(Begins(q)) - l
        /\ Count(Gives(q, f))' = Count(Gives(q, f))
        /\ Count(PutsDown(f))' = Count(PutsDown(f))
    BY <2>5, <2>6, <2>8
  <2> QED BY <2>9 DEF k, l
<1>5. ASSUME NEW q \in Philosophers, NEW f \in Sides(q)
      PROVE  Wants(q, f)' = Wants(q, f) /\ Count(Gives(q, f))' = Count(Gives(q, f))
  <2>1. f \in Forks
    BY <1>1, TableMail
  <2>2. IsWaiting(q, f)' = IsWaiting(q, f)
    BY <1>1 DEF IsWaiting
  <2>3. Same(p, q) * In(f, Sides(p)) = Same(p, q)
    BY DEF Same, In
  <2>4. Same(p, q) \in {0, 1}
    BY DEF Same
  <2>5. /\ Count(Begins(q))' = Count(Begins(q)) - Same(p, q)
        /\ Count(AsksFor(q, f))' = Count(AsksFor(q, f)) + Same(p, q)
        /\ Count(Begins(q)) \in Nat /\ Count(AsksFor(q, f)) \in Nat /\ IsWaiting(q, f) \in {0, 1}
    BY <2>1, <2>3, <1>1, <1>4, WantsIs
  <2> QED BY <2>1, <2>2, <2>4, <2>5, <1>1, <1>4, WantsIs
<1>6. TableOK'
  <2>1. \A c \in Range(calls) : \E f \in Sides(p) : c = AsksFor(p, f) \/ c = PutsDown(f)
    BY AskForForksIs DEF calls, Sides
  <2> QED BY <2>1, <1>1, <1>2, PhilosopherTypes DEF TableOK
<1>7. \A q \in Philosophers : Served(q)'
  <2> SUFFICES ASSUME NEW q \in Philosophers PROVE Served(q)'
    OBVIOUS
  <2>1. Served(q) /\ Left(q) \in Sides(q) /\ Right(q) \in Sides(q)
    BY DEF TableInv, Sides
  <2> QED BY <2>1, <1>1, <1>5 DEF Served, Gives, Sides, Left, Right
<1>8. \A f \in Forks : Placed(f)'
  <2> SUFFICES ASSUME NEW f \in Forks PROVE Placed(f)'
    OBVIOUS
  <2>1. /\ Owner(f) \in Philosophers /\ f \in Sides(Owner(f))
        /\ Neighbour(f) \in Philosophers /\ f \in Sides(Neighbour(f))
    BY SidesAre DEF Users
  <2>2. Wants(Owner(f), f)' = Wants(Owner(f), f) /\ Wants(Neighbour(f), f)' = Wants(Neighbour(f), f)
    BY <2>1, <1>5
  <2>3. Count(PutsDown(f))' = Count(PutsDown(f)) /\ Lies(f)' = Lies(f)
    BY <1>1, <1>4 DEF Lies
  <2> QED BY <2>2, <2>3 DEF Placed, TableInv, PutsDown, Owner, Neighbour
<1>9. \A f \in Forks : InTurn(f)'
  <2> SUFFICES ASSUME NEW f \in Forks, (Count(PutsDown(f)) > 0)' PROVE \E q \in Users(f) : Returns(q, f)'
    BY DEF InTurn, Users, Owner, Neighbour
  <2>1. Count(PutsDown(f)) > 0
    BY <1>4 DEF PutsDown
  <2>2. PICK q \in Users(f) : Returns(q, f)
    BY <2>1 DEF TableInv, InTurn
  <2>3. f # p
    BY TableIs
  <2>4. local'[f].waiting # q
    BY <1>1, <2>2 DEF Returns
  <2> QED BY <2>2, <2>3, <2>4, <1>1, <1>2, ReturnsStay
<1>10. AllThere'
  <2>1. /\ Flying(box', todo', Moving) + (IF Begins(p) \in Moving THEN 1 ELSE 0)
             = Flying(box, todo, Moving) + Occurs(calls, Moving)
        /\ Flying(box', todo', Moving) \in Nat /\ Flying(box, todo, Moving) \in Nat
    BY <1>1, <1>2, <1>3, TableDoes DEF Begins
  <2>2. Occurs(calls, Moving) = 0 /\ Begins(p) \notin Moving
    <3>1. Left(p) \in Forks
      BY SidesAre
    <3> QED BY <3>1, AskForForksIs, MovingIs DEF calls
  <2>3. Flying(box', todo', Moving) = Flying(box, todo, Moving)
    BY <2>1, <2>2
  <2>4. OnTable' = OnTable /\ Waiters' = Waiters
    BY <1>1 DEF OnTable, Waiters
  <2> QED BY <2>3, <2>4 DEF AllThere, TableInv
<1> QED BY <1>6, <1>7, <1>8, <1>9, <1>10 DEF TableInv

\* What is not counted is not in a mailbox.
LEMMA NotThere ==
    ASSUME N \in Nat \ {0, 1}, TableOK
    PROVE  \A o \in Table : \A m : Count(To(o, m)) = 0 => m \notin Range(box[o])
<1> SUFFICES ASSUME NEW o \in Table, NEW m, Count(To(o, m)) = 0, m \in Range(box[o]) PROVE FALSE
  OBVIOUS
<1> DEFINE S == {To(o, m)}
<1>1. Lines(box, todo, Table) /\ IsFiniteSet(Table)
  BY TableIs DEF TableOK
<1>2. /\ Cardinality(Elsewhere(box, todo, o, o, S)) \in Nat
      /\ Flying(box, todo, S) = Cardinality(Elsewhere(box, todo, o, o, S))
                             + Occurs(todo[o], S) + Occurs(box[o], For(o, S))
  BY <1>1, FlyingParts
<1>3. IsSequence(box[o]) /\ IsSequence(todo[o])
  BY <1>1 DEF Lines
<1>4. m \in For(o, S)
  BY ForIs
<1>5. Flying(box, todo, S) = 0
  BY DEF Count
<1>6. Occurs(todo[o], S) \in Nat /\ Occurs(box[o], For(o, S)) \in Nat
      /\ (Occurs(box[o], For(o, S)) = 0 <=> Range(box[o]) \cap For(o, S) = {})
  BY <1>3, OccursNat
<1> HIDE DEF S
<1>7. Occurs(box[o], For(o, S)) = 0
  BY <1>2, <1>5, <1>6
<1> QED BY <1>4, <1>6, <1>7

\* What stays when a fork has taken a message of p's: all that concerns other forks,
\* and what p or q may have of this one, whatever becomes of it.
LEMMA ForkSteps ==
    ASSUME N \in Nat \ {0, 1}, TableInv, TableOK', NEW f \in Forks, NEW calls, Serves(f, calls),
           \A t \in Table : t # f => local'[t] = local[t],
           calls = <<>> \/ \E p \in Users(f) : calls = <<Gives(p, f)>>,
           \A p \in Users(f) : Wants(p, f)' + Count(Gives(p, f))' = Wants(p, f) + Count(Gives(p, f)),
           Placed(f)', InTurn(f)',
           Lies(f)' + Occurs(calls, Moving) = Lies(f) + In(To(f, First(f)), Moving)
    PROVE  TableInv'
<1>1. /\ TableOK /\ f \in Table
      /\ \A p \in Philosophers : p \in Table /\ p # f
      /\ \A p \in Philosophers : local'[p] = local[p]
      /\ \A g \in Forks : g # f => local'[g] = local[g] /\ g \in Table
  BY TableIs DEF TableInv, Table
<1>2. \E p \in Users(f) : First(f) = Pickup(p) \/ First(f) = Plain("putdown")
  <2>1. First(f) \in Range(box[f])
    BY <1>1, TableDoes
  <2>2. Owner(f) \in Users(f)
    BY DEF Users
  <2> QED BY <2>1, <2>2, <1>1, TableMail
<1>3. PICK r \in Users(f) : To(f, First(f)) = AsksFor(r, f) \/ To(f, First(f)) = PutsDown(f)
  BY <1>2 DEF AsksFor, PutsDown
<1>4. Users(f) \subseteq Philosophers
  BY <1>1, TableMail
<1> DEFINE x == To(f, First(f))
<1>5. ASSUME NEW p \in Philosophers
      PROVE  /\ Count(Begins(p))' = Count(Begins(p))
             /\ \A g \in Forks : g # f =>
                   /\ Count(AsksFor(p, g))' = Count(AsksFor(p, g))
                   /\ Count(Gives(p, g))' = Count(Gives(p, g))
                   /\ Count(PutsDown(g))' = Count(PutsDown(g))
  <2>1. \A e : /\ Count(e)' = Count(e) + Occurs(calls, {e}) - Same(x, e)
               /\ Count(e) \in Nat
    BY <1>1, TableCounts
  <2>2. \A e : (\A q \in Users(f) : e # Gives(q, f)) => Occurs(calls, {e}) = 0
    BY OccursFew
  <2>3. \A e : x # e => Same(x, e) = 0
    BY DEF Same
  <2>4. \A e : x # e /\ (\A q \in Users(f) : e # Gives(q, f)) => Count(e)' = Count(e)
    <3> SUFFICES ASSUME NEW e, x # e, \A q \in Users(f) : e # Gives(q, f)
                 PROVE  Count(e)' = Count(e)
      BY DEF Count
    <3>1. Occurs(calls, {e}) = 0 /\ Same(x, e) = 0
      BY <2>2, <2>3
    <3>2. Count(e)' = Count(e) + 0 - 0 /\ Count(e) \in Nat
      BY <2>1, <3>1
    <3> QED BY <3>2
  <2>5. x # Begins(p) /\ \A q \in Users(f) : Begins(p) # Gives(q, f)
    BY <1>3, <1>4, EnvelopesApart
  <2>6. ASSUME NEW g \in Forks, g # f
        PROVE  /\ x # AsksFor(p, g) /\ x # Gives(p, g) /\ x # PutsDown(g)
               /\ \A q \in Users(f) : /\ AsksFor(p, g) # Gives(q, f) /\ Gives(p, g) # Gives(q, f)
                                      /\ PutsDown(g) # Gives(q, f)
    BY <2>6, <1>3, <1>4, EnvelopesApart
  <2> HIDE DEF x
  <2>7. Count(Begins(p))' = Count(Begins(p))
    BY <2>4, <2>5 DEF Begins
  <2>8. ASSUME NEW g \in Forks, g # f
        PROVE  /\ Count(AsksFor(p, g))' = Count(AsksFor(p, g))
               /\ Count(Gives(p, g))' = Count(Gives(p, g))
               /\ Count(PutsDown(g))' = Count(PutsDown(g))
    BY <2>4, <2>6, <2>8 DEF AsksFor, Gives, PutsDown
  <2> QED BY <2>7, <2>8
<1>6. ASSUME NEW p \in Philosophers, NEW g \in Forks, g # f
      PROVE  /\ Wants(p, g)' = Wants(p, g) /\ Count(Gives(p, g))' = Count(Gives(p, g))
             /\ Wants(p, g) \in Nat /\ Count(Gives(p, g)) \in Nat
  <2>1. IsWaiting(p, g)' = IsWaiting(p, g)
    BY <1>1, <1>6 DEF IsWaiting
  <2> QED BY <2>1, <1>1, <1>5, <1>6, WantsIs
<1>7. \A p \in Philosophers : Served(p)'
  <2> SUFFICES ASSUME NEW p \in Philosophers PROVE Served(p)'
    OBVIOUS
  <2>1. ASSUME NEW g \in Sides(p)
        PROVE  /\ Wants(p, g)' + Count(Gives(p, g))' = Wants(p, g) + Count(Gives(p, g))
               /\ Wants(p, g) \in Nat /\ Count(Gives(p, g)) \in Nat
               /\ Wants(p, g)' \in Nat /\ Count(Gives(p, g))' \in Nat
    <3>1. g \in Forks /\ p \in Users(g)
      BY SidesAre DEF Sides
    <3>2. /\ Wants(p, g) \in Nat /\ Count(Gives(p, g)) \in Nat
          /\ Wants(p, g)' \in Nat /\ Count(Gives(p, g))' \in Nat
      <4>1. \A e : Count(e)' \in Nat
        BY <1>1, TableCounts
      <4>2. Count(Gives(p, g))' \in Nat /\ Count(Begins(p))' \in Nat /\ Count(AsksFor(p, g))' \in Nat
        BY <4>1 DEF Gives, Begins, AsksFor
      <4> QED BY <3>1, <4>2, <1>1, WantsIs, SMTT(60)
    <3>3. CASE g = f
      BY <3>1, <3>2, <3>3
    <3>4. CASE g # f
      BY <3>1, <3>2, <3>4, <1>6
    <3> QED BY <3>2, <3>3, <3>4
  <2>2. /\ Served(p) /\ Left(p) \in Sides(p) /\ Right(p) \in Sides(p)
        /\ local'[p] = local[p] /\ local[p].m_forks \in {0, 1}
    BY <1>1 DEF TableInv, Sides, TableOK
  <2> DEFINE a == Wants(p, Left(p))
             b == Count(Gives(p, Left(p)))
             c == Wants(p, Right(p))
             d == Count(Gives(p, Right(p)))
             n == local[p].m_forks
             i == Wants(p, Left(p))'
             j == Count(Gives(p, Left(p)))'
             k == Wants(p, Right(p))'
             l == Count(Gives(p, Right(p)))'
  <2>3. n + a + b + c + d = 2
    BY <2>2 DEF Served
  <2>4. /\ a \in Nat /\ b \in Nat /\ c \in Nat /\ d \in Nat /\ i \in Nat /\ j \in Nat
        /\ k \in Nat /\ l \in Nat /\ i + j = a + b /\ k + l = c + d /\ n \in {0, 1}
    BY <2>1, <2>2 DEF Left, Right, Sides
  <2>5. local'[p].m_forks + i + j + k + l = 2
    <3> HIDE DEF a, b, c, d, n, i, j, k, l
    <3>1. n + i + j + k + l = 2
      BY <2>3, <2>4
    <3> QED BY <3>1, <2>2 DEF n
  <2>6. \A g \in Sides(p) : Wants(p, g)' + Count(Gives(p, g))' <= 1
    BY <2>1, <2>2 DEF Served
  <2> QED BY <2>5, <2>6 DEF Served, Sides, Left, Right, Gives
<1>8. \A g \in Forks : Placed(g)'
  <2> SUFFICES ASSUME NEW g \in Forks, g # f PROVE Placed(g)'
    OBVIOUS
  <2>1. Owner(g) \in Philosophers /\ Neighbour(g) \in Philosophers
    BY SidesAre
  <2>2. Wants(Owner(g), g)' = Wants(Owner(g), g) /\ Wants(Neighbour(g), g)' = Wants(Neighbour(g), g)
    BY <2>1, <1>6
  <2>3. Count(PutsDown(g))' = Count(PutsDown(g)) /\ Lies(g)' = Lies(g)
    BY <2>1, <1>1, <1>5 DEF Lies
  <2> QED BY <2>2, <2>3 DEF Placed, TableInv, PutsDown, Owner, Neighbour
<1>9. \A g \in Forks : InTurn(g)'
  <2> SUFFICES ASSUME NEW g \in Forks, g # f, (Count(PutsDown(g)) > 0)'
               PROVE \E q \in Users(g) : Returns(q, g)'
    BY DEF InTurn, Users, Owner, Neighbour
  <2>1. Count(PutsDown(g)) > 0
    BY <1>5, <1>3, <1>4 DEF PutsDown
  <2>2. PICK q \in Users(g) : Returns(q, g)
    BY <2>1 DEF TableInv, InTurn
  <2>3. local'[g].waiting # q
    BY <1>1, <2>2 DEF Returns
  <2> QED BY <2>2, <2>3, <1>1, ReturnsStay
<1>10. AllThere'
  <2>1. /\ Flying(box', todo', Moving) + In(x, Moving) = Flying(box, todo, Moving) + Occurs(calls, Moving)
        /\ Flying(box', todo', Moving) \in Nat /\ Flying(box, todo, Moving) \in Nat
        /\ Occurs(calls, Moving) \in Nat
    BY <1>1, TableDoes DEF In
  <2>2. In(x, Moving) \in {0, 1} /\ Lies(f) \in {0, 1} /\ Lies(f)' \in {0, 1}
    BY DEF In, Lies
  <2>3. /\ Cardinality(OnTable') + In(f, OnTable) = Cardinality(OnTable) + In(f, OnTable')
        /\ Cardinality(OnTable) \in Nat /\ Cardinality(OnTable') \in Nat
    <3>1. IsFiniteSet(OnTable) /\ IsFiniteSet(OnTable')
      BY TableIs, FS_Subset DEF OnTable
    <3>2. OnTable \ {f} = OnTable' \ {f}
      BY <1>1 DEF OnTable
    <3> QED BY <3>1, <3>2, OneApart
  <2>4. In(f, OnTable) = Lies(f) /\ In(f, OnTable') = Lies(f)'
    BY DEF In, OnTable, Lies
  <2>5. Waiters' = Waiters
    BY <1>1 DEF Waiters
  <2>6. Cardinality(Waiters) \in Nat
    BY TableIs, FS_Subset, FS_CardinalityType DEF Waiters
  <2>7. Cardinality(OnTable) + Flying(box, todo, Moving) + Cardinality(Waiters) = N
    BY DEF TableInv, AllThere
  <2>8. Lies(f)' + Occurs(calls, Moving) = Lies(f) + In(x, Moving)
    OBVIOUS
  <2> DEFINE a == Cardinality(OnTable)
             b == Flying(box, todo, Moving)
             c == Cardinality(Waiters)
             d == Lies(f)
             i == Cardinality(OnTable')
             j == Flying(box', todo', Moving)
             k == Lies(f)'
             l == Occurs(calls, Moving)
             m == In(x, Moving)
  <2>9. /\ a \in Nat /\ b \in Nat /\ c \in Nat /\ d \in {0, 1} /\ i \in Nat /\ j \in Nat
        /\ k \in {0, 1} /\ l \in Nat /\ m \in {0, 1}
        /\ a + b + c = N /\ i + d = a + k /\ j + m = b + l /\ k + l = d + m
    BY <2>1, <2>2, <2>3, <2>4, <2>6, <2>7, <2>8
  <2>10. i + j + c = N
    <3> HIDE DEF a, b, c, d, i, j, k, l, m
    <3> QED BY <2>9
  <2> QED BY <2>5, <2>10 DEF AllThere, Moving, PutsDown, Table
<1> QED BY <1>7, <1>8, <1>9, <1>10 DEF TableInv

\* Who asks first does not put the fork down.
LEMMA NotReturning ==
    ASSUME N \in Nat \ {0, 1}, TableInv
    PROVE  \A f \in Forks : \A p \in Users(f) :
              box[f] # <<>> /\ First(f) = Pickup(p) => ~Returns(p, f)
<1> SUFFICES ASSUME NEW f \in Forks, NEW p \in Users(f), box[f] # <<>>, First(f) = Pickup(p)
             PROVE  ~Returns(p, f)
  OBVIOUS
<1>1. IsSequence(box[f])
  BY DEF TableInv, TableOK, Lines, Table
<1>2. First(f) \in Range(box[f]) /\ First(f) = Head(box[f])
  BY <1>1, SequenceTail DEF First
<1>3. ~Ahead(box[f], Plain("putdown"), Pickup(p))
  BY <1>1, <1>2, AheadTail
<1> QED BY <1>2, <1>3 DEF Returns

\* What a fork's message says, and that a user of it wants it once at most.
LEMMA ForkHas ==
    ASSUME N \in Nat \ {0, 1}, TableInv
    PROVE  \A f \in Forks :
              /\ f \in Table /\ Users(f) = {Owner(f), Neighbour(f)} /\ Owner(f) # Neighbour(f)
              /\ Users(f) \subseteq Philosophers /\ Nobody \notin Users(f)
              /\ local[f] \in [available : BOOLEAN, waiting : Users(f) \cup {Nobody}]
              /\ \A p \in Users(f) : Wants(p, f) \in {0, 1}
              /\ Lies(f) + Count(PutsDown(f)) + 1 = Wants(Owner(f), f) + Wants(Neighbour(f), f)
              /\ box[f] # <<>> =>
                    First(f) = Plain("putdown") \/ \E p \in Users(f) : First(f) = Pickup(p)
<1> SUFFICES
    ASSUME NEW f \in Forks
    PROVE     /\ f \in Table /\ Users(f) = {Owner(f), Neighbour(f)} /\ Owner(f) # Neighbour(f)
              /\ Users(f) \subseteq Philosophers /\ Nobody \notin Users(f)
              /\ local[f] \in [available : BOOLEAN, waiting : Users(f) \cup {Nobody}]
              /\ \A p \in Users(f) : Wants(p, f) \in {0, 1}
              /\ Lies(f) + Count(PutsDown(f)) + 1 = Wants(Owner(f), f) + Wants(Neighbour(f), f)
              /\ box[f] # <<>> =>
                    First(f) = Plain("putdown") \/ \E p \in Users(f) : First(f) = Pickup(p)
  OBVIOUS
<1>1. TableOK /\ Placed(f)
  BY DEF TableInv
<1>2. /\ f \in Table /\ Owner(f) # Neighbour(f) /\ Users(f) \subseteq Philosophers
      /\ Nobody \notin Users(f)
  <2>1. Owner(f) \in Philosophers /\ Neighbour(f) \in Philosophers /\ Owner(f) # Neighbour(f)
    BY SidesAre
  <2>2. Nobody # Owner(f) /\ Nobody # Neighbour(f)
    BY <2>1, TableIs DEF Table
  <2> QED BY <2>1, <2>2 DEF Users, Table
<1>3. ASSUME NEW p \in Users(f) PROVE Wants(p, f) \in {0, 1}
  <2>1. p \in Philosophers /\ f \in Sides(p)
    BY <1>2, SidesAre
  <2>2. Wants(p, f) + Count(Gives(p, f)) <= 1
    BY <2>1 DEF TableInv, Served
  <2>3. Wants(p, f) \in Nat /\ Count(Gives(p, f)) \in Nat
    BY <2>1, <1>1, WantsIs
  <2> QED BY <2>2, <2>3
<1>4. ASSUME box[f] # <<>>
      PROVE  First(f) = Plain("putdown") \/ \E p \in Users(f) : First(f) = Pickup(p)
  <2>1. IsSequence(box[f])
    BY <1>1, <1>2 DEF TableOK, Lines
  <2>2. First(f) \in Range(box[f])
    BY <2>1, <1>4, SequenceTail DEF First
  <2> QED BY <2>2, <1>1, TableMail
<1>5. local[f] \in [available : BOOLEAN, waiting : Users(f) \cup {Nobody}]
  BY <1>1 DEF TableOK
<1>6. Lies(f) + Count(PutsDown(f)) + 1 = Wants(Owner(f), f) + Wants(Neighbour(f), f)
  BY <1>1 DEF Placed
<1>7. Users(f) = {Owner(f), Neighbour(f)}
  BY DEF Users
<1> QED BY <1>2, <1>3, <1>4, <1>5, <1>6, <1>7

\* A sum over the two users of a fork.
LEMMA OfTwo ==
    ASSUME N \in Nat \ {0, 1}, NEW f \in Forks, NEW p \in Users(f)
    PROVE  Same(p, Owner(f)) + Same(p, Neighbour(f)) = 1
BY SidesAre DEF Same, Users

\* A philosopher takes the fork from the table.
LEMMA PickupAvailable ==
    ASSUME N \in Nat \ {0, 1}, TableInv, NEW f \in Forks, ForkPickup(f), local[f].available
    PROVE  TableInv'
<1>1. /\ TableOK /\ box[f] # <<>> /\ First(f).is = "pickup" /\ todo[f] = <<>> /\ f \in Table
      /\ local' = [local EXCEPT ![f].available = FALSE]
      /\ Does(f, <<To(First(f).from, Pickup(f))>>)
  BY DEF ForkPickup, Gets, TableInv, Table
<1>2. PICK p \in Users(f) : First(f) = Pickup(p)
  <2>1. First(f) # Plain("putdown")
    BY <1>1, EnvelopesDiffer
  <2> QED BY <2>1, <1>1, ForkHas
<1> DEFINE calls == <<Gives(p, f)>>
<1>3. Does(f, calls) /\ Serves(f, calls)
  <2>1. To(First(f).from, Pickup(f)) = Gives(p, f)
    BY <1>2, EnvelopesDiffer DEF Gives
  <2>2. IsSequence(calls)
    BY SequenceFew
  <2> QED BY <2>1, <2>2, <1>1 DEF Serves
<1>4. /\ DOMAIN local = Table /\ DOMAIN local' = Table
      /\ local[f] \in [available : BOOLEAN, waiting : Users(f) \cup {Nobody}]
      /\ local'[f] = [local[f] EXCEPT !.available = FALSE]
      /\ \A t \in Table : t # f => local'[t] = local[t]
  BY <1>1, ForkHas DEF TableOK
<1>5. /\ local'[f] \in [available : BOOLEAN, waiting : Users(f) \cup {Nobody}]
      /\ local'[f].waiting = local[f].waiting /\ ~local'[f].available
  BY <1>4
<1>6. TableOK'
  <2>1. \A c \in Range(calls) : \E q \in Users(f) : c = Gives(q, f)
    BY SequenceFew
  <2> HIDE DEF calls
  <2> QED BY <2>1, <1>1, <1>3, <1>4, <1>5, ForkTypes
<1>7. To(f, First(f)) = AsksFor(p, f)
  BY <1>2 DEF AsksFor
<1>8. Users(f) \subseteq Philosophers /\ p \in Philosophers
  BY ForkHas
<1>9. \A e : /\ Count(e)' = Count(e) + Same(Gives(p, f), e) - Same(AsksFor(p, f), e)
             /\ Count(e)' \in Nat /\ Count(e) \in Nat
  <2>1. \A e : /\ Count(e)' = Count(e) + Occurs(calls, {e}) - Same(AsksFor(p, f), e)
               /\ Count(e)' \in Nat /\ Count(e) \in Nat
    BY <1>1, <1>3, <1>7, TableCounts
  <2>2. \A e : Occurs(calls, {e}) = Same(Gives(p, f), e)
    BY OccursFew DEF Same
  <2> HIDE DEF calls
  <2> QED BY <2>1, <2>2
<1>10. ASSUME NEW q \in Users(f)
       PROVE  /\ Count(Begins(q))' = Count(Begins(q))
              /\ Count(AsksFor(q, f))' = Count(AsksFor(q, f)) - Same(p, q)
              /\ Count(Gives(q, f))' = Count(Gives(q, f)) + Same(p, q)
              /\ Count(PutsDown(f))' = Count(PutsDown(f))
  <2>1. q \in Philosophers
    BY <1>8
  <2>2. /\ Same(Gives(p, f), Begins(q)) = 0 /\ Same(AsksFor(p, f), Begins(q)) = 0
        /\ Same(Gives(p, f), AsksFor(q, f)) = 0 /\ Same(AsksFor(p, f), AsksFor(q, f)) = Same(p, q)
        /\ Same(Gives(p, f), Gives(q, f)) = Same(p, q) /\ Same(AsksFor(p, f), Gives(q, f)) = 0
        /\ Same(Gives(p, f), PutsDown(f)) = 0 /\ Same(AsksFor(p, f), PutsDown(f)) = 0
    BY <2>1, <1>8, EnvelopesApart DEF Same
  <2>3. /\ Count(Begins(q))' = Count(Begins(q)) + 0 - 0
        /\ Count(AsksFor(q, f))' = Count(AsksFor(q, f)) + 0 - Same(p, q)
        /\ Count(Gives(q, f))' = Count(Gives(q, f)) + Same(p, q) - 0
        /\ Count(PutsDown(f))' = Count(PutsDown(f)) + 0 - 0
    BY <2>2, <1>9 DEF Begins, AsksFor, Gives, PutsDown
  <2>4. /\ Count(Begins(q)) \in Nat /\ Count(AsksFor(q, f)) \in Nat
        /\ Count(Gives(q, f)) \in Nat /\ Count(PutsDown(f)) \in Nat /\ Same(p, q) \in {0, 1}
    BY <1>9 DEF Same
  <2> QED BY <2>3, <2>4
<1>11. ASSUME NEW q \in Users(f)
       PROVE  /\ Wants(q, f)' = Wants(q, f) - Same(p, q) /\ Same(p, q) \in {0, 1}
              /\ Wants(q, f)' + Count(Gives(q, f))' = Wants(q, f) + Count(Gives(q, f))
  <2>1. IsWaiting(q, f)' = IsWaiting(q, f)
    BY <1>5 DEF IsWaiting
  <2>2. Same(p, q) \in {0, 1}
    BY DEF Same
  <2>3. q \in Philosophers
    BY <1>8
  <2>4. /\ Wants(q, f) = Count(Begins(q)) + Count(AsksFor(q, f)) + IsWaiting(q, f)
        /\ Wants(q, f)' = Count(Begins(q))' + Count(AsksFor(q, f))' + IsWaiting(q, f)'
        /\ Count(Begins(q)) \in Nat /\ Count(AsksFor(q, f)) \in Nat /\ IsWaiting(q, f) \in {0, 1}
        /\ Count(Gives(q, f)) \in Nat
    BY <2>3, <1>1, WantsIs
  <2>5. Wants(q, f)' = Wants(q, f) - Same(p, q) /\ Wants(q, f) \in Nat
    BY <2>1, <2>2, <2>4, <1>10
  <2>6. Wants(q, f)' + Count(Gives(q, f))' = Wants(q, f) + Count(Gives(q, f))
    BY <2>2, <2>4, <2>5, <1>10
  <2> QED BY <2>2, <2>5, <2>6
<1>12. Lies(f) = 1 /\ Lies(f)' = 0
  BY <1>5 DEF Lies
<1>13. Placed(f)'
  <2>1. Owner(f) \in Users(f) /\ Neighbour(f) \in Users(f)
    BY DEF Users
  <2> DEFINE a == Wants(Owner(f), f)
             b == Wants(Neighbour(f), f)
             c == Count(PutsDown(f))
             i == Wants(Owner(f), f)'
             j == Wants(Neighbour(f), f)'
             k == Count(PutsDown(f))'
             s == Same(p, Owner(f))
             t == Same(p, Neighbour(f))
  <2>2. /\ 1 + c + 1 = a + b /\ a \in {0, 1} /\ b \in {0, 1}
        /\ i = a - s /\ j = b - t /\ k = c /\ s + t = 1 /\ s \in {0, 1} /\ t \in {0, 1} /\ c \in Nat
    BY <2>1, <1>9, <1>10, <1>11, <1>12, ForkHas, OfTwo
  <2>3. 0 + k + 1 = i + j
    <3> HIDE DEF a, b, c, i, j, k, s, t
    <3> QED BY <2>2
  <2> QED BY <2>3, <1>12 DEF Placed, PutsDown, Owner, Neighbour
<1>14. InTurn(f)'
  <2> SUFFICES ASSUME (Count(PutsDown(f)) > 0)' PROVE \E q \in Users(f) : Returns(q, f)'
    BY DEF InTurn, Users, Owner, Neighbour
  <2>1. Count(PutsDown(f)) > 0
    BY <1>10 DEF PutsDown
  <2>2. PICK q \in Users(f) : Returns(q, f)
    BY <2>1 DEF TableInv, InTurn
  <2>3. local'[f].waiting # q
    BY <1>5, <2>2 DEF Returns
  <2>4. First(f) # Plain("putdown")
    BY <1>2, EnvelopesDiffer
  <2> QED BY <2>2, <2>3, <2>4, <1>1, <1>3, ReturnsStay
<1>15. Lies(f)' + Occurs(calls, Moving) = Lies(f) + In(To(f, First(f)), Moving)
  <2>1. Occurs(calls, Moving) = 1
    BY <1>8, OccursFew, MovingIs
  <2>2. In(To(f, First(f)), Moving) = 0
    BY <1>7, <1>8, MovingIs DEF In
  <2> QED BY <2>1, <2>2, <1>12
<1> HIDE DEF calls
<1>16. calls = <<>> \/ \E q \in Users(f) : calls = <<Gives(q, f)>>
  BY DEF calls
<1> QED BY <1>3, <1>4, <1>6, <1>11, <1>13, <1>14, <1>15, <1>16, ForkSteps

\* Nobody waits for a fork that the other user asks for: of the two one is to put
\* it down, and that is not who asks first.
LEMMA ForkIsFree ==
    ASSUME N \in Nat \ {0, 1}, TableInv, NEW f \in Forks, NEW p \in Users(f),
           Serves(f, <<>>), First(f) = Pickup(p), ~local[f].available
    PROVE  local[f].waiting = Nobody
<1> SUFFICES ASSUME local[f].waiting # Nobody PROVE FALSE
  OBVIOUS
<1>0. PICK r \in Users(f) : local[f].waiting = r
  <2>1. local[f] \in [available : BOOLEAN, waiting : Users(f) \cup {Nobody}]
    BY ForkHas
  <2> QED BY <2>1
<1>1. /\ TableOK /\ box[f] # <<>> /\ p \in Philosophers /\ r \in Philosophers
      /\ Users(f) = {Owner(f), Neighbour(f)} /\ Owner(f) # Neighbour(f)
      /\ Wants(p, f) \in {0, 1} /\ Wants(r, f) \in {0, 1}
      /\ Lies(f) + Count(PutsDown(f)) + 1 = Wants(Owner(f), f) + Wants(Neighbour(f), f)
      /\ Lies(f) = 0 /\ IsWaiting(r, f) = 1
  BY <1>0, ForkHas DEF TableInv, Lies, IsWaiting, Serves
<1>2. Count(AsksFor(p, f)) >= 1
  <2>1. /\ Count(AsksFor(p, f))' = Count(AsksFor(p, f)) + Occurs(<<>>, {AsksFor(p, f)})
                                     - Same(AsksFor(p, f), AsksFor(p, f))
        /\ Count(AsksFor(p, f))' \in Nat /\ Count(AsksFor(p, f)) \in Nat
    <3>1. To(f, First(f)) = AsksFor(p, f)
      BY DEF AsksFor
    <3>2. \A e : /\ Count(e)' = Count(e) + Occurs(<<>>, {e}) - Same(AsksFor(p, f), e)
                 /\ Count(e)' \in Nat /\ Count(e) \in Nat
      BY <1>1, <3>1, TableCounts
    <3> QED BY <3>2 DEF AsksFor
  <2>2. Occurs(<<>>, {AsksFor(p, f)}) = 0 /\ Same(AsksFor(p, f), AsksFor(p, f)) = 1
    BY OccursFew DEF Same
  <2> QED BY <2>1, <2>2
<1>3. /\ Wants(p, f) = Count(Begins(p)) + Count(AsksFor(p, f)) + IsWaiting(p, f)
      /\ Count(Begins(p)) \in Nat /\ Count(AsksFor(p, f)) \in Nat /\ IsWaiting(p, f) \in {0, 1}
      /\ Wants(r, f) = Count(Begins(r)) + Count(AsksFor(r, f)) + IsWaiting(r, f)
      /\ Count(Begins(r)) \in Nat /\ Count(AsksFor(r, f)) \in Nat /\ Count(PutsDown(f)) \in Nat
  BY <1>1, WantsIs
<1>4. Wants(p, f) = 1 /\ IsWaiting(p, f) = 0 /\ Wants(r, f) = 1
  BY <1>1, <1>2, <1>3
<1>5. p # r
  BY <1>1, <1>4
<1>6. Wants(Owner(f), f) = 1 /\ Wants(Neighbour(f), f) = 1
  BY <1>1, <1>4, <1>5
<1>7. Count(PutsDown(f)) > 0
  BY <1>1, <1>3, <1>6
<1>8. PICK q \in Users(f) : Returns(q, f)
  BY <1>7 DEF TableInv, InTurn
<1>9. q # r
  BY <1>0, <1>8 DEF Returns
<1>10. q = p
  BY <1>1, <1>5, <1>9
<1> QED BY <1>1, <1>8, <1>10, NotReturning

\* A philosopher waits for the fork.
LEMMA PickupWaits ==
    ASSUME N \in Nat \ {0, 1}, TableInv, NEW f \in Forks, ForkPickup(f), ~local[f].available
    PROVE  TableInv'
<1>1. /\ TableOK /\ box[f] # <<>> /\ First(f).is = "pickup" /\ todo[f] = <<>> /\ f \in Table
      /\ local' = [local EXCEPT ![f].waiting = First(f).from]
      /\ Does(f, <<>>)
  BY DEF ForkPickup, Gets, TableInv, Table
<1>2. PICK p \in Users(f) : First(f) = Pickup(p)
  <2>1. First(f) # Plain("putdown")
    BY <1>1, EnvelopesDiffer
  <2> QED BY <2>1, <1>1, ForkHas
<1>3. Serves(f, <<>>)
  BY <1>1, SequenceFew DEF Serves
<1>4. /\ DOMAIN local = Table /\ DOMAIN local' = Table
      /\ local[f] \in [available : BOOLEAN, waiting : Users(f) \cup {Nobody}]
      /\ local'[f] = [local[f] EXCEPT !.waiting = p]
      /\ \A t \in Table : t # f => local'[t] = local[t]
  <2>1. local' = [local EXCEPT ![f].waiting = p]
    BY <1>1, <1>2, EnvelopesDiffer, ZenonT(60)
  <2>2. DOMAIN local = Table /\ local[f] \in [available : BOOLEAN, waiting : Users(f) \cup {Nobody}]
    BY <1>1, ForkHas DEF TableOK
  <2> QED BY <2>1, <2>2, <1>1
<1>5. /\ local'[f] \in [available : BOOLEAN, waiting : Users(f) \cup {Nobody}]
      /\ local'[f].waiting = p /\ ~local'[f].available /\ local[f].waiting = Nobody
  BY <1>2, <1>3, <1>4, ForkIsFree
<1>6. TableOK'
  <2>1. \A c \in Range(<<>>) : \E q \in Users(f) : c = Gives(q, f)
    BY SequenceFew
  <2> QED BY <2>1, <1>1, <1>3, <1>4, <1>5, ForkTypes
<1>7. To(f, First(f)) = AsksFor(p, f)
  BY <1>2 DEF AsksFor
<1>8. Users(f) \subseteq Philosophers /\ p \in Philosophers /\ Nobody \notin Users(f)
  BY ForkHas
<1>9. \A e : /\ Count(e)' = Count(e) - Same(AsksFor(p, f), e)
             /\ Count(e)' \in Nat /\ Count(e) \in Nat
  <2>1. \A e : /\ Count(e)' = Count(e) + Occurs(<<>>, {e}) - Same(AsksFor(p, f), e)
               /\ Count(e)' \in Nat /\ Count(e) \in Nat
    BY <1>1, <1>3, <1>7, TableCounts
  <2>2. \A e : Occurs(<<>>, {e}) = 0 /\ Same(AsksFor(p, f), e) \in {0, 1}
    BY OccursFew DEF Same
  <2>3. ASSUME NEW e PROVE Count(e) + Occurs(<<>>, {e}) - Same(AsksFor(p, f), e)
                              = Count(e) - Same(AsksFor(p, f), e)
    <3>1. Count(e) \in Nat /\ Occurs(<<>>, {e}) = 0 /\ Same(AsksFor(p, f), e) \in {0, 1}
      BY <2>1, <2>2
    <3>2. Count(e) + 0 = Count(e)
      BY <3>1
    <3> QED BY <3>1, <3>2
  <2> QED BY <2>1, <2>3
<1>10. ASSUME NEW q \in Users(f)
       PROVE  /\ Count(Begins(q))' = Count(Begins(q))
              /\ Count(AsksFor(q, f))' = Count(AsksFor(q, f)) - Same(p, q)
              /\ Count(Gives(q, f))' = Count(Gives(q, f))
              /\ Count(PutsDown(f))' = Count(PutsDown(f))
  <2>1. q \in Philosophers
    BY <1>8
  <2>2. /\ Same(AsksFor(p, f), Begins(q)) = 0
        /\ Same(AsksFor(p, f), AsksFor(q, f)) = Same(p, q)
        /\ Same(AsksFor(p, f), Gives(q, f)) = 0
        /\ Same(AsksFor(p, f), PutsDown(f)) = 0
    BY <2>1, <1>8, EnvelopesApart DEF Same
  <2>3. /\ Count(Begins(q))' = Count(Begins(q)) - 0
        /\ Count(AsksFor(q, f))' = Count(AsksFor(q, f)) - Same(p, q)
        /\ Count(Gives(q, f))' = Count(Gives(q, f)) - 0
        /\ Count(PutsDown(f))' = Count(PutsDown(f)) - 0
    BY <2>2, <1>9 DEF Begins, AsksFor, Gives, PutsDown
  <2>4. /\ Count(Begins(q)) \in Nat /\ Count(AsksFor(q, f)) \in Nat
        /\ Count(Gives(q, f)) \in Nat /\ Count(PutsDown(f)) \in Nat /\ Same(p, q) \in {0, 1}
    BY <1>9 DEF Same
  <2> QED BY <2>3, <2>4
<1>11. ASSUME NEW q \in Users(f)
       PROVE  Wants(q, f)' = Wants(q, f) /\ Count(Gives(q, f))' = Count(Gives(q, f))
  <2>1. IsWaiting(q, f)' = Same(p, q) /\ IsWaiting(q, f) = 0
    BY <1>5, <1>8 DEF IsWaiting, Same
  <2>2. Same(p, q) \in {0, 1} /\ q \in Philosophers
    BY <1>8 DEF Same
  <2>3. /\ Wants(q, f) = Count(Begins(q)) + Count(AsksFor(q, f)) + IsWaiting(q, f)
        /\ Wants(q, f)' = Count(Begins(q))' + Count(AsksFor(q, f))' + IsWaiting(q, f)'
        /\ Count(Begins(q)) \in Nat /\ Count(AsksFor(q, f)) \in Nat
    BY <2>2, <1>1, WantsIs
  <2> QED BY <2>1, <2>2, <2>3, <1>10
<1>12. Lies(f) = 0 /\ Lies(f)' = 0
  BY <1>5 DEF Lies
<1>13. Placed(f)'
  <2>1. Owner(f) \in Users(f) /\ Neighbour(f) \in Users(f)
    BY DEF Users
  <2>2. Wants(Owner(f), f)' = Wants(Owner(f), f) /\ Wants(Neighbour(f), f)' = Wants(Neighbour(f), f)
        /\ Count(PutsDown(f))' = Count(PutsDown(f)) /\ Lies(f)' = Lies(f)
    BY <2>1, <1>10, <1>11, <1>12
  <2> QED BY <2>2 DEF Placed, TableInv, PutsDown, Owner, Neighbour
<1>14. InTurn(f)'
  <2> SUFFICES ASSUME (Count(PutsDown(f)) > 0)' PROVE \E q \in Users(f) : Returns(q, f)'
    BY DEF InTurn, Users, Owner, Neighbour
  <2>1. Count(PutsDown(f)) > 0
    BY <1>10 DEF PutsDown
  <2>2. PICK q \in Users(f) : Returns(q, f)
    BY <2>1 DEF TableInv, InTurn
  <2>3. q # p
    BY <2>2, <1>1, <1>2, NotReturning
  <2>4. First(f) # Plain("putdown")
    BY <1>2, EnvelopesDiffer
  <2> QED BY <2>2, <2>3, <2>4, <1>1, <1>3, <1>5, ReturnsStay
<1>15. Lies(f)' + Occurs(<<>>, Moving) = Lies(f) + In(To(f, First(f)), Moving)
  <2>1. Occurs(<<>>, Moving) = 0
    BY OccursFew
  <2>2. In(To(f, First(f)), Moving) = 0
    BY <1>7, <1>8, MovingIs DEF In
  <2> QED BY <2>1, <2>2, <1>12
<1>16. \A q \in Users(f) : Wants(q, f)' + Count(Gives(q, f))' = Wants(q, f) + Count(Gives(q, f))
  BY <1>11
<1> QED BY <1>3, <1>4, <1>6, <1>13, <1>14, <1>15, <1>16, ForkSteps

\* A fork that is put down: it did not lie on the table, and is put down once.
LEMMA PutDownOnce ==
    ASSUME N \in Nat \ {0, 1}, TableInv, NEW f \in Forks, NEW calls, Serves(f, calls),
           First(f) = Plain("putdown"), \A c \in Range(calls) : \E p \in Users(f) : c = Gives(p, f)
    PROVE  /\ Count(PutsDown(f)) = 1 /\ Lies(f) = 0 /\ Count(PutsDown(f))' = 0
           /\ Wants(Owner(f), f) = 1 /\ Wants(Neighbour(f), f) = 1
           /\ \A p \in Users(f) : /\ Count(Begins(p))' = Count(Begins(p))
                                  /\ Count(AsksFor(p, f))' = Count(AsksFor(p, f))
                                  /\ Count(Gives(p, f))' = Count(Gives(p, f)) + Occurs(calls, {Gives(p, f)})
                                  /\ Occurs(calls, {Gives(p, f)}) \in Nat
<1>1. /\ TableOK /\ Users(f) \subseteq Philosophers /\ Users(f) = {Owner(f), Neighbour(f)}
      /\ Wants(Owner(f), f) \in {0, 1} /\ Wants(Neighbour(f), f) \in {0, 1}
      /\ Lies(f) + Count(PutsDown(f)) + 1 = Wants(Owner(f), f) + Wants(Neighbour(f), f)
      /\ Lies(f) \in {0, 1} /\ IsSequence(calls)
  BY ForkHas DEF TableInv, Lies, Users, Serves
<1>2. To(f, First(f)) = PutsDown(f)
  BY DEF PutsDown
<1>3. \A e : /\ Count(e)' = Count(e) + Occurs(calls, {e}) - Same(PutsDown(f), e)
             /\ Count(e)' \in Nat /\ Count(e) \in Nat /\ Occurs(calls, {e}) \in Nat
  BY <1>1, <1>2, TableCounts
<1>4. \A e : (\A p \in Users(f) : e # Gives(p, f)) => Occurs(calls, {e}) = 0
  <2> SUFFICES ASSUME NEW e, \A p \in Users(f) : e # Gives(p, f) PROVE Occurs(calls, {e}) = 0
    OBVIOUS
  <2>1. Range(calls) \cap {e} = {}
    OBVIOUS
  <2> QED BY <2>1, <1>1, OccursNat
<1>5. Occurs(calls, {PutsDown(f)}) = 0 /\ Same(PutsDown(f), PutsDown(f)) = 1
  BY <1>1, <1>4, EnvelopesApart, SMTT(60) DEF Same
<1>6. /\ Count(PutsDown(f))' = Count(PutsDown(f)) + Occurs(calls, {PutsDown(f)})
                                 - Same(PutsDown(f), PutsDown(f))
      /\ Count(PutsDown(f))' \in Nat /\ Count(PutsDown(f)) \in Nat
  BY <1>3 DEF PutsDown
<1>7. Count(PutsDown(f)) = 1 /\ Lies(f) = 0 /\ Count(PutsDown(f))' = 0
      /\ Wants(Owner(f), f) = 1 /\ Wants(Neighbour(f), f) = 1
  BY <1>1, <1>5, <1>6
<1>8. ASSUME NEW p \in Users(f)
      PROVE  /\ Count(Begins(p))' = Count(Begins(p))
             /\ Count(AsksFor(p, f))' = Count(AsksFor(p, f))
             /\ Count(Gives(p, f))' = Count(Gives(p, f)) + Occurs(calls, {Gives(p, f)})
             /\ Occurs(calls, {Gives(p, f)}) \in Nat
  <2>1. /\ Same(PutsDown(f), Begins(p)) = 0 /\ Same(PutsDown(f), AsksFor(p, f)) = 0
        /\ Same(PutsDown(f), Gives(p, f)) = 0
        /\ Occurs(calls, {Begins(p)}) = 0 /\ Occurs(calls, {AsksFor(p, f)}) = 0
    BY <1>1, <1>4, EnvelopesApart DEF Same
  <2>2. /\ Count(Begins(p))' = Count(Begins(p)) + 0 - 0
        /\ Count(AsksFor(p, f))' = Count(AsksFor(p, f)) + 0 - 0
        /\ Count(Gives(p, f))' = Count(Gives(p, f)) + Occurs(calls, {Gives(p, f)}) - 0
    BY <2>1, <1>3 DEF Begins, AsksFor, Gives
  <2>3. /\ Count(Begins(p)) \in Nat /\ Count(AsksFor(p, f)) \in Nat
        /\ Count(Gives(p, f)) \in Nat /\ Occurs(calls, {Gives(p, f)}) \in Nat
    BY <1>3
  <2> QED BY <2>2, <2>3
<1> QED BY <1>7, <1>8

\* A fork that is put down is handed to who waits for it.
LEMMA PutdownHands ==
    ASSUME N \in Nat \ {0, 1}, TableInv, NEW f \in Forks, ForkPutdown(f),
           local[f].waiting # Nobody
    PROVE  TableInv'
<1>1. /\ TableOK /\ box[f] # <<>> /\ First(f).is = "putdown" /\ todo[f] = <<>> /\ f \in Table
      /\ local' = [local EXCEPT ![f].waiting = Nobody]
      /\ Does(f, <<To(local[f].waiting, Pickup(f))>>)
  BY DEF ForkPutdown, Gets, TableInv, Table
<1>2. First(f) = Plain("putdown")
  BY <1>1, ForkHas, EnvelopesDiffer
<1>3. PICK p \in Users(f) : local[f].waiting = p
  <2>1. local[f] \in [available : BOOLEAN, waiting : Users(f) \cup {Nobody}]
    BY ForkHas
  <2> QED BY <2>1
<1> DEFINE calls == <<Gives(p, f)>>
<1>4. Does(f, calls) /\ Serves(f, calls) /\ \A c \in Range(calls) : \E q \in Users(f) : c = Gives(q, f)
  <2>1. To(local[f].waiting, Pickup(f)) = Gives(p, f)
    BY <1>3 DEF Gives
  <2> QED BY <2>1, <1>1, SequenceFew DEF Serves
<1>5. /\ DOMAIN local = Table /\ DOMAIN local' = Table
      /\ local[f] \in [available : BOOLEAN, waiting : Users(f) \cup {Nobody}]
      /\ local'[f] = [local[f] EXCEPT !.waiting = Nobody]
      /\ \A t \in Table : t # f => local'[t] = local[t]
  BY <1>1, ForkHas DEF TableOK
<1>6. /\ local'[f] \in [available : BOOLEAN, waiting : Users(f) \cup {Nobody}]
      /\ local'[f].waiting = Nobody /\ local'[f].available = local[f].available
  BY <1>5
<1>7. Users(f) \subseteq Philosophers /\ p \in Philosophers /\ Nobody \notin Users(f)
  BY ForkHas
<1>8. \A q \in Users(f) : Occurs(calls, {Gives(q, f)}) = Same(p, q)
  BY <1>7, OccursFew, EnvelopesApart DEF Same
<1>9. Occurs(calls, Moving) = 1
  BY <1>7, OccursFew, MovingIs
<1>10. calls = <<>> \/ \E q \in Users(f) : calls = <<Gives(q, f)>>
  OBVIOUS
<1> HIDE DEF calls
<1>11. TableOK'
  BY <1>1, <1>4, <1>5, <1>6, ForkTypes
<1>12. /\ Count(PutsDown(f)) = 1 /\ Lies(f) = 0 /\ Count(PutsDown(f))' = 0
       /\ Wants(Owner(f), f) = 1 /\ Wants(Neighbour(f), f) = 1
       /\ \A q \in Users(f) : /\ Count(Begins(q))' = Count(Begins(q))
                              /\ Count(AsksFor(q, f))' = Count(AsksFor(q, f))
                              /\ Count(Gives(q, f))' = Count(Gives(q, f)) + Occurs(calls, {Gives(q, f)})
  BY <1>2, <1>4, PutDownOnce
<1>13. ASSUME NEW q \in Users(f)
       PROVE  /\ Wants(q, f)' = Wants(q, f) - Same(p, q) /\ Same(p, q) \in {0, 1}
              /\ Wants(q, f)' + Count(Gives(q, f))' = Wants(q, f) + Count(Gives(q, f))
  <2>1. IsWaiting(q, f) = Same(p, q) /\ IsWaiting(q, f)' = 0
    BY <1>3, <1>6, <1>7 DEF IsWaiting, Same
  <2>2. Same(p, q) \in {0, 1} /\ q \in Philosophers
    BY <1>7 DEF Same
  <2>3. /\ Wants(q, f) = Count(Begins(q)) + Count(AsksFor(q, f)) + IsWaiting(q, f)
        /\ Wants(q, f)' = Count(Begins(q))' + Count(AsksFor(q, f))' + IsWaiting(q, f)'
        /\ Count(Begins(q)) \in Nat /\ Count(AsksFor(q, f)) \in Nat /\ Count(Gives(q, f)) \in Nat
    BY <2>2, <1>1, WantsIs
  <2>4. Wants(q, f)' = Wants(q, f) - Same(p, q) /\ Wants(q, f) \in Nat
    <3>1. Count(Begins(q))' = Count(Begins(q)) /\ Count(AsksFor(q, f))' = Count(AsksFor(q, f))
      BY <1>12
    <3>2. /\ Wants(q, f) = Count(Begins(q)) + Count(AsksFor(q, f)) + Same(p, q)
          /\ Wants(q, f)' = Count(Begins(q)) + Count(AsksFor(q, f)) + 0
      BY <3>1, <2>1, <2>3
    <3> DEFINE a == Count(Begins(q))
               b == Count(AsksFor(q, f))
               s == Same(p, q)
    <3>3. a \in Nat /\ b \in Nat /\ s \in {0, 1}
      BY <2>2, <2>3
    <3>4. a + b + 0 = (a + b + s) - s /\ a + b + s \in Nat
      <4> HIDE DEF a, b, s
      <4> QED BY <3>3
    <3> QED BY <3>2, <3>4
  <2>5. Count(Gives(q, f))' = Count(Gives(q, f)) + Same(p, q)
    <3>1. Count(Gives(q, f))' = Count(Gives(q, f)) + Occurs(calls, {Gives(q, f)})
      BY <1>12
    <3>2. Occurs(calls, {Gives(q, f)}) = Same(p, q)
      BY <1>8
    <3> QED BY <3>1, <3>2
  <2>6. Wants(q, f)' + Count(Gives(q, f))' = Wants(q, f) + Count(Gives(q, f))
    BY <2>2, <2>3, <2>4, <2>5
  <2> QED BY <2>2, <2>4, <2>6
<1>14. Lies(f)' = 0
  BY <1>6, <1>12 DEF Lies
<1>15. Placed(f)'
  <2>1. Owner(f) \in Users(f) /\ Neighbour(f) \in Users(f)
    BY DEF Users
  <2> DEFINE i == Wants(Owner(f), f)'
             j == Wants(Neighbour(f), f)'
             s == Same(p, Owner(f))
             t == Same(p, Neighbour(f))
  <2>2. /\ i = 1 - s /\ j = 1 - t /\ s + t = 1 /\ s \in {0, 1} /\ t \in {0, 1}
    BY <2>1, <1>12, <1>13, OfTwo
  <2>3. 0 + 0 + 1 = i + j
    <3> HIDE DEF i, j, s, t
    <3> QED BY <2>2
  <2> QED BY <2>3, <1>12, <1>14 DEF Placed, PutsDown, Owner, Neighbour
<1>16. InTurn(f)'
  <2>1. ~(0 > 0)
    OBVIOUS
  <2> QED BY <2>1, <1>12 DEF InTurn, PutsDown
<1>17. Lies(f)' + Occurs(calls, Moving) = Lies(f) + In(To(f, First(f)), Moving)
  <2>1. In(To(f, First(f)), Moving) = 1
    BY <1>2, <1>7, MovingIs DEF In, PutsDown
  <2> QED BY <2>1, <1>9, <1>12, <1>14
<1> QED BY <1>4, <1>5, <1>10, <1>11, <1>13, <1>15, <1>16, <1>17, ForkSteps

\* A fork that is put down lies on the table.
LEMMA PutdownLays ==
    ASSUME N \in Nat \ {0, 1}, TableInv, NEW f \in Forks, ForkPutdown(f),
           local[f].waiting = Nobody
    PROVE  TableInv'
<1>1. /\ TableOK /\ box[f] # <<>> /\ First(f).is = "putdown" /\ todo[f] = <<>> /\ f \in Table
      /\ local' = [local EXCEPT ![f].available = TRUE] /\ Does(f, <<>>)
  BY DEF ForkPutdown, Gets, TableInv, Table
<1>2. First(f) = Plain("putdown")
  BY <1>1, ForkHas, EnvelopesDiffer
<1>4. Serves(f, <<>>) /\ \A c \in Range(<<>>) : \E q \in Users(f) : c = Gives(q, f)
  BY <1>1, SequenceFew DEF Serves
<1>5. /\ DOMAIN local = Table /\ DOMAIN local' = Table
      /\ local[f] \in [available : BOOLEAN, waiting : Users(f) \cup {Nobody}]
      /\ local'[f] = [local[f] EXCEPT !.available = TRUE]
      /\ \A t \in Table : t # f => local'[t] = local[t]
  BY <1>1, ForkHas DEF TableOK
<1>6. /\ local'[f] \in [available : BOOLEAN, waiting : Users(f) \cup {Nobody}]
      /\ local'[f].waiting = local[f].waiting /\ local'[f].available
  BY <1>5
<1>7. Users(f) \subseteq Philosophers /\ Owner(f) \in Philosophers
  BY ForkHas, SidesAre
<1>8. \A S : Occurs(<<>>, S) = 0
  BY OccursFew
<1>11. TableOK'
  BY <1>1, <1>4, <1>5, <1>6, ForkTypes
<1>12. /\ Count(PutsDown(f)) = 1 /\ Lies(f) = 0 /\ Count(PutsDown(f))' = 0
       /\ Wants(Owner(f), f) = 1 /\ Wants(Neighbour(f), f) = 1
       /\ \A q \in Users(f) : /\ Count(Begins(q))' = Count(Begins(q))
                              /\ Count(AsksFor(q, f))' = Count(AsksFor(q, f))
                              /\ Count(Gives(q, f))' = Count(Gives(q, f)) + Occurs(<<>>, {Gives(q, f)})
  BY <1>2, <1>4, PutDownOnce
<1>13. ASSUME NEW q \in Users(f)
       PROVE  Wants(q, f)' = Wants(q, f) /\ Count(Gives(q, f))' = Count(Gives(q, f))
  <2>1. IsWaiting(q, f)' = IsWaiting(q, f)
    BY <1>6 DEF IsWaiting
  <2>2. q \in Philosophers
    BY <1>7
  <2>3. /\ Wants(q, f) = Count(Begins(q)) + Count(AsksFor(q, f)) + IsWaiting(q, f)
        /\ Wants(q, f)' = Count(Begins(q))' + Count(AsksFor(q, f))' + IsWaiting(q, f)'
        /\ Count(Gives(q, f)) \in Nat
    BY <2>2, <1>1, WantsIs
  <2>4. Count(Gives(q, f))' = Count(Gives(q, f)) + Occurs(<<>>, {Gives(q, f)})
        /\ Count(Begins(q))' = Count(Begins(q)) /\ Count(AsksFor(q, f))' = Count(AsksFor(q, f))
    BY <1>12
  <2>5. Occurs(<<>>, {Gives(q, f)}) = 0
    BY <1>8
  <2>6. Count(Gives(q, f))' = Count(Gives(q, f))
    BY <2>3, <2>4, <2>5
  <2> QED BY <2>1, <2>3, <2>4, <2>6
<1>14. Lies(f)' = 1
  BY <1>6 DEF Lies
<1>15. Placed(f)'
  <2>1. Owner(f) \in Users(f) /\ Neighbour(f) \in Users(f)
    BY DEF Users
  <2>2. Wants(Owner(f), f)' = 1 /\ Wants(Neighbour(f), f)' = 1 /\ 1 + 0 + 1 = 1 + 1
    BY <2>1, <1>12, <1>13
  <2> QED BY <2>2, <1>12, <1>14 DEF Placed, PutsDown, Owner, Neighbour
<1>16. InTurn(f)'
  <2>1. ~(0 > 0)
    OBVIOUS
  <2> QED BY <2>1, <1>12 DEF InTurn, PutsDown
<1>17. Lies(f)' + Occurs(<<>>, Moving) = Lies(f) + In(To(f, First(f)), Moving)
  <2>1. In(To(f, First(f)), Moving) = 1
    BY <1>2, <1>7, MovingIs DEF In, PutsDown
  <2> QED BY <2>1, <1>8, <1>12, <1>14
<1>18. \A q \in Users(f) : Wants(q, f)' + Count(Gives(q, f))' = Wants(q, f) + Count(Gives(q, f))
  BY <1>13
<1> QED BY <1>4, <1>5, <1>11, <1>15, <1>16, <1>17, <1>18, ForkSteps

\* A fork keeps the invariant.
LEMMA ForkKeeps ==
    ASSUME N \in Nat \ {0, 1}, TableInv, NEW f \in Forks, ForkPickup(f) \/ ForkPutdown(f)
    PROVE  TableInv'
BY PickupAvailable, PickupWaits, PutdownHands, PutdownLays

\* A philosopher p takes the fork g: it is the first (k = 0), or the second and it
\* puts both down and asks for them again (k = 1).
TakesFork(p, g, k, calls) ==
    /\ p \in Philosophers /\ g \in Sides(p) /\ k \in {0, 1}
    /\ Serves(p, calls) /\ First(p) = Pickup(g)
    /\ local[p].m_forks = k /\ local'[p].m_forks = 1 - k
    /\ \A t \in Table : t # p => local'[t] = local[t]
    /\ \A c \in Range(calls) : \E f \in Sides(p) : c = AsksFor(p, f) \/ c = PutsDown(f)
    /\ \A f \in Sides(p) : /\ Occurs(calls, {AsksFor(p, f)}) = k
                           /\ Occurs(calls, {PutsDown(f)}) = k
                           /\ k = 1 => Ahead(calls, PutsDown(f), AsksFor(p, f))
    /\ Occurs(calls, Moving) = k + k

\* How that changes the counts.
LEMMA TakesCounts ==
    ASSUME N \in Nat \ {0, 1}, TableOK, NEW p, NEW g, NEW k, NEW calls, TakesFork(p, g, k, calls)
    PROVE  /\ \A q \in Philosophers : \A f \in Forks :
                 /\ Count(Begins(q))' = Count(Begins(q))
                 /\ q # p => /\ Count(AsksFor(q, f))' = Count(AsksFor(q, f))
                             /\ Count(Gives(q, f))' = Count(Gives(q, f))
                 /\ f \notin Sides(p) => Count(PutsDown(f))' = Count(PutsDown(f))
           /\ \A f \in Sides(p) : /\ Count(AsksFor(p, f))' = Count(AsksFor(p, f)) + k
                                  /\ Count(PutsDown(f))' = Count(PutsDown(f)) + k
                                  /\ Count(Gives(p, f))' = Count(Gives(p, f)) - Same(g, f)
                                  /\ Count(Gives(p, f))' \in Nat /\ Count(Gives(p, f)) \in Nat
                                  /\ Same(g, f) \in {0, 1}
<1>1. /\ p \in Philosophers /\ g \in Sides(p) /\ k \in {0, 1} /\ Serves(p, calls) /\ First(p) = Pickup(g)
      /\ \A c \in Range(calls) : \E f \in Sides(p) : c = AsksFor(p, f) \/ c = PutsDown(f)
      /\ \A f \in Sides(p) : Occurs(calls, {AsksFor(p, f)}) = k /\ Occurs(calls, {PutsDown(f)}) = k
      /\ Sides(p) \subseteq Forks /\ IsSequence(calls)
  BY TableMail DEF TakesFork, Serves
<1>2. To(p, First(p)) = Gives(p, g)
  BY <1>1 DEF Gives
<1>3. \A e : /\ Count(e)' = Count(e) + Occurs(calls, {e}) - Same(Gives(p, g), e)
             /\ Count(e)' \in Nat /\ Count(e) \in Nat
  BY <1>1, <1>2, TableCounts
<1>4. \A e : (\A f \in Sides(p) : e # AsksFor(p, f) /\ e # PutsDown(f)) => Occurs(calls, {e}) = 0
  <2> SUFFICES ASSUME NEW e, \A f \in Sides(p) : e # AsksFor(p, f) /\ e # PutsDown(f)
               PROVE  Occurs(calls, {e}) = 0
    OBVIOUS
  <2>1. Range(calls) \cap {e} = {}
    BY <1>1
  <2> QED BY <2>1, <1>1, OccursNat
<1>5. \A e : (\A f \in Sides(p) : e # AsksFor(p, f) /\ e # PutsDown(f)) /\ e # Gives(p, g)
                => Count(e)' = Count(e)
  <2> SUFFICES ASSUME NEW e, \A f \in Sides(p) : e # AsksFor(p, f) /\ e # PutsDown(f), e # Gives(p, g)
               PROVE  Count(e)' = Count(e)
    BY DEF Count
  <2>1. Occurs(calls, {e}) = 0 /\ Same(Gives(p, g), e) = 0
    BY <1>4 DEF Same
  <2>2. Count(e)' = Count(e) + 0 - 0 /\ Count(e) \in Nat
    BY <2>1, <1>3
  <2> QED BY <2>2
<1>6. ASSUME NEW q \in Philosophers, NEW f \in Forks
      PROVE  /\ Count(Begins(q))' = Count(Begins(q))
             /\ q # p => /\ Count(AsksFor(q, f))' = Count(AsksFor(q, f))
                         /\ Count(Gives(q, f))' = Count(Gives(q, f))
             /\ f \notin Sides(p) => Count(PutsDown(f))' = Count(PutsDown(f))
  <2>1. ASSUME NEW h \in Sides(p)
        PROVE  /\ Begins(q) # AsksFor(p, h) /\ Begins(q) # PutsDown(h)
               /\ q # p => /\ AsksFor(q, f) # AsksFor(p, h) /\ AsksFor(q, f) # PutsDown(h)
                           /\ Gives(q, f) # AsksFor(p, h) /\ Gives(q, f) # PutsDown(h)
               /\ f \notin Sides(p) => PutsDown(f) # AsksFor(p, h) /\ PutsDown(f) # PutsDown(h)
    <3>1. h \in Forks
      BY <1>1
    <3> QED BY <3>1, <2>1, <1>1, EnvelopesApart
  <2>2. g \in Forks
    BY <1>1
  <2>3. /\ Begins(q) # Gives(p, g) /\ AsksFor(q, f) # Gives(p, g) /\ PutsDown(f) # Gives(p, g)
        /\ q # p => Gives(q, f) # Gives(p, g)
    BY <2>2, <1>1, EnvelopesApart
  <2>4. Count(Begins(q))' = Count(Begins(q))
    BY <2>1, <2>3, <1>5 DEF Begins
  <2>5. ASSUME q # p
        PROVE  Count(AsksFor(q, f))' = Count(AsksFor(q, f)) /\ Count(Gives(q, f))' = Count(Gives(q, f))
    BY <2>1, <2>3, <2>5, <1>5 DEF AsksFor, Gives
  <2>6. ASSUME f \notin Sides(p) PROVE Count(PutsDown(f))' = Count(PutsDown(f))
    BY <2>1, <2>3, <2>6, <1>5 DEF PutsDown
  <2> QED BY <2>4, <2>5, <2>6
<1>7. ASSUME NEW f \in Sides(p)
      PROVE  /\ Count(AsksFor(p, f))' = Count(AsksFor(p, f)) + k
             /\ Count(PutsDown(f))' = Count(PutsDown(f)) + k
             /\ Count(Gives(p, f))' = Count(Gives(p, f)) - Same(g, f)
             /\ Count(Gives(p, f))' \in Nat /\ Count(Gives(p, f)) \in Nat
             /\ Same(g, f) \in {0, 1}
  <2>1. f \in Forks /\ g \in Forks
    BY <1>1
  <2>2. /\ Same(Gives(p, g), AsksFor(p, f)) = 0 /\ Same(Gives(p, g), PutsDown(f)) = 0
        /\ Same(Gives(p, g), Gives(p, f)) = Same(g, f)
    BY <2>1, <1>1, EnvelopesApart DEF Same
  <2>3. Occurs(calls, {Gives(p, f)}) = 0
    <3>1. ASSUME NEW h \in Sides(p) PROVE Gives(p, f) # AsksFor(p, h) /\ Gives(p, f) # PutsDown(h)
      <4>1. h \in Forks
        BY <1>1
      <4> QED BY <4>1, <2>1, <1>1, EnvelopesApart
    <3> QED BY <3>1, <1>4
  <2>4. /\ Count(AsksFor(p, f))' = Count(AsksFor(p, f)) + k - 0
        /\ Count(PutsDown(f))' = Count(PutsDown(f)) + k - 0
        /\ Count(Gives(p, f))' = Count(Gives(p, f)) + 0 - Same(g, f)
    BY <2>2, <2>3, <1>1, <1>3 DEF AsksFor, PutsDown, Gives
  <2>5. /\ Count(AsksFor(p, f)) \in Nat /\ Count(PutsDown(f)) \in Nat
        /\ Count(Gives(p, f)) \in Nat /\ Count(Gives(p, f))' \in Nat /\ Same(g, f) \in {0, 1}
    BY <1>3 DEF Same, Gives
  <2> QED BY <2>4, <2>5, <1>1
<1> QED BY <1>6, <1>7

\* With one fork in hand and the other arriving a philosopher wants neither.
LEMMA TakesServed ==
    ASSUME N \in Nat \ {0, 1}, TableInv, NEW p, NEW g, NEW k, NEW calls, TakesFork(p, g, k, calls)
    PROVE  /\ Served(p)'
           /\ \A f \in Sides(p) : /\ k = 1 => Wants(p, f) = 0
                                  /\ Wants(p, f)' = Wants(p, f) + k
                                  /\ Wants(p, f) \in Nat
           /\ \A q \in Philosophers : \A f \in Forks :
                 q # p => Wants(q, f)' = Wants(q, f) /\ Count(Gives(q, f))' = Count(Gives(q, f))
<1>1. /\ TableOK /\ Served(p) /\ p \in Philosophers /\ g \in Sides(p) /\ k \in {0, 1}
      /\ local[p].m_forks = k /\ local'[p].m_forks = 1 - k
      /\ \A f \in Forks : local'[f] = local[f]
      /\ Sides(p) \subseteq Forks /\ Left(p) # Right(p) /\ Sides(p) = {Left(p), Right(p)}
  BY TableMail, SidesAre, TableIs DEF TakesFork, TableInv, Table, Sides
<1>2. \A q \in Philosophers : \A f \in Forks : IsWaiting(q, f)' = IsWaiting(q, f)
  BY <1>1 DEF IsWaiting
<1>3. ASSUME NEW f \in Sides(p)
      PROVE  Wants(p, f)' = Wants(p, f) + k /\ Wants(p, f) \in Nat
  <2>1. f \in Forks
    BY <1>1
  <2>2. /\ Wants(p, f) = Count(Begins(p)) + Count(AsksFor(p, f)) + IsWaiting(p, f)
        /\ Wants(p, f)' = Count(Begins(p))' + Count(AsksFor(p, f))' + IsWaiting(p, f)'
        /\ Count(Begins(p)) \in Nat /\ Count(AsksFor(p, f)) \in Nat /\ IsWaiting(p, f) \in {0, 1}
    BY <2>1, <1>1, WantsIs
  <2>3. Count(Begins(p))' = Count(Begins(p)) /\ Count(AsksFor(p, f))' = Count(AsksFor(p, f)) + k
    BY <2>1, <1>1, TakesCounts
  <2>4. IsWaiting(p, f)' = IsWaiting(p, f)
    BY <2>1, <1>1, <1>2
  <2> QED BY <2>2, <2>3, <2>4, <1>1
<1>4. ASSUME NEW q \in Philosophers, NEW f \in Forks, q # p
      PROVE  Wants(q, f)' = Wants(q, f) /\ Count(Gives(q, f))' = Count(Gives(q, f))
  <2>1. /\ Wants(q, f) = Count(Begins(q)) + Count(AsksFor(q, f)) + IsWaiting(q, f)
        /\ Wants(q, f)' = Count(Begins(q))' + Count(AsksFor(q, f))' + IsWaiting(q, f)'
    BY <1>1, WantsIs
  <2>2. /\ Count(Begins(q))' = Count(Begins(q)) /\ Count(AsksFor(q, f))' = Count(AsksFor(q, f))
        /\ Count(Gives(q, f))' = Count(Gives(q, f))
    BY <1>1, <1>4, TakesCounts
  <2> QED BY <2>1, <2>2, <1>2
<1> DEFINE a == Wants(p, Left(p))
           b == Count(Gives(p, Left(p)))
           c == Wants(p, Right(p))
           d == Count(Gives(p, Right(p)))
           i == Wants(p, Left(p))'
           j == Count(Gives(p, Left(p)))'
           l == Wants(p, Right(p))'
           m == Count(Gives(p, Right(p)))'
           s == Same(g, Left(p))
           t == Same(g, Right(p))
<1>5. /\ i = a + k /\ l = c + k /\ a \in Nat /\ c \in Nat
  BY <1>1, <1>3 DEF Left, Right
<1>6. /\ j = b - s /\ m = d - t /\ j \in Nat /\ b \in Nat /\ m \in Nat /\ d \in Nat
      /\ s \in {0, 1} /\ t \in {0, 1}
  <2>1. Left(p) \in Sides(p) /\ Right(p) \in Sides(p)
    BY <1>1
  <2> QED BY <2>1, <1>1, TakesCounts DEF Left, Right
<1>7. s + t = 1
  BY <1>1 DEF Same
<1>8. k + a + b + c + d = 2 /\ a + b <= 1 /\ c + d <= 1
  BY <1>1 DEF Served
<1>9. /\ (1 - k) + i + j + l + m = 2 /\ i + j <= 1 /\ l + m <= 1
      /\ k = 1 => a = 0 /\ c = 0
  <2> HIDE DEF a, b, c, d, i, j, l, m, s, t
  <2> QED BY <1>1, <1>5, <1>6, <1>7, <1>8
<1>10. Served(p)'
  <2>1. \A f \in Sides(p) : Wants(p, f)' + Count(Gives(p, f))' <= 1
    <3> SUFFICES ASSUME NEW f \in Sides(p) PROVE Wants(p, f)' + Count(Gives(p, f))' <= 1
      OBVIOUS
    <3>1. CASE f = Left(p)
      BY <3>1, <1>9 DEF Left, Gives, Wants, Begins, AsksFor, IsWaiting
    <3>2. CASE f = Right(p)
      BY <3>2, <1>9 DEF Right, Gives, Wants, Begins, AsksFor, IsWaiting
    <3> QED BY <3>1, <3>2, <1>1
  <2> QED BY <2>1, <1>1, <1>9 DEF Served, Sides, Left, Right, Gives
<1>11. \A f \in Sides(p) : k = 1 => Wants(p, f) = 0
  BY <1>1, <1>9
<1> QED BY <1>3, <1>4, <1>10, <1>11

LEMMA TakesPlaced ==
    ASSUME N \in Nat \ {0, 1}, TableInv, NEW p, NEW g, NEW k, NEW calls, TakesFork(p, g, k, calls)
    PROVE  \A f \in Forks : Placed(f)'
<1> SUFFICES ASSUME NEW f \in Forks PROVE Placed(f)'
  OBVIOUS
<1>1. /\ TableOK /\ p \in Philosophers /\ k \in {0, 1} /\ local'[f] = local[f]
      /\ Owner(f) \in Philosophers /\ Neighbour(f) \in Philosophers /\ Owner(f) # Neighbour(f)
      /\ Users(f) = {Owner(f), Neighbour(f)} /\ (p \in Users(f) <=> f \in Sides(p))
  BY SidesAre, TableIs DEF TakesFork, TableInv, Table, Users
<1> DEFINE a == Wants(Owner(f), f)
           b == Wants(Neighbour(f), f)
           c == Count(PutsDown(f))
           d == Lies(f)
           i == Wants(Owner(f), f)'
           j == Wants(Neighbour(f), f)'
           l == Count(PutsDown(f))'
<1>2. /\ a \in Nat /\ b \in Nat /\ c \in Nat /\ d \in {0, 1}
  BY <1>1, WantsIs
<1>3. d + c + 1 = a + b
  BY DEF TableInv, Placed
<1>4. Lies(f)' = d
  BY <1>1 DEF Lies
<1>5. d + l + 1 = i + j
  <2>1. CASE f \notin Sides(p)
    <3>1. l = c /\ i = a /\ j = b
      BY <2>1, <1>1, TakesCounts, TakesServed DEF Owner, Neighbour
    <3> QED BY <3>1, <1>3
  <2>2. CASE f \in Sides(p) /\ p = Owner(f)
    <3>1. l = c + k
      BY <2>2, <1>1, TakesCounts
    <3>2. Wants(p, f)' = Wants(p, f) + k
      BY <2>2, <1>1, TakesServed
    <3>3. i = a + k
      BY <2>2, <3>2 DEF Owner, Wants, Begins, AsksFor, IsWaiting
    <3>4. j = b
      BY <2>2, <1>1, TakesServed DEF Neighbour
    <3> HIDE DEF a, b, c, d, i, j, l
    <3> QED BY <3>1, <3>3, <3>4, <1>1, <1>2, <1>3
  <2>3. CASE f \in Sides(p) /\ p = Neighbour(f)
    <3>1. l = c + k
      BY <2>3, <1>1, TakesCounts
    <3>2. Wants(p, f)' = Wants(p, f) + k
      BY <2>3, <1>1, TakesServed
    <3>3. j = b + k
      BY <2>3, <3>2 DEF Neighbour, Wants, Begins, AsksFor, IsWaiting
    <3>4. i = a
      BY <2>3, <1>1, TakesServed DEF Owner
    <3> HIDE DEF a, b, c, d, i, j, l
    <3> QED BY <3>1, <3>3, <3>4, <1>1, <1>2, <1>3
  <2> QED BY <2>1, <2>2, <2>3, <1>1
<1> QED BY <1>4, <1>5 DEF Placed, PutsDown, Owner, Neighbour

LEMMA TakesInTurn ==
    ASSUME N \in Nat \ {0, 1}, TableInv, NEW p, NEW g, NEW k, NEW calls, TakesFork(p, g, k, calls)
    PROVE  \A f \in Forks : InTurn(f)'
<1> SUFFICES ASSUME NEW f \in Forks, (Count(PutsDown(f)) > 0)' PROVE \E q \in Users(f) : Returns(q, f)'
  BY DEF InTurn, Users, Owner, Neighbour
<1>1. /\ TableOK /\ p \in Philosophers /\ p \in Table /\ f \in Table /\ f # p /\ k \in {0, 1}
      /\ local'[f] = local[f] /\ Serves(p, calls) /\ (p \in Users(f) <=> f \in Sides(p))
  BY SidesAre, TableIs DEF TakesFork, TableInv, Table
<1>2. CASE f \in Sides(p) /\ k = 1
  <2>1. Wants(p, f) = 0
    BY <1>1, <1>2, TakesServed
  <2>2. /\ Wants(p, f) = Count(Begins(p)) + Count(AsksFor(p, f)) + IsWaiting(p, f)
        /\ Count(Begins(p)) \in Nat /\ Count(AsksFor(p, f)) \in Nat /\ IsWaiting(p, f) \in {0, 1}
    BY <1>1, WantsIs
  <2>3. Count(AsksFor(p, f)) = 0 /\ IsWaiting(p, f) = 0
    BY <2>1, <2>2
  <2>4. local'[f].waiting # p
    BY <2>3, <1>1 DEF IsWaiting
  <2>5. Pickup(p) \notin Range(box[f])
    BY <2>3, <1>1, NotThere DEF AsksFor
  <2>6. box'[f] = box[f] /\ todo'[p] = calls
    BY <1>1, TableDoes
  <2>7. Ahead(todo'[p], PutsDown(f), AsksFor(p, f)) /\ Pickup(p) \notin Range(box'[f])
    BY <2>5, <2>6, <1>2 DEF TakesFork
  <2>8. Returns(p, f)'
    BY <2>4, <2>7 DEF Returns, Ahead, PutsDown, AsksFor, Pickup, To, Plain
  <2> QED BY <2>8, <1>1, <1>2
<1>3. CASE f \notin Sides(p) \/ k = 0
  <2>1. Count(PutsDown(f))' = Count(PutsDown(f))
    <3>1. CASE f \notin Sides(p)
      BY <3>1, <1>1, TakesCounts
    <3>2. CASE f \in Sides(p) /\ k = 0
      <4>1. Count(PutsDown(f))' = Count(PutsDown(f)) + 0 /\ Count(PutsDown(f)) \in Nat
        BY <3>2, <1>1, TakesCounts, WantsIs
      <4> QED BY <4>1
    <3> QED BY <3>1, <3>2, <1>3
  <2>2. Count(PutsDown(f)) > 0
    BY <2>1 DEF PutsDown
  <2>3. PICK q \in Users(f) : Returns(q, f)
    BY <2>2 DEF TableInv, InTurn
  <2>4. local'[f].waiting # q
    BY <2>3, <1>1 DEF Returns
  <2> QED BY <2>3, <2>4, <1>1, ReturnsStay
<1> QED BY <1>1, <1>2, <1>3

LEMMA TakesKeeps ==
    ASSUME N \in Nat \ {0, 1}, TableInv, TableOK', NEW p, NEW g, NEW k, NEW calls,
           TakesFork(p, g, k, calls)
    PROVE  TableInv'
<1>1. /\ TableOK /\ p \in Philosophers /\ p \in Table /\ k \in {0, 1} /\ g \in Forks
      /\ local[p].m_forks = k /\ local'[p].m_forks = 1 - k /\ Serves(p, calls)
      /\ \A f \in Forks : local'[f] = local[f]
      /\ \A q \in Philosophers : q # p => local'[q] = local[q]
      /\ Occurs(calls, Moving) = k + k /\ First(p) = Pickup(g)
  BY TableMail, TableIs DEF TakesFork, TableInv, Table
<1>2. \A q \in Philosophers : Served(q)'
  <2> SUFFICES ASSUME NEW q \in Philosophers, q # p PROVE Served(q)'
    BY TakesServed DEF Served, Wants, Begins, AsksFor, Gives, IsWaiting, Sides, Left, Right
  <2>1. /\ Sides(q) \subseteq Forks /\ Left(q) \in Sides(q) /\ Right(q) \in Sides(q)
    BY <1>1, TableMail DEF Sides
  <2>2. \A f \in Sides(q) : Wants(q, f)' = Wants(q, f) /\ Count(Gives(q, f))' = Count(Gives(q, f))
    BY <2>1, TakesServed
  <2>3. Served(q)
    BY DEF TableInv
  <2> QED BY <2>1, <2>2, <2>3, <1>1 DEF Served, Gives, Sides, Left, Right
<1>3. AllThere'
  <2>1. To(p, First(p)) \in Moving
    BY <1>1, MovingIs DEF Gives
  <2>2. /\ Flying(box', todo', Moving) + 1 = Flying(box, todo, Moving) + (k + k)
        /\ Flying(box', todo', Moving) \in Nat /\ Flying(box, todo, Moving) \in Nat
    BY <2>1, <1>1, TableDoes
  <2>3. /\ Cardinality(Waiters') + In(p, Waiters) = Cardinality(Waiters) + In(p, Waiters')
        /\ Cardinality(Waiters) \in Nat /\ Cardinality(Waiters') \in Nat
    <3>1. IsFiniteSet(Waiters) /\ IsFiniteSet(Waiters')
      BY TableIs, FS_Subset DEF Waiters
    <3>2. Waiters \ {p} = Waiters' \ {p}
      BY <1>1 DEF Waiters
    <3> QED BY <3>1, <3>2, OneApart
  <2>4. In(p, Waiters) = k /\ In(p, Waiters') = 1 - k
    BY <1>1 DEF In, Waiters
  <2>5. OnTable' = OnTable
    BY <1>1 DEF OnTable
  <2>6. Cardinality(OnTable) \in Nat
    BY TableIs, FS_Subset, FS_CardinalityType DEF OnTable
  <2> DEFINE a == Cardinality(OnTable)
             b == Flying(box, todo, Moving)
             c == Cardinality(Waiters)
             i == Flying(box', todo', Moving)
             j == Cardinality(Waiters')
  <2>7. /\ a \in Nat /\ b \in Nat /\ c \in Nat /\ i \in Nat /\ j \in Nat
        /\ a + b + c = N /\ i + 1 = b + (k + k) /\ j + k = c + (1 - k)
    BY <2>2, <2>3, <2>4, <2>6 DEF TableInv, AllThere
  <2>8. a + i + j = N
    <3> HIDE DEF a, b, c, i, j
    <3> QED BY <2>7, <1>1
  <2> QED BY <2>5, <2>8 DEF AllThere, Moving, PutsDown, Table
<1> QED BY <1>2, <1>3, TakesPlaced, TakesInTurn DEF TableInv

\* What a philosopher with both forks sends: the forks back, and that it wants them again.
LEMMA PutsBothDown ==
    ASSUME N \in Nat \ {0, 1}, NEW p \in Philosophers, NEW calls,
           calls = <<To(Left(p), Plain("putdown")), To(Right(p), Plain("putdown"))>> \o AskForForks(p)
    PROVE  /\ IsSequence(calls)
           /\ \A c \in Range(calls) : \E f \in Sides(p) : c = AsksFor(p, f) \/ c = PutsDown(f)
           /\ \A f \in Sides(p) : /\ Occurs(calls, {AsksFor(p, f)}) = 1
                                  /\ Occurs(calls, {PutsDown(f)}) = 1
                                  /\ Ahead(calls, PutsDown(f), AsksFor(p, f))
           /\ Occurs(calls, Moving) = 2
<1> DEFINE ask == AskForForks(p)
           x == PutsDown(Left(p))
           y == PutsDown(Right(p))
           down == <<x, y>>
<1>1. /\ Left(p) \in Forks /\ Right(p) \in Forks /\ Left(p) # Right(p)
      /\ Sides(p) = {Left(p), Right(p)}
  BY SidesAre DEF Sides
<1>2. calls = down \o ask
  BY DEF PutsDown
<1>3. IsSequence(down) /\ Len(down) = 2 /\ down[1] = x /\ down[2] = y /\ Range(down) = {x, y}
  BY SequenceFew
<1>4. /\ IsSequence(ask) /\ Len(ask) = 2
      /\ Range(ask) = {AsksFor(p, Left(p)), AsksFor(p, Right(p))}
      /\ \A f \in Sides(p) : Occurs(ask, {AsksFor(p, f)}) = 1 /\ Occurs(ask, {PutsDown(f)}) = 0
      /\ Occurs(ask, Moving) = 0
  <2>1. /\ IsSequence(ask) /\ Len(ask) = 2
        /\ Range(ask) = {AsksFor(p, Left(p)), AsksFor(p, Right(p))} /\ Occurs(ask, Moving) = 0
    BY AskForForksIs
  <2>2. ASSUME NEW f \in Sides(p) PROVE Occurs(ask, {AsksFor(p, f)}) = 1 /\ Occurs(ask, {PutsDown(f)}) = 0
    <3>1. f \in Forks
      BY <1>1
    <3>2. Occurs(ask, {AsksFor(p, f)}) = Same(p, p) * In(f, Sides(p)) /\ Occurs(ask, {PutsDown(f)}) = 0
      BY <3>1, AskForForksIs
    <3>3. Same(p, p) = 1 /\ In(f, Sides(p)) = 1 /\ 1 * 1 = 1
      BY DEF Same, In
    <3> QED BY <3>2, <3>3
  <2> QED BY <2>1, <2>2
<1>5. \A f \in Sides(p) : Occurs(down, {AsksFor(p, f)}) = 0 /\ Occurs(down, {PutsDown(f)}) = 1
  <2> SUFFICES ASSUME NEW f \in Sides(p)
               PROVE  Occurs(down, {AsksFor(p, f)}) = 0 /\ Occurs(down, {PutsDown(f)}) = 1
    OBVIOUS
  <2>1. /\ x # AsksFor(p, f) /\ y # AsksFor(p, f)
        /\ x = PutsDown(f) <=> f = Left(p)
        /\ y = PutsDown(f) <=> f = Right(p)
    BY <1>1, EnvelopesApart
  <2>2. \A S : Occurs(down, S) = (IF x \in S THEN 1 ELSE 0) + (IF y \in S THEN 1 ELSE 0)
    BY OccursTwo
  <2> HIDE DEF x, y, down
  <2> QED BY <2>1, <2>2, <1>1
<1>6. Occurs(down, Moving) = 2
  <2>1. x \in Moving /\ y \in Moving
    BY <1>1, MovingIs
  <2> QED BY <2>1, OccursTwo
<1>7. /\ IsSequence(calls) /\ Len(calls) = 4
      /\ calls[1] = down[1] /\ calls[2] = down[2]
      /\ Range(calls) = Range(down) \cup Range(ask)
      /\ \A S : Occurs(calls, S) = Occurs(down, S) + Occurs(ask, S)
  <2>1. IsSequence(down) /\ IsSequence(ask) /\ Len(down) = 2 /\ Len(ask) = 2 /\ calls = down \o ask
    BY <1>2, <1>3, <1>4
  <2> HIDE DEF down, ask
  <2>0. IsSequence(down) /\ IsSequence(ask)
    BY <2>1
  <2>2. \A S : Occurs(down \o ask, S) = Occurs(down, S) + Occurs(ask, S)
    BY <2>0, OccursConcat
  <2>3. /\ IsSequence(down \o ask) /\ Len(down \o ask) = 4 /\ Range(down \o ask) = Range(down) \cup Range(ask)
        /\ (down \o ask)[1] = down[1] /\ (down \o ask)[2] = down[2]
    BY <2>1, ConcatTwo
  <2> QED BY <2>1, <2>2, <2>3
<1>8. \A c \in Range(calls) : \E f \in Sides(p) : c = AsksFor(p, f) \/ c = PutsDown(f)
  BY <1>1, <1>3, <1>4, <1>7
<1>9. ASSUME NEW f \in Sides(p) PROVE Ahead(calls, PutsDown(f), AsksFor(p, f))
  <2>1. calls[1] = x /\ calls[2] = y
    BY <1>3, <1>7
  <2>2. /\ x # AsksFor(p, f) /\ y # AsksFor(p, f)
    BY <1>1, EnvelopesApart
  <2>3. PICK j \in 1 .. 2 : calls[j] = PutsDown(f)
    BY <1>1, <2>1
  <2>4. ASSUME NEW i \in 1 .. 4, calls[i] = AsksFor(p, f) PROVE j < i
    <3>1. i # 1 /\ i # 2
      BY <2>1, <2>2, <2>4
    <3> QED BY <3>1
  <2>5. j \in 1 .. Len(calls) /\ 1 .. Len(calls) = 1 .. 4
    BY <1>7
  <2> QED BY <2>3, <2>4, <2>5 DEF Ahead
<1>10. \A f \in Sides(p) : Occurs(calls, {AsksFor(p, f)}) = 1 /\ Occurs(calls, {PutsDown(f)}) = 1
  <2> SUFFICES ASSUME NEW f \in Sides(p)
               PROVE  Occurs(calls, {AsksFor(p, f)}) = 1 /\ Occurs(calls, {PutsDown(f)}) = 1
    OBVIOUS
  <2>0. /\ Occurs(calls, {AsksFor(p, f)}) = Occurs(down, {AsksFor(p, f)}) + Occurs(ask, {AsksFor(p, f)})
        /\ Occurs(calls, {PutsDown(f)}) = Occurs(down, {PutsDown(f)}) + Occurs(ask, {PutsDown(f)})
    BY <1>7
  <2>1. Occurs(calls, {AsksFor(p, f)}) = 0 + 1 /\ Occurs(calls, {PutsDown(f)}) = 1 + 0
    BY <2>0, <1>4, <1>5
  <2> QED BY <2>1
<1>11. Occurs(calls, Moving) = 2
  <2>1. Occurs(calls, Moving) = 2 + 0
    BY <1>4, <1>6, <1>7
  <2> QED BY <2>1
<1> QED BY <1>7, <1>8, <1>9, <1>10, <1>11

\* A philosopher's step with a fork, by what it sends.
LEMMA GetsAFork ==
    ASSUME N \in Nat \ {0, 1}, TableInv, NEW p \in Philosophers, Gets(p, "pickup"),
           NEW k \in {0, 1}, NEW calls, local[p].m_forks = k, Does(p, calls),
           local' = [local EXCEPT ![p].m_forks = 1 - k], IsSequence(calls),
           \A c \in Range(calls) : \E f \in Sides(p) : c = AsksFor(p, f) \/ c = PutsDown(f),
           \A f \in Sides(p) : /\ Occurs(calls, {AsksFor(p, f)}) = k
                               /\ Occurs(calls, {PutsDown(f)}) = k
                               /\ k = 1 => Ahead(calls, PutsDown(f), AsksFor(p, f)),
           Occurs(calls, Moving) = k + k
    PROVE  TableInv'
<1>1. /\ TableOK /\ box[p] # <<>> /\ First(p).is = "pickup" /\ todo[p] = <<>> /\ p \in Table
      /\ DOMAIN local = Table /\ local[p] \in [m_forks : {0, 1}] /\ Lines(box, todo, Table)
  BY DEF Gets, TableInv, TableOK, Table
<1>2. PICK g \in Sides(p) : First(p) = Pickup(g)
  <2>1. IsSequence(box[p])
    BY <1>1 DEF Lines
  <2>2. First(p) \in Range(box[p])
    BY <1>1, <2>1, SequenceTail DEF First
  <2>3. First(p) # Plain("start")
    BY <1>1, EnvelopesDiffer
  <2> QED BY <2>2, <2>3, <1>1, TableMail
<1>3. Serves(p, calls)
  BY <1>1 DEF Serves
<1>4. /\ DOMAIN local' = Table /\ local'[p] = [local[p] EXCEPT !.m_forks = 1 - k]
      /\ \A t \in Table : t # p => local'[t] = local[t]
  BY <1>1
<1>5. local'[p] \in [m_forks : {0, 1}] /\ local'[p].m_forks = 1 - k
  <2>1. 1 - k \in {0, 1}
    OBVIOUS
  <2> HIDE DEF IsSequence
  <2> QED BY <2>1, <1>1, <1>4
<1>6. TableOK'
  BY <1>1, <1>3, <1>4, <1>5, PhilosopherTypes
<1>7. TakesFork(p, g, k, calls)
  BY <1>2, <1>3, <1>4, <1>5 DEF TakesFork
<1> QED BY <1>6, <1>7, TakesKeeps

LEMMA GetForkKeeps ==
    ASSUME N \in Nat \ {0, 1}, TableInv, NEW p \in Philosophers, GetFork(p)
    PROVE  TableInv'
<1>1. Gets(p, "pickup")
  BY DEF GetFork
<1>2. \/ /\ local[p].m_forks = 0 /\ local' = [local EXCEPT ![p].m_forks = 1] /\ Does(p, <<>>)
      \/ /\ local[p].m_forks = 1 /\ local' = [local EXCEPT ![p].m_forks = 0]
         /\ Does(p, <<To(Left(p), Plain("putdown")), To(Right(p), Plain("putdown"))>>
                       \o AskForForks(p))
  BY DEF GetFork
<1>3. CASE local[p].m_forks = 0 /\ local' = [local EXCEPT ![p].m_forks = 1] /\ Does(p, <<>>)
  <2>1. IsSequence(<<>>) /\ Range(<<>>) = {} /\ \A S : Occurs(<<>>, S) = 0
    BY SequenceFew, OccursFew
  <2>2. local' = [local EXCEPT ![p].m_forks = 1 - 0] /\ 0 \in {0, 1} /\ 0 # 1 /\ 0 = 0 + 0
    BY <1>3
  <2>3. Occurs(<<>>, Moving) = 0 + 0
    BY <2>1
  <2> QED BY <2>1, <2>2, <2>3, <1>1, <1>3, GetsAFork
<1>4. CASE /\ local[p].m_forks = 1 /\ local' = [local EXCEPT ![p].m_forks = 0]
           /\ Does(p, <<To(Left(p), Plain("putdown")), To(Right(p), Plain("putdown"))>>
                         \o AskForForks(p))
  <2> DEFINE calls == <<To(Left(p), Plain("putdown")), To(Right(p), Plain("putdown"))>>
                         \o AskForForks(p)
  <2>1. Does(p, calls)
    BY <1>4
  <2>2. /\ IsSequence(calls)
        /\ \A c \in Range(calls) : \E f \in Sides(p) : c = AsksFor(p, f) \/ c = PutsDown(f)
        /\ \A f \in Sides(p) : /\ Occurs(calls, {AsksFor(p, f)}) = 1
                               /\ Occurs(calls, {PutsDown(f)}) = 1
                               /\ Ahead(calls, PutsDown(f), AsksFor(p, f))
        /\ Occurs(calls, Moving) = 2
    BY PutsBothDown
  <2> HIDE DEF calls
  <2>3. local' = [local EXCEPT ![p].m_forks = 1 - 1] /\ 1 \in {0, 1} /\ Occurs(calls, Moving) = 1 + 1
    BY <1>4, <2>2
  <2> QED BY <2>1, <2>2, <2>3, <1>1, <1>4, GetsAFork
<1> QED BY <1>2, <1>3, <1>4

\* Before active::run every philosopher is to begin and every fork lies on the table.
LEMMA TableBegins ==
    ASSUME N \in Nat \ {0, 1}, PhilosophersInit
    PROVE  TableInv
<1> DEFINE members == [o \in Table |-> IF o \in Forks THEN [available |-> TRUE, waiting |-> Nobody]
                                                       ELSE [m_forks |-> 0]]
           messages == [o \in Table |-> IF o \in Forks THEN <<>> ELSE <<Plain("start")>>]
<1>1. local = members /\ box = messages /\ todo = [o \in Table |-> <<>>]
  BY DEF PhilosophersInit, Starts, Table
<1>2. /\ \A p \in Philosophers : local[p] = [m_forks |-> 0] /\ box[p] = <<Plain("start")>>
                                 /\ p \in Table /\ p \notin Forks
      /\ \A f \in Forks : local[f] = [available |-> TRUE, waiting |-> Nobody] /\ box[f] = <<>>
                          /\ f \in Table
      /\ \A o \in Table : todo[o] = <<>>
      /\ DOMAIN local = Table /\ DOMAIN box = Table /\ DOMAIN todo = Table
  BY <1>1, TableIs DEF Table
<1> HIDE DEF members, messages
<1>3. TableOK
  <2>1. Lines(box, todo, Table)
    BY <1>2, SequenceFew DEF Lines, Table
  <2>2. ASSUME NEW p \in Philosophers
        PROVE  /\ local[p] \in [m_forks : {0, 1}]
               /\ Range(box[p]) \subseteq {Plain("start")} \cup {Pickup(f) : f \in Sides(p)}
               /\ Range(todo[p]) \subseteq UNION {{AsksFor(p, f), PutsDown(f)} : f \in Sides(p)}
    <3>1. Range(box[p]) = {Plain("start")} /\ Range(todo[p]) = {}
      BY <1>2, SequenceFew
    <3> QED BY <3>1, <1>2
  <2>3. ASSUME NEW f \in Forks
        PROVE  /\ local[f] \in [available : BOOLEAN, waiting : Users(f) \cup {Nobody}]
               /\ Range(box[f]) \subseteq {Plain("putdown")} \cup {Pickup(p) : p \in Users(f)}
               /\ Range(todo[f]) \subseteq {Gives(p, f) : p \in Users(f)}
    <3>1. Range(box[f]) = {} /\ Range(todo[f]) = {}
      BY <1>2, SequenceFew
    <3>2. local[f] \in [available : BOOLEAN, waiting : Users(f) \cup {Nobody}]
      <4>1. local[f] = [available |-> TRUE, waiting |-> Nobody]
        BY <1>2
      <4>2. \A b \in BOOLEAN : \A w \in Users(f) \cup {Nobody} :
               [available |-> b, waiting |-> w] \in [available : BOOLEAN, waiting : Users(f) \cup {Nobody}]
        OBVIOUS
      <4> QED BY <4>1, <4>2
    <3> QED BY <3>1, <3>2
  <2> QED BY <2>1, <2>2, <2>3, <1>2 DEF TableOK
<1>4. \A S : Carried(box, todo, S) = {<<p, "box", 1>> : p \in {q \in Philosophers : Begins(q) \in S}}
  <2> SUFFICES ASSUME NEW S
               PROVE  Carried(box, todo, S) = {<<p, "box", 1>> : p \in {q \in Philosophers : Begins(q) \in S}}
    OBVIOUS
  <2>1. Lines(box, todo, Table)
    BY <1>3 DEF TableOK
  <2>2. /\ Len(<<>>) = 0 /\ 1 .. 0 = {} /\ 1 .. 1 = {1}
        /\ \A x : Len(<<x>>) = 1 /\ <<x>>[1] = x
    BY SequenceFew
  <2>3. \A x : x \in Flight(box, todo) <=> \E p \in Philosophers : x = <<p, "box", 1>>
    <3>1. \A x : x \in Flight(box, todo) <=>
                 \/ \E o \in Table : \E i \in 1 .. Len(box[o]) : x = <<o, "box", i>>
                 \/ \E o \in Table : \E i \in 1 .. Len(todo[o]) : x = <<o, "todo", i>>
      BY <2>1, FlightIs
    <3>2. \A o \in Table : 1 .. Len(todo[o]) = {}
      BY <1>2, <2>2
    <3>3. \A o \in Forks : 1 .. Len(box[o]) = {}
      BY <1>2, <2>2
    <3>4. \A o \in Philosophers : 1 .. Len(box[o]) = {1}
      BY <1>2, <2>2
    <3>5. \A o : o \in Table <=> o \in Philosophers \/ o \in Forks
      BY DEF Table
    <3>6. ASSUME NEW x, x \in Flight(box, todo) PROVE \E p \in Philosophers : x = <<p, "box", 1>>
      <4>1. PICK o \in Table : \E i \in 1 .. Len(box[o]) : x = <<o, "box", i>>
        BY <3>1, <3>2, <3>6
      <4>2. o \in Philosophers
        BY <4>1, <3>3, <3>5
      <4> QED BY <4>1, <4>2, <3>4
    <3>7. ASSUME NEW p \in Philosophers PROVE <<p, "box", 1>> \in Flight(box, todo)
      <4>1. 1 \in 1 .. Len(box[p]) /\ p \in Table
        BY <3>4, <3>5
      <4> QED BY <4>1, <3>1
    <3> QED BY <3>6, <3>7
  <2>4. \A p \in Philosophers : Enveloped(box, todo, <<p, "box", 1>>) = Begins(p)
    <3>1. \A o \in Table : Enveloped(box, todo, <<o, "box", 1>>) = To(o, box[o][1])
      BY <2>1, FlightIs
    <3>2. ASSUME NEW p \in Philosophers PROVE box[p][1] = Plain("start") /\ p \in Table
      <4>1. box[p] = <<Plain("start")>> /\ p \in Table
        BY <1>2
      <4>2. <<Plain("start")>>[1] = Plain("start")
        BY SequenceFew
      <4> QED BY <4>1, <4>2
    <3> QED BY <3>1, <3>2 DEF Begins
  <2>5. \A x : x \in Carried(box, todo, S) <=> x \in Flight(box, todo) /\ Enveloped(box, todo, x) \in S
    BY DEF Carried
  <2>6. \A x : x \in Carried(box, todo, S)
                 <=> \E p \in Philosophers : Begins(p) \in S /\ x = <<p, "box", 1>>
    BY <2>3, <2>4, <2>5
  <2> DEFINE A == Carried(box, todo, S)
             B == {<<p, "box", 1>> : p \in {q \in Philosophers : Begins(q) \in S}}
  <2>7. \A x : x \in B <=> \E p \in Philosophers : Begins(p) \in S /\ x = <<p, "box", 1>>
    OBVIOUS
  <2>8. \A x : x \in A <=> x \in B
    BY <2>6, <2>7
  <2> HIDE DEF A, B
  <2>9. A = B
    BY <2>8
  <2> QED BY <2>9 DEF A, B
<1>5. \A S : (\A p \in Philosophers : Begins(p) \notin S) => Flying(box, todo, S) = 0
  <2> SUFFICES ASSUME NEW S, \A p \in Philosophers : Begins(p) \notin S PROVE Flying(box, todo, S) = 0
    OBVIOUS
  <2>1. Carried(box, todo, S) = {}
    BY <1>4
  <2> QED BY <2>1, FS_EmptySet DEF Flying
<1>6. \A p \in Philosophers : Count(Begins(p)) = 1
  <2> SUFFICES ASSUME NEW p \in Philosophers PROVE Count(Begins(p)) = 1
    OBVIOUS
  <2>1. Carried(box, todo, {Begins(p)}) = {<<p, "box", 1>>}
    BY <1>4, EnvelopesApart
  <2> QED BY <2>1, FS_Singleton DEF Count, Flying
<1>7. \A p \in Philosophers : \A f \in Forks :
         /\ Count(AsksFor(p, f)) = 0 /\ Count(Gives(p, f)) = 0 /\ Count(PutsDown(f)) = 0
         /\ IsWaiting(p, f) = 0 /\ Wants(p, f) = 1
  <2> SUFFICES ASSUME NEW p \in Philosophers, NEW f \in Forks
               PROVE  /\ Count(AsksFor(p, f)) = 0 /\ Count(Gives(p, f)) = 0 /\ Count(PutsDown(f)) = 0
                      /\ IsWaiting(p, f) = 0 /\ Wants(p, f) = 1
    OBVIOUS
  <2>1. \A q \in Philosophers : /\ Begins(q) # AsksFor(p, f) /\ Begins(q) # Gives(p, f)
                                /\ Begins(q) # PutsDown(f)
    BY EnvelopesApart
  <2>2. Count(AsksFor(p, f)) = 0 /\ Count(Gives(p, f)) = 0 /\ Count(PutsDown(f)) = 0
    BY <2>1, <1>5 DEF Count
  <2>3. Nobody # p
    BY TableIs, <1>2
  <2>4. IsWaiting(p, f) = 0
    BY <2>3, <1>2 DEF IsWaiting
  <2> QED BY <2>2, <2>4, <1>6 DEF Wants
<1>8. \A p \in Philosophers : Served(p)
  <2> SUFFICES ASSUME NEW p \in Philosophers PROVE Served(p)
    OBVIOUS
  <2>1. Sides(p) \subseteq Forks /\ Left(p) \in Forks /\ Right(p) \in Forks
    BY SidesAre DEF Sides
  <2>2. local[p].m_forks = 0
    BY <1>2
  <2> QED BY <2>1, <2>2, <1>7 DEF Served
<1>9. \A f \in Forks : Placed(f) /\ InTurn(f)
  <2> SUFFICES ASSUME NEW f \in Forks PROVE Placed(f) /\ InTurn(f)
    OBVIOUS
  <2>1. Owner(f) \in Philosophers /\ Neighbour(f) \in Philosophers
    BY SidesAre
  <2>2. Lies(f) = 1 /\ Count(PutsDown(f)) = 0 /\ Wants(Owner(f), f) = 1 /\ Wants(Neighbour(f), f) = 1
    BY <2>1, <1>2, <1>7 DEF Lies
  <2>3. 1 + 0 + 1 = 1 + 1 /\ ~(0 > 0)
    OBVIOUS
  <2> QED BY <2>2, <2>3 DEF Placed, InTurn
<1>10. AllThere
  <2>1. Flying(box, todo, Moving) = 0
    <3>2. \A p \in Philosophers : Left(p) \in Forks
      BY SidesAre
    <3>3. \A p \in Philosophers : Begins(p) \notin Moving
      BY <3>2, MovingIs
    <3> QED BY <3>3, <1>5
  <2>2. OnTable = Forks /\ Waiters = {}
    BY <1>2 DEF OnTable, Waiters
  <2>3. Cardinality(Forks) = N /\ Cardinality({}) = 0
    BY TableIs, FS_EmptySet
  <2> QED BY <2>1, <2>2, <2>3 DEF AllThere
<1> QED BY <1>3, <1>8, <1>9, <1>10 DEF TableInv

LEMMA TableKeeps ==
    ASSUME N \in Nat \ {0, 1}, TableInv, [PhilosophersNext]_state
    PROVE  TableInv'
<1>1. CASE UNCHANGED state
  <2>1. local' = local /\ box' = box /\ todo' = todo
    BY <1>1 DEF state
  <2>2. /\ \A e : Count(e)' = Count(e)
        /\ \A p, f : /\ IsWaiting(p, f)' = IsWaiting(p, f) /\ Wants(p, f)' = Wants(p, f)
                     /\ Returns(p, f)' = Returns(p, f)
        /\ \A f : Lies(f)' = Lies(f)
    BY <2>1 DEF Count, IsWaiting, Wants, Lies, Begins, AsksFor, Returns, Ahead, PutsDown, Pickup, To, Plain
  <2>3. TableOK'
    BY <2>1 DEF TableInv, TableOK
  <2>4. \A p \in Philosophers : Served(p)'
    BY <2>1, <2>2 DEF TableInv, Served, Gives, Sides, Left, Right
  <2>5. \A f \in Forks : Placed(f)' /\ InTurn(f)'
    BY <2>2 DEF TableInv, Placed, InTurn, PutsDown, Owner, Neighbour, Users
  <2>6. AllThere'
    BY <2>1 DEF TableInv, AllThere, OnTable, Waiters
  <2> QED BY <2>3, <2>4, <2>5, <2>6 DEF TableInv
<1>2. ASSUME NEW o \in Philosophers \cup Forks, Call(o) PROVE TableInv'
  BY <1>2, TableCalls DEF Table
<1>3. ASSUME NEW p \in Philosophers, SitDown(p) \/ GetFork(p) PROVE TableInv'
  BY <1>3, SitDownKeeps, GetForkKeeps
<1>4. ASSUME NEW f \in Forks, ForkPickup(f) \/ ForkPutdown(f) PROVE TableInv'
  BY <1>4, ForkKeeps
<1> QED BY <1>1, <1>2, <1>3, <1>4 DEF PhilosophersNext

\* What is on its way of the forks.
LEMMA MovingForks ==
    ASSUME N \in Nat \ {0, 1}, TableOK
    PROVE  UNION {Given(f) \cup PutDown(f) : f \in Forks} = Carried(box, todo, Moving)
<1>1. Lines(box, todo, Table) /\ InFlight = Flight(box, todo)
      /\ \A x : Envelope(x) = Enveloped(box, todo, x)
  BY FlightIsInFlight DEF TableOK, InFlightFlies
<1>2. ASSUME NEW x \in Flight(box, todo)
      PROVE  \E o \in Table : \E m : Enveloped(box, todo, x) = To(o, m)
  <2>1. CASE \E o \in Table : \E i \in 1 .. Len(box[o]) : x = <<o, "box", i>>
    BY <2>1, <1>1, FlightIs
  <2>2. CASE \E o \in Table : \E i \in 1 .. Len(todo[o]) : x = <<o, "todo", i>>
    <3>1. PICK o \in Table : \E i \in 1 .. Len(todo[o]) : x = <<o, "todo", i>>
      BY <2>2
    <3>2. PICK i \in 1 .. Len(todo[o]) : x = <<o, "todo", i>>
      BY <3>1
    <3>3. Enveloped(box, todo, x) = todo[o][i] /\ todo[o][i] \in Range(todo[o])
      BY <3>2, <1>1, FlightIs, SequenceLength, SMTT(60) DEF Lines
    <3>4. CASE o \in Philosophers
      <4>1. PICK f \in Sides(o) : todo[o][i] = AsksFor(o, f) \/ todo[o][i] = PutsDown(f)
        BY <3>3, <3>4, TableMail
      <4>2. f \in Table
        BY <3>4, TableMail DEF Table
      <4> QED BY <3>3, <4>1, <4>2 DEF AsksFor, PutsDown
    <3>5. CASE o \in Forks
      <4>1. PICK p \in Users(o) : todo[o][i] = Gives(p, o)
        BY <3>3, <3>5, TableMail
      <4>2. p \in Table
        BY <3>5, TableMail DEF Table
      <4> QED BY <3>3, <4>1, <4>2 DEF Gives
    <3> QED BY <3>4, <3>5 DEF Table
  <2> QED BY <2>1, <2>2, <1>1, FlightIs
<1>3. ASSUME NEW x \in Flight(box, todo)
      PROVE  Enveloped(box, todo, x) \in Moving <=> \E f \in Forks : x \in Given(f) \cup PutDown(f)
  <2>0. PICK o \in Table : \E m : Enveloped(box, todo, x) = To(o, m)
    BY <1>2
  <2>1. PICK m : Enveloped(box, todo, x) = To(o, m)
    BY <2>0
  <2>2. \A f : x \in Given(f) <=> m = Pickup(f)
    BY <2>1, <1>1, EnvelopesDiffer DEF Given
  <2>3. \A f : x \in PutDown(f) <=> o = f /\ m = Plain("putdown")
    BY <2>1, <1>1, EnvelopesDiffer DEF PutDown
  <2>4. To(o, m) \in Moving <=> \/ \E f \in Forks : m = Pickup(f)
                                \/ o \in Forks /\ m = Plain("putdown")
    BY EnvelopesDiffer DEF Moving, PutsDown
  <2> QED BY <2>1, <2>2, <2>3, <2>4
<1>4. \A f : Given(f) \subseteq Flight(box, todo) /\ PutDown(f) \subseteq Flight(box, todo)
  BY <1>1 DEF Given, PutDown
<1>5. \A x : x \in Carried(box, todo, Moving)
                <=> x \in Flight(box, todo) /\ Enveloped(box, todo, x) \in Moving
  BY DEF Carried
<1> DEFINE A == UNION {Given(f) \cup PutDown(f) : f \in Forks}
<1>6. \A x : x \in A <=> \E f \in Forks : x \in Given(f) \cup PutDown(f)
  OBVIOUS
<1>7. \A x : x \in A <=> x \in Carried(box, todo, Moving)
  BY <1>3, <1>4, <1>5, <1>6
<1> HIDE DEF A
<1>8. A = Carried(box, todo, Moving)
  BY <1>7
<1> QED BY <1>8 DEF A

\* Nothing is under way when all is quiet.
LEMMA QuietEmpty ==
    ASSUME N \in Nat \ {0, 1}, TableOK, Quiet
    PROVE  \A S : Flying(box, todo, S) = 0
<1>1. Lines(box, todo, Table)
  BY DEF TableOK
<1>2. \A o \in Table : box[o] = <<>> /\ todo[o] = <<>>
  BY <1>1 DEF Quiet, Running, Lines
<1>3. Len(<<>>) = 0 /\ 1 .. 0 = {}
  BY SequenceFew
<1>4. \A o \in Table : 1 .. Len(box[o]) = {} /\ 1 .. Len(todo[o]) = {}
  BY <1>2, <1>3
<1>5. \A x : x \notin Flight(box, todo)
  BY <1>1, <1>4, FlightIs
<1>6. \A S : Carried(box, todo, S) = {}
  BY <1>5 DEF Carried
<1> QED BY <1>6, FS_EmptySet DEF Flying

LEMMA TableDeadlock ==
    ASSUME N \in Nat \ {0, 1}, TableInv
    PROVE  DeadlockExpected
<1>1. TableOK /\ AllThere
  BY DEF TableInv
<1>2. ForksConserved
  BY <1>1, MovingForks DEF ForksConserved, AllThere, OnTable, Waiters, Flying
<1>3. ASSUME Quiet
      PROVE  /\ \A p \in Philosophers : local[p].m_forks = 1
             /\ \A f \in Forks : ~local[f].available /\ local[f].waiting # Nobody
  <2>1. \A S : Flying(box, todo, S) = 0
    BY <1>1, <1>3, QuietEmpty
  <2>2. \A e : Count(e) = 0
    BY <2>1 DEF Count
  <2>3. ASSUME NEW f \in Forks
        PROVE  ~local[f].available /\ local[f].waiting # Nobody
    <3>1. \A p : Wants(p, f) = IsWaiting(p, f)
      <4>1. \A p : Wants(p, f) = 0 + 0 + IsWaiting(p, f) /\ IsWaiting(p, f) \in {0, 1}
        BY <2>2 DEF Wants, IsWaiting
      <4>2. 0 + 0 + 0 = 0 /\ 0 + 0 + 1 = 1
        OBVIOUS
      <4> QED BY <4>1, <4>2
    <3>2. /\ Owner(f) # Neighbour(f) /\ Owner(f) # Nobody /\ Neighbour(f) # Nobody
          /\ Lies(f) + Count(PutsDown(f)) + 1 = Wants(Owner(f), f) + Wants(Neighbour(f), f)
      BY ForkHas
    <3>3. Lies(f) + 0 + 1 = IsWaiting(Owner(f), f) + IsWaiting(Neighbour(f), f)
      BY <2>2, <3>1, <3>2
    <3>4. ~(IsWaiting(Owner(f), f) = 1 /\ IsWaiting(Neighbour(f), f) = 1)
      BY <3>2 DEF IsWaiting
    <3>5. /\ Lies(f) \in {0, 1}
          /\ IsWaiting(Owner(f), f) \in {0, 1} /\ IsWaiting(Neighbour(f), f) \in {0, 1}
      BY DEF Lies, IsWaiting
    <3>6. Lies(f) = 0 /\ (IsWaiting(Owner(f), f) = 1 \/ IsWaiting(Neighbour(f), f) = 1)
      BY <3>3, <3>4, <3>5
    <3> QED BY <3>2, <3>6 DEF Lies, IsWaiting
  <2>4. Waiters = Philosophers
    <3>1. OnTable = {}
      BY <2>3 DEF OnTable
    <3>2. Cardinality(OnTable) = 0
      BY <3>1, FS_EmptySet
    <3>3. Waiters \subseteq Philosophers /\ IsFiniteSet(Philosophers) /\ Cardinality(Philosophers) = N
      BY TableIs DEF Waiters
    <3>4. Cardinality(Waiters) \in Nat
      BY <3>3, FS_Subset, FS_CardinalityType
    <3>5. Cardinality(Waiters) = N
      BY <3>2, <3>4, <2>1, <1>1 DEF AllThere
    <3> QED BY <3>3, <3>5, FS_Subset
  <2> QED BY <2>3, <2>4 DEF Waiters
<1> QED BY <1>2, <1>3 DEF DeadlockExpected

\* Safety of philosophers.cpp, for any number of philosophers above one and any
\* threads: no fork is lost or doubled, though a fork remembers only one who waits for
\* it, and the program stops only in the deadlock it is written to show
\* (philosophers.cpp:46-112).
THEOREM DeadlockExpectedHolds ==
    ASSUME N \in Nat \ {0, 1}
    PROVE  PhilosophersInit /\ [][PhilosophersNext]_state => []DeadlockExpected
<1>1. PhilosophersInit => TableInv
  BY TableBegins
<1>2. TableInv /\ [PhilosophersNext]_state => TableInv'
  BY TableKeeps
<1>3. TableInv => DeadlockExpected
  BY TableDeadlock
<1> QED BY <1>1, <1>2, <1>3, PTL
=============================================================================
