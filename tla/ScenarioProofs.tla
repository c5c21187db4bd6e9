--------------------------- MODULE ScenarioProofs ---------------------------
(***************************************************************************)
(* For every topology whose sinks sit at the end of a line of loops, and   *)
(* every body whose stimuli are told apart: what a sink gets, under which  *)
(* signatures and in which order, what becomes of each stimulus, and that  *)
(* the gates of a body that waits for every loop suffice.                  *)
(*                                                                         *)
(* A sink's way is looked at as one queue of queues: the inboxes of the    *)
(* loops on it and then what arrived.  A step of the product moves one     *)
(* message one place on, takes it out, or leaves the whole line alone.     *)
(***************************************************************************)
EXTENDS ScenarioTest, TLAPS

TypeInv ==
    /\ story \in DOMAIN Topology /\ subscribed \subseteq Loops
    /\ inbox \in [Loops -> Seq(Messages(story))]
    /\ stream \in [Sinks -> Seq(Messages(story))]
    /\ arrived \in [Sinks -> Seq(Messages(story))]
    /\ published \in Seq(Messages(story)) /\ missed \subseteq Loops \X Messages(story)
    /\ pc \in 1..Len(Script)

\* What was published is what the steps gone through put into the world, once each.
PublishedOnce ==
    /\ \A n \in DOMAIN published : \E k \in StimuliOf(story) :
          published[n].body = Script[k].msg.body /\ (verdict = "running" => k < pc)
    /\ \A m, n \in DOMAIN published : published[m].body = published[n].body => m = n

-----------------------------------------------------------------------------
(***************************************************************************)
(* The line of a sink: q[1] to q[n] wait in front of the loops of its way, *)
(* q[n+1] arrived.  gone are the <<loop, message>> missed on the way.      *)
(***************************************************************************)
LineOf(way, s) == [i \in 1..Len(way)+1 |-> IF i = Len(way)+1 THEN arrived[s] ELSE inbox[way[i]]]
GoneOn(way)    == {pair \in missed : pair[1] \in Range(way)}

\* Where a message moves on whatever its payload: behind the last loop, and where
\* a source or a product without the payload-binding gate handles it.
OpenAt(t, f, way) ==
    {i \in 1..Len(way)+1 :
        i = Len(way)+1 \/ Topology[t].loops[way[i]].role = "source" \/ f = "unbound"}

DroppedOn(t, way) == UNION {Topology[t].loops[l].drops : l \in Range(way)}

Before(pub, b, c) == \E m, n \in DOMAIN pub : m < n /\ pub[m].body = b /\ pub[n].body = c

\* No body is in two places of the line.
Unique(q, gone) ==
    /\ \A i, j \in DOMAIN q : \A p \in DOMAIN q[i], r \in DOMAIN q[j] :
          q[i][p].body = q[j][r].body => i = j /\ p = r
    /\ \A i \in DOMAIN q : \A p \in DOMAIN q[i] : \A x \in gone : q[i][p].body # x[2].body
    /\ \A x, y \in gone : x[2].body = y[2].body => x = y

\* Nothing is on the line that was not published, or that broke on the way.
Known(q, gone, pub) ==
    /\ \A i \in DOMAIN q : \A p \in DOMAIN q[i] : \E n \in DOMAIN pub :
          pub[n].body = q[i][p].body /\ (pub[n].intact => q[i][p].intact)
    /\ \A x \in gone : \E n \in DOMAIN pub : pub[n].body = x[2].body

\* What was published whole and no filter drops is on the line or gone.
Present(q, gone, pub, dropped) ==
    \A n \in DOMAIN pub : pub[n].intact /\ pub[n].body \notin dropped =>
       \/ \E i \in DOMAIN q : \E p \in DOMAIN q[i] : q[i][p].body = pub[n].body
       \/ \E x \in gone : x[2].body = pub[n].body

Live(q, open, i, p) == q[i][p].intact \/ i \in open

\* What is still to move on is in the order of its publication, the line's end first.
Ordered(q, open, pub) ==
    \A i, j \in DOMAIN q : \A p \in DOMAIN q[i], r \in DOMAIN q[j] :
       /\ Live(q, open, i, p) /\ Live(q, open, j, r)
       /\ j < i \/ (i = j /\ p < r)
       => Before(pub, q[i][p].body, q[j][r].body)

\* ... and signed by the loops behind it.
Signed(q, open, way) ==
    \A i \in DOMAIN q : \A p \in DOMAIN q[i] : Live(q, open, i, p) =>
       q[i][p].lineage = SubSeq(way, 1, IF i = Len(way)+1 THEN Len(way)-1 ELSE i-1)

\* The gate of the payload binding holds, or there is nothing for it to hold back.
GateHolds(t, f) == f = "unbound" => \A i \in StimuliOf(t) : Fresh(t, Body[t][i])

OnLine(q, gone, pub, dropped) ==
    Unique(q, gone) /\ Known(q, gone, pub) /\ Present(q, gone, pub, dropped)

InFlow(q, open, pub, way) == Ordered(q, open, pub) /\ Signed(q, open, way)

LineInv(t, f, way, s) ==
    /\ OnLine(LineOf(way, s), GoneOn(way), published, DroppedOn(t, way))
    /\ GateHolds(t, f) => InFlow(LineOf(way, s), OpenAt(t, f, way), published, way)

LinesInv ==
    \A t \in {story}, f \in {fault} : \A s \in SinksOf(t) : \A way \in {WayTo[t][s]} :
       LineInv(t, f, way, s)

PlaneInv == PublishedOnce /\ LinesInv

\* Since the loops last went down, every loop a step named holds its subscription.
GatesHeld ==
    verdict = "running" => \A j \in 1..pc-1 :
       (\A k \in j..pc-1 : Script[k].op \notin {"restart", "stop"})
       => WaitsFor(Script[j]) \subseteq subscribed

-----------------------------------------------------------------------------
(***************************************************************************)
(* Lemmas on lines.                                                        *)
(***************************************************************************)
LEMMA TailPlaces ==
  ASSUME NEW M, NEW x \in Seq(M), x # <<>>
  PROVE  /\ Tail(x) \in Seq(M) /\ Head(x) = x[1] /\ 1 \in DOMAIN x /\ x[1] \in M
         /\ DOMAIN Tail(x) = 1..Len(x)-1 /\ DOMAIN x = 1..Len(x) /\ Len(x) \in Nat \ {0}
         /\ \A p \in DOMAIN Tail(x) : p + 1 \in DOMAIN x /\ Tail(x)[p] = x[p+1]
         /\ \A p \in DOMAIN x : p # 1 => p - 1 \in DOMAIN Tail(x) /\ Tail(x)[p-1] = x[p]
OBVIOUS

LEMMA AppendPlaces ==
  ASSUME NEW M, NEW x \in Seq(M), NEW m \in M
  PROVE  /\ Append(x, m) \in Seq(M) /\ Len(x) \in Nat /\ DOMAIN x = 1..Len(x)
         /\ DOMAIN Append(x, m) = 1..Len(x)+1 /\ Append(x, m)[Len(x)+1] = m
         /\ \A p \in DOMAIN x : p \in DOMAIN Append(x, m) /\ Append(x, m)[p] = x[p]
OBVIOUS

\* Where the places of q2 come from: oi[i][p] and op[i][p] in q.
ComesFrom(q, q2, oi, op) ==
    /\ \A i \in DOMAIN q2 : \A p \in DOMAIN q2[i] :
          /\ oi[i][p] \in DOMAIN q /\ op[i][p] \in DOMAIN q[oi[i][p]]
          /\ q2[i][p].body = q[oi[i][p]][op[i][p]].body
          /\ q[oi[i][p]][op[i][p]].intact => q2[i][p].intact
    /\ \A i, j \in DOMAIN q2 : \A p \in DOMAIN q2[i], r \in DOMAIN q2[j] :
          oi[i][p] = oi[j][r] /\ op[i][p] = op[j][r] => i = j /\ p = r

\* A step that only rearranges leaves no body in two places and breaks none.
LEMMA RearrangedUnique ==
  ASSUME NEW q, NEW q2, NEW oi, NEW op, NEW gone, ComesFrom(q, q2, oi, op), Unique(q, gone)
  PROVE  Unique(q2, gone)
<1>1. ASSUME NEW i \in DOMAIN q2, NEW j \in DOMAIN q2,
             NEW p \in DOMAIN q2[i], NEW r \in DOMAIN q2[j], q2[i][p].body = q2[j][r].body
      PROVE  i = j /\ p = r
  <2>1. oi[i][p] = oi[j][r] /\ op[i][p] = op[j][r]
    BY <1>1 DEF ComesFrom, Unique
  <2> QED  BY <1>1, <2>1 DEF ComesFrom
<1>2. ASSUME NEW i \in DOMAIN q2, NEW p \in DOMAIN q2[i], NEW x \in gone
      PROVE  q2[i][p].body # x[2].body
  BY DEF ComesFrom, Unique
<1> QED  BY <1>1, <1>2 DEF Unique

LEMMA RearrangedKnown ==
  ASSUME NEW q, NEW q2, NEW oi, NEW op, NEW gone, NEW pub,
         ComesFrom(q, q2, oi, op), Known(q, gone, pub)
  PROVE  Known(q2, gone, pub)
<1>1. ASSUME NEW i \in DOMAIN q2, NEW p \in DOMAIN q2[i]
      PROVE  \E n \in DOMAIN pub :
                pub[n].body = q2[i][p].body /\ (pub[n].intact => q2[i][p].intact)
  <2>1. PICK n \in DOMAIN pub :
           /\ pub[n].body = q[oi[i][p]][op[i][p]].body
           /\ pub[n].intact => q[oi[i][p]][op[i][p]].intact
    <3>1. oi[i][p] \in DOMAIN q /\ op[i][p] \in DOMAIN q[oi[i][p]]
      BY DEF ComesFrom
    <3> QED  BY <3>1 DEF Known
  <2>2. /\ q2[i][p].body = q[oi[i][p]][op[i][p]].body
        /\ q[oi[i][p]][op[i][p]].intact => q2[i][p].intact
    BY DEF ComesFrom
  <2> QED  BY ONLY <2>1, <2>2
<1> QED  BY <1>1 DEF Known

\* What is ahead in q2 was ahead in q, and what still moves on did.
KeepsOrder(q, q2, oi, op, open) ==
    /\ \A i \in DOMAIN q2 : \A p \in DOMAIN q2[i] :
          Live(q2, open, i, p) => Live(q, open, oi[i][p], op[i][p])
    /\ \A i, j \in DOMAIN q2 : \A p \in DOMAIN q2[i], r \in DOMAIN q2[j] :
          j < i \/ (i = j /\ p < r) =>
          oi[j][r] < oi[i][p] \/ (oi[i][p] = oi[j][r] /\ op[i][p] < op[j][r])

LEMMA RearrangedOrdered ==
  ASSUME NEW q, NEW q2, NEW oi, NEW op, NEW open, NEW pub,
         ComesFrom(q, q2, oi, op), KeepsOrder(q, q2, oi, op, open), Ordered(q, open, pub)
  PROVE  Ordered(q2, open, pub)
<1> SUFFICES ASSUME NEW i \in DOMAIN q2, NEW j \in DOMAIN q2,
                    NEW p \in DOMAIN q2[i], NEW r \in DOMAIN q2[j],
                    Live(q2, open, i, p), Live(q2, open, j, r), j < i \/ (i = j /\ p < r)
             PROVE  Before(pub, q2[i][p].body, q2[j][r].body)
  BY DEF Ordered
<1>1. /\ oi[i][p] \in DOMAIN q /\ op[i][p] \in DOMAIN q[oi[i][p]]
      /\ oi[j][r] \in DOMAIN q /\ op[j][r] \in DOMAIN q[oi[j][r]]
      /\ q2[i][p].body = q[oi[i][p]][op[i][p]].body
      /\ q2[j][r].body = q[oi[j][r]][op[j][r]].body
  BY DEF ComesFrom
<1>2. /\ Live(q, open, oi[i][p], op[i][p]) /\ Live(q, open, oi[j][r], op[j][r])
      /\ oi[j][r] < oi[i][p] \/ (oi[i][p] = oi[j][r] /\ op[i][p] < op[j][r])
  BY DEF KeepsOrder
<1> QED  BY <1>1, <1>2 DEF Ordered

\* The message at the head of q[i] is taken out.
Popped(q, q2, i) ==
    /\ DOMAIN q2 = DOMAIN q /\ q2[i] = Tail(q[i])
    /\ \A a \in DOMAIN q : a # i => q2[a] = q[a]

LEMMA PoppedComesFrom ==
  ASSUME NEW M, NEW n \in Nat \ {0}, NEW q \in [1..n+1 -> Seq(M)], NEW i \in 1..n, q[i] # <<>>,
         NEW q2, Popped(q, q2, i), NEW open
  PROVE  \E oi, op : ComesFrom(q, q2, oi, op) /\ KeepsOrder(q, q2, oi, op, open)
<1> DEFINE oi == [a \in 1..n+1 |-> [p \in DOMAIN q2[a] |-> a]]
           op == [a \in 1..n+1 |-> [p \in DOMAIN q2[a] |-> IF a = i THEN p + 1 ELSE p]]
<1>1. /\ DOMAIN q = 1..n+1 /\ DOMAIN q2 = 1..n+1 /\ i \in 1..n+1
      /\ q2[i] = Tail(q[i]) /\ \A a \in 1..n+1 : a # i => q2[a] = q[a]
      /\ \A a \in 1..n+1 : q[a] \in Seq(M)
  BY DEF Popped
<1>2. ASSUME NEW a \in 1..n+1, NEW p \in DOMAIN q2[a]
      PROVE  /\ a \in Nat /\ p \in Nat /\ oi[a][p] = a /\ op[a][p] \in DOMAIN q[a]
             /\ op[a][p] = (IF a = i THEN p + 1 ELSE p) /\ q2[a][p] = q[a][op[a][p]]
  <2>1. CASE a = i
    BY <1>1, <2>1, TailPlaces
  <2>2. CASE a # i
    <3>1. q2[a] = q[a] /\ q[a] \in Seq(M)
      BY <1>1, <2>2
    <3> QED  BY <2>2, <3>1
  <2> QED  BY <2>1, <2>2
<1> HIDE DEF oi, op
<1>3. ASSUME NEW a \in DOMAIN q2, NEW b \in DOMAIN q2, NEW p \in DOMAIN q2[a], NEW r \in DOMAIN q2[b]
      PROVE  /\ oi[a][p] = oi[b][r] /\ op[a][p] = op[b][r] => a = b /\ p = r
             /\ b < a \/ (a = b /\ p < r) =>
                oi[b][r] < oi[a][p] \/ (oi[a][p] = oi[b][r] /\ op[a][p] < op[b][r])
  <2>1. oi[a][p] = a /\ oi[b][r] = b /\ a \in Nat /\ b \in Nat /\ p \in Nat /\ r \in Nat
    BY <1>1, <1>2
  <2>2. /\ op[a][p] = (IF a = i THEN p + 1 ELSE p)
        /\ op[b][r] = (IF b = i THEN r + 1 ELSE r)
    BY <1>1, <1>2
  <2>3. CASE a = b
    <3>1. CASE a = i
      BY <2>1, <2>2, <2>3, <3>1
    <3>2. CASE a # i
      BY <2>1, <2>2, <2>3, <3>2
    <3> QED  BY <3>1, <3>2
  <2> QED  BY <2>1, <2>3
<1>4. ASSUME NEW a \in DOMAIN q2, NEW p \in DOMAIN q2[a]
      PROVE  /\ oi[a][p] \in DOMAIN q /\ op[a][p] \in DOMAIN q[oi[a][p]]
             /\ q2[a][p].body = q[oi[a][p]][op[a][p]].body
             /\ q[oi[a][p]][op[a][p]].intact => q2[a][p].intact
             /\ Live(q2, open, a, p) => Live(q, open, oi[a][p], op[a][p])
  BY <1>1, <1>2 DEF Live
<1>5. ComesFrom(q, q2, oi, op)
  BY <1>3, <1>4 DEF ComesFrom
<1>6. KeepsOrder(q, q2, oi, op, open)
  BY <1>3, <1>4 DEF KeepsOrder
<1> QED  BY <1>5, <1>6

\* The message at the head of q[i] moves to the end of q[i+1], where it is m.
Moved(q, q2, i, m) ==
    /\ DOMAIN q2 = DOMAIN q /\ q2[i] = Tail(q[i]) /\ q2[i+1] = Append(q[i+1], m)
    /\ \A a \in DOMAIN q : a # i /\ a # i + 1 => q2[a] = q[a]

LEMMA MovedComesFrom ==
  ASSUME NEW M, NEW n \in Nat \ {0}, NEW q \in [1..n+1 -> Seq(M)], NEW i \in 1..n, q[i] # <<>>,
         NEW m \in M, m.body = q[i][1].body, q[i][1].intact => m.intact,
         NEW q2, Moved(q, q2, i, m), NEW open, Live(q, open, i, 1)
  PROVE  \E oi, op : ComesFrom(q, q2, oi, op) /\ KeepsOrder(q, q2, oi, op, open)
<1> DEFINE last == Len(q[i+1]) + 1
           new(a, p) == a = i + 1 /\ p = last
           oi == [a \in 1..n+1 |-> [p \in DOMAIN q2[a] |-> IF new(a, p) THEN i ELSE a]]
           op == [a \in 1..n+1 |-> [p \in DOMAIN q2[a] |->
                                       IF a = i THEN p + 1 ELSE IF new(a, p) THEN 1 ELSE p]]
<1>1. /\ DOMAIN q = 1..n+1 /\ DOMAIN q2 = 1..n+1 /\ i \in 1..n+1 /\ i + 1 \in 1..n+1 /\ i # i + 1
      /\ q2[i] = Tail(q[i]) /\ q2[i+1] = Append(q[i+1], m)
      /\ \A a \in 1..n+1 : a # i /\ a # i + 1 => q2[a] = q[a]
      /\ \A a \in 1..n+1 : q[a] \in Seq(M)
  BY DEF Moved
<1>2. /\ \A p \in DOMAIN q2[i] : p \in Nat \ {0} /\ p + 1 \in DOMAIN q[i] /\ q2[i][p] = q[i][p+1]
      /\ 1 \in DOMAIN q[i]
  <2>1. q[i] \in Seq(M)
    BY <1>1
  <2> QED  BY <1>1, <2>1, TailPlaces
<1>3. /\ last \in Nat \ {0} /\ q2[i+1][last] = m
      /\ \A p \in DOMAIN q2[i+1] :
            /\ p \in Nat /\ p <= last
            /\ p # last => p \in DOMAIN q[i+1] /\ q2[i+1][p] = q[i+1][p]
  <2>1. q[i+1] \in Seq(M)
    BY <1>1
  <2>2. /\ Len(q[i+1]) \in Nat /\ Append(q[i+1], m)[last] = m
        /\ DOMAIN q[i+1] = 1..Len(q[i+1]) /\ DOMAIN Append(q[i+1], m) = 1..last
        /\ \A p \in DOMAIN q[i+1] : Append(q[i+1], m)[p] = q[i+1][p]
    BY <2>1, AppendPlaces
  <2> QED  BY <1>1, <2>2
<1>4. ASSUME NEW a \in 1..n+1, NEW p \in DOMAIN q2[a]
      PROVE  /\ a \in Nat /\ p \in Nat
             /\ oi[a][p] = (IF new(a, p) THEN i ELSE a)
             /\ op[a][p] = (IF a = i THEN p + 1 ELSE IF new(a, p) THEN 1 ELSE p)
             /\ a # i /\ ~new(a, p) => p \in DOMAIN q[a] /\ q2[a][p] = q[a][p]
  <2>1. p \in Nat /\ (a # i /\ ~new(a, p) => p \in DOMAIN q[a] /\ q2[a][p] = q[a][p])
    <3>1. CASE a = i
      BY <1>2, <3>1
    <3>2. CASE a = i + 1
      BY <1>3, <3>2
    <3>3. CASE a # i /\ a # i + 1
      <4>1. q2[a] = q[a] /\ q[a] \in Seq(M)
        BY <1>1, <3>3
      <4> QED  BY <4>1
    <3> QED  BY <3>1, <3>2, <3>3
  <2> HIDE DEF last
  <2> QED  BY <2>1
<1> HIDE DEF last, oi, op
<1>5. ASSUME NEW a \in DOMAIN q2, NEW p \in DOMAIN q2[a]
      PROVE  /\ oi[a][p] \in DOMAIN q /\ op[a][p] \in DOMAIN q[oi[a][p]]
             /\ q2[a][p].body = q[oi[a][p]][op[a][p]].body
             /\ q[oi[a][p]][op[a][p]].intact => q2[a][p].intact
             /\ Live(q2, open, a, p) => Live(q, open, oi[a][p], op[a][p])
  <2>1. CASE a = i
    <3>1. oi[a][p] = i /\ op[a][p] = p + 1 /\ p + 1 \in DOMAIN q[i] /\ q2[i][p] = q[i][p+1]
      <4>1. p \in DOMAIN q2[i] /\ ~new(a, p)
        BY <1>1, <2>1
      <4>2. p + 1 \in DOMAIN q[i] /\ q2[i][p] = q[i][p+1]
        BY <1>2, <4>1
      <4>3. oi[a][p] = i /\ op[a][p] = p + 1
        BY <1>1, <1>4, <2>1, <4>1
      <4> QED  BY <4>2, <4>3
    <3> QED  BY <1>1, <2>1, <3>1 DEF Live
  <2>2. CASE new(a, p)
    <3>1. oi[a][p] = i /\ op[a][p] = 1 /\ 1 \in DOMAIN q[i] /\ q2[a][p] = m
      BY <1>1, <1>2, <1>3, <1>4, <2>2
    <3> QED  BY <1>1, <3>1 DEF Live
  <2>3. CASE a # i /\ ~new(a, p)
    <3>1. oi[a][p] = a /\ op[a][p] = p /\ p \in DOMAIN q[a] /\ q2[a][p] = q[a][p]
      <4>1. a \in 1..n+1
        BY <1>1
      <4> HIDE DEF new
      <4> QED  BY ONLY <1>4, <2>3, <4>1, p \in DOMAIN q2[a]
    <3> QED  BY <1>1, <3>1 DEF Live
  <2> QED  BY <2>1, <2>2, <2>3
<1>6. ASSUME NEW a \in DOMAIN q2, NEW b \in DOMAIN q2, NEW p \in DOMAIN q2[a], NEW r \in DOMAIN q2[b]
      PROVE  /\ oi[a][p] = oi[b][r] /\ op[a][p] = op[b][r] => a = b /\ p = r
             /\ b < a \/ (a = b /\ p < r) =>
                oi[b][r] < oi[a][p] \/ (oi[a][p] = oi[b][r] /\ op[a][p] < op[b][r])
  <2>0. a \in 1..n+1 /\ b \in 1..n+1
    BY <1>1
  <2>1. a \in Nat /\ b \in Nat /\ p \in Nat /\ r \in Nat /\ i \in Nat
    BY <1>4, <2>0
  <2>2. /\ oi[a][p] = (IF new(a, p) THEN i ELSE a)
        /\ op[a][p] = (IF a = i THEN p + 1 ELSE IF new(a, p) THEN 1 ELSE p)
    <3> HIDE DEF new
    <3> QED  BY ONLY <1>4, <2>0, p \in DOMAIN q2[a]
  <2>3. /\ oi[b][r] = (IF new(b, r) THEN i ELSE b)
        /\ op[b][r] = (IF b = i THEN r + 1 ELSE IF new(b, r) THEN 1 ELSE r)
    <3> HIDE DEF new
    <3> QED  BY ONLY <1>4, <2>0, r \in DOMAIN q2[b]
  <2>4. (a = i => p # 0) /\ (b = i => r # 0)
    BY <1>2
  <2>5. (a = i + 1 => p <= last) /\ (b = i + 1 => r <= last) /\ last \in Nat
    BY <1>3
  <2>6. CASE new(a, p)
    <3>1. oi[a][p] = i /\ op[a][p] = 1
      BY <2>1, <2>2, <2>6
    <3>2. CASE new(b, r)
      <4>1. a = b /\ p = r
        BY <2>6, <3>2
      <4> QED  BY <2>1, <4>1
    <3>3. CASE ~new(b, r) /\ b = i
      <4>1. oi[b][r] = i /\ op[b][r] = r + 1
        BY <2>3, <3>3
      <4> QED  BY <2>1, <2>4, <2>6, <3>1, <3>3, <4>1
    <3>4. CASE ~new(b, r) /\ b # i
      <4>1. oi[b][r] = b /\ op[b][r] = r
        BY <2>3, <3>4
      <4> QED  BY <2>1, <2>5, <2>6, <3>1, <3>4, <4>1
    <3> QED  BY <3>2, <3>3, <3>4
  <2>7. CASE ~new(a, p) /\ new(b, r)
    <3>1. oi[b][r] = i /\ op[b][r] = 1
      BY <2>1, <2>3, <2>7
    <3>2. CASE a = i
      <4>1. oi[a][p] = i /\ op[a][p] = p + 1
        BY <2>2, <2>7, <3>2
      <4> QED  BY <2>1, <2>4, <2>7, <3>1, <3>2, <4>1
    <3>3. CASE a # i
      <4>1. oi[a][p] = a /\ op[a][p] = p
        BY <2>2, <2>7, <3>3
      <4> QED  BY <2>1, <2>5, <2>7, <3>1, <3>3, <4>1
    <3> QED  BY <3>2, <3>3
  <2>8. CASE ~new(a, p) /\ ~new(b, r)
    <3>1. oi[a][p] = a /\ oi[b][r] = b
      BY <2>2, <2>3, <2>8
    <3>2. CASE a = b
      <4>1. CASE a = i
        BY <2>1, <2>2, <2>3, <2>8, <3>1, <3>2, <4>1
      <4>2. CASE a # i
        BY <2>1, <2>2, <2>3, <2>8, <3>1, <3>2, <4>2
      <4> QED  BY <4>1, <4>2
    <3> QED  BY <2>1, <3>1, <3>2
  <2> QED  BY <2>6, <2>7, <2>8
<1>7. ComesFrom(q, q2, oi, op)
  BY <1>5, <1>6 DEF ComesFrom
<1>8. KeepsOrder(q, q2, oi, op, open)
  BY <1>5, <1>6 DEF KeepsOrder
<1> QED  BY <1>7, <1>8

-----------------------------------------------------------------------------
(***************************************************************************)
(* What each effect on a line does to its invariant.                       *)
(***************************************************************************)
\* All but the head of q[i] is still there.
Keeps(q, q2, i) ==
    \A a \in DOMAIN q : \A p \in DOMAIN q[a] : ~(a = i /\ p = 1) =>
       \E r \in DOMAIN q2[a] : q2[a][r] = q[a][p]

LEMMA PoppedKeeps ==
  ASSUME NEW M, NEW n \in Nat \ {0}, NEW q \in [1..n+1 -> Seq(M)], NEW i \in 1..n, q[i] # <<>>,
         NEW q2, Popped(q, q2, i)
  PROVE  Keeps(q, q2, i)
<1> SUFFICES ASSUME NEW a \in DOMAIN q, NEW p \in DOMAIN q[a], ~(a = i /\ p = 1)
             PROVE  \E r \in DOMAIN q2[a] : q2[a][r] = q[a][p]
  BY DEF Keeps
<1>1. CASE a = i
  <2>1. q2[i] = Tail(q[i]) /\ q[i] \in Seq(M) /\ p # 1 /\ p \in DOMAIN q[i]
    BY <1>1 DEF Popped
  <2>2. p - 1 \in DOMAIN Tail(q[i]) /\ Tail(q[i])[p-1] = q[i][p]
    BY <2>1, TailPlaces
  <2> QED  BY <1>1, <2>1, <2>2
<1>2. CASE a # i
  BY <1>2 DEF Popped
<1> QED  BY <1>1, <1>2

LEMMA LinePopped ==
  ASSUME NEW M, NEW n \in Nat \ {0}, NEW q \in [1..n+1 -> Seq(M)], NEW i \in 1..n, q[i] # <<>>,
         NEW q2, Popped(q, q2, i), NEW gone, NEW pub, NEW dropped, OnLine(q, gone, pub, dropped),
         \A k \in DOMAIN pub :
            pub[k].body = q[i][1].body => ~pub[k].intact \/ pub[k].body \in dropped
  PROVE  OnLine(q2, gone, pub, dropped)
<1>0. Keeps(q, q2, i)
  BY PoppedKeeps
<1>1. PICK oi, op : ComesFrom(q, q2, oi, op)
  BY PoppedComesFrom
<1>2. Unique(q2, gone) /\ Known(q2, gone, pub)
  BY <1>1, RearrangedUnique, RearrangedKnown DEF OnLine
<1>3. ASSUME NEW k \in DOMAIN pub, pub[k].intact, pub[k].body \notin dropped
      PROVE  \/ \E a \in DOMAIN q2 : \E r \in DOMAIN q2[a] : q2[a][r].body = pub[k].body
             \/ \E x \in gone : x[2].body = pub[k].body
  <2>1. CASE \E x \in gone : x[2].body = pub[k].body
    BY <2>1
  <2>2. ASSUME NEW a \in DOMAIN q, NEW p \in DOMAIN q[a], q[a][p].body = pub[k].body
        PROVE  \E b \in DOMAIN q2 : \E r \in DOMAIN q2[b] : q2[b][r].body = pub[k].body
    <3>1. ~(a = i /\ p = 1)
      BY <1>3, <2>2
    <3>2. a \in 1..n+1 /\ a \in DOMAIN q2
      BY DEF Popped
    <3>3. PICK r \in DOMAIN q2[a] : q2[a][r] = q[a][p]
      BY <1>0, <3>1, <3>2 DEF Keeps
    <3> QED  BY <2>2, <3>2, <3>3
  <2> QED  BY <1>3, <2>1, <2>2 DEF OnLine, Present
<1> QED  BY <1>2, <1>3 DEF OnLine, Present

\* The head is lost on its way to the next loop.
LEMMA LineLost ==
  ASSUME NEW M, NEW n \in Nat \ {0}, NEW q \in [1..n+1 -> Seq(M)], NEW i \in 1..n, q[i] # <<>>,
         NEW q2, Popped(q, q2, i), NEW gone, NEW pub, NEW dropped, OnLine(q, gone, pub, dropped),
         NEW x, x[2].body = q[i][1].body
  PROVE  OnLine(q2, gone \cup {x}, pub, dropped)
<1> USE DEF OnLine
<1>0. 1 \in DOMAIN q[i] /\ i \in DOMAIN q
  BY TailPlaces
<1>1. PICK oi, op : ComesFrom(q, q2, oi, op)
  BY PoppedComesFrom
<1>2. Unique(q2, gone) /\ Known(q2, gone, pub)
  BY <1>1, RearrangedUnique, RearrangedKnown
<1>3. ASSUME NEW a \in DOMAIN q2, NEW r \in DOMAIN q2[a]
      PROVE  q2[a][r].body # x[2].body
  <2>1. a \in 1..n+1 /\ DOMAIN q = 1..n+1
    BY DEF Popped
  <2>2. CASE a = i
    <3>1. r + 1 \in DOMAIN q[i] /\ q2[i][r] = q[i][r+1] /\ r + 1 # 1
      BY <2>2, TailPlaces DEF Popped
    <3> QED  BY <1>0, <2>2, <3>1 DEF Unique
  <2>3. CASE a # i
    <3>1. q2[a] = q[a]
      BY <2>1, <2>3 DEF Popped
    <3> QED  BY <1>0, <2>1, <2>3, <3>1 DEF Unique
  <2> QED  BY <2>2, <2>3
<1>4. \A y \in gone : y[2].body # x[2].body
  BY <1>0 DEF Unique
<1>5. Unique(q2, gone \cup {x})
  BY <1>2, <1>3, <1>4 DEF Unique
<1>6. Known(q2, gone \cup {x}, pub)
  <2>1. \E k \in DOMAIN pub : pub[k].body = x[2].body
    BY <1>0 DEF Known
  <2> QED  BY <1>2, <2>1 DEF Known
<1>7. Present(q2, gone \cup {x}, pub, dropped)
  <2>0. Keeps(q, q2, i)
    BY PoppedKeeps
  <2> SUFFICES ASSUME NEW k \in DOMAIN pub, pub[k].intact, pub[k].body \notin dropped,
                      \A y \in gone \cup {x} : y[2].body # pub[k].body
               PROVE  \E b \in DOMAIN q2 : \E r \in DOMAIN q2[b] : q2[b][r].body = pub[k].body
    BY DEF Present
  <2>1. PICK a \in DOMAIN q : \E p \in DOMAIN q[a] : q[a][p].body = pub[k].body
    BY DEF Present
  <2>2. PICK p \in DOMAIN q[a] : q[a][p].body = pub[k].body
    BY <2>1
  <2>3. ~(a = i /\ p = 1) /\ a \in 1..n+1 /\ a \in DOMAIN q2
    BY <2>2 DEF Popped
  <2>4. PICK r \in DOMAIN q2[a] : q2[a][r] = q[a][p]
    BY <2>0, <2>3 DEF Keeps
  <2> QED  BY <2>2, <2>3, <2>4
<1> QED  BY <1>5, <1>6, <1>7

LEMMA LineMoved ==
  ASSUME NEW M, NEW n \in Nat \ {0}, NEW q \in [1..n+1 -> Seq(M)], NEW i \in 1..n, q[i] # <<>>,
         NEW m \in M, m.body = q[i][1].body, q[i][1].intact => m.intact,
         NEW q2, Moved(q, q2, i, m),
         NEW gone, NEW pub, NEW dropped, OnLine(q, gone, pub, dropped)
  PROVE  OnLine(q2, gone, pub, dropped)
<1>1. PICK oi, op : ComesFrom(q, q2, oi, op)
  BY MovedComesFrom, Live(q, {i}, i, 1) DEF Live
<1>2. Unique(q2, gone) /\ Known(q2, gone, pub)
  BY <1>1, RearrangedUnique, RearrangedKnown DEF OnLine
<1>3. ASSUME NEW a \in DOMAIN q, NEW p \in DOMAIN q[a]
      PROVE  \E b \in DOMAIN q2 : \E r \in DOMAIN q2[b] : q2[b][r].body = q[a][p].body
  <2>0. /\ DOMAIN q = 1..n+1 /\ DOMAIN q2 = 1..n+1 /\ i \in 1..n+1 /\ i + 1 \in 1..n+1
        /\ q[i] \in Seq(M) /\ q[i+1] \in Seq(M)
        /\ q2[i] = Tail(q[i]) /\ q2[i+1] = Append(q[i+1], m)
    BY DEF Moved
  <2>1. CASE a = i /\ p = 1
    BY <2>0, <2>1, AppendPlaces
  <2>2. CASE a = i /\ p # 1
    <3>1. p - 1 \in DOMAIN Tail(q[i]) /\ Tail(q[i])[p-1] = q[i][p]
      BY <2>0, <2>2, TailPlaces
    <3> QED  BY <2>0, <2>2, <3>1
  <2>3. CASE a = i + 1
    <3>1. p \in DOMAIN Append(q[i+1], m) /\ Append(q[i+1], m)[p] = q[i+1][p]
      BY <2>0, <2>3, AppendPlaces
    <3> QED  BY <2>0, <2>3, <3>1
  <2>4. CASE a # i /\ a # i + 1
    <3>1. q2[a] = q[a]
      BY <2>4 DEF Moved
    <3> QED  BY <2>0, <3>1
  <2> QED  BY <2>1, <2>2, <2>3, <2>4
<1>4. Present(q2, gone, pub, dropped)
  <2> SUFFICES ASSUME NEW k \in DOMAIN pub, pub[k].intact, pub[k].body \notin dropped,
                      \A y \in gone : y[2].body # pub[k].body
               PROVE  \E b \in DOMAIN q2 : \E r \in DOMAIN q2[b] : q2[b][r].body = pub[k].body
    BY DEF Present
  <2>1. PICK a \in DOMAIN q : \E p \in DOMAIN q[a] : q[a][p].body = pub[k].body
    BY DEF OnLine, Present
  <2>2. PICK p \in DOMAIN q[a] : q[a][p].body = pub[k].body
    BY <2>1
  <2> QED  BY <1>3, <2>2
<1> QED  BY <1>2, <1>4 DEF OnLine

\* A message of a body nobody published before joins the line, or does not.
LEMMA LineEntered ==
  ASSUME NEW M, NEW n \in Nat \ {0}, NEW q \in [1..n+1 -> Seq(M)], NEW i \in 1..n, NEW m \in M,
         NEW q2, q2 = [q EXCEPT ![i] = Append(q[i], m)],
         NEW gone, NEW pub \in Seq(M), \A k \in DOMAIN pub : pub[k].body # m.body,
         NEW dropped, OnLine(q, gone, pub, dropped)
  PROVE  OnLine(q2, gone, Append(pub, m), dropped)
<1> DEFINE pub2 == Append(pub, m)
           last == Len(q[i]) + 1
<1>1. /\ DOMAIN q = 1..n+1 /\ DOMAIN q2 = 1..n+1 /\ i \in DOMAIN q /\ q[i] \in Seq(M)
      /\ q2[i] = Append(q[i], m) /\ \A a \in DOMAIN q : a # i => q2[a] = q[a]
  OBVIOUS
<1>2. /\ DOMAIN q2[i] = DOMAIN q[i] \cup {last} /\ last \notin DOMAIN q[i] /\ q2[i][last] = m
      /\ \A p \in DOMAIN q[i] : q2[i][p] = q[i][p]
  BY <1>1, AppendPlaces
<1>3. /\ DOMAIN pub2 = DOMAIN pub \cup {Len(pub) + 1} /\ pub2[Len(pub)+1] = m
      /\ \A k \in DOMAIN pub : pub2[k] = pub[k]
  BY AppendPlaces
<1> HIDE DEF pub2, last
<1>4. ASSUME NEW a \in DOMAIN q2, NEW p \in DOMAIN q2[a]
      PROVE  \/ a = i /\ p = last /\ q2[a][p] = m
             \/ a \in DOMAIN q /\ p \in DOMAIN q[a] /\ q2[a][p] = q[a][p]
  BY <1>1, <1>2
<1>5. \A a \in DOMAIN q : \A p \in DOMAIN q[a] : q[a][p].body # m.body
  BY DEF OnLine, Known
<1>6. \A x \in gone : x[2].body # m.body
  BY DEF OnLine, Known
<1>7. Unique(q2, gone)
  <2>1. ASSUME NEW a \in DOMAIN q2, NEW b \in DOMAIN q2,
               NEW p \in DOMAIN q2[a], NEW r \in DOMAIN q2[b], q2[a][p].body = q2[b][r].body
        PROVE  a = b /\ p = r
    <3>1. CASE a = i /\ p = last /\ b = i /\ r = last
      BY <3>1
    <3>2. CASE q2[a][p] = m /\ b \in DOMAIN q /\ r \in DOMAIN q[b] /\ q2[b][r] = q[b][r]
      BY <1>5, <2>1, <3>2
    <3>3. CASE q2[b][r] = m /\ a \in DOMAIN q /\ p \in DOMAIN q[a] /\ q2[a][p] = q[a][p]
      BY <1>5, <2>1, <3>3
    <3>4. CASE /\ a \in DOMAIN q /\ p \in DOMAIN q[a] /\ q2[a][p] = q[a][p]
               /\ b \in DOMAIN q /\ r \in DOMAIN q[b] /\ q2[b][r] = q[b][r]
      BY <2>1, <3>4 DEF OnLine, Unique
    <3>5. \/ a = i /\ p = last /\ q2[a][p] = m
          \/ a \in DOMAIN q /\ p \in DOMAIN q[a] /\ q2[a][p] = q[a][p]
      BY <1>4
    <3>6. \/ b = i /\ r = last /\ q2[b][r] = m
          \/ b \in DOMAIN q /\ r \in DOMAIN q[b] /\ q2[b][r] = q[b][r]
      BY <1>4
    <3> QED  BY ONLY <3>1, <3>2, <3>3, <3>4, <3>5, <3>6
  <2>2. ASSUME NEW a \in DOMAIN q2, NEW p \in DOMAIN q2[a], NEW x \in gone
        PROVE  q2[a][p].body # x[2].body
    BY <1>4, <1>6 DEF OnLine, Unique
  <2> QED  BY <2>1, <2>2 DEF OnLine, Unique
<1>8. Known(q2, gone, pub2)
  <2>1. ASSUME NEW a \in DOMAIN q2, NEW p \in DOMAIN q2[a]
        PROVE  \E k \in DOMAIN pub2 :
                  pub2[k].body = q2[a][p].body /\ (pub2[k].intact => q2[a][p].intact)
    <3>1. CASE q2[a][p] = m
      BY <1>3, <3>1
    <3>2. CASE a \in DOMAIN q /\ p \in DOMAIN q[a] /\ q2[a][p] = q[a][p]
      <4>1. PICK k \in DOMAIN pub : pub[k].body = q[a][p].body /\ (pub[k].intact => q[a][p].intact)
        BY <3>2 DEF OnLine, Known
      <4> QED  BY <1>3, <3>2, <4>1
    <3> QED  BY <1>4, <3>1, <3>2
  <2>2. ASSUME NEW x \in gone PROVE \E k \in DOMAIN pub2 : pub2[k].body = x[2].body
    <3>1. PICK k \in DOMAIN pub : pub[k].body = x[2].body
      BY DEF OnLine, Known
    <3> QED  BY <1>3, <3>1
  <2> QED  BY <2>1, <2>2 DEF Known
<1>9. Present(q2, gone, pub2, dropped)
  <2>1. ASSUME NEW k \in DOMAIN pub2, pub2[k].intact, pub2[k].body \notin dropped
        PROVE  \/ \E a \in DOMAIN q2 : \E p \in DOMAIN q2[a] : q2[a][p].body = pub2[k].body
               \/ \E x \in gone : x[2].body = pub2[k].body
    <3>1. CASE k \in DOMAIN pub
      <4>1. pub2[k] = pub[k]
        BY <1>3, <3>1
      <4>2. \/ \E a \in DOMAIN q : \E p \in DOMAIN q[a] : q[a][p].body = pub[k].body
            \/ \E x \in gone : x[2].body = pub[k].body
        BY <2>1, <3>1, <4>1 DEF OnLine, Present
      <4>3. ASSUME NEW a \in DOMAIN q, NEW p \in DOMAIN q[a], q[a][p].body = pub[k].body
            PROVE  \E b \in DOMAIN q2 : \E r \in DOMAIN q2[b] : q2[b][r].body = pub[k].body
        <5>1. a \in DOMAIN q2 /\ p \in DOMAIN q2[a] /\ q2[a][p] = q[a][p]
          BY <1>1, <1>2
        <5> QED  BY <4>3, <5>1
      <4>4. CASE \E a \in DOMAIN q : \E p \in DOMAIN q[a] : q[a][p].body = pub[k].body
        <5>1. \E b \in DOMAIN q2 : \E r \in DOMAIN q2[b] : q2[b][r].body = pub[k].body
          BY ONLY <4>3, <4>4
        <5> QED  BY ONLY <4>1, <5>1
      <4>5. CASE \E x \in gone : x[2].body = pub[k].body
        BY ONLY <4>1, <4>5
      <4> QED  BY ONLY <4>2, <4>4, <4>5
    <3>2. CASE k = Len(pub) + 1
      <4>1. i \in DOMAIN q2 /\ last \in DOMAIN q2[i]
        BY <1>1, <1>2
      <4>2. q2[i][last].body = pub2[k].body
        BY <1>2, <1>3, <3>2
      <4> QED  BY <4>1, <4>2
    <3>3. k \in DOMAIN pub \/ k = Len(pub) + 1
      BY <1>3
    <3> QED  BY ONLY <3>1, <3>2, <3>3
  <2> QED  BY <2>1 DEF Present
<1> QED  BY <1>7, <1>8, <1>9 DEF OnLine, pub2

LEMMA LineMissed ==
  ASSUME NEW M, NEW q, NEW gone, NEW pub \in Seq(M), NEW m \in M,
         \A k \in DOMAIN pub : pub[k].body # m.body,
         NEW x, x[2] = m, NEW dropped, OnLine(q, gone, pub, dropped)
  PROVE  OnLine(q, gone \cup {x}, Append(pub, m), dropped)
<1> DEFINE pub2 == Append(pub, m)
<1>1. /\ DOMAIN pub2 = DOMAIN pub \cup {Len(pub) + 1} /\ pub2[Len(pub)+1] = m
      /\ \A k \in DOMAIN pub : pub2[k] = pub[k]
  BY AppendPlaces
<1> HIDE DEF pub2
<1>2. Unique(q, gone \cup {x})
  <2>1. /\ \A a \in DOMAIN q : \A p \in DOMAIN q[a] : q[a][p].body # m.body
        /\ \A y \in gone : y[2].body # m.body
    BY DEF OnLine, Known
  <2> QED  BY <2>1 DEF OnLine, Unique
<1>3. Known(q, gone \cup {x}, pub2)
  <2>1. ASSUME NEW a \in DOMAIN q, NEW p \in DOMAIN q[a]
        PROVE  \E k \in DOMAIN pub2 :
                  pub2[k].body = q[a][p].body /\ (pub2[k].intact => q[a][p].intact)
    <3>1. PICK k \in DOMAIN pub : pub[k].body = q[a][p].body /\ (pub[k].intact => q[a][p].intact)
      BY DEF OnLine, Known
    <3> QED  BY <1>1, <3>1
  <2>2. ASSUME NEW y \in gone \cup {x} PROVE \E k \in DOMAIN pub2 : pub2[k].body = y[2].body
    BY <1>1 DEF OnLine, Known
  <2> QED  BY <2>1, <2>2 DEF Known
<1>4. Present(q, gone \cup {x}, pub2, dropped)
  BY <1>1 DEF OnLine, Present
<1> QED  BY <1>2, <1>3, <1>4 DEF OnLine, pub2

LEMMA LinePassedBy ==
  ASSUME NEW M, NEW q, NEW gone, NEW pub \in Seq(M), NEW m \in M, ~m.intact,
         NEW dropped, OnLine(q, gone, pub, dropped)
  PROVE  OnLine(q, gone, Append(pub, m), dropped)
<1> DEFINE pub2 == Append(pub, m)
<1>1. /\ DOMAIN pub2 = DOMAIN pub \cup {Len(pub) + 1} /\ pub2[Len(pub)+1] = m
      /\ \A k \in DOMAIN pub : pub2[k] = pub[k]
  BY AppendPlaces
<1> HIDE DEF pub2
<1>2. Known(q, gone, pub2)
  <2>1. ASSUME NEW a \in DOMAIN q, NEW p \in DOMAIN q[a]
        PROVE  \E k \in DOMAIN pub2 :
                  pub2[k].body = q[a][p].body /\ (pub2[k].intact => q[a][p].intact)
    <3>1. PICK k \in DOMAIN pub : pub[k].body = q[a][p].body /\ (pub[k].intact => q[a][p].intact)
      BY DEF OnLine, Known
    <3> QED  BY <1>1, <3>1
  <2>2. ASSUME NEW y \in gone PROVE \E k \in DOMAIN pub2 : pub2[k].body = y[2].body
    BY <1>1 DEF OnLine, Known
  <2> QED  BY <2>1, <2>2 DEF Known
<1>3. Present(q, gone, pub2, dropped)
  BY <1>1 DEF OnLine, Present
<1> QED  BY <1>2, <1>3 DEF OnLine, pub2

\* All that waits on the line is lost.
Emptied(q, q2, n, way, gone, gone2) ==
    /\ DOMAIN q2 = DOMAIN q /\ q2[n+1] = q[n+1]
    /\ \A i \in 1..n : q2[i] = <<>>
    /\ \A x \in gone2 : x \in gone \/ \E i \in 1..n : \E p \in DOMAIN q[i] : x = <<way[i], q[i][p]>>
    /\ gone \subseteq gone2
    /\ \A i \in 1..n : \A p \in DOMAIN q[i] : <<way[i], q[i][p]>> \in gone2

LEMMA LineEmptied ==
  ASSUME NEW M, NEW n \in Nat \ {0}, NEW q \in [1..n+1 -> Seq(M)], NEW q2, NEW way,
         NEW gone, NEW gone2, Emptied(q, q2, n, way, gone, gone2),
         NEW pub, NEW dropped, OnLine(q, gone, pub, dropped)
  PROVE  OnLine(q2, gone2, pub, dropped)
<1>0. /\ DOMAIN q = 1..n+1 /\ DOMAIN q2 = 1..n+1
      /\ \A i \in 1..n : i \in DOMAIN q /\ i # n+1 /\ q2[i] = <<>>
      /\ q2[n+1] = q[n+1] /\ \A i \in 1..n+1 : i = n+1 \/ i \in 1..n
  BY DEF Emptied
<1>1. ASSUME NEW a \in DOMAIN q2, NEW p \in DOMAIN q2[a]
      PROVE  a = n+1 /\ a \in DOMAIN q /\ p \in DOMAIN q[a] /\ q2[a][p] = q[a][p]
  BY <1>0
<1>2. ASSUME NEW x \in gone2, x \notin gone
      PROVE  \E i \in DOMAIN q : \E p \in DOMAIN q[i] : i # n+1 /\ x = <<way[i], q[i][p]>>
  <2>1. PICK i \in 1..n : \E p \in DOMAIN q[i] : x = <<way[i], q[i][p]>>
    BY <1>2 DEF Emptied
  <2> QED  BY <1>0, <2>1
<1>3. Unique(q2, gone2)
  <2>1. ASSUME NEW a \in DOMAIN q2, NEW b \in DOMAIN q2,
               NEW p \in DOMAIN q2[a], NEW r \in DOMAIN q2[b], q2[a][p].body = q2[b][r].body
        PROVE  a = b /\ p = r
    BY <1>1, <2>1 DEF OnLine, Unique
  <2>2. ASSUME NEW a \in DOMAIN q2, NEW p \in DOMAIN q2[a], NEW x \in gone2
        PROVE  q2[a][p].body # x[2].body
    <3>1. CASE x \in gone
      BY <1>1, <3>1 DEF OnLine, Unique
    <3>2. CASE x \notin gone
      <4>1. PICK i, r : i \in DOMAIN q /\ r \in DOMAIN q[i] /\ i # n+1 /\ x = <<way[i], q[i][r]>>
        BY <1>2, <3>2
      <4> QED  BY <1>1, <4>1 DEF OnLine, Unique
    <3> QED  BY <3>1, <3>2
  <2>3. ASSUME NEW x \in gone2, NEW y \in gone2, x[2].body = y[2].body PROVE x = y
    <3>1. CASE x \in gone /\ y \in gone
      BY <2>3, <3>1 DEF OnLine, Unique
    <3>2. ASSUME NEW z \in gone, NEW u \in gone2, u \notin gone PROVE z[2].body # u[2].body
      <4>1. PICK i, r : i \in DOMAIN q /\ r \in DOMAIN q[i] /\ i # n+1 /\ u = <<way[i], q[i][r]>>
        BY <1>2, <3>2
      <4> QED  BY <4>1 DEF OnLine, Unique
    <3>3. CASE x \notin gone /\ y \notin gone
      <4>1. PICK i, p : i \in DOMAIN q /\ p \in DOMAIN q[i] /\ i # n+1 /\ x = <<way[i], q[i][p]>>
        BY <1>2, <3>3
      <4>2. PICK j, r : j \in DOMAIN q /\ r \in DOMAIN q[j] /\ j # n+1 /\ y = <<way[j], q[j][r]>>
        BY <1>2, <3>3
      <4>3. i = j /\ p = r
        BY <2>3, <4>1, <4>2 DEF OnLine, Unique
      <4> QED  BY <4>1, <4>2, <4>3
    <3> QED  BY <2>3, <3>1, <3>2, <3>3
  <2> QED  BY <2>1, <2>2, <2>3 DEF Unique
<1>4. Known(q2, gone2, pub)
  <2>1. ASSUME NEW a \in DOMAIN q2, NEW p \in DOMAIN q2[a]
        PROVE  \E k \in DOMAIN pub :
                  pub[k].body = q2[a][p].body /\ (pub[k].intact => q2[a][p].intact)
    BY <1>1 DEF OnLine, Known
  <2>2. ASSUME NEW x \in gone2 PROVE \E k \in DOMAIN pub : pub[k].body = x[2].body
    <3>1. CASE x \in gone
      BY <3>1 DEF OnLine, Known
    <3>2. CASE x \notin gone
      <4>1. PICK i, r : i \in DOMAIN q /\ r \in DOMAIN q[i] /\ i # n+1 /\ x = <<way[i], q[i][r]>>
        BY <1>2, <3>2
      <4> QED  BY <4>1 DEF OnLine, Known
    <3> QED  BY <3>1, <3>2
  <2> QED  BY <2>1, <2>2 DEF Known
<1>5. Present(q2, gone2, pub, dropped)
  <2> SUFFICES ASSUME NEW k \in DOMAIN pub, pub[k].intact, pub[k].body \notin dropped
               PROVE  \/ \E a \in DOMAIN q2 : \E p \in DOMAIN q2[a] : q2[a][p].body = pub[k].body
                      \/ \E x \in gone2 : x[2].body = pub[k].body
    BY DEF Present
  <2>1. ASSUME NEW a \in DOMAIN q, NEW p \in DOMAIN q[a], q[a][p].body = pub[k].body
        PROVE  \/ \E b \in DOMAIN q2 : \E r \in DOMAIN q2[b] : q2[b][r].body = pub[k].body
               \/ \E x \in gone2 : x[2].body = pub[k].body
    <3>1. CASE a = n+1
      BY <1>0, <2>1, <3>1
    <3>2. CASE a \in 1..n
      <4>1. <<way[a], q[a][p]>> \in gone2 /\ <<way[a], q[a][p]>>[2].body = pub[k].body
        BY <2>1, <3>2 DEF Emptied
      <4> QED  BY <4>1
    <3> QED  BY <1>0, <3>1, <3>2
  <2>2. ASSUME NEW x \in gone, x[2].body = pub[k].body
        PROVE  \E y \in gone2 : y[2].body = pub[k].body
    BY <2>2 DEF Emptied
  <2> QED  BY <2>1, <2>2 DEF OnLine, Present
<1> QED  BY <1>3, <1>4, <1>5 DEF OnLine

-----------------------------------------------------------------------------
(***************************************************************************)
(* The same for the order and the signatures.                              *)
(***************************************************************************)
LEMMA FlowPopped ==
  ASSUME NEW M, NEW n \in Nat \ {0}, NEW q \in [1..n+1 -> Seq(M)], NEW i \in 1..n, q[i] # <<>>,
         NEW q2, Popped(q, q2, i), NEW open, NEW pub, NEW way, InFlow(q, open, pub, way)
  PROVE  InFlow(q2, open, pub, way)
<1>1. PICK oi, op : ComesFrom(q, q2, oi, op) /\ KeepsOrder(q, q2, oi, op, open)
  BY PoppedComesFrom
<1>2. Ordered(q2, open, pub)
  BY <1>1, RearrangedOrdered DEF InFlow
<1>3. ASSUME NEW a \in DOMAIN q2, NEW p \in DOMAIN q2[a]
      PROVE  a \in DOMAIN q /\ \E r \in DOMAIN q[a] : q[a][r] = q2[a][p]
  <2>1. DOMAIN q = 1..n+1 /\ a \in DOMAIN q /\ i \in DOMAIN q
    BY DEF Popped
  <2>2. CASE a = i
    <3>1. q2[a] = Tail(q[i]) /\ q[i] \in Seq(M)
      BY <2>2 DEF Popped
    <3>2. p + 1 \in DOMAIN q[i] /\ Tail(q[i])[p] = q[i][p+1]
      BY <3>1, TailPlaces
    <3> QED  BY <2>1, <2>2, <3>1, <3>2
  <2>3. CASE a # i
    BY <2>1, <2>3 DEF Popped
  <2> QED  BY <2>2, <2>3
<1>4. Signed(q2, open, way)
  <2> SUFFICES ASSUME NEW a \in DOMAIN q2, NEW p \in DOMAIN q2[a], Live(q2, open, a, p)
               PROVE  q2[a][p].lineage
                      = SubSeq(way, 1, IF a = Len(way)+1 THEN Len(way)-1 ELSE a-1)
    BY DEF Signed
  <2>1. PICK r \in DOMAIN q[a] : q[a][r] = q2[a][p]
    BY <1>3
  <2>2. a \in DOMAIN q /\ Live(q, open, a, r)
    BY <1>3, <2>1 DEF Live
  <2> QED  BY <2>1, <2>2 DEF InFlow, Signed
<1> QED  BY <1>2, <1>4 DEF InFlow

LEMMA FlowMoved ==
  ASSUME NEW M, NEW n \in Nat \ {0}, NEW q \in [1..n+1 -> Seq(M)], NEW i \in 1..n, q[i] # <<>>,
         NEW m \in M, m.body = q[i][1].body, q[i][1].intact => m.intact,
         NEW q2, Moved(q, q2, i, m), NEW open, Live(q, open, i, 1),
         NEW pub, NEW way, Len(way) = n, InFlow(q, open, pub, way),
         i = n => m.lineage = SubSeq(way, 1, n-1), i # n => m.lineage = SubSeq(way, 1, i)
  PROVE  InFlow(q2, open, pub, way)
<1>1. PICK oi, op : ComesFrom(q, q2, oi, op) /\ KeepsOrder(q, q2, oi, op, open)
  BY MovedComesFrom
<1>2. Ordered(q2, open, pub)
  BY <1>1, RearrangedOrdered DEF InFlow
<1>3. ASSUME NEW a \in DOMAIN q2, NEW p \in DOMAIN q2[a]
      PROVE  /\ a \in DOMAIN q
             /\ (a = i + 1 /\ q2[a][p] = m) \/ \E r \in DOMAIN q[a] : q[a][r] = q2[a][p]
  <2>1. DOMAIN q = 1..n+1 /\ a \in DOMAIN q /\ i \in DOMAIN q /\ i + 1 \in DOMAIN q
    BY DEF Moved
  <2>2. CASE a = i
    <3>1. q2[a] = Tail(q[i]) /\ q[i] \in Seq(M)
      BY <2>2 DEF Moved
    <3>2. p + 1 \in DOMAIN q[i] /\ Tail(q[i])[p] = q[i][p+1]
      BY <3>1, TailPlaces
    <3> QED  BY <2>1, <2>2, <3>1, <3>2
  <2>3. CASE a = i + 1
    <3>1. q2[a] = Append(q[a], m) /\ q[a] \in Seq(M)
      BY <2>1, <2>3 DEF Moved
    <3>2. q2[a][p] = m \/ (p \in DOMAIN q[a] /\ q2[a][p] = q[a][p])
      BY <3>1, AppendPlaces
    <3> QED  BY <2>1, <2>3, <3>2
  <2>4. CASE a # i /\ a # i + 1
    BY <2>1, <2>4 DEF Moved
  <2> QED  BY <2>2, <2>3, <2>4
<1>4. Signed(q2, open, way)
  <2> SUFFICES ASSUME NEW a \in DOMAIN q2, NEW p \in DOMAIN q2[a], Live(q2, open, a, p)
               PROVE  q2[a][p].lineage
                      = SubSeq(way, 1, IF a = Len(way)+1 THEN Len(way)-1 ELSE a-1)
    BY DEF Signed
  <2>1. CASE a = i + 1 /\ q2[a][p] = m
    <3>1. CASE i = n
      <4>1. a = Len(way) + 1 /\ m.lineage = SubSeq(way, 1, Len(way)-1)
        BY <2>1, <3>1
      <4> QED  BY ONLY <2>1, <4>1
    <3>2. CASE i # n
      <4>1. a # Len(way) + 1 /\ a - 1 = i /\ m.lineage = SubSeq(way, 1, i)
        BY <2>1, <3>2
      <4>2. q2[a][p].lineage = SubSeq(way, 1, a-1)
        BY <2>1, <4>1
      <4> QED  BY ONLY <4>1, <4>2
    <3> QED  BY <3>1, <3>2
  <2>2. ASSUME NEW r \in DOMAIN q[a], q[a][r] = q2[a][p]
        PROVE  q2[a][p].lineage = SubSeq(way, 1, IF a = Len(way)+1 THEN Len(way)-1 ELSE a-1)
    <3>1. a \in DOMAIN q /\ Live(q, open, a, r)
      BY <1>3, <2>2 DEF Live
    <3>2. q[a][r].lineage = SubSeq(way, 1, IF a = Len(way)+1 THEN Len(way)-1 ELSE a-1)
      BY ONLY <3>1, r \in DOMAIN q[a], InFlow(q, open, pub, way) DEF InFlow, Signed
    <3> QED  BY ONLY <2>2, <3>2
  <2> QED  BY <1>3, <2>1, <2>2
<1> QED  BY <1>2, <1>4 DEF InFlow

LEMMA BeforeGrows ==
  ASSUME NEW M, NEW pub \in Seq(M), NEW m \in M, NEW b, NEW c
  PROVE  /\ Before(pub, b, c) => Before(Append(pub, m), b, c)
         /\ (\E k \in DOMAIN pub : pub[k].body = b) => Before(Append(pub, m), b, m.body)
<1>1. /\ DOMAIN Append(pub, m) = DOMAIN pub \cup {Len(pub) + 1}
      /\ Append(pub, m)[Len(pub)+1] = m
      /\ \A k \in DOMAIN pub : Append(pub, m)[k] = pub[k] /\ k < Len(pub) + 1
  BY AppendPlaces
<1>2. Before(pub, b, c) => Before(Append(pub, m), b, c)
  BY <1>1 DEF Before
<1>3. ASSUME NEW k \in DOMAIN pub, pub[k].body = b PROVE Before(Append(pub, m), b, m.body)
  BY <1>1, <1>3 DEF Before
<1> QED  BY <1>2, <1>3

\* What is published does not disturb the line it does not join.
LEMMA FlowPassedBy ==
  ASSUME NEW M, NEW q, NEW open, NEW pub \in Seq(M), NEW m \in M, NEW way,
         InFlow(q, open, pub, way)
  PROVE  InFlow(q, open, Append(pub, m), way)
BY BeforeGrows DEF InFlow, Ordered

\* What joins it at its head, or not to move on, does not either.
LEMMA FlowEntered ==
  ASSUME NEW M, NEW n \in Nat \ {0}, NEW q \in [1..n+1 -> Seq(M)], NEW i \in 1..n, NEW m \in M,
         NEW q2, q2 = [q EXCEPT ![i] = Append(q[i], m)],
         NEW gone, NEW pub \in Seq(M), Known(q, gone, pub), NEW open, NEW way, Len(way) = n,
         m.intact \/ i \in open => i = 1 /\ m.lineage = SubSeq(way, 1, 0),
         InFlow(q, open, pub, way)
  PROVE  InFlow(q2, open, Append(pub, m), way)
<1> DEFINE pub2 == Append(pub, m)
           last == Len(q[i]) + 1
<1>1. /\ DOMAIN q = 1..n+1 /\ DOMAIN q2 = 1..n+1 /\ i \in DOMAIN q /\ q[i] \in Seq(M)
      /\ q2[i] = Append(q[i], m) /\ \A a \in DOMAIN q : a # i => q2[a] = q[a]
  OBVIOUS
<1>2. /\ DOMAIN q2[i] = 1..last /\ DOMAIN q[i] = 1..last-1 /\ last \in Nat /\ q2[i][last] = m
      /\ \A p \in DOMAIN q[i] : q2[i][p] = q[i][p]
  BY <1>1, AppendPlaces
<1> HIDE DEF last
<1>3. ASSUME NEW a \in DOMAIN q2, NEW p \in DOMAIN q2[a]
      PROVE  \/ a = i /\ p = last /\ q2[a][p] = m
             \/ a \in DOMAIN q /\ p \in DOMAIN q[a] /\ q2[a][p] = q[a][p]
  BY <1>1, <1>2
<1>4. Ordered(q, open, pub2)
  BY FlowPassedBy DEF InFlow
<1> HIDE DEF pub2
<1>5. ASSUME NEW a \in DOMAIN q2, NEW b \in DOMAIN q2,
             NEW p \in DOMAIN q2[a], NEW r \in DOMAIN q2[b],
             Live(q2, open, a, p), Live(q2, open, b, r), b < a \/ (a = b /\ p < r)
      PROVE  Before(pub2, q2[a][p].body, q2[b][r].body)
  <2>1. CASE a = i /\ p = last /\ q2[a][p] = m
    <3>1. i = 1 /\ b \in 1..n+1
      BY <1>1, <1>5, <2>1 DEF Live
    <3>2. b = a /\ r \in 1..last
      BY <1>1, <1>2, <1>5, <2>1, <3>1
    <3> QED  BY <1>2, <1>5, <2>1, <3>2
  <2>2. CASE /\ a \in DOMAIN q /\ p \in DOMAIN q[a] /\ q2[a][p] = q[a][p]
             /\ b = i /\ r = last /\ q2[b][r] = m
    <3>1. \E k \in DOMAIN pub : pub[k].body = q2[a][p].body
      <4>1. PICK k \in DOMAIN pub : pub[k].body = q[a][p].body
        BY <2>2 DEF Known
      <4> QED  BY <2>2, <4>1
    <3> QED  BY <2>2, <3>1, BeforeGrows DEF pub2
  <2>3. CASE /\ a \in DOMAIN q /\ p \in DOMAIN q[a] /\ q2[a][p] = q[a][p]
             /\ b \in DOMAIN q /\ r \in DOMAIN q[b] /\ q2[b][r] = q[b][r]
    <3>1. Live(q, open, a, p) /\ Live(q, open, b, r)
      BY <1>5, <2>3 DEF Live
    <3> QED  BY <1>4, <1>5, <2>3, <3>1 DEF Ordered
  <2>4. \/ a = i /\ p = last /\ q2[a][p] = m
        \/ a \in DOMAIN q /\ p \in DOMAIN q[a] /\ q2[a][p] = q[a][p]
    BY <1>3
  <2>5. \/ b = i /\ r = last /\ q2[b][r] = m
        \/ b \in DOMAIN q /\ r \in DOMAIN q[b] /\ q2[b][r] = q[b][r]
    BY <1>3
  <2> QED  BY ONLY <2>1, <2>2, <2>3, <2>4, <2>5
<1>6. Signed(q2, open, way)
  <2> SUFFICES ASSUME NEW a \in DOMAIN q2, NEW p \in DOMAIN q2[a], Live(q2, open, a, p)
               PROVE  q2[a][p].lineage
                      = SubSeq(way, 1, IF a = Len(way)+1 THEN Len(way)-1 ELSE a-1)
    BY DEF Signed
  <2>1. CASE a = i /\ p = last /\ q2[a][p] = m
    <3>1. i = 1 /\ m.lineage = SubSeq(way, 1, 0)
      BY <2>1 DEF Live
    <3>2. (IF a = Len(way)+1 THEN Len(way)-1 ELSE a-1) = 0
      BY <2>1, <3>1
    <3> QED  BY <2>1, <3>1, <3>2
  <2>2. CASE a \in DOMAIN q /\ p \in DOMAIN q[a] /\ q2[a][p] = q[a][p]
    <3>1. Live(q, open, a, p)
      BY <2>2 DEF Live
    <3> QED  BY <2>2, <3>1 DEF InFlow, Signed
  <2> QED  BY <1>3, <2>1, <2>2
<1>7. Ordered(q2, open, pub2)
  BY ONLY <1>5 DEF Ordered
<1> QED  BY <1>6, <1>7 DEF InFlow, pub2

LEMMA FlowEmptied ==
  ASSUME NEW n \in Nat \ {0}, NEW q, DOMAIN q = 1..n+1, NEW q2, NEW open, NEW pub, NEW way,
         DOMAIN q2 = DOMAIN q, q2[n+1] = q[n+1], \A i \in 1..n : q2[i] = <<>>,
         InFlow(q, open, pub, way)
  PROVE  InFlow(q2, open, pub, way)
<1>1. ASSUME NEW a \in DOMAIN q2, NEW p \in DOMAIN q2[a]
      PROVE  a \in DOMAIN q /\ p \in DOMAIN q[a] /\ q2[a][p] = q[a][p]
  OBVIOUS
<1>2. \A a \in DOMAIN q2 : \A p \in DOMAIN q2[a] : Live(q2, open, a, p) => Live(q, open, a, p)
  BY <1>1 DEF Live
<1>3. Ordered(q2, open, pub)
  BY <1>1, <1>2 DEF InFlow, Ordered
<1>4. Signed(q2, open, way)
  BY <1>1, <1>2 DEF InFlow, Signed
<1> QED  BY <1>3, <1>4 DEF InFlow

-----------------------------------------------------------------------------
(***************************************************************************)
(* Ways through a topology.                                                *)
(***************************************************************************)
IsWay(t, way, s) ==
    LET loop == Topology[t].loops
    IN  /\ way \in Seq(DOMAIN loop) /\ Len(way) \in Nat \ {0} /\ DOMAIN way = 1..Len(way)
        /\ s \in SinksOf(t) /\ way[Len(way)] = s
        /\ \A i, j \in 1..Len(way) : way[i] = way[j] => i = j
        /\ \A i \in 1..Len(way)-1 : loop[way[i]].says = loop[way[i+1]].hears
        /\ \A k \in DOMAIN loop : loop[k].says # loop[way[1]].hears

LEMMA WayIsWay ==
  ASSUME NEW t \in DOMAIN Topology, NEW s \in SinksOf(t)
  PROVE  IsWay(t, WayTo[t][s], s)
<1> DEFINE way == WayTo[t][s]
           loop == Topology[t].loops
<1>1. \E w \in Lines(t) : LeadsTo(t, w, s)
  BY DataPlaneAssumption
<1>2. way = CHOOSE w \in Lines(t) : LeadsTo(t, w, s)
  BY DEF WayTo
<1>3. way \in Lines(t) /\ LeadsTo(t, way, s)
  BY <1>1, <1>2
<1> HIDE DEF way
<1>4. PICK n \in 1..Cardinality(DOMAIN loop) : way \in [1..n -> DOMAIN loop]
  BY <1>3 DEF Lines
<1>5. n \in Nat \ {0} /\ Len(way) = n /\ DOMAIN way = 1..n /\ way \in Seq(DOMAIN loop)
  BY <1>4
<1>6. \A i, j \in 1..n : way[i] = way[j] => i = j
  BY <1>3, <1>5 DEF LeadsTo, IsInjective
<1>7. /\ way[n] = s /\ \A i \in 1..n-1 : loop[way[i]].says = loop[way[i+1]].hears
      /\ \A k \in DOMAIN loop : loop[k].says # loop[way[1]].hears
  BY <1>3, <1>5 DEF LeadsTo
<1>8. IsWay(t, way, s)
  BY <1>5, <1>6, <1>7 DEF IsWay
<1> QED  BY <1>8 DEF way

\* Only loops that are no sinks say what a loop hears, one of them each, and it gets
\* to whoever hears it.
LEMMA Links ==
  ASSUME NEW t \in DOMAIN Topology, NEW loop, loop = Topology[t].loops
  PROVE  /\ \A k, l \in DOMAIN loop : loop[k].says = loop[l].hears =>
               /\ k \notin SinksOf(t)
               /\ loop[k].org = loop[l].org
                  \/ <<loop[k].org, loop[l].org, loop[l].hears>> \in Topology[t].grants
         /\ \A k, l \in DOMAIN loop \ SinksOf(t) : loop[k].says = loop[l].says => k = l
BY DataPlaneAssumption

\* A way hears each subject once.
LEMMA HeardOnce ==
  ASSUME NEW t \in DOMAIN Topology, NEW s, NEW way, IsWay(t, way, s),
         NEW i \in 1..Len(way), NEW j \in 1..Len(way),
         Topology[t].loops[way[i]].hears = Topology[t].loops[way[j]].hears
  PROVE  i = j
<1> DEFINE loop == Topology[t].loops
<1>0. /\ \A k, l \in DOMAIN loop : loop[k].says = loop[l].hears => k \notin SinksOf(t)
      /\ \A k, l \in DOMAIN loop \ SinksOf(t) : loop[k].says = loop[l].says => k = l
  BY Links
<1>1. ASSUME NEW a \in 1..Len(way), NEW b \in 1..Len(way), a < b
      PROVE  loop[way[a]].hears # loop[way[b]].hears
  <2>1. /\ Len(way) \in Nat /\ b-1 \in 1..Len(way)-1 /\ (b-1)+1 = b
        /\ way[b-1] \in DOMAIN loop /\ way[b] \in DOMAIN loop /\ way[a] \in DOMAIN loop
    BY <1>1 DEF IsWay
  <2>2. loop[way[b-1]].says = loop[way[b]].hears
    BY <2>1 DEF IsWay
  <2>3. CASE a = 1
    BY <2>1, <2>2, <2>3 DEF IsWay
  <2>4. CASE a # 1
    <3>1. a-1 \in 1..Len(way)-1 /\ (a-1)+1 = a /\ way[a-1] \in DOMAIN loop
      BY <1>1, <2>1, <2>4 DEF IsWay
    <3>2. loop[way[a-1]].says = loop[way[a]].hears
      BY <3>1 DEF IsWay
    <3>3. way[a-1] \notin SinksOf(t) /\ way[b-1] \notin SinksOf(t)
      BY <1>0, <2>1, <2>2, <3>1, <3>2
    <3>4. way[a-1] # way[b-1]
      BY <1>1, <2>1, <3>1 DEF IsWay
    <3>5. loop[way[a-1]].says # loop[way[b-1]].says
      BY <1>0, <2>1, <3>1, <3>3, <3>4
    <3> QED  BY <2>2, <3>2, <3>5
  <2> QED  BY <2>3, <2>4
<1>2. i \in Nat /\ j \in Nat
  BY DEF IsWay
<1> QED  BY <1>1, <1>2

LEMMA ReceiversOnWay ==
  ASSUME NEW t \in DOMAIN Topology, story = t, NEW s, NEW way, IsWay(t, way, s),
         NEW l \in DOMAIN Topology[t].loops, l \notin SinksOf(t)
  PROVE  /\ \A i \in 1..Len(way)-1 : l = way[i] =>
               Receivers(Loop(l).org, Loop(l).says) \cap Range(way) = {way[i+1]}
         /\ l \notin Range(way) => Receivers(Loop(l).org, Loop(l).says) \cap Range(way) = {}
<1> DEFINE loop == Topology[t].loops
           to   == Receivers(Loop(l).org, Loop(l).says)
<1>0. /\ \A k, m \in DOMAIN loop : loop[k].says = loop[m].hears =>
            /\ k \notin SinksOf(t)
            /\ loop[k].org = loop[m].org
               \/ <<loop[k].org, loop[m].org, loop[m].hears>> \in Topology[t].grants
      /\ \A k, m \in DOMAIN loop \ SinksOf(t) : loop[k].says = loop[m].says => k = m
  BY Links
<1>1. to = {m \in DOMAIN loop : /\ loop[m].hears = loop[l].says
                                /\ loop[m].org = loop[l].org
                                   \/ <<loop[l].org, loop[m].org, loop[l].says>> \in Topology[t].grants}
  BY DEF Receivers, Loops, Loop
<1>2. /\ Range(way) = {way[i] : i \in 1..Len(way)} /\ Len(way) \in Nat \ {0}
      /\ \A i \in 1..Len(way) : way[i] \in DOMAIN loop
  BY DEF IsWay, Range
<1>3. ASSUME NEW j \in 1..Len(way), way[j] \in to
      PROVE  j # 1 /\ j-1 \in 1..Len(way)-1 /\ l = way[j-1]
  <2>1. loop[way[j]].hears = loop[l].says
    BY <1>1, <1>3
  <2>2. j # 1
    BY <2>1 DEF IsWay
  <2>3. j-1 \in 1..Len(way)-1 /\ (j-1)+1 = j /\ way[j-1] \in DOMAIN loop
    BY <1>2, <2>2
  <2>4. loop[way[j-1]].says = loop[way[j]].hears
    BY <2>3 DEF IsWay
  <2>5. way[j-1] \notin SinksOf(t) /\ loop[way[j-1]].says = loop[l].says
    BY <1>0, <1>2, <2>1, <2>3, <2>4
  <2> QED  BY <1>0, <2>2, <2>3, <2>5
<1>4. ASSUME NEW i \in 1..Len(way)-1, l = way[i] PROVE to \cap Range(way) = {way[i+1]}
  <2>1. i+1 \in 1..Len(way) /\ i \in 1..Len(way) /\ way[i+1] \in DOMAIN loop
    BY <1>2
  <2>2. loop[l].says = loop[way[i+1]].hears
    BY <1>4 DEF IsWay
  <2>3. way[i+1] \in to
    BY <1>0, <1>1, <2>1, <2>2
  <2>4. ASSUME NEW j \in 1..Len(way), way[j] \in to PROVE j = i+1
    <3>1. way[j-1] = way[i] /\ j-1 \in 1..Len(way)
      BY <1>2, <1>3, <1>4, <2>4
    <3>2. j-1 = i
      BY <2>1, <3>1 DEF IsWay
    <3> QED  BY <1>2, <3>2
  <2> HIDE DEF to
  <2> QED  BY <1>2, <2>1, <2>3, <2>4
<1>5. ASSUME l \notin Range(way) PROVE to \cap Range(way) = {}
  <2>1. ASSUME NEW j \in 1..Len(way) PROVE way[j] \notin to
    <3>1. way[j] \in to => j-1 \in 1..Len(way) /\ l = way[j-1]
      BY <1>2, <1>3
    <3> QED  BY <1>2, <1>5, <3>1
  <2> HIDE DEF to
  <2> QED  BY <1>2, <2>1
<1> QED  BY <1>4, <1>5

\* What the outside world puts on a subject reaches one loop of a way at most, and
\* a fresh stimulus the first one.
LEMMA OneReceiver ==
  ASSUME NEW t \in DOMAIN Topology, story = t, NEW s, NEW way, IsWay(t, way, s),
         NEW org, NEW subject
  PROVE  \/ Receivers(org, subject) \cap Range(way) = {}
         \/ \E k \in 1..Len(way) : Receivers(org, subject) \cap Range(way) = {way[k]}
<1>1. Range(way) = {way[i] : i \in 1..Len(way)}
  BY DEF IsWay, Range
<1>2. ASSUME NEW i \in 1..Len(way), way[i] \in Receivers(org, subject),
             NEW j \in 1..Len(way), way[j] \in Receivers(org, subject)
      PROVE  i = j
  <2>1. Topology[t].loops[way[i]].hears = Topology[t].loops[way[j]].hears
    BY <1>2 DEF Receivers, Loop
  <2> QED  BY <2>1, HeardOnce
<1> QED  BY <1>1, <1>2

LEMMA FreshOnWay ==
  ASSUME NEW t \in DOMAIN Topology, story = t, NEW s \in SinksOf(t), NEW way, way = WayTo[t][s],
         NEW step, Fresh(t, step)
  PROVE  Receivers(step.org, step.subject) \cap Range(way) = {way[1]}
<1>1. IsWay(t, way, s)
  BY WayIsWay
<1>2. 1 \in 1..Len(way) /\ way[1] \in Range(way) /\ way[1] \in DOMAIN Topology[t].loops
  BY <1>1 DEF IsWay, Range
<1>3. way[1] \in Receivers(step.org, step.subject)
  BY <1>2 DEF Fresh, Receivers, Loop, Loops
<1> QED  BY <1>1, <1>2, <1>3, OneReceiver

-----------------------------------------------------------------------------
(***************************************************************************)
(* What each step does to the line of a sink.                              *)
(***************************************************************************)
LEMMA LineType ==
  ASSUME TypeInv, NEW t, story = t, NEW s, NEW way, IsWay(t, way, s)
  PROVE  /\ LineOf(way, s) \in [1..Len(way)+1 -> Seq(Messages(t))] /\ Len(way) \in Nat \ {0}
         /\ \A i \in 1..Len(way) : way[i] \in Loops /\ LineOf(way, s)[i] = inbox[way[i]]
         /\ LineOf(way, s)[Len(way)+1] = arrived[s]
<1>1. /\ Len(way) \in Nat \ {0} /\ \A i \in 1..Len(way) : way[i] \in Loops
      /\ s \in Sinks
  BY DEF IsWay, Loops, Sinks
<1>2. /\ \A i \in 1..Len(way) : inbox[way[i]] \in Seq(Messages(t))
      /\ arrived[s] \in Seq(Messages(t))
  BY <1>1 DEF TypeInv
<1>3. \A i \in 1..Len(way)+1 : i = Len(way)+1 \/ i \in 1..Len(way)
  BY <1>1
<1>4. LineOf(way, s) \in [1..Len(way)+1 -> Seq(Messages(t))]
  BY <1>2, <1>3 DEF LineOf
<1>5. /\ \A i \in 1..Len(way) : i # Len(way)+1 /\ i \in 1..Len(way)+1
      /\ Len(way)+1 \in 1..Len(way)+1
  BY <1>1
<1> QED  BY <1>1, <1>4, <1>5 DEF LineOf

\* The same after a step.
LEMMA LinePrimed ==
  ASSUME NEW t, NEW s, NEW way, IsWay(t, way, s)
  PROVE  /\ DOMAIN LineOf(way, s)' = 1..Len(way)+1
         /\ \A i \in 1..Len(way) : LineOf(way, s)'[i] = inbox'[way[i]]
         /\ LineOf(way, s)'[Len(way)+1] = arrived'[s]
<1>1. /\ \A i \in 1..Len(way) : i # Len(way)+1 /\ i \in 1..Len(way)+1
      /\ Len(way)+1 \in 1..Len(way)+1
  BY DEF IsWay
<1> QED  BY <1>1 DEF LineOf

LEMMA LineUntouched ==
  ASSUME NEW s, NEW way, UNCHANGED <<arrived, missed>>, \A i \in 1..Len(way) : inbox'[way[i]] = inbox[way[i]],
         Len(way) \in Nat
  PROVE  LineOf(way, s)' = LineOf(way, s) /\ GoneOn(way)' = GoneOn(way)
<1>1. \A i \in 1..Len(way)+1 : i = Len(way)+1 \/ i \in 1..Len(way)
  OBVIOUS
<1> QED  BY <1>1 DEF LineOf, GoneOn

LEMMA BroadcastOnWay ==
  ASSUME TypeInv, NEW t, story = t, NEW s, NEW way, IsWay(t, way, s),
         NEW org, NEW subject, NEW msg, NEW rest, Broadcast(org, subject, msg, rest)
  PROVE  /\ Receivers(org, subject) \cap Range(way) = {} =>
               /\ \A i \in 1..Len(way) : inbox'[way[i]] = rest[way[i]]
               /\ GoneOn(way)' = GoneOn(way)
         /\ \A k \in 1..Len(way) : Receivers(org, subject) \cap Range(way) = {way[k]} =>
               /\ \A i \in 1..Len(way) : i # k => inbox'[way[i]] = rest[way[i]]
               /\ \/ inbox'[way[k]] = Append(rest[way[k]], msg) /\ GoneOn(way)' = GoneOn(way)
                  \/ /\ inbox'[way[k]] = rest[way[k]]
                     /\ GoneOn(way)' = GoneOn(way) \cup {<<way[k], msg>>}
<1> DEFINE to == Receivers(org, subject)
<1>1. /\ \A i \in 1..Len(way) : way[i] \in Loops /\ way[i] \in Range(way)
      /\ \A i, j \in 1..Len(way) : way[i] = way[j] => i = j
  BY DEF IsWay, Loops, Range
<1>2. /\ \A l \in Loops : l \in to \cap subscribed => inbox'[l] = Append(rest[l], msg)
      /\ \A l \in Loops : l \notin to \cap subscribed => inbox'[l] = rest[l]
      /\ missed' = missed \cup ((to \ subscribed) \X {msg})
  BY DEF Broadcast
<1> HIDE DEF to
<1>3. ASSUME to \cap Range(way) = {}
      PROVE  /\ \A i \in 1..Len(way) : inbox'[way[i]] = rest[way[i]]
             /\ GoneOn(way)' = GoneOn(way)
  BY <1>1, <1>2, <1>3 DEF GoneOn
<1>4. ASSUME NEW k \in 1..Len(way), to \cap Range(way) = {way[k]}
      PROVE  /\ \A i \in 1..Len(way) : i # k => inbox'[way[i]] = rest[way[i]]
             /\ \/ inbox'[way[k]] = Append(rest[way[k]], msg) /\ GoneOn(way)' = GoneOn(way)
                \/ /\ inbox'[way[k]] = rest[way[k]]
                   /\ GoneOn(way)' = GoneOn(way) \cup {<<way[k], msg>>}
  <2>1. \A i \in 1..Len(way) : way[i] \in to <=> i = k
    BY <1>1, <1>4
  <2>2. \A i \in 1..Len(way) : i # k => inbox'[way[i]] = rest[way[i]]
    BY <1>1, <1>2, <2>1
  <2>3. CASE way[k] \in subscribed
    <3>1. inbox'[way[k]] = Append(rest[way[k]], msg)
      BY <1>1, <1>2, <2>1, <2>3
    <3>2. GoneOn(way)' = GoneOn(way)
      BY <1>2, <1>4, <2>3 DEF GoneOn
    <3> QED  BY <2>2, <3>1, <3>2
  <2>4. CASE way[k] \notin subscribed
    <3>1. inbox'[way[k]] = rest[way[k]]
      BY <1>1, <1>2, <2>1, <2>4
    <3>2. GoneOn(way)' = GoneOn(way) \cup {<<way[k], msg>>}
      <4>1. way[k] \in to \ subscribed /\ way[k] \in Range(way)
        BY <1>1, <2>1, <2>4
      <4>2. \A pair \in (to \ subscribed) \X {msg} :
               pair[1] \in Range(way) => pair = <<way[k], msg>>
        BY <1>4
      <4> QED  BY <1>2, <4>1, <4>2 DEF GoneOn
    <3> QED  BY <2>2, <3>1, <3>2
  <2> QED  BY <2>3, <2>4
<1> QED  BY <1>3, <1>4 DEF to

SameLine(way, s) == LineOf(way, s)' = LineOf(way, s) /\ GoneOn(way)' = GoneOn(way)

\* What waits in front of the loops of a way when l has handled its head.
LEMMA RestOnWay ==
  ASSUME TypeInv, NEW t, story = t, NEW s, NEW way, IsWay(t, way, s), NEW l \in Loops
  PROVE  \A i \in 1..Len(way) : Rest(l)[way[i]] = IF way[i] = l THEN Tail(inbox[l]) ELSE inbox[way[i]]
BY LineType DEF Rest, TypeInv

LEMMA RelayOnWay ==
  ASSUME TypeInv, NEW t, story = t, NEW s, NEW way, IsWay(t, way, s), NEW l \in Loops, Relay(l)
  PROVE  \/ SameLine(way, s)
         \/ \E i \in 1..Len(way)-1 :
               /\ l = way[i] /\ inbox[l] # <<>> /\ Accepts(l, Head(inbox[l]))
               /\ \/ /\ Moved(LineOf(way, s), LineOf(way, s)', i, SignedBy(l, Head(inbox[l])))
                     /\ GoneOn(way)' = GoneOn(way)
                  \/ /\ Popped(LineOf(way, s), LineOf(way, s)', i)
                     /\ GoneOn(way)' = GoneOn(way) \cup {<<way[i+1], SignedBy(l, Head(inbox[l]))>>}
<1> DEFINE q == LineOf(way, s)
           q2 == LineOf(way, s)'
           n == Len(way)
           msg == SignedBy(l, Head(inbox[l]))
<1>1. /\ l \notin SinksOf(t) /\ l \in DOMAIN Topology[t].loops /\ t \in DOMAIN Topology
      /\ inbox[l] # <<>> /\ Accepts(l, Head(inbox[l]))
      /\ Broadcast(Loop(l).org, Loop(l).says, msg, Rest(l)) /\ arrived' = arrived
  BY DEF Relay, Sinks, Loops, TypeInv, sinkVars
<1>2. /\ q \in [1..n+1 -> Seq(Messages(t))] /\ n \in Nat \ {0}
      /\ \A i \in 1..n : way[i] \in Loops /\ q[i] = inbox[way[i]]
      /\ q[n+1] = arrived[s]
  BY LineType
<1>3. /\ DOMAIN q2 = 1..n+1 /\ q2[n+1] = arrived[s]
      /\ \A i \in 1..n : q2[i] = inbox'[way[i]]
  BY <1>1, LinePrimed
<1>4. \A i \in 1..n : Rest(l)[way[i]] = IF way[i] = l THEN Tail(inbox[l]) ELSE inbox[way[i]]
  BY RestOnWay
<1>5. /\ way[n] = s /\ s \in SinksOf(t) /\ DOMAIN way = 1..n
      /\ \A i, j \in 1..n : way[i] = way[j] => i = j
  BY DEF IsWay
<1> HIDE DEF q, q2, msg
<1>6. CASE l \in Range(way)
  <2>1. PICK i \in 1..n : l = way[i]
    BY <1>5, <1>6 DEF Range
  <2>2. i \in 1..n-1 /\ i+1 \in 1..n /\ i # i+1
    BY <1>1, <1>2, <1>5, <2>1
  <2>3. Receivers(Loop(l).org, Loop(l).says) \cap Range(way) = {way[i+1]}
    BY <1>1, <2>1, <2>2, ReceiversOnWay
  <2>4. /\ \A j \in 1..n : j # i+1 => inbox'[way[j]] = Rest(l)[way[j]]
        /\ \/ inbox'[way[i+1]] = Append(Rest(l)[way[i+1]], msg) /\ GoneOn(way)' = GoneOn(way)
           \/ /\ inbox'[way[i+1]] = Rest(l)[way[i+1]]
              /\ GoneOn(way)' = GoneOn(way) \cup {<<way[i+1], msg>>}
    BY <1>1, <2>2, <2>3, BroadcastOnWay
  <2>5. /\ \A j \in 1..n : j # i => Rest(l)[way[j]] = q[j]
        /\ Rest(l)[way[i]] = Tail(q[i])
    BY <1>2, <1>4, <1>5, <2>1
  <2>6. /\ q2[i] = Tail(q[i])
        /\ \A j \in 1..n+1 : j # i /\ j # i+1 => q2[j] = q[j]
    <3>1. \A j \in 1..n+1 : j = n+1 \/ j \in 1..n
      <4>1. n \in Nat
        BY <1>2
      <4> QED  BY ONLY <4>1
    <3>2. \A j \in 1..n : j # i /\ j # i+1 => q2[j] = q[j]
      BY <1>3, <2>4, <2>5
    <3>3. q2[i] = Tail(q[i])
      BY <1>3, <2>1, <2>2, <2>4, <2>5
    <3> QED  BY <1>2, <1>3, <3>1, <3>2, <3>3
  <2>7. CASE inbox'[way[i+1]] = Append(Rest(l)[way[i+1]], msg) /\ GoneOn(way)' = GoneOn(way)
    <3>1. q2[i+1] = Append(q[i+1], msg)
      BY <1>3, <2>2, <2>5, <2>7
    <3>2. Moved(q, q2, i, msg)
      BY <1>2, <1>3, <2>6, <3>1 DEF Moved
    <3> QED  BY <1>1, <2>1, <2>2, <2>7, <3>2 DEF q, q2, msg
  <2>8. CASE /\ inbox'[way[i+1]] = Rest(l)[way[i+1]]
             /\ GoneOn(way)' = GoneOn(way) \cup {<<way[i+1], msg>>}
    <3>1. q2[i+1] = q[i+1]
      BY <1>3, <2>2, <2>5, <2>8
    <3>2. Popped(q, q2, i)
      BY <1>2, <1>3, <2>6, <3>1 DEF Popped
    <3> QED  BY <1>1, <2>1, <2>2, <2>8, <3>2 DEF q, q2, msg
  <2> QED  BY <2>4, <2>7, <2>8
<1>7. CASE l \notin Range(way)
  <2>1. Receivers(Loop(l).org, Loop(l).says) \cap Range(way) = {}
    BY <1>1, <1>7, ReceiversOnWay
  <2>2. /\ \A i \in 1..n : inbox'[way[i]] = Rest(l)[way[i]]
        /\ GoneOn(way)' = GoneOn(way)
    BY <1>1, <2>1, BroadcastOnWay
  <2>3. \A i \in 1..n : inbox'[way[i]] = inbox[way[i]]
    BY <1>4, <1>5, <1>7, <2>2 DEF Range
  <2>4. \A i \in 1..n+1 : q2[i] = q[i]
    BY <1>2, <1>3, <2>3
  <2> QED  BY <1>2, <1>3, <2>2, <2>4 DEF SameLine, q, q2, LineOf
<1> QED  BY <1>6, <1>7

LEMMA DeliverOnWay ==
  ASSUME TypeInv, NEW t, story = t, NEW s, NEW way, IsWay(t, way, s), NEW l \in Loops, Deliver(l)
  PROVE  \/ SameLine(way, s)
         \/ /\ l = s /\ inbox[l] # <<>> /\ Accepts(l, Head(inbox[l]))
            /\ Moved(LineOf(way, s), LineOf(way, s)', Len(way), Head(inbox[s]))
            /\ GoneOn(way)' = GoneOn(way)
<1> DEFINE q == LineOf(way, s)
           q2 == LineOf(way, s)'
           n == Len(way)
<1>1. /\ l \in SinksOf(t) /\ t \in DOMAIN Topology /\ missed' = missed
      /\ inbox[l] # <<>> /\ Accepts(l, Head(inbox[l]))
      /\ arrived' = [arrived EXCEPT ![l] = Append(@, Head(inbox[l]))] /\ inbox' = Rest(l)
      /\ arrived \in [SinksOf(t) -> Seq(Messages(t))]
  BY DEF Deliver, Sinks, Loops, TypeInv
<1>2. /\ q \in [1..n+1 -> Seq(Messages(t))] /\ n \in Nat \ {0}
      /\ \A i \in 1..n : way[i] \in Loops /\ q[i] = inbox[way[i]]
      /\ q[n+1] = arrived[s]
  BY LineType
<1>3. /\ DOMAIN q2 = 1..n+1 /\ q2[n+1] = arrived'[s]
      /\ \A i \in 1..n : q2[i] = inbox'[way[i]]
  BY LinePrimed
<1>4. \A i \in 1..n : inbox'[way[i]] = IF way[i] = l THEN Tail(inbox[l]) ELSE inbox[way[i]]
  BY <1>1, RestOnWay
<1>5. /\ way[n] = s /\ s \in SinksOf(t)
      /\ \A i, j \in 1..n : way[i] = way[j] => i = j
      /\ \A i \in 1..n-1 : Topology[t].loops[way[i]].says = Topology[t].loops[way[i+1]].hears
  BY DEF IsWay
<1>6. GoneOn(way)' = GoneOn(way)
  BY <1>1 DEF GoneOn
<1>7. \A i \in 1..n : i # n => way[i] # l
  <2>1. ASSUME NEW i \in 1..n, i # n PROVE way[i] \notin SinksOf(t)
    <3>1. i \in 1..n-1 /\ i+1 \in 1..n /\ way[i] \in Loops /\ way[i+1] \in Loops
      BY <1>2, <2>1
    <3> QED  BY <1>1, <1>5, <3>1, Links DEF Loops
  <2> QED  BY <1>1, <2>1
<1> HIDE DEF q, q2
<1>8. CASE l = s
  <2>1. q2[n] = Tail(q[n]) /\ q2[n+1] = Append(q[n+1], Head(inbox[s]))
    <3>1. n \in 1..n
      BY <1>2
    <3> QED  BY <1>1, <1>2, <1>3, <1>4, <1>5, <1>8, <3>1
  <2>2. \A j \in 1..n+1 : j # n /\ j # n+1 => q2[j] = q[j]
    <3>1. \A j \in 1..n+1 : j # n+1 => j \in 1..n
      <4>1. n \in Nat
        BY <1>2
      <4> QED  BY ONLY <4>1
    <3> QED  BY <1>2, <1>3, <1>4, <1>7, <3>1
  <2>3. Moved(q, q2, n, Head(inbox[s]))
    BY <1>2, <1>3, <2>1, <2>2 DEF Moved
  <2> QED  BY <1>1, <1>6, <1>8, <2>3 DEF q, q2
<1>9. CASE l # s
  <2>1. \A i \in 1..n : inbox'[way[i]] = inbox[way[i]]
    BY <1>4, <1>5, <1>7, <1>9
  <2>2. arrived'[s] = arrived[s]
    BY <1>1, <1>5, <1>9
  <2>3. \A i \in 1..n+1 : q2[i] = q[i]
    BY <1>2, <1>3, <2>1, <2>2
  <2> QED  BY <1>2, <1>3, <1>6, <2>3 DEF SameLine, q, q2, LineOf
<1> QED  BY <1>8, <1>9

LEMMA RejectOnWay ==
  ASSUME TypeInv, NEW t, story = t, NEW s, NEW way, IsWay(t, way, s), NEW l \in Loops, Reject(l)
  PROVE  \/ SameLine(way, s)
         \/ \E i \in 1..Len(way) :
               /\ l = way[i] /\ inbox[l] # <<>> /\ ~Accepts(l, Head(inbox[l]))
               /\ Popped(LineOf(way, s), LineOf(way, s)', i)
               /\ GoneOn(way)' = GoneOn(way)
<1> DEFINE q == LineOf(way, s)
           q2 == LineOf(way, s)'
           n == Len(way)
<1>1. /\ inbox[l] # <<>> /\ ~Accepts(l, Head(inbox[l]))
      /\ inbox' = Rest(l) /\ missed' = missed /\ arrived' = arrived
  BY DEF Reject, sinkVars
<1>2. /\ q \in [1..n+1 -> Seq(Messages(t))] /\ n \in Nat \ {0}
      /\ \A i \in 1..n : way[i] \in Loops /\ q[i] = inbox[way[i]]
      /\ q[n+1] = arrived[s]
  BY LineType
<1>3. /\ DOMAIN q2 = 1..n+1 /\ q2[n+1] = arrived[s]
      /\ \A i \in 1..n : q2[i] = inbox'[way[i]]
  BY <1>1, LinePrimed
<1>4. \A i \in 1..n : inbox'[way[i]] = IF way[i] = l THEN Tail(inbox[l]) ELSE inbox[way[i]]
  BY <1>1, RestOnWay
<1>5. DOMAIN way = 1..n /\ \A i, j \in 1..n : way[i] = way[j] => i = j
  BY DEF IsWay
<1>6. GoneOn(way)' = GoneOn(way)
  BY <1>1 DEF GoneOn
<1> HIDE DEF q, q2
<1>7. CASE l \in Range(way)
  <2>1. PICK i \in 1..n : l = way[i]
    BY <1>5, <1>7 DEF Range
  <2>2. q2[i] = Tail(q[i])
    BY <1>2, <1>3, <1>4, <2>1
  <2>3. \A j \in 1..n+1 : j # i => q2[j] = q[j]
    <3>1. \A j \in 1..n+1 : j = n+1 \/ j \in 1..n
      <4>1. n \in Nat
        BY <1>2
      <4> QED  BY ONLY <4>1
    <3>2. \A j \in 1..n : j # i => q2[j] = q[j]
      BY <1>2, <1>3, <1>4, <1>5, <2>1
    <3> QED  BY <1>2, <1>3, <3>1, <3>2
  <2>4. Popped(q, q2, i)
    BY <1>2, <1>3, <2>2, <2>3 DEF Popped
  <2> QED  BY <1>1, <1>6, <2>1, <2>4 DEF q, q2
<1>8. CASE l \notin Range(way)
  <2>1. \A i \in 1..n : inbox'[way[i]] = inbox[way[i]]
    BY <1>4, <1>5, <1>8 DEF Range
  <2>2. \A i \in 1..n+1 : q2[i] = q[i]
    BY <1>2, <1>3, <2>1
  <2> QED  BY <1>2, <1>3, <1>6, <2>2 DEF SameLine, q, q2, LineOf
<1> QED  BY <1>7, <1>8

LEMMA DownOnWay ==
  ASSUME TypeInv, NEW t, story = t, NEW s, NEW way, IsWay(t, way, s), LoopsDown, arrived' = arrived
  PROVE  Emptied(LineOf(way, s), LineOf(way, s)', Len(way), way, GoneOn(way), GoneOn(way)')
<1> DEFINE q == LineOf(way, s)
           q2 == LineOf(way, s)'
           n == Len(way)
<1>1. /\ inbox' = [l \in Loops |-> <<>>]
      /\ missed' = missed \cup UNION {{l} \X Range(inbox[l]) : l \in Loops}
  BY DEF LoopsDown
<1>2. /\ q \in [1..n+1 -> Seq(Messages(t))] /\ n \in Nat \ {0}
      /\ \A i \in 1..n : way[i] \in Loops /\ q[i] = inbox[way[i]]
      /\ q[n+1] = arrived[s]
  BY LineType
<1>3. /\ DOMAIN q2 = 1..n+1 /\ q2[n+1] = arrived[s]
      /\ \A i \in 1..n : q2[i] = inbox'[way[i]]
  BY LinePrimed
<1> HIDE DEF q, q2
<1>4. DOMAIN q2 = DOMAIN q /\ q2[n+1] = q[n+1] /\ \A i \in 1..n : q2[i] = <<>>
  BY <1>1, <1>2, <1>3
<1>5. GoneOn(way) \subseteq GoneOn(way)'
  BY <1>1 DEF GoneOn
<1>6. \A i \in 1..n : way[i] \in Range(way)
  BY DEF IsWay, Range
<1>7. ASSUME NEW i \in 1..n, NEW p \in DOMAIN q[i]
      PROVE  <<way[i], q[i][p]>> \in GoneOn(way)'
  <2>1. <<way[i], q[i][p]>> \in {way[i]} \X Range(inbox[way[i]])
    BY <1>2 DEF Range
  <2>2. <<way[i], q[i][p]>> \in missed'
    BY <1>1, <1>2, <2>1
  <2> QED  BY <1>6, <2>2 DEF GoneOn
<1>8. ASSUME NEW x \in GoneOn(way)', x \notin GoneOn(way)
      PROVE  \E i \in 1..n : \E p \in DOMAIN q[i] : x = <<way[i], q[i][p]>>
  <2>1. x \in missed' /\ x \notin missed /\ x[1] \in Range(way)
    BY <1>8 DEF GoneOn
  <2>2. PICK l \in Loops : x \in {l} \X Range(inbox[l])
    BY <1>1, <2>1
  <2>3. PICK i \in 1..n : l = way[i]
    BY <2>1, <2>2 DEF Range, IsWay
  <2>4. PICK p \in DOMAIN inbox[l] : x = <<l, inbox[l][p]>>
    BY <2>2 DEF Range
  <2> QED  BY <1>2, <2>3, <2>4
<1>9. Emptied(q, q2, n, way, GoneOn(way), GoneOn(way)')
  BY <1>4, <1>5, <1>7, <1>8 DEF Emptied
<1> QED  BY <1>9 DEF q, q2

Entered(q, q2, k, m) == q2 = [q EXCEPT ![k] = Append(q[k], m)]

LEMMA PublishOnWay ==
  ASSUME TypeInv, NEW t, story = t, NEW s, NEW way, IsWay(t, way, s),
         NEW org, NEW subject, NEW msg, PublishFrom(org, subject, msg)
  PROVE  \/ Receivers(org, subject) \cap Range(way) = {} /\ SameLine(way, s)
         \/ \E k \in 1..Len(way) :
               /\ Receivers(org, subject) \cap Range(way) = {way[k]}
               /\ \/ /\ Entered(LineOf(way, s), LineOf(way, s)', k, msg)
                     /\ GoneOn(way)' = GoneOn(way)
                  \/ /\ LineOf(way, s)' = LineOf(way, s)
                     /\ GoneOn(way)' = GoneOn(way) \cup {<<way[k], msg>>}
<1> DEFINE q == LineOf(way, s)
           q2 == LineOf(way, s)'
           n == Len(way)
           to == Receivers(org, subject)
<1>1. Broadcast(org, subject, msg, inbox) /\ arrived' = arrived /\ t \in DOMAIN Topology
  BY DEF PublishFrom, sinkVars, TypeInv
<1>2. /\ q \in [1..n+1 -> Seq(Messages(t))] /\ n \in Nat \ {0}
      /\ \A i \in 1..n : way[i] \in Loops /\ q[i] = inbox[way[i]]
      /\ q[n+1] = arrived[s]
  BY LineType
<1>3. /\ DOMAIN q2 = 1..n+1 /\ q2[n+1] = arrived[s]
      /\ \A i \in 1..n : q2[i] = inbox'[way[i]]
  BY <1>1, LinePrimed
<1>4. q2 = [i \in 1..n+1 |-> q2[i]] /\ \A j \in 1..n+1 : j = n+1 \/ j \in 1..n
  <2>1. n \in Nat
    BY <1>2
  <2>2. \A j \in 1..n+1 : j = n+1 \/ j \in 1..n
    BY ONLY <2>1
  <2> QED  BY <2>2 DEF LineOf
<1> HIDE DEF q, q2, to
<1>5. CASE to \cap Range(way) = {}
  <2>1. \A i \in 1..n : inbox'[way[i]] = inbox[way[i]] /\ GoneOn(way)' = GoneOn(way)
    BY <1>1, <1>5, BroadcastOnWay DEF to
  <2>2. GoneOn(way)' = GoneOn(way)
    BY <1>1, <1>5, BroadcastOnWay DEF to
  <2>3. \A i \in 1..n+1 : q2[i] = q[i]
    BY <1>2, <1>3, <1>4, <2>1
  <2>4. q2 = q
    BY <1>2, <1>4, <2>3
  <2> QED  BY <1>5, <2>2, <2>4 DEF SameLine, q, q2, to
<1>6. ASSUME NEW k \in 1..n, to \cap Range(way) = {way[k]}
      PROVE  \/ Entered(q, q2, k, msg) /\ GoneOn(way)' = GoneOn(way)
             \/ q2 = q /\ GoneOn(way)' = GoneOn(way) \cup {<<way[k], msg>>}
  <2>1. /\ \A i \in 1..n : i # k => inbox'[way[i]] = inbox[way[i]]
        /\ \/ inbox'[way[k]] = Append(inbox[way[k]], msg) /\ GoneOn(way)' = GoneOn(way)
           \/ /\ inbox'[way[k]] = inbox[way[k]]
              /\ GoneOn(way)' = GoneOn(way) \cup {<<way[k], msg>>}
    BY <1>1, <1>6, BroadcastOnWay DEF to
  <2>2. \A i \in 1..n+1 : i # k => q2[i] = q[i]
    BY <1>2, <1>3, <1>4, <2>1
  <2>3. CASE inbox'[way[k]] = Append(inbox[way[k]], msg) /\ GoneOn(way)' = GoneOn(way)
    <3>1. q2[k] = Append(q[k], msg)
      BY <1>2, <1>3, <2>3
    <3>2. Entered(q, q2, k, msg)
      BY <1>2, <1>4, <2>2, <3>1 DEF Entered
    <3> QED  BY <2>3, <3>2
  <2>4. CASE /\ inbox'[way[k]] = inbox[way[k]]
             /\ GoneOn(way)' = GoneOn(way) \cup {<<way[k], msg>>}
    <3>1. q2[k] = q[k]
      BY <1>2, <1>3, <2>4
    <3>2. q2 = q
      BY <1>2, <1>4, <2>2, <3>1
    <3> QED  BY <2>4, <3>2
  <2> QED  BY <2>1, <2>3, <2>4
<1>7. to \cap Range(way) = {} \/ \E k \in 1..n : to \cap Range(way) = {way[k]}
  BY <1>1, OneReceiver DEF to
<1> QED  BY <1>5, <1>6, <1>7 DEF q, q2, to

-----------------------------------------------------------------------------
(***************************************************************************)
(* No step breaks the invariant of a line.                                 *)
(***************************************************************************)
LEMMA SignedOn ==
  ASSUME NEW S, NEW way \in Seq(S), NEW i \in 1..Len(way)
  PROVE  Append(SubSeq(way, 1, i-1), way[i]) = SubSeq(way, 1, i)
OBVIOUS

LEMMA SameLineKeeps ==
  ASSUME NEW t, NEW f, NEW way, NEW s, LineInv(t, f, way, s), SameLine(way, s), published' = published
  PROVE  LineInv(t, f, way, s)'
BY DEF LineInv, SameLine

LEMMA SignedByMessage ==
  ASSUME NEW t, NEW l \in DOMAIN Topology[t].loops, NEW msg \in Messages(t)
  PROVE  SignedBy(l, msg) \in Messages(t)
<1> DEFINE bodies == {Body[t][k].msg.body : k \in StimuliOf(t)}
           loops  == DOMAIN Topology[t].loops
<1>1. Messages(t) = [body : bodies, intact : BOOLEAN, lineage : Seq(loops)]
  BY DEF Messages
<1> HIDE DEF bodies, loops
<1>2. msg.body \in bodies /\ msg.lineage \in Seq(loops)
  BY <1>1
<1>3. Append(msg.lineage, l) \in Seq(loops)
  <2>1. l \in loops
    BY DEF loops
  <2> QED  BY <1>2, <2>1
<1> QED  BY <1>1, <1>2, <1>3 DEF SignedBy

\* The head of the inbox of the i-th loop of a way.
LEMMA HeadOnWay ==
  ASSUME TypeInv, NEW t, story = t, NEW f, fault = f, NEW s, NEW way, IsWay(t, way, s),
         NEW i \in 1..Len(way), inbox[way[i]] # <<>>
  PROVE  /\ LineOf(way, s)[i] # <<>> /\ 1 \in DOMAIN LineOf(way, s)[i]
         /\ Head(inbox[way[i]]) = LineOf(way, s)[i][1]
         /\ LineOf(way, s)[i][1] \in Messages(t)
         /\ Accepts(way[i], Head(inbox[way[i]])) =>
               Live(LineOf(way, s), OpenAt(t, f, way), i, 1)
         /\ ~Accepts(way[i], Head(inbox[way[i]])) =>
               \/ ~LineOf(way, s)[i][1].intact
               \/ LineOf(way, s)[i][1].body \in DroppedOn(t, way)
<1> DEFINE q == LineOf(way, s)
<1>1. /\ q \in [1..Len(way)+1 -> Seq(Messages(t))] /\ Len(way) \in Nat
      /\ q[i] = inbox[way[i]] /\ i \in 1..Len(way)+1
  BY LineType
<1> HIDE DEF q
<1>2. q[i] # <<>> /\ 1 \in DOMAIN q[i] /\ Head(q[i]) = q[i][1] /\ q[i][1] \in Messages(t)
  BY <1>1, TailPlaces
<1>3. Accepts(way[i], q[i][1]) => Live(q, OpenAt(t, f, way), i, 1)
  BY <1>1 DEF Accepts, Live, OpenAt, Loop
<1>4. ~Accepts(way[i], q[i][1]) => ~q[i][1].intact \/ q[i][1].body \in DroppedOn(t, way)
  <2>1. way[i] \in Range(way)
    BY DEF IsWay, Range
  <2> QED  BY <2>1 DEF Accepts, DroppedOn, Loop
<1> QED  BY <1>1, <1>2, <1>3, <1>4 DEF q

LEMMA LineRelay ==
  ASSUME TypeInv, NEW t, story = t, NEW f, fault = f, NEW s, NEW way, IsWay(t, way, s),
         LineInv(t, f, way, s), NEW l \in Loops, Relay(l)
  PROVE  LineInv(t, f, way, s)'
<1> DEFINE q == LineOf(way, s)
           q2 == LineOf(way, s)'
           n == Len(way)
           open == OpenAt(t, f, way)
           dropped == DroppedOn(t, way)
<1>1. published' = published
  BY DEF Relay
<1>2. CASE SameLine(way, s)
  BY <1>1, <1>2, SameLineKeeps
<1>3. ASSUME NEW i \in 1..n-1, l = way[i], inbox[l] # <<>>, Accepts(l, Head(inbox[l])),
             \/ /\ Moved(q, q2, i, SignedBy(l, Head(inbox[l]))) /\ GoneOn(way)' = GoneOn(way)
             \/ /\ Popped(q, q2, i)
                /\ GoneOn(way)' = GoneOn(way) \cup {<<way[i+1], SignedBy(l, Head(inbox[l]))>>}
      PROVE  LineInv(t, f, way, s)'
  <2> DEFINE m == SignedBy(l, Head(inbox[l]))
  <2>1. /\ q \in [1..n+1 -> Seq(Messages(t))] /\ n \in Nat \ {0} /\ i \in 1..n /\ i # n
        /\ i \in DOMAIN q
    BY <1>3, LineType
  <2>2. /\ q[i] # <<>> /\ 1 \in DOMAIN q[i] /\ Live(q, open, i, 1) /\ q[i][1] \in Messages(t)
        /\ Head(inbox[l]) = q[i][1]
    BY <1>3, <2>1, HeadOnWay
  <2>3. /\ m.body = q[i][1].body /\ m.intact = TRUE /\ m \in Messages(t)
        /\ m.lineage = Append(q[i][1].lineage, way[i])
    <3>1. m = [body |-> q[i][1].body, intact |-> TRUE,
               lineage |-> Append(q[i][1].lineage, way[i])]
      BY <1>3, <2>2 DEF SignedBy
    <3>2. way[i] \in DOMAIN Topology[t].loops
      BY <1>3 DEF Loops
    <3>3. SignedBy(way[i], q[i][1]) \in Messages(t)
      BY <2>2, <3>2, SignedByMessage
    <3>4. m = SignedBy(way[i], q[i][1])
      BY <1>3, <2>2
    <3> QED  BY <3>1, <3>3, <3>4
  <2>4. OnLine(q, GoneOn(way), published, dropped)
    BY DEF LineInv
  <2>5. ASSUME GateHolds(t, f) PROVE InFlow(q, open, published, way) /\ m.lineage = SubSeq(way, 1, i)
    <3>1. InFlow(q, open, published, way)
      BY <2>5 DEF LineInv
    <3>2. q[i][1].lineage = SubSeq(way, 1, i-1)
      BY <2>1, <2>2, <3>1 DEF InFlow, Signed
    <3>3. way \in Seq(DOMAIN Topology[t].loops)
      BY DEF IsWay
    <3> QED  BY <2>1, <2>3, <3>1, <3>2, <3>3, SignedOn
  <2> HIDE DEF q, q2, m, open, dropped
  <2>6. CASE Moved(q, q2, i, m) /\ GoneOn(way)' = GoneOn(way)
    <3>1. OnLine(q2, GoneOn(way), published, dropped)
      BY <2>1, <2>2, <2>3, <2>4, <2>6, LineMoved
    <3>2. GateHolds(t, f) => InFlow(q2, open, published, way)
      BY <2>1, <2>2, <2>3, <2>5, <2>6, FlowMoved
    <3> QED  BY <1>1, <2>6, <3>1, <3>2 DEF LineInv, q2, open, dropped
  <2>7. CASE Popped(q, q2, i) /\ GoneOn(way)' = GoneOn(way) \cup {<<way[i+1], m>>}
    <3>1. OnLine(q2, GoneOn(way) \cup {<<way[i+1], m>>}, published, dropped)
      <4>1. <<way[i+1], m>>[2].body = q[i][1].body
        BY <2>3
      <4> QED  BY <2>1, <2>2, <2>4, <2>7, <4>1, LineLost
    <3>2. GateHolds(t, f) => InFlow(q2, open, published, way)
      BY <2>1, <2>2, <2>5, <2>7, FlowPopped
    <3> QED  BY <1>1, <2>7, <3>1, <3>2 DEF LineInv, q2, open, dropped
  <2> QED  BY <1>3, <2>6, <2>7 DEF q, q2, m
<1> QED  BY <1>2, <1>3, RelayOnWay

LEMMA LineDeliver ==
  ASSUME TypeInv, NEW t, story = t, NEW f, fault = f, NEW s, NEW way, IsWay(t, way, s),
         LineInv(t, f, way, s), NEW l \in Loops, Deliver(l)
  PROVE  LineInv(t, f, way, s)'
<1> DEFINE q == LineOf(way, s)
           q2 == LineOf(way, s)'
           n == Len(way)
           open == OpenAt(t, f, way)
           dropped == DroppedOn(t, way)
           m == Head(inbox[s])
<1>1. published' = published
  BY DEF Deliver
<1>2. CASE SameLine(way, s)
  BY <1>1, <1>2, SameLineKeeps
<1>3. ASSUME inbox[s] # <<>>, Accepts(s, m), Moved(q, q2, n, m), GoneOn(way)' = GoneOn(way)
      PROVE  LineInv(t, f, way, s)'
  <2>1. /\ q \in [1..n+1 -> Seq(Messages(t))] /\ n \in Nat \ {0} /\ n \in 1..n /\ n # n+1
        /\ n \in DOMAIN q /\ way[n] = s
    <3>1. q \in [1..n+1 -> Seq(Messages(t))] /\ n \in Nat \ {0}
      BY LineType
    <3>2. n \in 1..n /\ n # n+1 /\ n \in 1..n+1
      BY <3>1
    <3>3. way[n] = s
      BY DEF IsWay
    <3> HIDE DEF q, n
    <3> QED  BY <3>1, <3>2, <3>3
  <2>2. /\ q[n] # <<>> /\ 1 \in DOMAIN q[n] /\ Live(q, open, n, 1) /\ q[n][1] \in Messages(t)
        /\ m = q[n][1]
    BY <1>3, <2>1, HeadOnWay
  <2>3. OnLine(q, GoneOn(way), published, dropped)
    BY DEF LineInv
  <2>4. ASSUME GateHolds(t, f) PROVE InFlow(q, open, published, way) /\ m.lineage = SubSeq(way, 1, n-1)
    <3>1. InFlow(q, open, published, way)
      BY <2>4 DEF LineInv
    <3> QED  BY <2>1, <2>2, <3>1 DEF InFlow, Signed
  <2> HIDE DEF q, q2, m, open, dropped
  <2>5. OnLine(q2, GoneOn(way), published, dropped)
    BY <1>3, <2>1, <2>2, <2>3, LineMoved
  <2>6. ASSUME GateHolds(t, f) PROVE InFlow(q2, open, published, way)
    <3>1. InFlow(q, open, published, way) /\ m.lineage = SubSeq(way, 1, n-1)
      BY <2>4, <2>6
    <3>2. /\ m \in Messages(t) /\ m.body = q[n][1].body /\ (q[n][1].intact => m.intact)
          /\ Moved(q, q2, n, m) /\ Live(q, open, n, 1)
      BY <1>3, <2>2
    <3>3. Len(way) = n
      OBVIOUS
    <3>4. PICK i \in 1..n : i = n
      BY <2>1
    <3> HIDE DEF n
    <3>5. /\ q[i] # <<>> /\ m.body = q[i][1].body /\ Moved(q, q2, i, m) /\ Live(q, open, i, 1)
          /\ q[i][1].intact => m.intact
          /\ m \in Messages(t)
      BY ONLY <2>2, <3>2, <3>4
    <3> QED  BY <2>1, <3>1, <3>3, <3>4, <3>5, FlowMoved
  <2> QED  BY <1>1, <1>3, <2>5, <2>6 DEF LineInv, q2, open, dropped
<1> QED  BY <1>2, <1>3, DeliverOnWay

LEMMA LineReject ==
  ASSUME TypeInv, PublishedOnce, NEW t, story = t, NEW f, fault = f, NEW s, NEW way, IsWay(t, way, s),
         LineInv(t, f, way, s), NEW l \in Loops, Reject(l)
  PROVE  LineInv(t, f, way, s)'
<1> DEFINE q == LineOf(way, s)
           q2 == LineOf(way, s)'
           n == Len(way)
           open == OpenAt(t, f, way)
           dropped == DroppedOn(t, way)
<1>1. published' = published
  BY DEF Reject
<1>2. CASE SameLine(way, s)
  BY <1>1, <1>2, SameLineKeeps
<1>3. ASSUME NEW i \in 1..n, l = way[i], inbox[l] # <<>>, ~Accepts(l, Head(inbox[l])),
             Popped(q, q2, i), GoneOn(way)' = GoneOn(way)
      PROVE  LineInv(t, f, way, s)'
  <2>1. /\ q \in [1..n+1 -> Seq(Messages(t))] /\ n \in Nat \ {0} /\ i \in DOMAIN q
    BY LineType
  <2>2. /\ q[i] # <<>> /\ 1 \in DOMAIN q[i]
        /\ ~q[i][1].intact \/ q[i][1].body \in dropped
    BY <1>3, HeadOnWay
  <2>3. OnLine(q, GoneOn(way), published, dropped)
    BY DEF LineInv
  <2> HIDE DEF q, q2, open, dropped
  <2>4. ASSUME NEW k \in DOMAIN published, published[k].body = q[i][1].body
        PROVE  ~published[k].intact \/ published[k].body \in dropped
    <3>1. PICK j \in DOMAIN published :
             published[j].body = q[i][1].body /\ (published[j].intact => q[i][1].intact)
      BY <2>1, <2>2, <2>3 DEF OnLine, Known
    <3>2. j = k
      BY <2>4, <3>1 DEF PublishedOnce
    <3> QED  BY <2>2, <2>4, <3>1, <3>2
  <2>5. OnLine(q2, GoneOn(way), published, dropped)
    <3>1. \A k \in DOMAIN published : published[k].body = q[i][1].body =>
             ~published[k].intact \/ published[k].body \in dropped
      BY <2>4
    <3>2. Popped(q, q2, i) /\ q[i] # <<>>
      BY <1>3, <2>2
    <3> QED  BY <2>1, <2>3, <3>1, <3>2, LinePopped
  <2>6. GateHolds(t, f) => InFlow(q2, open, published, way)
    BY <1>3, <2>1, <2>2, FlowPopped DEF LineInv, q, open
  <2> QED  BY <1>1, <1>3, <2>5, <2>6 DEF LineInv, q2, open, dropped
<1> QED  BY <1>2, <1>3, RejectOnWay

LEMMA LineDown ==
  ASSUME TypeInv, NEW t, story = t, NEW f, NEW s, NEW way, IsWay(t, way, s),
         LineInv(t, f, way, s), LoopsDown, UNCHANGED <<arrived, published>>
  PROVE  LineInv(t, f, way, s)'
<1> DEFINE q == LineOf(way, s)
           q2 == LineOf(way, s)'
           n == Len(way)
<1>1. q \in [1..n+1 -> Seq(Messages(t))] /\ n \in Nat \ {0} /\ DOMAIN q = 1..n+1
  BY LineType
<1>2. Emptied(q, q2, n, way, GoneOn(way), GoneOn(way)')
  BY DownOnWay
<1> HIDE DEF q, q2
<1>3. OnLine(q2, GoneOn(way)', published, DroppedOn(t, way))
  BY <1>1, <1>2, LineEmptied DEF LineInv, q
<1>4. GateHolds(t, f) => InFlow(q2, OpenAt(t, f, way), published, way)
  BY <1>1, <1>2, FlowEmptied DEF Emptied, LineInv, q
<1> QED  BY <1>3, <1>4 DEF LineInv, q2

\* What a step of the body that puts a message into the world is.
LEMMA Stimulus ==
  ASSUME TypeInv, PublishedOnce, At("publish") \/ At("push"), NEW t, story = t
  PROVE  /\ t \in DOMAIN Topology /\ pc \in StimuliOf(t) /\ Step = Body[t][pc]
         /\ Step.msg \in Messages(t) /\ (Fresh(t, Step) \/ Tampered(t, Step))
         /\ \A k \in DOMAIN published : published[k].body # Step.msg.body
<1>1. /\ t \in DOMAIN Topology /\ t \in DOMAIN Body /\ Step = Body[t][pc] /\ Script = Body[t]
      /\ pc \in DOMAIN Body[t] /\ verdict = "running"
  BY BodyAssumption DEF TypeInv, Step, Script, At
<1>2. pc \in StimuliOf(t)
  BY <1>1 DEF StimuliOf, At
<1>3. /\ Step.msg \in Messages(t) /\ (Fresh(t, Step) \/ Tampered(t, Step))
      /\ \A j \in StimuliOf(t) : Step.msg.body = Body[t][j].msg.body => pc = j
  BY <1>1, <1>2, BodyAssumption
<1>4. ASSUME NEW n \in DOMAIN published PROVE published[n].body # Step.msg.body
  <2>1. PICK k \in StimuliOf(t) : published[n].body = Body[t][k].msg.body /\ k < pc
    BY <1>1 DEF PublishedOnce
  <2>2. pc # k
    BY <1>1, <2>1, BodyAssumption DEF StimuliOf
  <2> QED  BY <1>3, <2>1, <2>2
<1> QED  BY <1>1, <1>2, <1>3, <1>4

LEMMA LinePublish ==
  ASSUME TypeInv, NEW t, story = t, NEW f, fault = f, t \in DOMAIN Topology,
         NEW s \in SinksOf(t), NEW way, way = WayTo[t][s], LineInv(t, f, way, s),
         NEW step, step.msg \in Messages(t), Fresh(t, step) \/ Tampered(t, step),
         GateHolds(t, f) /\ f = "unbound" => Fresh(t, step),
         \A k \in DOMAIN published : published[k].body # step.msg.body,
         PublishFrom(step.org, step.subject, step.msg)
  PROVE  LineInv(t, f, way, s)'
<1> DEFINE q == LineOf(way, s)
           q2 == LineOf(way, s)'
           n == Len(way)
           open == OpenAt(t, f, way)
           dropped == DroppedOn(t, way)
           to == Receivers(step.org, step.subject)
           m == step.msg
<1>1. published' = Append(published, m) /\ published \in Seq(Messages(t)) /\ m \in Messages(t)
  BY DEF PublishFrom, TypeInv
<1>2. IsWay(t, way, s)
  BY WayIsWay
<1>3. /\ q \in [1..n+1 -> Seq(Messages(t))] /\ n \in Nat \ {0}
  BY <1>2, LineType
<1>4. OnLine(q, GoneOn(way), published, dropped)
  BY DEF LineInv
<1>5. GateHolds(t, f) => InFlow(q, open, published, way)
  BY DEF LineInv
<1>6. Fresh(t, step) => to \cap Range(way) = {way[1]} /\ m.lineage = SubSeq(way, 1, 0)
  <2>1. Fresh(t, step) => to \cap Range(way) = {way[1]}
    BY FreshOnWay
  <2>2. SubSeq(way, 1, 0) = <<>>
    BY <1>2 DEF IsWay
  <2> QED  BY <2>1, <2>2 DEF Fresh
<1>7. ASSUME NEW k \in 1..n, to \cap Range(way) = {way[k]}, GateHolds(t, f), m.intact \/ k \in open
      PROVE  k = 1 /\ m.lineage = SubSeq(way, 1, 0)
  <2>1. CASE Fresh(t, step)
    <3>1. {way[k]} = {way[1]} /\ m.lineage = SubSeq(way, 1, 0)
      <4> HIDE DEF to, m
      <4> QED  BY <1>6, <1>7, <2>1
    <3>2. way[k] = way[1]
      BY <3>1
    <3>3. 1 \in 1..n
      BY <1>3
    <3> QED  BY <1>2, <3>1, <3>2, <3>3 DEF IsWay
  <2>2. CASE ~Fresh(t, step)
    <3>1. ~m.intact /\ f # "unbound"
      BY <1>7, <2>2 DEF Tampered
    <3>2. k # n + 1
      BY <1>3
    <3>3. Topology[t].loops[way[k]].role = "source"
      BY <1>7, <3>1, <3>2 DEF OpenAt
    <3>4. way[k] \in DOMAIN Topology[t].loops /\ Topology[t].loops[way[k]].hears = step.subject
      BY <1>7 DEF Receivers, Loops, Loop
    <3> QED  BY <2>2, <3>3, <3>4 DEF Tampered
  <2> QED  BY <2>1, <2>2
<1>8. to \cap Range(way) = {} => ~m.intact
  <2> HIDE DEF to
  <2> QED  BY <1>6 DEF Tampered
<1>9. \/ to \cap Range(way) = {} /\ SameLine(way, s)
      \/ \E k \in 1..n :
            /\ to \cap Range(way) = {way[k]}
            /\ \/ Entered(q, q2, k, m) /\ GoneOn(way)' = GoneOn(way)
               \/ q2 = q /\ GoneOn(way)' = GoneOn(way) \cup {<<way[k], m>>}
  BY <1>2, PublishOnWay
<1> HIDE DEF q, q2, open, dropped, to, m
<1>10. CASE to \cap Range(way) = {} /\ SameLine(way, s)
  <2>1. q2 = q /\ GoneOn(way)' = GoneOn(way)
    BY <1>10 DEF SameLine, q, q2
  <2>2. OnLine(q, GoneOn(way), Append(published, m), dropped)
    BY <1>1, <1>4, <1>8, <1>10, LinePassedBy
  <2>3. GateHolds(t, f) => InFlow(q, open, Append(published, m), way)
    BY <1>1, <1>5, FlowPassedBy
  <2> QED  BY <1>1, <2>1, <2>2, <2>3 DEF LineInv, q2, open, dropped
<1>11. ASSUME NEW k \in 1..n, to \cap Range(way) = {way[k]},
              Entered(q, q2, k, m), GoneOn(way)' = GoneOn(way)
       PROVE  LineInv(t, f, way, s)'
  <2>1. \A j \in DOMAIN published : published[j].body # m.body
    BY DEF m
  <2>2. OnLine(q2, GoneOn(way), Append(published, m), dropped)
    BY <1>1, <1>3, <1>4, <1>11, <2>1, LineEntered DEF Entered
  <2>3. ASSUME GateHolds(t, f) PROVE InFlow(q2, open, Append(published, m), way)
    <3>1. m.intact \/ k \in open => k = 1 /\ m.lineage = SubSeq(way, 1, 0)
      BY <1>7, <1>11, <2>3
    <3>2. Known(q, GoneOn(way), published) /\ InFlow(q, open, published, way)
      BY <1>4, <1>5, <2>3 DEF OnLine
    <3> QED  BY <1>1, <1>3, <1>11, <3>1, <3>2, FlowEntered DEF Entered
  <2> QED  BY <1>1, <1>11, <2>2, <2>3 DEF LineInv, q2, open, dropped
<1>12. ASSUME NEW k \in 1..n, q2 = q, GoneOn(way)' = GoneOn(way) \cup {<<way[k], m>>}
       PROVE  LineInv(t, f, way, s)'
  <2>1. \A j \in DOMAIN published : published[j].body # m.body
    BY DEF m
  <2>2. OnLine(q, GoneOn(way) \cup {<<way[k], m>>}, Append(published, m), dropped)
    <3>1. <<way[k], m>>[2] = m
      OBVIOUS
    <3> QED  BY <1>1, <1>4, <2>1, <3>1, LineMissed
  <2>3. GateHolds(t, f) => InFlow(q, open, Append(published, m), way)
    BY <1>1, <1>5, FlowPassedBy
  <2> QED  BY <1>1, <1>12, <2>2, <2>3 DEF LineInv, q2, open, dropped
<1> QED  BY <1>9, <1>10, <1>11, <1>12

-----------------------------------------------------------------------------
(***************************************************************************)
(* The invariants, step by step.                                           *)
(***************************************************************************)
TypeNext ==
    /\ story' = story /\ fault' = fault /\ subscribed' \subseteq Loops
    /\ inbox' \in [Loops -> Seq(Messages(story))]
    /\ stream' \in [Sinks -> Seq(Messages(story))]
    /\ arrived' \in [Sinks -> Seq(Messages(story))]
    /\ published' \in Seq(Messages(story)) /\ missed' \subseteq Loops \X Messages(story)
    /\ pc' \in 1..Len(Script)

LEMMA SameStory ==
  ASSUME story' = story
  PROVE  /\ Loops' = Loops /\ Sinks' = Sinks /\ Script' = Script /\ Messages(story)' = Messages(story)
         /\ \A s : Way(s)' = Way(s)
BY DEF Loops, Sinks, Script, Messages, SinksOf, Way, WayTo, StimuliOf

LEMMA TypePrimed ==
  ASSUME TypeInv, TypeNext
  PROVE  TypeInv'
<1>1. story' = story
  BY DEF TypeNext
<1>2. /\ Loops' = Loops /\ Sinks' = Sinks /\ Script' = Script
      /\ Messages(story)' = Messages(story)
  BY <1>1, SameStory
<1> QED  BY <1>1, <1>2 DEF TypeInv, TypeNext

\* The head of a queue, and what is left without it.
LEMMA RestType ==
  ASSUME TypeInv, NEW l \in Loops, inbox[l] # <<>>
  PROVE  Head(inbox[l]) \in Messages(story) /\ Rest(l) \in [Loops -> Seq(Messages(story))]
<1>1. inbox \in [Loops -> Seq(Messages(story))] /\ inbox[l] \in Seq(Messages(story))
  BY DEF TypeInv
<1>2. Head(inbox[l]) \in Messages(story) /\ Tail(inbox[l]) \in Seq(Messages(story))
  BY <1>1, TailPlaces
<1> QED  BY <1>1, <1>2 DEF Rest

LEMMA BroadcastType ==
  ASSUME TypeInv, NEW org, NEW subject, NEW msg \in Messages(story),
         NEW rest \in [Loops -> Seq(Messages(story))], Broadcast(org, subject, msg, rest)
  PROVE  /\ inbox' \in [Loops -> Seq(Messages(story))]
         /\ missed' \subseteq Loops \X Messages(story)
<1>1. \A l \in Loops : Append(rest[l], msg) \in Seq(Messages(story))
  BY AppendPlaces
<1>2. Receivers(org, subject) \subseteq Loops /\ missed \subseteq Loops \X Messages(story)
  BY DEF Receivers, TypeInv
<1> QED  BY <1>1, <1>2 DEF Broadcast

LEMMA DownType ==
  ASSUME TypeInv, LoopsDown
  PROVE  /\ subscribed' \subseteq Loops /\ inbox' \in [Loops -> Seq(Messages(story))]
         /\ missed' \subseteq Loops \X Messages(story)
<1>1. <<>> \in Seq(Messages(story))
  OBVIOUS
<1>2. ASSUME NEW l \in Loops PROVE {l} \X Range(inbox[l]) \subseteq Loops \X Messages(story)
  <2>1. inbox[l] \in Seq(Messages(story))
    BY DEF TypeInv
  <2>2. Range(inbox[l]) \subseteq Messages(story)
    BY <2>1 DEF Range
  <2> QED  BY <2>2
<1>3. UNION {{l} \X Range(inbox[l]) : l \in Loops} \subseteq Loops \X Messages(story)
  BY <1>2
<1>4. missed \subseteq Loops \X Messages(story)
  BY DEF TypeInv
<1> QED  BY <1>1, <1>3, <1>4 DEF LoopsDown

\* Of a step of the test: on it goes, or it stops where it is.
LEMMA TestGoesOn ==
  ASSUME TypeInv, Advance \/ Fail
  PROVE  /\ pc' \in 1..Len(Script) /\ pc \in Nat /\ pc' \in Nat /\ pc <= pc'
         /\ Advance => verdict' = "pass" \/ (verdict' = verdict /\ pc' = pc + 1)
         /\ Fail => pc' = pc
<1>1. pc \in 1..Len(Script) /\ Len(Script) \in Nat \ {0}
  BY BodyAssumption DEF TypeInv, Script
<1> QED  BY <1>1 DEF Advance, Fail

\* The steps of the test that leave the system alone.
Looks == Wait \/ TakeFirst \/ Expire \/ Settle \/ Mark \/ Unmoved \/ Matrix \/ Evidence

LEMMA LooksOnly ==
  ASSUME Looks
  PROVE  /\ UNCHANGED planeVars /\ (Advance \/ Fail) /\ verdict = "running"
         /\ Step.op \notin {"restart", "stop", "publish", "push"}
         /\ Step.op \in {"health", "gate"} /\ Advance /\ ~Fail => Awaited
<1>1. Wait => UNCHANGED planeVars /\ Advance /\ Awaited
  BY DEF Wait
<1>2. Wait => verdict = "running" /\ Step.op \notin {"restart", "stop", "publish", "push"}
  BY DEF Wait, Awaited, At
<1>3. TakeFirst => UNCHANGED planeVars /\ (Advance \/ Fail) /\ verdict = "running" /\ Step.op = "first"
  BY DEF TakeFirst, Check, At
<1>4. Expire => UNCHANGED planeVars /\ Fail /\ verdict = "running" /\ Step.op \in Waits
  BY DEF Expire, At
<1>5. Settle => UNCHANGED planeVars /\ Advance /\ verdict = "running" /\ Step.op = "settle"
  BY DEF Settle, At
<1>6. Mark => UNCHANGED planeVars /\ Advance /\ verdict = "running" /\ Step.op = "mark"
  BY DEF Mark, At
<1>7. Unmoved => UNCHANGED planeVars /\ (Advance \/ Fail) /\ verdict = "running" /\ Step.op = "unmoved"
  BY DEF Unmoved, Check, At
<1>8. Matrix => UNCHANGED planeVars /\ (Advance \/ Fail) /\ verdict = "running" /\ Step.op = "matrix"
  BY DEF Matrix, Check, At
<1>9. Evidence => UNCHANGED planeVars /\ (Advance \/ Fail) /\ verdict = "running" /\ Step.op = "evidence"
  BY DEF Evidence, Check, At
<1> QED  BY <1>1, <1>2, <1>3, <1>4, <1>5, <1>6, <1>7, <1>8, <1>9 DEF Looks, Waits

\* What the product's steps leave alone.
LEMMA ProductLeaves ==
  ASSUME Running(Product)
  PROVE  /\ verdict = "running" /\ UNCHANGED <<testVars, story, fault, published>>
         /\ subscribed \subseteq subscribed'
         /\ \E l \in Loops : Subscribe(l) \/ Reject(l) \/ Relay(l) \/ Deliver(l) \/ Audit(l)
<1>1. PICK l \in Loops : Subscribe(l) \/ Reject(l) \/ Relay(l) \/ Deliver(l) \/ Audit(l)
  BY DEF Running, Product, Handle
<1>2. UNCHANGED <<story, fault, published>> /\ subscribed \subseteq subscribed'
  BY <1>1 DEF Subscribe, Reject, Relay, Deliver, Audit, loopVars
<1> QED  BY <1>1, <1>2 DEF Running

LEMMA PublishType ==
  ASSUME TypeInv, NEW org, NEW subject, NEW msg \in Messages(story), PublishFrom(org, subject, msg),
         Advance
  PROVE  TypeInv'
<1>1. /\ inbox' \in [Loops -> Seq(Messages(story))]
      /\ missed' \subseteq Loops \X Messages(story)
  BY BroadcastType DEF PublishFrom, TypeInv
<1>2. published' \in Seq(Messages(story))
  BY DEF PublishFrom, TypeInv
<1>3. pc' \in 1..Len(Script)
  BY TestGoesOn
<1>4. TypeNext
  BY <1>1, <1>2, <1>3 DEF TypeNext, TypeInv, PublishFrom, sinkVars
<1> QED  BY <1>4, TypePrimed

LEMMA SameStream ==
  ASSUME TypeInv
  PROVE  [l \in Sinks |-> <<>>] \in [Sinks -> Seq(Messages(story))]
<1>1. <<>> \in Seq(Messages(story))
  OBVIOUS
<1> QED  BY <1>1

LEMMA TypeStep ==
  ASSUME TypeInv, PublishedOnce, [Next]_vars
  PROVE  TypeInv'
<1>1. CASE Publish
  <2>1. Step.msg \in Messages(story)
    BY <1>1, Stimulus DEF Publish
  <2> QED  BY <1>1, <2>1, PublishType DEF Publish
<1>2. CASE Push
  <2>1. Step.msg \in Messages(story)
    BY <1>2, Stimulus DEF Push
  <2>2. CASE UNCHANGED planeVars
    <3>1. pc' \in 1..Len(Script)
      BY <1>2, TestGoesOn DEF Push
    <3>2. TypeNext
      BY <2>2, <3>1 DEF TypeNext, TypeInv, planeVars, loopVars, sinkVars
    <3> QED  BY <3>2, TypePrimed
  <2>3. CASE PublishFrom(Step.org, Step.subject, Step.msg)
    BY <1>2, <2>1, <2>3, PublishType DEF Push
  <2> QED  BY <1>2, <2>2, <2>3 DEF Push
<1>3. CASE Restart
  <2>1. /\ LoopsDown /\ UNCHANGED <<story, fault, arrived, published>>
        /\ stream' = [l \in Sinks |-> <<>>] \/ stream' = stream
    BY <1>3 DEF Restart, RestartLoops
  <2>2. pc' \in 1..Len(Script)
    BY <1>3, TestGoesOn DEF Restart
  <2>3. stream' \in [Sinks -> Seq(Messages(story))]
    BY <2>1, SameStream DEF TypeInv
  <2>4. TypeNext
    BY <2>1, <2>2, <2>3, DownType DEF TypeNext, TypeInv
  <2> QED  BY <2>4, TypePrimed
<1>4. CASE StopNode
  <2>1. LoopsDown /\ UNCHANGED <<story, fault, stream, arrived, published>>
    BY <1>4 DEF StopNode, sinkVars
  <2>2. pc' \in 1..Len(Script)
    BY <1>4, TestGoesOn DEF StopNode
  <2>3. TypeNext
    BY <2>1, <2>2, DownType DEF TypeNext, TypeInv
  <2> QED  BY <2>3, TypePrimed
<1>5. CASE Looks
  <2>1. UNCHANGED planeVars /\ (Advance \/ Fail)
    BY <1>5, LooksOnly
  <2>2. pc' \in 1..Len(Script)
    BY <2>1, TestGoesOn
  <2>3. TypeNext
    BY <2>1, <2>2 DEF TypeNext, TypeInv, planeVars, loopVars, sinkVars
  <2> QED  BY <2>3, TypePrimed
<1>6. CASE Running(Product)
  <2>0. pc' = pc /\ story' = story /\ fault' = fault /\ published' = published
    BY <1>6, ProductLeaves DEF testVars
  <2> SUFFICES ASSUME NEW l \in Loops,
                      Subscribe(l) \/ Reject(l) \/ Relay(l) \/ Deliver(l) \/ Audit(l)
               PROVE  TypeInv'
    BY <1>6, ProductLeaves
  <2>1. CASE Subscribe(l)
    <3>1. TypeNext
      BY <2>0, <2>1 DEF TypeNext, TypeInv, Subscribe, sinkVars
    <3> QED  BY <3>1, TypePrimed
  <2>2. CASE Reject(l)
    <3>1. inbox' \in [Loops -> Seq(Messages(story))]
      BY <2>2, RestType DEF Reject
    <3>2. TypeNext
      BY <2>0, <2>2, <3>1 DEF TypeNext, TypeInv, Reject, sinkVars
    <3> QED  BY <3>2, TypePrimed
  <2>3. CASE Relay(l)
    <3>1. Head(inbox[l]) \in Messages(story) /\ Rest(l) \in [Loops -> Seq(Messages(story))]
      BY <2>3, RestType DEF Relay
    <3>2. SignedBy(l, Head(inbox[l])) \in Messages(story)
      BY <3>1, SignedByMessage DEF Loops
    <3>3. /\ inbox' \in [Loops -> Seq(Messages(story))]
          /\ missed' \subseteq Loops \X Messages(story)
      BY <2>3, <3>1, <3>2, BroadcastType DEF Relay
    <3>4. TypeNext
      BY <2>0, <2>3, <3>3 DEF TypeNext, TypeInv, Relay, sinkVars
    <3> QED  BY <3>4, TypePrimed
  <2>4. CASE Deliver(l)
    <3>1. Head(inbox[l]) \in Messages(story) /\ inbox' \in [Loops -> Seq(Messages(story))]
      BY <2>4, RestType DEF Deliver
    <3>2. /\ stream' \in [Sinks -> Seq(Messages(story))]
          /\ arrived' \in [Sinks -> Seq(Messages(story))]
      <4>1. l \in Sinks /\ stream[l] \in Seq(Messages(story)) /\ arrived[l] \in Seq(Messages(story))
        BY <2>4 DEF Deliver, TypeInv
      <4>2. /\ Append(stream[l], Head(inbox[l])) \in Seq(Messages(story))
            /\ Append(arrived[l], Head(inbox[l])) \in Seq(Messages(story))
        BY <3>1, <4>1, AppendPlaces
      <4> QED  BY <2>4, <4>1, <4>2 DEF Deliver, TypeInv
    <3>3. TypeNext
      BY <2>0, <2>4, <3>1, <3>2 DEF TypeNext, TypeInv, Deliver
    <3> QED  BY <3>3, TypePrimed
  <2>5. CASE Audit(l)
    <3>1. TypeNext
      BY <2>0, <2>5 DEF TypeNext, TypeInv, Audit, loopVars, sinkVars
    <3> QED  BY <3>1, TypePrimed
  <2> QED  BY <2>1, <2>2, <2>3, <2>4, <2>5
<1>7. CASE UNCHANGED vars
  <2>1. TypeNext
    BY <1>7 DEF TypeNext, TypeInv, vars, testVars, planeVars, loopVars, sinkVars
  <2> QED  BY <2>1, TypePrimed
<1> QED  BY <1>1, <1>2, <1>3, <1>4, <1>5, <1>6, <1>7 DEF Next, Test, Looks, Ended

LEMMA StoryStays ==
  ASSUME [Next]_vars
  PROVE  UNCHANGED <<story, fault>>
<1>1. Running(Product) => UNCHANGED <<story, fault>>
  BY ProductLeaves
<1>2. Looks => UNCHANGED <<story, fault>>
  BY LooksOnly DEF planeVars
<1>3. Publish \/ Push \/ Restart \/ StopNode => UNCHANGED <<story, fault>>
  BY DEF Publish, Push, Restart, StopNode, PublishFrom, RestartLoops, planeVars
<1>4. UNCHANGED vars => UNCHANGED <<story, fault>>
  BY DEF vars, planeVars
<1> QED  BY <1>1, <1>2, <1>3, <1>4 DEF Next, Test, Looks, Ended

LEMMA PublishedStep ==
  ASSUME TypeInv, PublishedOnce, [Next]_vars
  PROVE  PublishedOnce'
<1>0. story' = story /\ Script' = Script /\ StimuliOf(story)' = StimuliOf(story)
  BY StoryStays DEF Script, StimuliOf
<1>1. ASSUME published' = published,
             verdict' = "running" => verdict = "running" /\ pc \in Nat /\ pc' \in Nat /\ pc <= pc'
      PROVE  PublishedOnce'
  <2>1. ASSUME NEW n \in DOMAIN published
        PROVE  \E k \in StimuliOf(story) :
                  published[n].body = Script[k].msg.body /\ (verdict' = "running" => k < pc')
    <3>1. PICK k \in StimuliOf(story) :
             published[n].body = Script[k].msg.body /\ (verdict = "running" => k < pc)
      BY DEF PublishedOnce
    <3>2. k \in Nat
      BY BodyAssumption DEF StimuliOf, TypeInv
    <3> QED  BY <1>1, <3>1, <3>2
  <2> QED  BY <1>0, <1>1, <2>1 DEF PublishedOnce
<1>2. ASSUME At("publish") \/ At("push"), PublishFrom(Step.org, Step.subject, Step.msg), Advance
      PROVE  PublishedOnce'
  <2> DEFINE pub2 == Append(published, Step.msg)
  <2>1. /\ pc \in StimuliOf(story) /\ Step = Script[pc] /\ Step.msg \in Messages(story)
        /\ \A k \in DOMAIN published : published[k].body # Step.msg.body
    BY <1>2, Stimulus DEF Script
  <2>2. published' = pub2 /\ published \in Seq(Messages(story)) /\ verdict = "running"
    BY <1>2 DEF PublishFrom, TypeInv, At
  <2>3. /\ DOMAIN pub2 = DOMAIN published \cup {Len(published) + 1}
        /\ pub2[Len(published)+1] = Step.msg
        /\ \A k \in DOMAIN published : pub2[k] = published[k]
    BY <2>1, <2>2, AppendPlaces
  <2>4. pc \in Nat /\ (verdict' = "running" => pc' = pc + 1)
    BY <1>2, TestGoesOn
  <2> HIDE DEF pub2
  <2>5. ASSUME NEW n \in DOMAIN pub2
        PROVE  \E k \in StimuliOf(story) :
                  pub2[n].body = Script[k].msg.body /\ (verdict' = "running" => k < pc')
    <3>1. CASE n \in DOMAIN published
      <4>1. PICK k \in StimuliOf(story) : published[n].body = Script[k].msg.body /\ k < pc
        BY <2>2, <3>1 DEF PublishedOnce
      <4>2. k \in Nat
        BY BodyAssumption DEF StimuliOf, TypeInv
      <4> QED  BY <2>3, <2>4, <3>1, <4>1, <4>2
    <3>2. CASE n = Len(published) + 1
      BY <2>1, <2>3, <2>4, <3>2
    <3> QED  BY <2>3, <3>1, <3>2
  <2>6. \A m, n \in DOMAIN pub2 : pub2[m].body = pub2[n].body => m = n
    BY <2>1, <2>3 DEF PublishedOnce
  <2> QED  BY <1>0, <2>2, <2>5, <2>6 DEF PublishedOnce
<1>3. CASE Publish
  BY <1>2, <1>3 DEF Publish
<1>4. CASE Push
  <2>1. CASE UNCHANGED planeVars
    BY <1>1, <1>4, <2>1, TestGoesOn DEF Push, planeVars, At
  <2> QED  BY <1>2, <1>4, <2>1 DEF Push
<1>5. CASE Restart \/ StopNode
  <2>1. published' = published /\ Advance /\ verdict = "running"
    BY <1>5 DEF Restart, RestartLoops, StopNode, At
  <2> QED  BY <1>1, <2>1, TestGoesOn
<1>6. CASE Looks
  <2>1. published' = published /\ (Advance \/ Fail) /\ verdict = "running"
    BY <1>6, LooksOnly DEF planeVars
  <2> QED  BY <1>1, <2>1, TestGoesOn
<1>7. CASE Running(Product)
  <2>1. pc \in Nat
    BY TestGoesOn DEF TypeInv
  <2> QED  BY <1>1, <1>7, <2>1, ProductLeaves DEF testVars
<1>8. CASE UNCHANGED vars
  <2>1. pc \in Nat
    BY TestGoesOn DEF TypeInv
  <2> QED  BY <1>1, <1>8, <2>1 DEF vars, testVars, planeVars
<1> QED  BY <1>3, <1>4, <1>5, <1>6, <1>7, <1>8 DEF Next, Test, Looks, Ended

LEMMA LinesStep ==
  ASSUME TypeInv, PublishedOnce, LinesInv, [Next]_vars
  PROVE  LinesInv'
<1> SUFFICES ASSUME NEW t, t = story', NEW f, f = fault', NEW s \in SinksOf(t), NEW way, way = WayTo[t][s]
             PROVE  LineInv(t, f, way, s)'
  BY DEF LinesInv
<1>1. t = story /\ f = fault /\ t \in DOMAIN Topology
  BY StoryStays DEF TypeInv
<1>2. LineInv(t, f, way, s)
  BY <1>1 DEF LinesInv
<1>3. IsWay(t, way, s)
  BY <1>1, WayIsWay
<1>4. ASSUME UNCHANGED <<inbox, arrived, missed, published>> PROVE LineInv(t, f, way, s)'
  <2>1. Len(way) \in Nat
    BY <1>3 DEF IsWay
  <2>2. SameLine(way, s)
    BY <1>4, <2>1, LineUntouched DEF SameLine
  <2> QED  BY <1>2, <1>4, <2>2, SameLineKeeps
<1>5. ASSUME At("publish") \/ At("push"), PublishFrom(Step.org, Step.subject, Step.msg)
      PROVE  LineInv(t, f, way, s)'
  <2>1. /\ pc \in StimuliOf(t) /\ Step = Body[t][pc]
        /\ Step.msg \in Messages(t) /\ (Fresh(t, Step) \/ Tampered(t, Step))
        /\ \A k \in DOMAIN published : published[k].body # Step.msg.body
    BY <1>1, <1>5, Stimulus
  <2>2. GateHolds(t, f) /\ f = "unbound" => Fresh(t, Step)
    BY <2>1 DEF GateHolds
  <2> QED  BY <1>1, <1>2, <1>5, <2>1, <2>2, LinePublish
<1>6. CASE Publish
  BY <1>5, <1>6 DEF Publish
<1>7. CASE Push
  BY <1>4, <1>5, <1>7 DEF Push, planeVars, loopVars, sinkVars
<1>8. CASE Restart
  BY <1>1, <1>2, <1>3, <1>8, LineDown DEF Restart, RestartLoops
<1>9. CASE StopNode
  BY <1>1, <1>2, <1>3, <1>9, LineDown DEF StopNode, sinkVars
<1>10. CASE Looks
  <2>1. UNCHANGED <<inbox, arrived, missed, published>>
    BY <1>10, LooksOnly DEF planeVars, loopVars, sinkVars
  <2> QED  BY <1>4, <2>1
<1>11. CASE Running(Product)
  <2>1. PICK l \in Loops : Subscribe(l) \/ Reject(l) \/ Relay(l) \/ Deliver(l) \/ Audit(l)
    BY <1>11, ProductLeaves
  <2>2. CASE Subscribe(l)
    BY <1>4, <2>2 DEF Subscribe, sinkVars
  <2>3. CASE Reject(l)
    BY <1>1, <1>2, <1>3, <2>3, LineReject
  <2>4. CASE Relay(l)
    BY <1>1, <1>2, <1>3, <2>4, LineRelay
  <2>5. CASE Deliver(l)
    BY <1>1, <1>2, <1>3, <2>5, LineDeliver
  <2>6. CASE Audit(l)
    BY <1>4, <2>6 DEF Audit, loopVars, sinkVars
  <2> QED  BY <2>1, <2>2, <2>3, <2>4, <2>5, <2>6
<1>12. CASE UNCHANGED vars
  BY <1>4, <1>12 DEF vars, testVars, planeVars, loopVars, sinkVars
<1> QED  BY <1>6, <1>7, <1>8, <1>9, <1>10, <1>11, <1>12 DEF Next, Test, Looks, Ended

\* A wait of the body that names a loop ends with that loop's subscription.
LEMMA WaitedFor ==
  ASSUME TypeInv, At("health") \/ At("gate"), Awaited
  PROVE  WaitsFor(Step) \subseteq subscribed
<1>1. CASE At("health")
  <2>1. WaitsFor(Step) = {Step.arg} /\ Step.arg \in subscribed
    BY <1>1 DEF WaitsFor, Awaited, At
  <2> QED  BY <2>1
<1>2. CASE At("gate")
  <2>1. PICK l \in subscribed : Loop(l).hears = Step.arg
    BY <1>2 DEF Awaited, At, HasSubscriber
  <2>2. WaitsFor(Step) = {k \in Loops : {j \in Loops : Loop(j).hears = Step.arg} = {k}}
    BY <1>2 DEF WaitsFor, At
  <2>3. l \in Loops
    BY DEF TypeInv
  <2> QED  BY <2>1, <2>2, <2>3
<1> QED  BY <1>1, <1>2

LEMMA WaitsForNobody ==
  ASSUME NEW step, step.op \notin {"health", "gate"}
  PROVE  WaitsFor(step) = {}
BY DEF WaitsFor

LEMMA GatesStep ==
  ASSUME TypeInv, GatesHeld, [Next]_vars
  PROVE  GatesHeld'
<1>0. story' = story /\ Script' = Script /\ \A step : WaitsFor(step)' = WaitsFor(step)
  BY StoryStays DEF Script, WaitsFor, Loops, Loop
<1>1. pc \in Nat
  BY TestGoesOn DEF TypeInv
<1>2. ASSUME verdict = "running", subscribed \subseteq subscribed', pc' = pc
      PROVE  GatesHeld'
  BY <1>0, <1>2 DEF GatesHeld
<1>3. ASSUME verdict = "running", Advance, Step.op \in {"restart", "stop"}
      PROVE  GatesHeld'
  <2>1. verdict' = "running" => pc' = pc + 1
    BY <1>3, TestGoesOn
  <2> SUFFICES ASSUME verdict' = "running", NEW j \in 1..pc
               PROVE  \E k \in j..pc : Script[k].op \in {"restart", "stop"}
    BY <1>0, <1>1, <2>1 DEF GatesHeld
  <2>2. pc \in j..pc
    BY <1>1
  <2> QED  BY <1>3, <2>2 DEF Step
<1>4. ASSUME verdict = "running", Advance, subscribed' = subscribed, WaitsFor(Step) \subseteq subscribed
      PROVE  GatesHeld'
  <2>1. verdict' = "running" => pc' = pc + 1
    BY <1>4, TestGoesOn
  <2> SUFFICES ASSUME verdict' = "running", NEW j \in 1..pc,
                      \A k \in j..pc : Script[k].op \notin {"restart", "stop"}
               PROVE  WaitsFor(Script[j]) \subseteq subscribed
    BY <1>0, <1>1, <1>4, <2>1 DEF GatesHeld
  <2>2. CASE j = pc
    BY <1>4, <2>2 DEF Step
  <2>3. CASE j # pc
    <3>1. j \in 1..pc-1 /\ \A k \in j..pc-1 : k \in j..pc
      BY <1>1, <2>3
    <3> QED  BY <1>4, <3>1 DEF GatesHeld
  <2> QED  BY <2>2, <2>3
<1>5. CASE Publish
  <2>1. verdict = "running" /\ Advance /\ subscribed' = subscribed /\ Step.op = "publish"
    BY <1>5 DEF Publish, PublishFrom, At
  <2> QED  BY <1>4, <2>1, WaitsForNobody
<1>6. CASE Push
  <2>1. verdict = "running" /\ Advance /\ subscribed' = subscribed /\ Step.op = "push"
    BY <1>6 DEF Push, PublishFrom, At, planeVars, loopVars
  <2> QED  BY <1>4, <2>1, WaitsForNobody
<1>7. CASE Restart
  BY <1>3, <1>7 DEF Restart, At
<1>8. CASE StopNode
  BY <1>3, <1>8 DEF StopNode, At
<1>9. CASE Looks
  <2>1. verdict = "running" /\ (Advance \/ Fail) /\ subscribed' = subscribed
    BY <1>9, LooksOnly DEF planeVars, loopVars
  <2>2. CASE Fail
    BY <1>2, <2>1, <2>2 DEF Fail
  <2>3. CASE ~Fail /\ Step.op \in {"health", "gate"}
    BY <1>4, <1>9, <2>1, <2>3, LooksOnly, WaitedFor DEF At
  <2>4. CASE ~Fail /\ Step.op \notin {"health", "gate"}
    BY <1>4, <2>1, <2>4, WaitsForNobody
  <2> QED  BY <2>2, <2>3, <2>4
<1>10. CASE Running(Product)
  BY <1>2, <1>10, ProductLeaves DEF testVars
<1>11. CASE UNCHANGED vars
  BY <1>0, <1>11 DEF GatesHeld, vars, testVars, planeVars, loopVars
<1> QED  BY <1>5, <1>6, <1>7, <1>8, <1>9, <1>10, <1>11 DEF Next, Test, Looks, Ended

LEMMA InitHolds ==
  ASSUME Init
  PROVE  TypeInv /\ PlaneInv /\ GatesHeld
<1>1. /\ story \in DOMAIN Topology /\ pc = 1 /\ published = <<>> /\ missed = {} /\ subscribed = {}
      /\ inbox = [l \in Loops |-> <<>>] /\ stream = [l \in Sinks |-> <<>>] /\ arrived = stream
  BY DEF Init, PlaneInit
<1>2. TypeInv
  <2>1. <<>> \in Seq(Messages(story))
    OBVIOUS
  <2>2. pc \in 1..Len(Script)
    BY <1>1, BodyAssumption DEF Script
  <2> QED  BY <1>1, <2>1, <2>2 DEF TypeInv
<1>3. PublishedOnce
  BY <1>1 DEF PublishedOnce
<1>4. ASSUME NEW t, t = story, NEW f, f = fault, NEW s \in SinksOf(t), NEW way, way = WayTo[t][s]
      PROVE  LineInv(t, f, way, s)
  <2> DEFINE q == LineOf(way, s)
  <2>1. IsWay(t, way, s)
    BY <1>1, <1>4, WayIsWay
  <2>2. /\ q \in [1..Len(way)+1 -> Seq(Messages(t))] /\ Len(way) \in Nat
        /\ \A i \in 1..Len(way) : way[i] \in Loops /\ q[i] = inbox[way[i]]
        /\ q[Len(way)+1] = arrived[s]
    BY <1>2, <1>4, <2>1, LineType
  <2> HIDE DEF q
  <2>3. \A i \in DOMAIN q : q[i] = <<>>
    <3>1. \A i \in 1..Len(way)+1 : i = Len(way)+1 \/ i \in 1..Len(way)
      BY <2>2
    <3>2. arrived[s] = <<>>
      BY <1>1, <1>4 DEF Sinks
    <3> QED  BY <1>1, <2>2, <3>1, <3>2
  <2>4. GoneOn(way) = {}
    BY <1>1 DEF GoneOn
  <2>5. \A i \in DOMAIN q : DOMAIN q[i] = {}
    BY <2>3
  <2>6. OnLine(q, GoneOn(way), published, DroppedOn(t, way))
    BY <1>1, <2>4, <2>5 DEF OnLine, Unique, Known, Present
  <2>7. InFlow(q, OpenAt(t, f, way), published, way)
    BY <2>5 DEF InFlow, Ordered, Signed
  <2> QED  BY <2>6, <2>7 DEF LineInv, q
<1>5. LinesInv
  BY <1>4 DEF LinesInv
<1>6. GatesHeld
  BY <1>1 DEF GatesHeld
<1> QED  BY <1>2, <1>3, <1>5, <1>6 DEF PlaneInv

\* Every variable of the data plane and the test has its type: what is queued,
\* arrived or was missed is a message of the story's own stimuli, signed by loops
\* of its topology.
THEOREM TypeCorrect == Spec => []TypeInv
<1>1. Init => TypeInv /\ PublishedOnce
  BY InitHolds DEF PlaneInv
<1>2. TypeInv /\ PublishedOnce /\ [Next]_vars => TypeInv' /\ PublishedOnce'
  BY TypeStep, PublishedStep
<1> QED  BY <1>1, <1>2, PTL DEF Spec

THEOREM LinesHold == Spec => [](TypeInv /\ PlaneInv)
<1>1. Init => TypeInv /\ PlaneInv
  BY InitHolds
<1>2. TypeInv /\ PlaneInv /\ [Next]_vars => TypeInv' /\ PlaneInv'
  BY TypeStep, PublishedStep, LinesStep DEF PlaneInv
<1> QED  BY <1>1, <1>2, PTL DEF Spec

\* A body that waited for every loop, and not before the loops last went down, finds
\* them all subscribed.
THEOREM GatesAreEnough == Spec => []GatesSuffice
<1>1. Init => TypeInv /\ PublishedOnce /\ GatesHeld
  BY InitHolds DEF PlaneInv
<1>2. TypeInv /\ PublishedOnce /\ GatesHeld /\ [Next]_vars => TypeInv' /\ PublishedOnce' /\ GatesHeld'
  BY TypeStep, PublishedStep, GatesStep
<1>3. ASSUME TypeInv, PublishedOnce, GatesHeld, FullyGated, At("publish") \/ At("push")
      PROVE  subscribed = Loops
  <2>1. pc \in StimuliOf(story) /\ pc \in Nat /\ verdict = "running"
    BY <1>3, Stimulus, TestGoesOn DEF At, TypeInv
  <2>2. ASSUME NEW l \in Loops PROVE l \in subscribed
    <3>1. PICK j \in 1..pc : /\ l \in WaitsFor(Script[j])
                             /\ \A k \in j..pc : Script[k].op \notin {"restart", "stop"}
      BY <1>3, <2>1 DEF FullyGated
    <3>2. j # pc
      BY <1>3, <3>1, WaitsForNobody DEF At, Step
    <3>3. j \in 1..pc-1 /\ \A k \in j..pc-1 : k \in j..pc
      BY <2>1, <3>2
    <3> QED  BY <1>3, <2>1, <3>1, <3>3 DEF GatesHeld
  <2> QED  BY <1>3, <2>2 DEF TypeInv
<1>4. TypeInv /\ PublishedOnce /\ GatesHeld => GatesSuffice
  BY <1>3 DEF GatesSuffice, StimulusMeetsEveryLoop
<1> QED  BY <1>1, <1>2, <1>4, PTL DEF Spec

-----------------------------------------------------------------------------
(***************************************************************************)
(* What the invariant of a line says of its stimuli.                       *)
(***************************************************************************)
\* The line of a sink of the story that is running.
LEMMA LineOfSink ==
  ASSUME TypeInv, PlaneInv, NEW s \in Sinks
  PROVE  /\ LineInv(story, fault, Way(s), s) /\ IsWay(story, Way(s), s)
         /\ LineOf(Way(s), s) \in [1..Len(Way(s))+1 -> Seq(Messages(story))]
         /\ Len(Way(s)) \in Nat \ {0}
         /\ \A i \in 1..Len(Way(s)) : Way(s)[i] \in Loops /\ LineOf(Way(s), s)[i] = inbox[Way(s)[i]]
         /\ LineOf(Way(s), s)[Len(Way(s))+1] = arrived[s]
<1>1. IsWay(story, Way(s), s)
  BY WayIsWay DEF TypeInv, Sinks, Way
<1>2. LineInv(story, fault, Way(s), s)
  BY DEF PlaneInv, LinesInv, Sinks, Way
<1> QED  BY <1>1, <1>2, LineType

\* The places of Whereabouts are the places of the line and what is gone.
PlaceAt(way, s, i, p) ==
    IF i = Len(way)+1 THEN <<"arrived", s, p>> ELSE <<"waits", way[i], p>>

FoundIn(q, gone, way, s, body, found) ==
    /\ \A i \in DOMAIN q : \A p \in DOMAIN q[i] : q[i][p].body = body =>
          PlaceAt(way, s, i, p) \in found
    /\ \A x \in gone : x[2].body = body => <<"gone", x[1], x[2]>> \in found
    /\ \A place \in found :
          \/ \E i \in DOMAIN q : \E p \in DOMAIN q[i] :
                q[i][p].body = body /\ place = PlaceAt(way, s, i, p)
          \/ \E x \in gone : x[2].body = body /\ place = <<"gone", x[1], x[2]>>

LEMMA Places ==
  ASSUME TypeInv, PlaneInv, NEW s \in Sinks, NEW body
  PROVE  FoundIn(LineOf(Way(s), s), GoneOn(Way(s)), Way(s), s, body, Whereabouts(body, s))
<1> DEFINE way == Way(s)
           q == LineOf(way, s)
           n == Len(way)
           A == Arrivals(body, s)
           W(l) == Waiting(body, l)
           G == Losses(body, s)
           U == UNION {W(l) : l \in Range(way)}
<1>1. /\ n \in Nat \ {0} /\ DOMAIN q = 1..n+1 /\ q[n+1] = arrived[s]
      /\ \A i \in 1..n : q[i] = inbox[way[i]]
      /\ Range(way) = {way[i] : i \in 1..n}
  BY LineOfSink DEF IsWay, Range
<1>2. \A place : place \in Whereabouts(body, s) <=> place \in A \/ place \in U \/ place \in G
  <2>1. Whereabouts(body, s) = A \cup G \cup U
    BY DEF Whereabouts
  <2> HIDE DEF A, U, G
  <2> QED  BY <2>1
<1> HIDE DEF q, way
<1>3. \A i \in 1..n+1 : i = n+1 \/ (i # n+1 /\ i \in 1..n)
  BY <1>1
<1>4. ASSUME NEW i \in DOMAIN q, NEW p \in DOMAIN q[i], q[i][p].body = body
      PROVE  PlaceAt(way, s, i, p) \in Whereabouts(body, s)
  <2>1. CASE i = n+1
    <3>1. <<"arrived", s, p>> \in A
      BY <1>1, <1>4, <2>1 DEF Holding, Arrivals
    <3> QED  BY <1>2, <2>1, <3>1 DEF PlaceAt
  <2>2. CASE i # n+1 /\ i \in 1..n
    <3>1. <<"waits", way[i], p>> \in W(way[i]) /\ way[i] \in Range(way)
      BY <1>1, <1>4, <2>2 DEF Holding, Waiting
    <3>2. <<"waits", way[i], p>> \in U
      BY <3>1
    <3> HIDE DEF A, U, G
    <3> QED  BY <1>2, <2>2, <3>2 DEF PlaceAt
  <2> QED  BY <1>1, <1>3, <2>1, <2>2
<1>5. ASSUME NEW x \in GoneOn(way), x[2].body = body
      PROVE  <<"gone", x[1], x[2]>> \in Whereabouts(body, s)
  <2>1. <<"gone", x[1], x[2]>> \in G
    BY <1>5 DEF GoneOn, Losses, way
  <2> HIDE DEF A, U, G
  <2> QED  BY <1>2, <2>1
<1>6. ASSUME NEW place \in Whereabouts(body, s)
      PROVE  \/ \E i \in DOMAIN q : \E p \in DOMAIN q[i] :
                   q[i][p].body = body /\ place = PlaceAt(way, s, i, p)
             \/ \E x \in GoneOn(way) : x[2].body = body /\ place = <<"gone", x[1], x[2]>>
  <2>1. CASE place \in A
    <3>1. PICK p \in DOMAIN arrived[s] : arrived[s][p].body = body /\ place = <<"arrived", s, p>>
      BY <2>1 DEF Holding, Arrivals
    <3>2. place = PlaceAt(way, s, n+1, p) /\ n+1 \in DOMAIN q
      BY <1>1, <3>1 DEF PlaceAt
    <3> QED  BY <1>1, <3>1, <3>2
  <2>2. ASSUME NEW l \in Range(way), place \in W(l)
        PROVE  \E i \in DOMAIN q : \E p \in DOMAIN q[i] :
                  q[i][p].body = body /\ place = PlaceAt(way, s, i, p)
    <3>1. PICK p \in DOMAIN inbox[l] : inbox[l][p].body = body /\ place = <<"waits", l, p>>
      BY <2>2 DEF Holding, Waiting
    <3>2. PICK i \in 1..n : l = way[i]
      BY <1>1
    <3>3. i # n+1 /\ i \in DOMAIN q
      BY <1>1
    <3>4. place = PlaceAt(way, s, i, p)
      BY <3>1, <3>2, <3>3 DEF PlaceAt
    <3> QED  BY <1>1, <3>1, <3>2, <3>3, <3>4
  <2>3. CASE place \in G
    <3>1. PICK x \in missed : /\ x[1] \in Range(way) /\ x[2].body = body
                              /\ place = <<"gone", x[1], x[2]>>
      BY <2>3 DEF Losses, way
    <3>2. x \in GoneOn(way)
      BY <3>1 DEF GoneOn
    <3> QED  BY <3>1, <3>2
  <2>4. CASE place \in U
    <3>1. PICK l \in Range(way) : place \in W(l)
      BY <2>4
    <3> QED  BY <2>2, <3>1
  <2> HIDE DEF A, U, G
  <2> QED  BY <1>2, <2>1, <2>3, <2>4
<1> QED  BY <1>4, <1>5, <1>6 DEF FoundIn, q, way

\* Every whole stimulus that no filter on the way to a sink drops is in exactly one
\* place of that way, or written off once: whatever the interleaving of publishes,
\* relays, deliveries and restarts, it is neither lost without a trace nor seen twice.
THEOREM StimuliAccountedFor == Spec => []EveryStimulusAccountedFor
<1>1. ASSUME TypeInv, PlaneInv, NEW n \in DOMAIN published, NEW s \in Sinks,
             published[n].intact, ~Blocked(published[n].body, s)
      PROVE  \E place \in Whereabouts(published[n].body, s) :
                Whereabouts(published[n].body, s) = {place}
  <2> DEFINE way  == Way(s)
             q    == LineOf(way, s)
             body == published[n].body
             found == Whereabouts(body, s)
  <2>1. OnLine(q, GoneOn(way), published, DroppedOn(story, way))
    BY <1>1, LineOfSink DEF LineInv
  <2>2. body \notin DroppedOn(story, way)
    BY <1>1 DEF Blocked, DroppedOn, Loop
  <2>3. FoundIn(q, GoneOn(way), way, s, body, found)
    BY <1>1, Places
  <2> HIDE DEF q, way, found
  <2>4. \/ \E i \in DOMAIN q : \E p \in DOMAIN q[i] : q[i][p].body = body
        \/ \E x \in GoneOn(way) : x[2].body = body
    BY <1>1, <2>1, <2>2 DEF OnLine, Present
  <2>5. \E place : place \in found
    BY <2>3, <2>4 DEF FoundIn
  <2>6. ASSUME NEW a \in found, NEW b \in found PROVE a = b
    <3>1. Unique(q, GoneOn(way))
      BY <2>1 DEF OnLine
    <3>2. ASSUME NEW i \in DOMAIN q, NEW p \in DOMAIN q[i], q[i][p].body = body,
                 a = PlaceAt(way, s, i, p)
          PROVE  a = b
      <4>1. \A x \in GoneOn(way) : x[2].body # body
        BY <3>1, <3>2 DEF Unique
      <4>2. \E j \in DOMAIN q : \E r \in DOMAIN q[j] :
               q[j][r].body = body /\ b = PlaceAt(way, s, j, r)
        BY <2>3, <4>1 DEF FoundIn
      <4>3. \A j \in DOMAIN q : \A r \in DOMAIN q[j] : q[j][r].body = body => i = j /\ p = r
        BY <3>1, <3>2 DEF Unique
      <4> QED  BY <3>2, <4>2, <4>3
    <3>3. ASSUME NEW x \in GoneOn(way), x[2].body = body, a = <<"gone", x[1], x[2]>>
          PROVE  a = b
      <4>1. \A i \in DOMAIN q : \A p \in DOMAIN q[i] : q[i][p].body # body
        BY <3>1, <3>3 DEF Unique
      <4>2. \E y \in GoneOn(way) : y[2].body = body /\ b = <<"gone", y[1], y[2]>>
        BY <2>3, <4>1 DEF FoundIn
      <4>3. \A y \in GoneOn(way) : y[2].body = body => x = y
        BY <3>1, <3>3 DEF Unique
      <4> QED  BY <3>3, <4>2, <4>3
    <3> QED  BY <2>3, <3>2, <3>3 DEF FoundIn
  <2>7. \E place \in found : found = {place}
    BY <2>5, <2>6
  <2> QED  BY <2>7 DEF found
<1>2. TypeInv /\ PlaneInv => EveryStimulusAccountedFor
  BY <1>1 DEF EveryStimulusAccountedFor
<1> QED  BY <1>2, LinesHold, PTL

\* With the payload bound to its credential, or with stimuli there is nothing to hold
\* against, no message overtakes another on its way to a sink, and each sink consumes
\* what every loop of its way signed, in the way's order.
THEOREM ArrivesAsPublished == Spec => [](GateHolds(story, fault) => ArrivesInPublishOrder)
<1>1. ASSUME TypeInv, PlaneInv, GateHolds(story, fault), NEW s \in Sinks
      PROVE  /\ \A i, j \in DOMAIN arrived[s] : i < j =>
                   Before(published, arrived[s][i].body, arrived[s][j].body)
             /\ \A msg \in Range(arrived[s]) : Append(msg.lineage, s) = Way(s)
  <2> DEFINE way  == Way(s)
             q    == LineOf(way, s)
             open == OpenAt(story, fault, way)
             end  == Len(way) + 1
  <2>1. InFlow(q, open, published, way)
    BY <1>1, LineOfSink DEF LineInv
  <2>2. /\ Len(way) \in Nat \ {0} /\ end \in DOMAIN q /\ q[end] = arrived[s]
        /\ way \in Seq(DOMAIN Topology[story].loops) /\ way[Len(way)] = s
    BY <1>1, LineOfSink DEF IsWay
  <2>3. end \in open
    BY <2>2 DEF OpenAt
  <2> HIDE DEF q, open, way
  <2>4. \A p \in DOMAIN q[end] : Live(q, open, end, p)
    BY <2>3 DEF Live
  <2>5. ASSUME NEW i \in DOMAIN arrived[s], NEW j \in DOMAIN arrived[s], i < j
        PROVE  Before(published, arrived[s][i].body, arrived[s][j].body)
    BY <2>1, <2>2, <2>4, <2>5 DEF InFlow, Ordered
  <2>6. ASSUME NEW p \in DOMAIN arrived[s] PROVE Append(arrived[s][p].lineage, s) = way
    <3>1. arrived[s][p].lineage = SubSeq(way, 1, Len(way)-1)
      BY <2>1, <2>2, <2>4 DEF InFlow, Signed
    <3>2. Append(SubSeq(way, 1, Len(way)-1), way[Len(way)]) = SubSeq(way, 1, Len(way))
      <4>1. Len(way) \in 1..Len(way)
        BY <2>2
      <4> QED  BY <2>2, <4>1, SignedOn
    <3>3. SubSeq(way, 1, Len(way)) = way
      BY <2>2
    <3> QED  BY <2>2, <3>1, <3>2, <3>3
  <2> QED  BY <2>5, <2>6 DEF Range, way
<1>2. TypeInv /\ PlaneInv => (GateHolds(story, fault) => ArrivesInPublishOrder)
  BY <1>1 DEF ArrivesInPublishOrder, SeenInPublishOrder, LineageIsTheRoute, Before
<1> QED  BY <1>2, LinesHold, PTL
=============================================================================
