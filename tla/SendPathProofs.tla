--------------------------- MODULE SendPathProofs ---------------------------
(* Proofs about SendPath, for any senders, message sizes, window and bounds. *)
EXTENDS SendPath, TLAPS

\* What holds of the bundle, the wire and the counters taken together: the
\* accounting, the size of the bundle, and identifiers that only grow.
OutInv(o) ==
  /\ o \in Outputs
  /\ o.messagesSent = Len(o.wire) + Len(o.bundle) + o.messagesDropped
  /\ o.offset <= MaxDatagram /\ Len(o.bundle) <= MaxMembers
  /\ \A j \in 1..Len(o.bundle) :
       o.bundle[j].id <= o.messagesSent /\ o.bundle[j].size <= MaxMember
  /\ \A i \in 1..Len(o.wire) : o.wire[i].msg.id <= o.messagesSent
  /\ \A i, j \in 1..Len(o.bundle) : i < j => o.bundle[i].id < o.bundle[j].id
  /\ \A i, j \in 1..Len(o.wire) :
       (i < j /\ Bundled(o.wire[i]) /\ Bundled(o.wire[j]))
          => o.wire[i].msg.id < o.wire[j].msg.id
  /\ \A i \in 1..Len(o.wire), j \in 1..Len(o.bundle) :
       Bundled(o.wire[i]) => o.wire[i].msg.id < o.bundle[j].id

\* The constants have their types, and a single member always fits.
LEMMA ConstantTypes ==
  /\ Header \in Nat /\ Prefix \in Nat /\ MaxMember \in Nat
  /\ Header <= MaxDatagram /\ MaxDatagram \in Nat /\ MaxMembers \in Nat \ {0}
  /\ Header + Prefix + MaxMember = MaxDatagram
  /\ Sizes \subseteq Nat
BY SendAssumption DEF Header, Prefix, MaxMember

\* A concatenation is as long as its parts together.
LEMMA LenConcat ==
  ASSUME NEW S, NEW w \in Seq(S), NEW a \in Seq(S)
  PROVE  Len(w \o a) = Len(w) + Len(a)
OBVIOUS

\* The types of what the counters, the bundle and the wire hold.
LEMMA OutFacts ==
  ASSUME NEW o, o \in Outputs
  PROVE  /\ o.messagesSent \in Nat /\ o.messagesDropped \in Nat /\ o.offset \in Nat
         /\ Len(o.bundle) \in Nat /\ Len(o.wire) \in Nat
         /\ \A j \in 1..Len(o.bundle) : o.bundle[j].id \in Nat
         /\ \A i \in 1..Len(o.wire) : o.wire[i].msg.id \in Nat
PROOF
<1>1. /\ o.bundle \in Seq(Messages) /\ o.wire \in Seq([msg : Messages, to : Nat])
      /\ o.messagesSent \in Nat /\ o.messagesDropped \in Nat /\ o.offset \in Nat
  BY DEF Outputs
<1>2. \A j \in 1..Len(o.bundle) : o.bundle[j] \in Messages
  BY <1>1
<1>3. \A i \in 1..Len(o.wire) : o.wire[i] \in [msg : Messages, to : Nat]
  <2> DEFINE R == [msg : Messages, to : Nat]
  <2>1. o.wire \in Seq(R) BY <1>1
  <2> HIDE DEF R
  <2>2. \A i \in 1..Len(o.wire) : o.wire[i] \in R BY <2>1
  <2> QED BY <2>2 DEF R
<1>4. \A m \in Messages : m.id \in Nat
  BY DEF Messages
<1>5. \A e \in [msg : Messages, to : Nat] : e.msg \in Messages
  OBVIOUS
<1>6. \A j \in 1..Len(o.bundle) : o.bundle[j].id \in Nat
  BY <1>2, <1>4
<1>7. \A i \in 1..Len(o.wire) : o.wire[i].msg.id \in Nat
  BY <1>3, <1>4, <1>5
<1> QED BY <1>1, <1>6, <1>7

\* flushBundleLocked keeps the accounting and the order, whatever the socket
\* answered, and leaves either the same bundle or none.
LEMMA FlushKeeps ==
  ASSUME NEW o, NEW r, OutInv(o), server \in Nat
  PROVE  /\ OutInv(FlushBundle(o, r))
         /\ FlushBundle(o, r).bundle \in {o.bundle, << >>}
PROOF
<1> DEFINE f == FlushBundle(o, r)
<1>1. o \in Outputs BY DEF OutInv
<1>2. CASE o.bundle = << >>
  BY <1>2 DEF FlushBundle
<1>3. CASE o.bundle # << >> /\ r = "WouldBlock"
  BY <1>3 DEF FlushBundle
<1>4. CASE o.bundle # << >> /\ r = "Ok"
  <2> DEFINE a == Addressed(o.bundle)
             n == Len(o.wire)
             k == IF Len(o.bundle) > 1 THEN o.bundlesSent + 1 ELSE o.bundlesSent
  <2>1. f = [o EXCEPT !.wire = o.wire \o a, !.bundlesSent = k,
                      !.bundle = << >>, !.offset = Header]
    BY <1>4 DEF FlushBundle
  <2>2. /\ a \in Seq([msg : Messages, to : Nat]) /\ Len(a) = Len(o.bundle)
        /\ \A i \in 1..Len(o.bundle) : a[i].msg = o.bundle[i]
    BY <1>1 DEF Addressed, Outputs
  <2>3. /\ o.wire \o a \in Seq([msg : Messages, to : Nat])
        /\ Len(o.wire \o a) = n + Len(o.bundle)
        /\ n \in Nat /\ Len(o.bundle) \in Nat
        /\ k \in Nat
        /\ << >> \in Seq(Messages)
    <3>1. o.wire \in Seq([msg : Messages, to : Nat]) /\ o.bundle \in Seq(Messages)
          /\ o.bundlesSent \in Nat
      BY <1>1 DEF Outputs
    <3>2. k \in Nat
      BY <3>1
    <3> HIDE DEF a, k
    <3>3. o.wire \o a \in Seq([msg : Messages, to : Nat])
      BY <3>1, <2>2
    <3>4. Len(o.wire \o a) = n + Len(o.bundle)
      <4>1. Len(o.wire \o a) = Len(o.wire) + Len(a)
        BY <3>1, <2>2, LenConcat, Zenon
      <4> QED BY <4>1, <2>2
    <3>5. n \in Nat /\ Len(o.bundle) \in Nat
      BY <3>1
    <3>6. << >> \in Seq(Messages)
      OBVIOUS
    <3> QED BY <3>2, <3>3, <3>4, <3>5, <3>6
  <2>4. /\ \A i \in 1..n : (o.wire \o a)[i] = o.wire[i]
        /\ \A i \in (n + 1)..(n + Len(o.bundle)) : (o.wire \o a)[i].msg = o.bundle[i - n]
    BY <2>2, <1>1 DEF Outputs
  <2> HIDE DEF a, k, f
  <2>5. f \in Outputs
    BY <2>1, <2>3, <1>1, ConstantTypes DEF Outputs
  <2>6. /\ f.wire = o.wire \o a /\ f.bundle = << >> /\ f.offset = Header
        /\ f.messagesSent = o.messagesSent /\ f.messagesDropped = o.messagesDropped
    BY <2>1, <1>1 DEF Outputs
  <2>7. /\ n \in Nat /\ Len(o.bundle) \in Nat
        /\ Len(f.wire) = n + Len(o.bundle) /\ Len(f.bundle) = 0
        /\ \A i \in 1..n : f.wire[i] = o.wire[i]
        /\ \A i \in (n + 1)..(n + Len(o.bundle)) : f.wire[i].msg = o.bundle[i - n]
        /\ \A i \in (n + 1)..(n + Len(o.bundle)) : i - n \in 1..Len(o.bundle)
    <3> DEFINE m == Len(o.bundle)
    <3>0. n \in Nat /\ m \in Nat BY <2>3
    <3> HIDE DEF n, m
    <3>1. \A i \in (n + 1)..(n + m) : i - n \in 1..m
      BY <3>0
    <3>2. Len(f.bundle) = 0
      BY <2>6
    <3> USE DEF m
    <3> QED BY <2>3, <2>4, <2>6, <3>1, <3>2
  <2> HIDE DEF n
  <2>8. ASSUME NEW i \in 1..Len(f.wire)
        PROVE  f.wire[i].msg.id <= f.messagesSent
    <3>1. CASE i \in 1..n
      BY <3>1, <2>6, <2>7 DEF OutInv, n
    <3>2. CASE i \in (n + 1)..(n + Len(o.bundle))
      BY <3>2, <2>6, <2>7 DEF OutInv
    <3> QED BY <3>1, <3>2, <2>7
  <2>9. ASSUME NEW i \in 1..Len(f.wire), NEW j \in 1..Len(f.wire), i < j,
               Bundled(f.wire[i]), Bundled(f.wire[j])
        PROVE  f.wire[i].msg.id < f.wire[j].msg.id
    <3>1. CASE j <= n
      <4>1. i \in 1..n /\ j \in 1..n BY <3>1, <2>7, <2>9
      <4> QED BY <4>1, <2>7, <2>9 DEF OutInv, n
    <3>2. CASE i <= n /\ n < j
      <4>1. i \in 1..n /\ j \in (n + 1)..(n + Len(o.bundle)) BY <3>2, <2>7, <2>9
      <4> QED BY <4>1, <2>7, <2>9 DEF OutInv, n
    <3>3. CASE n < i
      <4>1. /\ i \in (n + 1)..(n + Len(o.bundle)) /\ j \in (n + 1)..(n + Len(o.bundle))
            /\ i - n < j - n
        BY <3>3, <2>7, <2>9
      <4> QED BY <4>1, <2>7 DEF OutInv
    <3> QED BY <3>1, <3>2, <3>3, <2>7
  <2>10. f.offset <= MaxDatagram /\ Len(f.bundle) <= MaxMembers
    BY <2>6, <2>7, ConstantTypes
  <2>11. f.messagesSent = Len(f.wire) + Len(f.bundle) + f.messagesDropped
    BY <2>6, <2>7, <1>1 DEF OutInv, Outputs, n
  <2>12. 1..Len(f.bundle) = {}
    BY <2>7
  <2>13. OutInv(f)
    BY <2>5, <2>8, <2>9, <2>10, <2>11, <2>12 DEF OutInv
  <2> QED BY <2>13, <2>6 DEF f
<1>5. CASE o.bundle # << >> /\ r # "Ok" /\ r # "WouldBlock"
  <2>1. f = [o EXCEPT !.messagesDropped = o.messagesDropped + Len(o.bundle),
                      !.bundle = << >>, !.offset = Header]
    BY <1>5 DEF FlushBundle
  <2>2. /\ << >> \in Seq(Messages) /\ Len(o.bundle) \in Nat
        /\ o.messagesDropped + Len(o.bundle) \in Nat
    BY <1>1 DEF Outputs
  <2> HIDE DEF f
  <2>3. f \in Outputs
    BY <2>1, <2>2, <1>1, ConstantTypes DEF Outputs
  <2>4. /\ f.wire = o.wire /\ f.bundle = << >> /\ f.offset = Header
        /\ f.messagesSent = o.messagesSent
        /\ f.messagesDropped = o.messagesDropped + Len(o.bundle)
    BY <2>1, <1>1 DEF Outputs
  <2>5. Len(f.bundle) = 0 /\ 1..Len(f.bundle) = {}
    BY <2>4
  <2>6. f.messagesSent = Len(f.wire) + Len(f.bundle) + f.messagesDropped
    BY <2>2, <2>4, <2>5, <1>1 DEF OutInv, Outputs
  <2>7. f.offset <= MaxDatagram /\ Len(f.bundle) <= MaxMembers
    BY <2>4, <2>5, ConstantTypes
  <2>8. /\ \A i \in 1..Len(f.wire) : f.wire[i].msg.id <= f.messagesSent
        /\ \A i, j \in 1..Len(f.wire) :
             (i < j /\ Bundled(f.wire[i]) /\ Bundled(f.wire[j]))
                => f.wire[i].msg.id < f.wire[j].msg.id
    BY <2>4 DEF OutInv
  <2>9. OutInv(f)
    BY <2>3, <2>5, <2>6, <2>7, <2>8 DEF OutInv
  <2> QED BY <2>9, <2>4 DEF f
<1> QED BY <1>2, <1>3, <1>4, <1>5

\* transmit()'s append keeps them too, for a message that fits the bundle and
\* whose identifier is fresh.
LEMMA JoinKeeps ==
  ASSUME NEW o, NEW len \in Sizes, OutInv(o), server \in Nat,
         len <= MaxMember, Fits(o, len)
  PROVE  OutInv(Join(o, len))
PROOF
<1> DEFINE m == Message(o, len)
           b == Append(o.bundle, m)
           n == Len(o.bundle)
           g == Join(o, len)
<1>1. o \in Outputs BY DEF OutInv
<1>2. /\ m \in Messages /\ m.id = o.messagesSent + 1 /\ m.size = len
      /\ o.bundle \in Seq(Messages) /\ o.offset \in Nat /\ o.messagesSent \in Nat
      /\ o.messagesDropped \in Nat /\ n \in Nat /\ Len(o.wire) \in Nat
  BY <1>1, OutFacts DEF Message, Messages, Outputs
<1>3. g = [o EXCEPT !.bundle = b, !.offset = o.offset + Prefix + len,
                    !.messagesSent = o.messagesSent + 1]
  BY DEF Join
<1> HIDE DEF m
<1>4. /\ b \in Seq(Messages) /\ Len(b) = n + 1
      /\ b[n + 1] = m /\ \A i \in 1..n : b[i] = o.bundle[i]
  BY <1>2
<1>5. o.offset + Prefix + len \in Nat /\ o.messagesSent + 1 \in Nat
  BY <1>2, ConstantTypes
<1> HIDE DEF b, g
<1>6. g \in Outputs
  BY <1>1, <1>3, <1>4, <1>5 DEF Outputs
<1>7. /\ g.bundle = b /\ g.offset = o.offset + Prefix + len
      /\ g.messagesSent = o.messagesSent + 1
      /\ g.wire = o.wire /\ g.messagesDropped = o.messagesDropped
  BY <1>1, <1>3 DEF Outputs
<1>0. /\ o.messagesSent = Len(o.wire) + n + o.messagesDropped
      /\ \A j \in 1..n : o.bundle[j].id <= o.messagesSent
      /\ \A j \in 1..n : o.bundle[j].size <= MaxMember
      /\ \A i \in 1..Len(o.wire) : o.wire[i].msg.id <= o.messagesSent
      /\ \A i, j \in 1..n : i < j => o.bundle[i].id < o.bundle[j].id
      /\ \A i \in 1..Len(o.wire), j \in 1..n :
           Bundled(o.wire[i]) => o.wire[i].msg.id < o.bundle[j].id
  BY DEF OutInv
<1>8. g.messagesSent = Len(g.wire) + Len(g.bundle) + g.messagesDropped
  <2> DEFINE ms == o.messagesSent
             lw == Len(o.wire)
             md == o.messagesDropped
  <2>1. ms \in Nat /\ lw \in Nat /\ n \in Nat /\ md \in Nat BY <1>2
  <2>2. ms = lw + n + md BY <1>0
  <2>3. ms + 1 = lw + (n + 1) + md
    <3> HIDE DEF ms, lw, md, n
    <3> QED BY <2>1, <2>2
  <2> QED BY <2>3, <1>4, <1>7
<1>9. g.offset <= MaxDatagram /\ Len(g.bundle) <= MaxMembers
  BY <1>2, <1>4, <1>7, ConstantTypes DEF Fits
<1>10. \A j \in 1..(n + 1) : j = n + 1 \/ j \in 1..n
  BY <1>2
<1>11. /\ \A j \in 1..n : o.bundle[j].id \in Nat
       /\ \A i \in 1..Len(o.wire) : o.wire[i].msg.id \in Nat
  BY <1>1, OutFacts
<1> HIDE DEF n
<1>12. ASSUME NEW j \in 1..Len(g.bundle)
       PROVE  g.bundle[j].id <= g.messagesSent /\ g.bundle[j].size <= MaxMember
  <2>1. CASE j = n + 1 BY <2>1, <1>2, <1>4, <1>7
  <2>2. CASE j \in 1..n 
    <3>1. g.bundle[j] = o.bundle[j] BY <2>2, <1>4, <1>7
    <3>2. o.bundle[j].id \in Nat /\ o.bundle[j].id <= o.messagesSent BY <2>2, <1>0, <1>11
    <3>3. o.bundle[j].size <= MaxMember BY <2>2, <1>0
    <3>4. o.bundle[j].id <= o.messagesSent + 1 BY <3>2, <1>2
    <3> QED BY <3>1, <3>3, <3>4, <1>7
  <2> QED BY <2>1, <2>2, <1>4, <1>7, <1>10
<1>13. ASSUME NEW i \in 1..Len(g.wire)
       PROVE  g.wire[i].msg.id <= g.messagesSent
  <2>1. i \in 1..Len(o.wire) /\ g.wire[i] = o.wire[i] BY <1>7
  <2>2. o.wire[i].msg.id \in Nat /\ o.wire[i].msg.id <= o.messagesSent BY <2>1, <1>0, <1>11
  <2>3. o.wire[i].msg.id <= o.messagesSent + 1 BY <2>2, <1>2
  <2> QED BY <2>1, <2>3, <1>7
<1>14. ASSUME NEW i \in 1..Len(g.bundle), NEW j \in 1..Len(g.bundle), i < j
       PROVE  g.bundle[i].id < g.bundle[j].id
  <2>1. i \in 1..n
    BY <1>2, <1>4, <1>7, <1>14
  <2>2. CASE j = n + 1
    <3>1. g.bundle[i] = o.bundle[i] /\ g.bundle[j] = m BY <2>1, <2>2, <1>4, <1>7
    <3>2. o.bundle[i].id \in Nat /\ o.bundle[i].id <= o.messagesSent BY <2>1, <1>0, <1>11
    <3>3. o.bundle[i].id < o.messagesSent + 1 BY <3>2, <1>2
    <3> QED BY <3>1, <3>3, <1>2
  <2>3. CASE j \in 1..n BY <2>1, <2>3, <1>0, <1>4, <1>7, <1>14
  <2> QED BY <2>2, <2>3, <1>4, <1>7, <1>10
<1>15. ASSUME NEW i \in 1..Len(g.wire), NEW j \in 1..Len(g.bundle), Bundled(g.wire[i])
       PROVE  g.wire[i].msg.id < g.bundle[j].id
  <2>1. CASE j = n + 1
    <3>1. g.wire[i] = o.wire[i] /\ g.bundle[j] = m /\ i \in 1..Len(o.wire)
      BY <2>1, <1>4, <1>7
    <3>2. o.wire[i].msg.id \in Nat /\ o.wire[i].msg.id <= o.messagesSent
      BY <3>1, <1>0, <1>11
    <3>3. o.wire[i].msg.id < o.messagesSent + 1 BY <3>2, <1>2
    <3> QED BY <3>1, <3>3, <1>2
  <2>2. CASE j \in 1..n BY <2>2, <1>0, <1>4, <1>7, <1>15
  <2> QED BY <2>1, <2>2, <1>4, <1>7, <1>10
<1>16. \A i, j \in 1..Len(g.wire) :
         (i < j /\ Bundled(g.wire[i]) /\ Bundled(g.wire[j]))
            => g.wire[i].msg.id < g.wire[j].msg.id
  BY <1>7 DEF OutInv
<1>17. OutInv(g)
  BY <1>6, <1>8, <1>9, <1>12, <1>13, <1>14, <1>15, <1>16 DEF OutInv
<1> QED BY <1>17 DEF g

\* A message sent alone keeps them: it is oversize, or bundling is off and no
\* bundle is pending.
LEMMA AloneKeeps ==
  ASSUME NEW o, NEW len \in Sizes, NEW r, OutInv(o), server \in Nat,
         len > MaxMember \/ o.bundle = << >>
  PROVE  /\ OutInv(SendAlone(o, len, r))
         /\ SendAlone(o, len, r).bundle = o.bundle
PROOF
<1>1. CASE r # "Ok" BY <1>1 DEF SendAlone
<1>2. CASE r = "Ok"
  <2> DEFINE m == Message(o, len)
             e == [msg |-> m, to |-> server]
             w == Append(o.wire, e)
             n == Len(o.wire)
             g == SendAlone(o, len, r)
  <2>1. o \in Outputs BY DEF OutInv
  <2>2. /\ m \in Messages /\ m.id = o.messagesSent + 1 /\ m.size = len
        /\ o.wire \in Seq([msg : Messages, to : Nat]) /\ o.messagesSent \in Nat
        /\ o.messagesDropped \in Nat /\ n \in Nat /\ Len(o.bundle) \in Nat
    BY <2>1, OutFacts DEF Message, Messages, Outputs
  <2> HIDE DEF m
  <2>3. e \in [msg : Messages, to : Nat] /\ e.msg = m
    BY <2>2
  <2>4. Addressed(<<m>>) = <<e>>
    BY DEF Addressed
  <2>5. o.wire \o <<e>> = w
    BY <2>2, <2>3
  <2>6. g = [o EXCEPT !.wire = w, !.messagesSent = o.messagesSent + 1]
    BY <1>2, <2>4, <2>5 DEF SendAlone, m
  <2> HIDE DEF e
  <2>7. /\ w \in Seq([msg : Messages, to : Nat]) /\ Len(w) = n + 1
        /\ w[n + 1] = e /\ \A i \in 1..n : w[i] = o.wire[i]
        /\ o.messagesSent + 1 \in Nat
    BY <2>2, <2>3
  <2> HIDE DEF w, g
  <2>8. g \in Outputs
    BY <2>1, <2>6, <2>7 DEF Outputs
  <2>9. /\ g.wire = w /\ g.messagesSent = o.messagesSent + 1
        /\ g.bundle = o.bundle /\ g.offset = o.offset
        /\ g.messagesDropped = o.messagesDropped
    BY <2>1, <2>6 DEF Outputs
  <2>0. /\ o.messagesSent = n + Len(o.bundle) + o.messagesDropped
        /\ \A j \in 1..Len(o.bundle) : o.bundle[j].id <= o.messagesSent
        /\ \A j \in 1..Len(o.bundle) : o.bundle[j].size <= MaxMember
        /\ \A i \in 1..n : o.wire[i].msg.id <= o.messagesSent
        /\ \A i, j \in 1..n : (i < j /\ Bundled(o.wire[i]) /\ Bundled(o.wire[j]))
             => o.wire[i].msg.id < o.wire[j].msg.id
        /\ \A i \in 1..n, j \in 1..Len(o.bundle) :
             Bundled(o.wire[i]) => o.wire[i].msg.id < o.bundle[j].id
    BY DEF OutInv
  <2>10. g.messagesSent = Len(g.wire) + Len(g.bundle) + g.messagesDropped
    <3> DEFINE ms == o.messagesSent
               lb == Len(o.bundle)
               md == o.messagesDropped
    <3>1. ms \in Nat /\ lb \in Nat /\ n \in Nat /\ md \in Nat BY <2>2
    <3>2. ms = n + lb + md BY <2>0
    <3>3. ms + 1 = (n + 1) + lb + md
      <4> HIDE DEF ms, lb, md, n
      <4> QED BY <3>1, <3>2
    <3> QED BY <3>3, <2>7, <2>9
  <2>11. \A j \in 1..(n + 1) : j = n + 1 \/ j \in 1..n
    BY <2>2
  <2>12. /\ \A j \in 1..Len(o.bundle) : o.bundle[j].id \in Nat
         /\ \A i \in 1..n : o.wire[i].msg.id \in Nat
    BY <2>1, OutFacts
  <2> HIDE DEF n
  <2>13. ASSUME NEW i \in 1..Len(g.wire)
         PROVE  g.wire[i].msg.id <= g.messagesSent
    <3>1. CASE i = n + 1 BY <3>1, <2>2, <2>3, <2>7, <2>9
    <3>2. CASE i \in 1..n
      <4>1. g.wire[i] = o.wire[i] BY <3>2, <2>7, <2>9
      <4>2. o.wire[i].msg.id \in Nat /\ o.wire[i].msg.id <= o.messagesSent
        BY <3>2, <2>0, <2>12
      <4>3. o.wire[i].msg.id <= o.messagesSent + 1 BY <4>2, <2>2
      <4> QED BY <4>1, <4>3, <2>9
    <3> QED BY <3>1, <3>2, <2>7, <2>9, <2>11
  <2>14. ASSUME NEW i \in 1..Len(g.wire), NEW j \in 1..Len(g.wire), i < j,
                Bundled(g.wire[i]), Bundled(g.wire[j])
         PROVE  g.wire[i].msg.id < g.wire[j].msg.id
    <3>1. i \in 1..n BY <2>2, <2>7, <2>9, <2>14
    <3>2. CASE j = n + 1
      <4>1. g.wire[i] = o.wire[i] /\ g.wire[j] = e BY <3>1, <3>2, <2>7, <2>9
      <4>2. o.wire[i].msg.id \in Nat /\ o.wire[i].msg.id <= o.messagesSent
        BY <3>1, <2>0, <2>12
      <4>3. \A x, y \in Nat : x <= y => x < y + 1 OBVIOUS
      <4>4. o.messagesSent \in Nat BY <2>2
      <4>5. o.wire[i].msg.id < o.messagesSent + 1 BY <4>2, <4>3, <4>4
      <4> QED BY <4>1, <4>5, <2>2, <2>3
    <3>3. CASE j \in 1..n BY <3>1, <3>3, <2>7, <2>9, <2>14, <2>0
    <3> QED BY <3>2, <3>3, <2>7, <2>9, <2>11
  <2>15. ASSUME NEW i \in 1..Len(g.wire), NEW j \in 1..Len(g.bundle), Bundled(g.wire[i])
         PROVE  g.wire[i].msg.id < g.bundle[j].id
    <3>1. o.bundle # << >> BY <2>9, <2>15
    <3>2. len > MaxMember /\ ~(len <= MaxMember) BY <3>1, ConstantTypes
    <3>3. i # n + 1 BY <3>2, <2>2, <2>3, <2>7, <2>9, <2>15 DEF Bundled
    <3>4. i \in 1..n BY <3>3, <2>7, <2>9, <2>11, <2>15
    <3> QED BY <3>4, <2>7, <2>9, <2>15, <2>0
  <2>16. \A j \in 1..Len(g.bundle) : g.bundle[j].id <= g.messagesSent /\ g.bundle[j].size <= MaxMember
    BY <2>2, <2>9, <2>12, <2>0
  <2>17. /\ g.offset <= MaxDatagram /\ Len(g.bundle) <= MaxMembers
         /\ \A i, j \in 1..Len(g.bundle) : i < j => g.bundle[i].id < g.bundle[j].id
    BY <2>9 DEF OutInv
  <2>18. OutInv(g)
    BY <2>8, <2>10, <2>13, <2>14, <2>15, <2>16, <2>17 DEF OutInv
  <2> QED BY <2>18, <2>9 DEF g
<1> QED BY <1>1, <1>2

\* The longest the network thread sleeps while it cannot be woken.
Grace == IF Window > 0 THEN Window ELSE 1

\* The inductive invariant: a bundle only forms when bundling is on, and while
\* the socket cannot be woken the thread sleeps at most one window.
SendInv ==
  /\ TypeOK
  /\ OutInv(out)
  /\ ~bundling => out.bundle = << >>
  /\ pipe => canWake
  /\ npc = "assign" => ~canWake
  /\ (bundling /\ npc = "sleep" /\ ~canWake) => wait <= Grace
  /\ NeverOversleeps

\* transmit(): the accounting is kept, and a bundle it leaves pending is the one
\* that was pending, or a new one that wakes the network thread if it can.
LEMMA TransmitKeeps ==
  ASSUME NEW len \in Sizes, SendInv, Transmit(len)
  PROVE  /\ OutInv(out')
         /\ ~bundling => out'.bundle = << >>
         /\ age' \in 0..Window
         /\ pipe' \in BOOLEAN
         /\ pipe => pipe'
         /\ pipe' => canWake
         /\ (out'.bundle # << >> /\ ~pipe')
              => \/ out.bundle # << >> /\ age' = age
                 \/ age' = 0 /\ ~canWake
PROOF
<1>1. /\ OutInv(out) /\ server \in Nat /\ bundling \in BOOLEAN /\ age \in 0..Window
      /\ pipe \in BOOLEAN /\ canWake \in BOOLEAN /\ (pipe => canWake)
      /\ (~bundling => out.bundle = << >>)
  BY DEF SendInv, TypeOK
<1>2. CASE TransmitDirect(len)
  <2>1. PICK r : out' = SendAlone(out, len, r) BY <1>2 DEF TransmitDirect
  <2>2. ~bundling /\ age' = age /\ pipe' = pipe BY <1>2 DEF TransmitDirect
  <2>3. OutInv(out') /\ out'.bundle = out.bundle BY <2>1, <2>2, <1>1, AloneKeeps
  <2> QED BY <2>2, <2>3, <1>1
<1>3. CASE TransmitOversize(len)
  <2>1. PICK r1, r2 : out' = SendAlone(FlushBundle(out, r1), len, r2)
    BY <1>3 DEF TransmitOversize
  <2>2. bundling /\ len > MaxMember /\ age' = age /\ pipe' = pipe
    BY <1>3 DEF TransmitOversize
  <2>3. OutInv(FlushBundle(out, r1)) /\ FlushBundle(out, r1).bundle \in {out.bundle, << >>}
    BY <1>1, FlushKeeps
  <2>4. OutInv(out') /\ out'.bundle = FlushBundle(out, r1).bundle
    BY <2>1, <2>2, <2>3, <1>1, AloneKeeps
  <2> QED BY <2>2, <2>3, <2>4, <1>1
<1>4. CASE TransmitBundled(len)
  <2> DEFINE flush == out.bundle # << >> /\ ((Window > 0 /\ Expired) \/ ~Fits(out, len))
             O(r) == IF flush THEN FlushBundle(out, r) ELSE out
  <2>1. PICK r : IF Fits(O(r), len)
                   THEN /\ out' = Join(O(r), len)
                        /\ age' = IF O(r).bundle = << >> THEN 0 ELSE age
                        /\ pipe' = IF O(r).bundle = << >> /\ canWake THEN TRUE ELSE pipe
                   ELSE out' = O(r) /\ UNCHANGED <<age, pipe>>
    BY <1>4 DEF TransmitBundled
  <2>2. bundling /\ len <= MaxMember BY <1>4 DEF TransmitBundled
  <2>3. OutInv(O(r)) /\ O(r).bundle \in {out.bundle, << >>}
    BY <1>1, FlushKeeps
  <2> HIDE DEF O
  <2>4. CASE Fits(O(r), len)
    <3>1. OutInv(out') BY <2>1, <2>2, <2>3, <2>4, <1>1, JoinKeeps
    <3>2. 0 \in 0..Window BY SendAssumption
    <3> QED BY <2>1, <2>2, <2>3, <2>4, <3>1, <3>2, <1>1
  <2>5. CASE ~Fits(O(r), len)
    BY <2>1, <2>2, <2>3, <2>5, <1>1
  <2> QED BY <2>4, <2>5
<1> QED BY <1>2, <1>3, <1>4 DEF Transmit

\* A step that flushes the bundle, or leaves it, and disturbs nothing the
\* sleeping network thread depends on.
LEMMA FlushStep ==
  ASSUME SendInv, NEW c, \E r : out' = IF c THEN FlushBundle(out, r) ELSE out
  PROVE  /\ OutInv(out')
         /\ out'.bundle \in {out.bundle, << >>}
PROOF
<1>1. OutInv(out) /\ server \in Nat BY DEF SendInv, TypeOK
<1>2. PICK r : out' = IF c THEN FlushBundle(out, r) ELSE out OBVIOUS
<1> QED BY <1>1, <1>2, FlushKeeps

\* Every step keeps the inductive invariant.
LEMMA SendStep == SendInv /\ [Next]_vars => SendInv'
PROOF
<1> SUFFICES ASSUME SendInv, [Next]_vars PROVE SendInv'
  OBVIOUS
<1>t. /\ bundling \in BOOLEAN /\ OutInv(out) /\ age \in 0..Window
      /\ encoding \in [Senders -> Sizes \cup {0}] /\ server \in Nat /\ servers \in Nat
      /\ canWake \in BOOLEAN /\ pipe \in BOOLEAN
      /\ wait \in 0..MaxWait /\ running \in BOOLEAN
      /\ (~bundling => out.bundle = << >>) /\ (pipe => canWake)
      /\ (npc = "assign" => ~canWake)
  BY DEF SendInv, TypeOK
<1>n. npc \in {"loop", "sleep", "flush", "house", "reassign", "close", "assign",
                "stopped", "joined", "closed"}
  BY DEF SendInv, TypeOK
<1>s. /\ (bundling /\ npc = "sleep" /\ ~canWake) => wait <= Grace
      /\ (bundling /\ npc = "sleep" /\ out.bundle # << >> /\ ~pipe) => wait <= Grace - age
  BY DEF SendInv, NeverOversleeps, Grace
<1>c. /\ Window \in Nat /\ MaxWait \in Nat \ {0} /\ Grace \in Nat /\ Grace >= Window
      /\ Grace >= 1
  BY SendAssumption DEF Grace
\* What is left to show of a step once the state it reaches is known.
<1>q. ASSUME /\ bundling' = bundling /\ OutInv(out') /\ age' \in 0..Window
             /\ encoding' \in [Senders -> Sizes \cup {0}]
             /\ server' \in Nat /\ servers' \in Nat
             /\ canWake' \in BOOLEAN /\ pipe' \in BOOLEAN
             /\ npc' \in {"loop", "sleep", "flush", "house", "reassign", "close", "assign",
                          "stopped", "joined", "closed"}
             /\ wait' \in 0..MaxWait /\ running' \in BOOLEAN
             /\ (~bundling => out'.bundle = << >>)
             /\ (pipe' => canWake')
             /\ (npc' = "assign" => ~canWake')
             /\ (bundling /\ npc' = "sleep" /\ ~canWake') => wait' <= Grace
             /\ (bundling /\ npc' = "sleep" /\ out'.bundle # << >> /\ ~pipe')
                   => wait' <= Grace - age'
      PROVE  SendInv'
  <2>1. out' \in Outputs BY <1>q DEF OutInv
  <2>2. TypeOK' BY <1>q, <1>t, <2>1 DEF TypeOK
  <2>3. NeverOversleeps' BY <1>q DEF NeverOversleeps, Grace
  <2> QED BY <1>q, <2>2, <2>3 DEF SendInv, OutInv, Bundled
<1>1. CASE \E sd \in Senders : SendTransmit(sd)
  <2> PICK sd \in Senders : SendTransmit(sd) BY <1>1
  <2>1. encoding[sd] \in Sizes BY <1>t DEF SendTransmit
  <2>2. /\ Transmit(encoding[sd])
        /\ encoding' = [encoding EXCEPT ![sd] = 0]
        /\ UNCHANGED <<bundling, server, servers, canWake, npc, wait, running>>
    BY DEF SendTransmit, sockVars, netVars
  <2>3. encoding' \in [Senders -> Sizes \cup {0}] BY <2>2, <1>t
  <2> DEFINE len == encoding[sd]
  <2> HIDE DEF len
  <2>4. len \in Sizes /\ Transmit(len) BY <2>1, <2>2 DEF len
  <2>5. /\ OutInv(out')
        /\ ~bundling => out'.bundle = << >>
        /\ age' \in 0..Window /\ pipe' \in BOOLEAN
        /\ pipe => pipe'
        /\ pipe' => canWake
        /\ (out'.bundle # << >> /\ ~pipe')
             => \/ out.bundle # << >> /\ age' = age
                \/ age' = 0 /\ ~canWake
    BY <2>4, TransmitKeeps
  <2>6. ASSUME bundling, npc = "sleep", out'.bundle # << >>, ~pipe'
        PROVE  wait <= Grace - age'
    <3>1. CASE out.bundle # << >> /\ age' = age
      <4>1. ~pipe BY <2>5, <2>6
      <4> QED BY <3>1, <4>1, <2>6, <1>s
    <3>2. CASE age' = 0 /\ ~canWake
      <4>1. wait <= Grace BY <3>2, <2>6, <1>s
      <4> QED BY <3>2, <4>1, <1>c, <1>t
    <3> QED BY <3>1, <3>2, <2>5, <2>6
  <2> QED BY <2>2, <2>3, <2>5, <2>6, <1>t, <1>n, <1>s, <1>q
<1>2. CASE \E sd \in Senders : \E len \in Sizes : SendEncode(sd, len)
  <2> PICK sd \in Senders, len \in Sizes : SendEncode(sd, len) BY <1>2
  <2>1. /\ encoding' = [encoding EXCEPT ![sd] = len]
        /\ UNCHANGED <<bundling, out, age, server, servers, canWake, pipe, npc, wait, running>>
    BY DEF SendEncode, sockVars, netVars
  <2>2. encoding' \in [Senders -> Sizes \cup {0}] BY <2>1, <1>t
  <2> QED BY <2>1, <2>2, <1>t, <1>n, <1>s, <1>q
<1>3. CASE FlushSends
  <2>1. UNCHANGED <<bundling, age, encoding, server, servers, canWake, pipe, npc, wait, running>>
    BY <1>3 DEF FlushSends, sockVars, netVars
  <2>2. \E r : out' = IF TRUE THEN FlushBundle(out, r) ELSE out BY <1>3 DEF FlushSends
  <2>3. OutInv(out') /\ out'.bundle \in {out.bundle, << >>} BY <2>2, FlushStep
  <2> QED BY <2>1, <2>3, <1>t, <1>n, <1>s, <1>q
<1>4. CASE NetSleep
  <2>1. /\ npc' = "sleep" /\ wait' = ReceiveWait
        /\ UNCHANGED <<bundling, out, age, encoding, server, servers, canWake, pipe, running>>
    BY <1>4 DEF NetSleep, sockVars
  <2>2. wait' \in 0..MaxWait BY <2>1, <1>t, <1>c DEF ReceiveWait, Least
  <2>3. (bundling /\ ~canWake) => wait' <= Grace
    BY <2>1, <1>t, <1>c DEF ReceiveWait, Least, Grace
  <2>4. (bundling /\ out.bundle # << >>) => wait' <= Grace - age
    BY <2>1, <1>t, <1>c DEF ReceiveWait, Least
  <2> QED BY <2>1, <2>2, <2>3, <2>4, <1>t, <1>n, <1>q
<1>5. CASE NetWoken
  <2>1. /\ npc' = "flush" /\ wait' = 0 /\ pipe' = FALSE
        /\ UNCHANGED <<bundling, out, age, encoding, server, servers, canWake, running>>
    BY <1>5 DEF NetWoken, sockVars
  <2>2. 0 \in 0..MaxWait BY <1>c
  <2> QED BY <2>1, <2>2, <1>t, <1>q
<1>6. CASE NetReceived
  <2>1. /\ npc' = "flush" /\ wait' = 0
        /\ UNCHANGED <<bundling, out, age, encoding, server, servers, canWake, pipe, running>>
    BY <1>6 DEF NetReceived, sockVars
  <2>2. 0 \in 0..MaxWait BY <1>c
  <2> QED BY <2>1, <2>2, <1>t, <1>q
<1>7. CASE NetFlush
  <2>1. /\ npc' = "house"
        /\ UNCHANGED <<bundling, age, encoding, server, servers, canWake, pipe, wait, running>>
    BY <1>7 DEF NetFlush, sockVars
  <2>2. \E r : out' = IF bundling /\ Expired THEN FlushBundle(out, r) ELSE out
    BY <1>7 DEF NetFlush
  <2>3. OutInv(out') /\ out'.bundle \in {out.bundle, << >>} BY <2>2, FlushStep
  <2> QED BY <2>1, <2>3, <1>t, <1>q
<1>8. CASE NetReassign
  <2>1. /\ npc' = "close"
        /\ UNCHANGED <<bundling, age, encoding, server, servers, canWake, pipe, wait, running>>
    BY <1>8 DEF NetReassign, sockVars
  <2>2. \E r : out' = IF bundling THEN FlushBundle(out, r) ELSE out
    BY <1>8 DEF NetReassign
  <2>3. OutInv(out') /\ out'.bundle \in {out.bundle, << >>} BY <2>2, FlushStep
  <2> QED BY <2>1, <2>3, <1>t, <1>q
<1>9. CASE DisconnectFlush
  <2>1. /\ npc' = "joined"
        /\ UNCHANGED <<bundling, age, encoding, server, servers, canWake, pipe, wait, running>>
    BY <1>9 DEF DisconnectFlush, sockVars
  <2>2. \E r : out' = IF bundling THEN FlushBundle(out, r) ELSE out
    BY <1>9 DEF DisconnectFlush
  <2>3. OutInv(out') /\ out'.bundle \in {out.bundle, << >>} BY <2>2, FlushStep
  <2> QED BY <2>1, <2>3, <1>t, <1>q
<1>10. CASE \E len \in Sizes : NetCapabilities(len)
  <2> PICK len \in Sizes : NetCapabilities(len) BY <1>10
  <2>1. /\ Transmit(len) /\ npc' = "reassign"
        /\ UNCHANGED <<bundling, encoding, server, servers, canWake, wait, running>>
    BY DEF NetCapabilities, sockVars
  <2>2. /\ OutInv(out')
        /\ ~bundling => out'.bundle = << >>
        /\ age' \in 0..Window /\ pipe' \in BOOLEAN
        /\ pipe' => canWake
    BY <2>1, TransmitKeeps
  <2> QED BY <2>1, <2>2, <1>t, <1>q
<1>11. CASE NetAgain \/ NetStop
  <2>1. /\ npc' \in {"loop", "stopped"}
        /\ UNCHANGED <<bundling, out, age, encoding, server, servers, canWake, pipe, wait, running>>
    BY <1>11 DEF NetAgain, NetStop, sockVars
  <2> QED BY <2>1, <1>t, <1>q
<1>12. CASE NetClose \/ DisconnectClose
  <2>1. /\ npc' \in {"assign", "closed"} /\ server' = 0 /\ canWake' = FALSE /\ pipe' = FALSE
        /\ UNCHANGED <<bundling, out, age, encoding, servers, wait, running>>
    BY <1>12 DEF NetClose, DisconnectClose
  <2> QED BY <2>1, <1>t, <1>q
<1>13. CASE NetAssign
  <2>1. /\ npc' \in {"loop", "stopped"} /\ canWake' \in BOOLEAN
        /\ UNCHANGED <<bundling, out, age, encoding, pipe, wait, running>>
    BY <1>13, <1>t DEF NetAssign, sockVars
  <2>2. server' \in Nat /\ servers' \in Nat BY <1>13, <1>t DEF NetAssign, sockVars
  <2>3. npc = "assign" BY <1>13 DEF NetAssign
  <2>4. pipe' = FALSE BY <2>1, <2>3, <1>t
  <2> QED BY <2>1, <2>2, <2>4, <1>t, <1>q
<1>14. CASE DisconnectBegin
  <2>1. /\ running' = FALSE
        /\ UNCHANGED <<bundling, out, age, encoding, server, servers, canWake, pipe, npc, wait>>
    BY <1>14 DEF DisconnectBegin, sockVars
  <2> QED BY <2>1, <1>t, <1>n, <1>s, <1>q
<1>15. CASE Tick
  <2>1. /\ age' = IF out.bundle # << >> /\ age < Window THEN age + 1 ELSE age
        /\ wait' = IF wait > 0 THEN wait - 1 ELSE wait
        /\ UNCHANGED <<bundling, out, encoding, server, servers, canWake, pipe, npc, running>>
    BY <1>15 DEF Tick, sockVars
  <2>2. age' \in 0..Window /\ wait' \in 0..MaxWait BY <2>1, <1>t, <1>c
  <2>3. (bundling /\ npc = "sleep" /\ ~canWake) => wait' <= Grace
    BY <2>1, <1>t, <1>c, <1>s
  <2>4. (bundling /\ npc = "sleep" /\ out.bundle # << >> /\ ~pipe) => wait' <= Grace - age'
    BY <2>1, <1>t, <1>c, <1>s
  <2> QED BY <2>1, <2>2, <2>3, <2>4, <1>t, <1>n, <1>q
<1>16. CASE UNCHANGED vars
  BY <1>16, <1>t, <1>n, <1>s, <1>q DEF vars, sockVars, netVars
<1> QED
  BY <1>1, <1>2, <1>3, <1>4, <1>5, <1>6, <1>7, <1>8, <1>9, <1>10, <1>11, <1>12, <1>13,
     <1>14, <1>15, <1>16 DEF Next, GameStep, NetStep

\* The initial state satisfies the inductive invariant.
LEMMA SendStart == Init => SendInv
PROOF
<1> SUFFICES ASSUME Init PROVE SendInv
  OBVIOUS
<1>1. out \in Outputs
  BY ConstantTypes DEF Init, Outputs
<1>2. Len(out.bundle) = 0 /\ Len(out.wire) = 0
  BY DEF Init
<1>3. OutInv(out)
  <2>1. 1..Len(out.bundle) = {} /\ 1..Len(out.wire) = {} BY <1>2
  <2>2. out.messagesSent = Len(out.wire) + Len(out.bundle) + out.messagesDropped
    BY <1>2 DEF Init
  <2>3. out.offset <= MaxDatagram /\ Len(out.bundle) <= MaxMembers
    BY <1>2, ConstantTypes DEF Init
  <2> QED BY <1>1, <2>1, <2>2, <2>3 DEF OutInv
<1>4. TypeOK
  <2>1. age \in 0..Window /\ wait \in 0..MaxWait /\ server \in Nat /\ servers \in Nat
    BY SendAssumption DEF Init
  <2>2. encoding \in [Senders -> Sizes \cup {0}] BY DEF Init
  <2>3. /\ bundling \in BOOLEAN /\ canWake \in BOOLEAN /\ pipe \in BOOLEAN
        /\ running \in BOOLEAN
    BY DEF Init
  <2> QED BY <1>1, <2>1, <2>2, <2>3 DEF Init, TypeOK
<1> QED BY <1>3, <1>4 DEF Init, SendInv, NeverOversleeps

\* The inductive invariant holds throughout.
THEOREM SendInvariant == Spec => []SendInv
BY SendStart, SendStep, PTL DEF Spec

\* Every variable of the send path keeps its type.
THEOREM SendTypes == Spec => []TypeOK
<1>1. SendInv => TypeOK BY DEF SendInv
<1> QED BY <1>1, SendInvariant, PTL

\* Every message transmit() accepted is on the wire, pending or counted as
\* dropped, for any number of senders and any answers of the socket.
THEOREM EveryMessageAccounted == Spec => []NothingLost
<1>1. SendInv => NothingLost BY DEF SendInv, OutInv, NothingLost
<1> QED BY <1>1, SendInvariant, PTL

\* A bundle never outgrows the datagram or the member cap.
THEOREM BundleAlwaysFits == Spec => []BundleFits
<1>1. SendInv => BundleFits BY DEF SendInv, OutInv, BundleFits
<1> QED BY <1>1, SendInvariant, PTL

\* Bundled messages reach the wire once each and in the order accepted.
THEOREM BundlesKeepOrder == Spec => []BundledInOrder
<1>1. SendInv => BundledInOrder BY DEF SendInv, OutInv, BundledInOrder
<1> QED BY <1>1, SendInvariant, PTL

\* The network thread never sleeps through the window of a pending bundle,
\* whatever the window and whether or not the socket can be woken.
THEOREM WindowKept == Spec => []NeverOversleeps
<1>1. SendInv => NeverOversleeps BY DEF SendInv
<1> QED BY <1>1, SendInvariant, PTL
===============================================================================
