----------------------- MODULE SockethubClient_proofs -----------------------
(***************************************************************************)
(* Proofs about SockethubClient.  The inductive invariant, ClientInv, says *)
(* where every message is and in which order (Placed, Ordered), that the   *)
(* replay precedes the rest on the wire (WireOrdered), and what the        *)
(* handshake promises (Handshake): an answer of the server finds a client  *)
(* with its replay to come and nothing on the wire, whatever time-outs     *)
(* passed in between.  Placed and Ordered take the part of the queue that  *)
(* is yet to be flushed, so that they also hold within                     *)
(* flushOutboundQueue(): FlushedIs follows its loop by induction.          *)
(***************************************************************************)
EXTENDS SockethubClient, FiniteSetTheorems, SequenceTheorems, WellFoundedInduction, TLAPS

-----------------------------------------------------------------------------
(* The inductive invariant. *)

\* One message precedes another in the order of emit().
Before(e, m, n) == \E i, j \in 1..Len(e) : i < j /\ e[i] = m /\ e[j] = n

\* What was emitted is in one place: behind the n-th entry of the queue, among
\* what was sent, or among what was answered with an error.
Placed(sent, refused, q, n, e) ==
  /\ \A j, k \in 1..Len(sent) : sent[j] = sent[k] => j = k
  /\ \A j, k \in (n + 1)..Len(q) : q[j].msg = q[k].msg => j = k
  /\ \A j \in 1..Len(sent) : sent[j] \in ToSet(e) \ refused
  /\ \A k \in (n + 1)..Len(q) :
       /\ q[k].msg \in ToSet(e) \ refused
       /\ \A j \in 1..Len(sent) : sent[j] # q[k].msg
  /\ refused \subseteq ToSet(e)
  /\ \A m \in ToSet(e) : \/ m \in refused
                         \/ \E j \in 1..Len(sent) : sent[j] = m
                         \/ \E k \in (n + 1)..Len(q) : q[k].msg = m

\* What was sent and what waits behind the n-th entry follow the order of emit().
Ordered(sent, q, n, e, h) ==
  /\ \A j, k \in 1..Len(sent) :
       j < k /\ sent[j] \notin h /\ sent[k] \notin h => Before(e, sent[j], sent[k])
  /\ \A j, k \in (n + 1)..Len(q) : j < k => Before(e, q[j].msg, q[k].msg)
  /\ \A j \in 1..Len(sent), k \in (n + 1)..Len(q) :
       sent[j] \notin h => Before(e, sent[j], q[k].msg)

Entries == [msg : Messages, old : BOOLEAN]

-----------------------------------------------------------------------------
(* Sequences. *)

\* What Append() changes, entry by entry.
LEMMA AppendAt ==
  ASSUME NEW X, NEW s \in Seq(X), NEW x \in X
  PROVE  /\ Append(s, x) \in Seq(X) /\ Len(Append(s, x)) = Len(s) + 1 /\ Len(s) \in Nat
         /\ \A k \in 1..Len(s) : Append(s, x)[k] = s[k]
         /\ Append(s, x)[Len(s) + 1] = x
         /\ \A k \in 1..(Len(s) + 1) : k \in 1..Len(s) \/ k = Len(s) + 1
OBVIOUS

\* The elements of a sequence are its entries.
LEMMA ToSetAt ==
  ASSUME NEW X, NEW s \in Seq(X)
  PROVE  ToSet(s) \subseteq X /\ \A m : m \in ToSet(s) <=> \E k \in 1..Len(s) : s[k] = m
BY DEF ToSet

\* One more entry is one more element.
LEMMA ToSetAppend ==
  ASSUME NEW X, NEW s \in Seq(X), NEW x \in X
  PROVE  ToSet(Append(s, x)) = ToSet(s) \cup {x}
<1> PICK t : t = Append(s, x)
  OBVIOUS
<1>1. /\ t \in Seq(X) /\ Len(t) = Len(s) + 1 /\ t[Len(s) + 1] = x /\ Len(s) \in Nat
      /\ \A k \in 1..Len(s) : t[k] = s[k]
      /\ \A k \in 1..Len(t) : k \in 1..Len(s) \/ k = Len(s) + 1
  OBVIOUS
<1>2. ASSUME NEW m PROVE m \in ToSet(t) <=> m \in ToSet(s) \cup {x}
  <2>1. m \in ToSet(t) <=> \E k \in 1..Len(t) : t[k] = m
    BY <1>1, ToSetAt
  <2>2. m \in ToSet(s) <=> \E k \in 1..Len(s) : s[k] = m
    BY ToSetAt
  <2>3. Len(s) + 1 \in 1..Len(t) /\ \A k \in 1..Len(s) : k \in 1..Len(t)
    BY <1>1
  <2> QED BY <1>1, <2>1, <2>2, <2>3
<1> QED BY <1>2

\* The order of emit() stays; the newest message is the last one.
LEMMA BeforeGrows ==
  ASSUME NEW e \in Seq(Messages), NEW x \in Messages, NEW m, NEW n, Before(e, m, n)
  PROVE  Before(Append(e, x), m, n)
<1>1. PICK i, j \in 1..Len(e) : i < j /\ e[i] = m /\ e[j] = n
  BY DEF Before
<1>2. /\ i \in 1..Len(Append(e, x)) /\ j \in 1..Len(Append(e, x))
      /\ Append(e, x)[i] = m /\ Append(e, x)[j] = n
  BY <1>1
<1> QED BY <1>1, <1>2 DEF Before

\* The newest message comes after all others.
LEMMA BeforeLast ==
  ASSUME NEW e \in Seq(Messages), NEW x \in Messages, NEW m \in ToSet(e)
  PROVE  Before(Append(e, x), m, x)
<1>1. PICK i \in 1..Len(e) : e[i] = m
  BY ToSetAt
<1>2. /\ i \in 1..Len(Append(e, x)) /\ Len(e) + 1 \in 1..Len(Append(e, x)) /\ i < Len(e) + 1
      /\ Append(e, x)[i] = m /\ Append(e, x)[Len(e) + 1] = x
  BY <1>1
<1> QED BY <1>2 DEF Before

-----------------------------------------------------------------------------
(* Where the messages are. *)

\* The next entry of the queue is sent, or it is too old or not valid.
LEMMA PlacedFlush ==
  ASSUME NEW sent \in Seq(Messages), NEW refused, NEW q \in Seq(Entries), NEW e \in Seq(Messages),
         NEW n \in Nat, n < Len(q), Placed(sent, refused, q, n, e)
  PROVE  /\ Placed(Append(sent, q[n + 1].msg), refused, q, n + 1, e)
         /\ Placed(sent, refused \cup {q[n + 1].msg}, q, n + 1, e)
<1>0. n + 1 \in 1..Len(q) /\ q[n + 1] \in Entries
  OBVIOUS
<1>1. PICK m \in Messages : m = q[n + 1].msg
  BY <1>0 DEF Entries
<1>2. /\ n + 1 \in (n + 1)..Len(q)
      /\ \A k \in (n + 2)..Len(q) : k \in (n + 1)..Len(q) /\ k # n + 1
      /\ \A k \in (n + 1)..Len(q) : k = n + 1 \/ k \in (n + 2)..Len(q)
      /\ (n + 1) + 1 = n + 2
  OBVIOUS
<1>3. /\ m \in ToSet(e) \ refused
      /\ \A j \in 1..Len(sent) : sent[j] # m
      /\ \A k \in (n + 2)..Len(q) : q[k].msg # m
  BY <1>1, <1>2 DEF Placed
<1>4. PICK new : new = Append(sent, m)
  OBVIOUS
<1>5. /\ new \in Seq(Messages) /\ Len(new) = Len(sent) + 1 /\ Len(sent) \in Nat
      /\ \A k \in 1..Len(sent) : new[k] = sent[k] /\ k \in 1..Len(new)
      /\ new[Len(sent) + 1] = m /\ Len(sent) + 1 \in 1..Len(new)
      /\ \A k \in 1..Len(new) : k \in 1..Len(sent) \/ k = Len(sent) + 1
  BY <1>4
<1>6. Placed(new, refused, q, n + 1, e)
  <2>1. \A j, k \in 1..Len(new) : new[j] = new[k] => j = k
    BY <1>3, <1>5 DEF Placed
  <2>2. \A j \in 1..Len(new) : new[j] \in ToSet(e) \ refused
    BY <1>3, <1>5 DEF Placed
  <2>3. \A j, k \in (n + 2)..Len(q) : q[j].msg = q[k].msg => j = k
    BY <1>2 DEF Placed
  <2>4. \A k \in (n + 2)..Len(q) :
          /\ q[k].msg \in ToSet(e) \ refused
          /\ \A j \in 1..Len(new) : new[j] # q[k].msg
    BY <1>2, <1>3, <1>5 DEF Placed
  <2>5. \A x \in ToSet(e) : \/ x \in refused
                            \/ \E j \in 1..Len(new) : new[j] = x
                            \/ \E k \in (n + 2)..Len(q) : q[k].msg = x
    BY <1>1, <1>2, <1>5 DEF Placed
  <2>6. refused \subseteq ToSet(e)
    BY DEF Placed
  <2> QED BY <1>2, <2>1, <2>2, <2>3, <2>4, <2>5, <2>6 DEF Placed
<1>7. Placed(sent, refused \cup {m}, q, n + 1, e)
  BY <1>1, <1>2, <1>3 DEF Placed
<1> QED BY <1>1, <1>4, <1>6, <1>7

\* A new message is sent, refused, or queued.
LEMMA PlacedNew ==
  ASSUME NEW sent \in Seq(Messages), NEW refused, NEW q \in Seq(Entries), NEW e \in Seq(Messages),
         NEW n \in Nat, Placed(sent, refused, q, n, e), NEW m \in Messages, m \notin ToSet(e)
  PROVE  /\ Placed(Append(sent, m), refused, q, n, Append(e, m))
         /\ Placed(sent, refused \cup {m}, q, n, Append(e, m))
         /\ n = 0 => Placed(sent, refused, Append(q, [msg |-> m, old |-> FALSE]), 0, Append(e, m))
<1>1. PICK new : new = Append(sent, m)
  OBVIOUS
<1>2. /\ new \in Seq(Messages) /\ Len(new) = Len(sent) + 1 /\ Len(sent) \in Nat
      /\ \A k \in 1..Len(sent) : new[k] = sent[k] /\ k \in 1..Len(new)
      /\ new[Len(sent) + 1] = m /\ Len(sent) + 1 \in 1..Len(new)
      /\ \A k \in 1..Len(new) : k \in 1..Len(sent) \/ k = Len(sent) + 1
  BY <1>1
<1>3. ToSet(Append(e, m)) = ToSet(e) \cup {m}
  BY ToSetAppend
<1>4. PICK f : f = Append(e, m)
  OBVIOUS
<1>5. PICK E : E = ToSet(e)
  OBVIOUS
<1>6. ToSet(f) = E \cup {m} /\ m \notin E
  BY <1>3, <1>4, <1>5
<1>7. Placed(new, refused, q, n, f)
  <2>1. /\ \A j \in 1..Len(sent) : sent[j] # m
        /\ \A k \in (n + 1)..Len(q) : q[k].msg # m
        /\ refused \subseteq E
    BY <1>5, <1>6 DEF Placed
  <2>2. \A j, k \in 1..Len(new) : new[j] = new[k] => j = k
    BY <1>2, <2>1 DEF Placed
  <2>3. \A j \in 1..Len(new) : new[j] \in (E \cup {m}) \ refused
    BY <1>2, <1>5, <1>6, <2>1 DEF Placed
  <2>4. \A k \in (n + 1)..Len(q) :
          /\ q[k].msg \in (E \cup {m}) \ refused
          /\ \A j \in 1..Len(new) : new[j] # q[k].msg
    BY <1>2, <1>5, <2>1 DEF Placed
  <2>5. \A x \in E \cup {m} : \/ x \in refused
                              \/ \E j \in 1..Len(new) : new[j] = x
                              \/ \E k \in (n + 1)..Len(q) : q[k].msg = x
    BY <1>2, <1>5 DEF Placed
  <2>6. \A j, k \in (n + 1)..Len(q) : q[j].msg = q[k].msg => j = k
    BY DEF Placed
  <2> QED BY <1>6, <2>1, <2>2, <2>3, <2>4, <2>5, <2>6 DEF Placed
<1>8. Placed(sent, refused \cup {m}, q, n, f)
  BY <1>5, <1>6 DEF Placed
<1>9. ASSUME n = 0 PROVE Placed(sent, refused, Append(q, [msg |-> m, old |-> FALSE]), 0, f)
  <2>1. PICK longer : longer = Append(q, [msg |-> m, old |-> FALSE])
    OBVIOUS
  <2>2. /\ longer \in Seq(Entries) /\ Len(longer) = Len(q) + 1 /\ Len(q) \in Nat
        /\ \A k \in 1..Len(q) : longer[k] = q[k] /\ k \in 1..Len(longer)
        /\ longer[Len(q) + 1] = [msg |-> m, old |-> FALSE] /\ Len(q) + 1 \in 1..Len(longer)
        /\ \A k \in 1..Len(longer) : k \in 1..Len(q) \/ k = Len(q) + 1
    <3>1. [msg |-> m, old |-> FALSE] \in Entries
      BY DEF Entries
    <3> QED BY <2>1, <3>1, AppendAt
  <2>3. longer[Len(q) + 1].msg = m
    BY <2>2
  <2>4. 0 + 1 = 1
    OBVIOUS
  <2>5. Placed(sent, refused, longer, 0, f)
    <3>1. /\ \A j, k \in 1..Len(q) : q[j].msg = q[k].msg => j = k
          /\ \A k \in 1..Len(q) : /\ q[k].msg \in E \ refused /\ q[k].msg # m
                                  /\ \A j \in 1..Len(sent) : sent[j] # q[k].msg
          /\ \A j \in 1..Len(sent) : sent[j] # m
          /\ m \notin refused
      BY <1>5, <1>6, <1>9, <2>4 DEF Placed
    <3>2. \A j, k \in 1..Len(longer) : longer[j].msg = longer[k].msg => j = k
      BY <2>2, <2>3, <3>1
    <3>3. \A k \in 1..Len(longer) : /\ longer[k].msg \in (E \cup {m}) \ refused
                                    /\ \A j \in 1..Len(sent) : sent[j] # longer[k].msg
      BY <2>2, <2>3, <3>1
    <3>4. \A x \in E \cup {m} : \/ x \in refused
                                \/ \E j \in 1..Len(sent) : sent[j] = x
                                \/ \E k \in 1..Len(longer) : longer[k].msg = x
      <4>1. \A x \in E : \/ x \in refused
                         \/ \E j \in 1..Len(sent) : sent[j] = x
                         \/ \E k \in 1..Len(q) : q[k].msg = x
        BY <1>5, <1>9, <2>4 DEF Placed
      <4> QED BY <2>2, <2>3, <4>1
    <3>5. /\ \A j, k \in 1..Len(sent) : sent[j] = sent[k] => j = k
          /\ \A j \in 1..Len(sent) : sent[j] \in (E \cup {m}) \ refused
          /\ refused \subseteq E \cup {m}
      BY <1>5 DEF Placed
    <3> QED BY <1>6, <2>4, <3>2, <3>3, <3>4, <3>5 DEF Placed
  <2> QED BY <2>1, <2>5
<1> QED BY <1>1, <1>4, <1>7, <1>8, <1>9

\* The oldest entry makes room; and a queue that is flushed is empty.
LEMMA PlacedShorter ==
  ASSUME NEW sent \in Seq(Messages), NEW refused, NEW q \in Seq(Entries), NEW e \in Seq(Messages)
  PROVE  /\ Placed(sent, refused, q, 0, e) /\ q # << >> =>
              Placed(sent, refused \cup {Head(q).msg}, Tail(q), 0, e)
         /\ Placed(sent, refused, q, Len(q), e) => Placed(sent, refused, << >>, 0, e)
<1>1. ASSUME Placed(sent, refused, q, 0, e), q # << >>
      PROVE  Placed(sent, refused \cup {Head(q).msg}, Tail(q), 0, e)
  <2>1. PICK t : t = Tail(q)
    OBVIOUS
  <2>2. /\ t \in Seq(Entries) /\ Len(q) = Len(t) + 1 /\ Len(t) \in Nat /\ Head(q) = q[1]
        /\ \A k \in 1..Len(t) : t[k] = q[k + 1] /\ k + 1 \in 2..Len(q)
        /\ \A k \in 2..Len(q) : k - 1 \in 1..Len(t) /\ q[k] = t[k - 1]
        /\ \A j, k \in 1..Len(t) : j + 1 = k + 1 => j = k
    BY <1>1, <2>1
  <2>3. Len(q) \in Nat /\ 0 < Len(q)
    BY <2>2
  <2>4. Placed(sent, refused \cup {q[1].msg}, q, 1, e)
    <3>1. Placed(sent, refused \cup {q[0 + 1].msg}, q, 0 + 1, e)
      BY <1>1, <2>3, PlacedFlush
    <3> QED BY <3>1
  <2>5. 1 + 1 = 2 /\ 0 + 1 = 1
    OBVIOUS
  <2>6. Placed(sent, refused \cup {q[1].msg}, t, 0, e)
    <3> PICK r : r = refused \cup {q[1].msg}
      OBVIOUS
    <3>1. /\ \A j, k \in 1..Len(sent) : sent[j] = sent[k] => j = k
          /\ \A j, k \in 2..Len(q) : q[j].msg = q[k].msg => j = k
          /\ \A j \in 1..Len(sent) : sent[j] \in ToSet(e) \ r
          /\ \A k \in 2..Len(q) : /\ q[k].msg \in ToSet(e) \ r
                                  /\ \A j \in 1..Len(sent) : sent[j] # q[k].msg
          /\ r \subseteq ToSet(e)
      BY <2>4, <2>5 DEF Placed
    <3>2. \A x \in ToSet(e) : \/ x \in r
                              \/ \E j \in 1..Len(sent) : sent[j] = x
                              \/ \E k \in 2..Len(q) : q[k].msg = x
      BY <2>4, <2>5 DEF Placed
    <3>3. ASSUME NEW j \in 1..Len(t), NEW k \in 1..Len(t), t[j].msg = t[k].msg PROVE j = k
      <4>1. j + 1 \in 2..Len(q) /\ k + 1 \in 2..Len(q) /\ t[j] = q[j + 1] /\ t[k] = q[k + 1]
        BY <2>2
      <4>2. j + 1 = k + 1
        BY <3>1, <3>3, <4>1
      <4> QED BY <4>2
    <3>4. \A k \in 1..Len(t) : /\ t[k].msg \in ToSet(e) \ r
                               /\ \A j \in 1..Len(sent) : sent[j] # t[k].msg
      BY <2>2, <3>1
    <3>5. \A x \in ToSet(e) : \/ x \in r
                              \/ \E j \in 1..Len(sent) : sent[j] = x
                              \/ \E k \in 1..Len(t) : t[k].msg = x
      <4>1. ASSUME NEW x, NEW k \in 2..Len(q), q[k].msg = x
            PROVE  \E i \in 1..Len(t) : t[i].msg = x
        <5>1. k - 1 \in 1..Len(t) /\ q[k] = t[k - 1]
          BY <2>2
        <5> QED BY <4>1, <5>1
      <4> QED BY <3>2, <4>1
    <3> QED BY <2>5, <3>1, <3>3, <3>4, <3>5 DEF Placed
  <2> QED BY <2>1, <2>2, <2>6
<1>2. ASSUME Placed(sent, refused, q, Len(q), e) PROVE Placed(sent, refused, << >>, 0, e)
  <2>1. (Len(q) + 1)..Len(q) = {} /\ (0 + 1)..Len(<< >>) = {}
    OBVIOUS
  <2> QED BY <1>2, <2>1 DEF Placed
<1> QED BY <1>1, <1>2

\* Entries age and stay where they are.
LEMMA PlacedAge ==
  ASSUME NEW sent, NEW refused, NEW q, NEW e, NEW p, Len(p) = Len(q),
         \A k \in 1..Len(q) : p[k].msg = q[k].msg, Placed(sent, refused, q, 0, e)
  PROVE  Placed(sent, refused, p, 0, e)
BY DEF Placed

-----------------------------------------------------------------------------
(* In which order they are. *)

\* The next entry of the queue goes out behind all that was sent, or is dropped.
LEMMA OrderedFlush ==
  ASSUME NEW sent \in Seq(Messages), NEW q \in Seq(Entries), NEW e, NEW h,
         NEW n \in Nat, n < Len(q), Ordered(sent, q, n, e, h)
  PROVE  /\ Ordered(Append(sent, q[n + 1].msg), q, n + 1, e, h)
         /\ Ordered(sent, q, n + 1, e, h)
<1>0. n + 1 \in 1..Len(q) /\ q[n + 1] \in Entries
  OBVIOUS
<1>1. PICK m \in Messages : m = q[n + 1].msg
  BY <1>0 DEF Entries
<1>2. /\ n + 1 \in (n + 1)..Len(q) /\ (n + 1) + 1 = n + 2
      /\ \A k \in (n + 2)..Len(q) : k \in (n + 1)..Len(q) /\ n + 1 < k
  OBVIOUS
<1>3. PICK new : new = Append(sent, m)
  OBVIOUS
<1>4. /\ new \in Seq(Messages) /\ Len(new) = Len(sent) + 1 /\ Len(sent) \in Nat
      /\ \A k \in 1..Len(sent) : new[k] = sent[k] /\ k \in 1..Len(new)
      /\ new[Len(sent) + 1] = m /\ Len(sent) + 1 \in 1..Len(new)
      /\ \A k \in 1..Len(new) : k \in 1..Len(sent) \/ k = Len(sent) + 1
      /\ \A j, k \in 1..Len(new) : j < k => j \in 1..Len(sent)
  BY <1>3
<1>5. /\ \A j, k \in 1..Len(sent) :
           j < k /\ sent[j] \notin h /\ sent[k] \notin h => Before(e, sent[j], sent[k])
      /\ \A j, k \in (n + 1)..Len(q) : j < k => Before(e, q[j].msg, q[k].msg)
      /\ \A j \in 1..Len(sent), k \in (n + 1)..Len(q) :
           sent[j] \notin h => Before(e, sent[j], q[k].msg)
  BY DEF Ordered
<1>6. Ordered(new, q, n + 1, e, h)
  <2>1. ASSUME NEW j \in 1..Len(new), NEW k \in 1..Len(new), j < k, new[j] \notin h, new[k] \notin h
        PROVE  Before(e, new[j], new[k])
    BY <1>1, <1>2, <1>4, <1>5, <2>1
  <2>2. ASSUME NEW j \in 1..Len(new), NEW k \in (n + 2)..Len(q), new[j] \notin h
        PROVE  Before(e, new[j], q[k].msg)
    BY <1>1, <1>2, <1>4, <1>5, <2>2
  <2>3. \A j, k \in (n + 2)..Len(q) : j < k => Before(e, q[j].msg, q[k].msg)
    BY <1>2, <1>5
  <2> QED BY <1>2, <2>1, <2>2, <2>3 DEF Ordered
<1>7. Ordered(sent, q, n + 1, e, h)
  BY <1>2, <1>5 DEF Ordered
<1> QED BY <1>1, <1>3, <1>6, <1>7

\* A new message is refused; it is sent, by a listener or with nothing waiting;
\* or it is queued.
LEMMA OrderedNew ==
  ASSUME NEW sent \in Seq(Messages), NEW q \in Seq(Entries), NEW e \in Seq(Messages), NEW h,
         NEW n \in Nat, Ordered(sent, q, n, e, h), NEW m \in Messages,
         NEW refused, Placed(sent, refused, q, n, e)
  PROVE  /\ Ordered(sent, q, n, Append(e, m), h)
         /\ Ordered(sent, q, n, Append(e, m), h \cup {m})
         /\ Ordered(Append(sent, m), q, n, Append(e, m), h \cup {m})
         /\ n = Len(q) => Ordered(Append(sent, m), q, n, Append(e, m), h)
         /\ n = 0 => Ordered(sent, Append(q, [msg |-> m, old |-> FALSE]), 0, Append(e, m), h)
<1> PICK f : f = Append(e, m)
  OBVIOUS
<1>1. /\ \A x, y : Before(e, x, y) => Before(f, x, y)
      /\ \A x \in ToSet(e) : Before(f, x, m)
  BY BeforeGrows, BeforeLast
<1>2. PICK new : new = Append(sent, m)
  OBVIOUS
<1>3. /\ new \in Seq(Messages) /\ Len(new) = Len(sent) + 1 /\ Len(sent) \in Nat
      /\ \A k \in 1..Len(sent) : new[k] = sent[k] /\ k \in 1..Len(new)
      /\ new[Len(sent) + 1] = m
      /\ \A k \in 1..Len(new) : k \in 1..Len(sent) \/ k = Len(sent) + 1
      /\ \A j, k \in 1..Len(new) : j < k => j \in 1..Len(sent)
  BY <1>2
<1>4. /\ \A j, k \in 1..Len(sent) :
           j < k /\ sent[j] \notin h /\ sent[k] \notin h => Before(f, sent[j], sent[k])
      /\ \A j, k \in (n + 1)..Len(q) : j < k => Before(f, q[j].msg, q[k].msg)
      /\ \A j \in 1..Len(sent), k \in (n + 1)..Len(q) :
           sent[j] \notin h => Before(f, sent[j], q[k].msg)
  BY <1>1 DEF Ordered
<1>5. /\ \A j \in 1..Len(sent) : Before(f, sent[j], m)
      /\ \A k \in (n + 1)..Len(q) : Before(f, q[k].msg, m)
  BY <1>1 DEF Placed
<1>6. Ordered(sent, q, n, f, h) /\ Ordered(sent, q, n, f, h \cup {m})
  BY <1>4 DEF Ordered
<1>7. Ordered(new, q, n, f, h \cup {m})
  <2>1. ASSUME NEW j \in 1..Len(new), new[j] \notin h \cup {m}
        PROVE  j \in 1..Len(sent) /\ new[j] = sent[j] /\ sent[j] \notin h
    BY <1>3, <2>1
  <2>2. \A j, k \in 1..Len(new) :
          j < k /\ new[j] \notin h \cup {m} /\ new[k] \notin h \cup {m} => Before(f, new[j], new[k])
    BY <1>4, <2>1
  <2>3. \A j \in 1..Len(new), k \in (n + 1)..Len(q) :
          new[j] \notin h \cup {m} => Before(f, new[j], q[k].msg)
    BY <1>4, <2>1
  <2> QED BY <1>4, <2>2, <2>3 DEF Ordered
<1>8. ASSUME n = Len(q) PROVE Ordered(new, q, n, f, h)
  <2>1. (n + 1)..Len(q) = {}
    BY <1>8
  <2>2. ASSUME NEW j \in 1..Len(new), NEW k \in 1..Len(new), j < k, new[j] \notin h, new[k] \notin h
        PROVE  Before(f, new[j], new[k])
    BY <1>3, <1>4, <1>5, <2>2
  <2> QED BY <2>1, <2>2 DEF Ordered
<1>9. ASSUME n = 0 PROVE Ordered(sent, Append(q, [msg |-> m, old |-> FALSE]), 0, f, h)
  <2>1. PICK longer : longer = Append(q, [msg |-> m, old |-> FALSE])
    OBVIOUS
  <2>2. /\ longer \in Seq(Entries) /\ Len(longer) = Len(q) + 1 /\ Len(q) \in Nat
        /\ \A k \in 1..Len(q) : longer[k] = q[k]
        /\ longer[Len(q) + 1] = [msg |-> m, old |-> FALSE]
        /\ \A k \in 1..Len(longer) : k \in 1..Len(q) \/ k = Len(q) + 1
    <3>1. [msg |-> m, old |-> FALSE] \in Entries
      BY DEF Entries
    <3> QED BY <2>1, <3>1, AppendAt
  <2>3. longer[Len(q) + 1].msg = m /\ \A j, k \in 1..Len(longer) : j < k => j \in 1..Len(q)
    BY <2>2
  <2>4. 0 + 1 = 1
    OBVIOUS
  <2>5. ASSUME NEW j \in 1..Len(longer), NEW k \in 1..Len(longer), j < k
        PROVE  Before(f, longer[j].msg, longer[k].msg)
    BY <1>4, <1>5, <1>9, <2>2, <2>3, <2>4, <2>5
  <2>6. ASSUME NEW j \in 1..Len(sent), NEW k \in 1..Len(longer), sent[j] \notin h
        PROVE  Before(f, sent[j], longer[k].msg)
    BY <1>4, <1>5, <1>9, <2>2, <2>3, <2>4, <2>6
  <2>7. Ordered(sent, longer, 0, f, h)
    BY <1>4, <2>4, <2>5, <2>6 DEF Ordered
  <2> QED BY <2>1, <2>7
<1> QED BY <1>2, <1>6, <1>7, <1>8, <1>9

\* The queue loses its head, or, flushed, all of its entries.
LEMMA OrderedShorter ==
  ASSUME NEW sent, NEW q \in Seq(Entries), NEW e, NEW h
  PROVE  /\ Ordered(sent, q, 0, e, h) /\ q # << >> => Ordered(sent, Tail(q), 0, e, h)
         /\ Ordered(sent, q, Len(q), e, h) => Ordered(sent, << >>, 0, e, h)
<1>1. ASSUME Ordered(sent, q, 0, e, h), q # << >>
      PROVE  Ordered(sent, Tail(q), 0, e, h)
  <2>1. PICK t : t = Tail(q)
    OBVIOUS
  <2>2. /\ \A k \in 1..Len(t) : t[k] = q[k + 1] /\ k + 1 \in 1..Len(q)
        /\ \A j, k \in 1..Len(t) : j < k => j + 1 < k + 1
    BY <1>1, <2>1
  <2>3. 0 + 1 = 1
    OBVIOUS
  <2>4. Ordered(sent, t, 0, e, h)
    BY <1>1, <2>2, <2>3 DEF Ordered
  <2> QED BY <2>1, <2>4
<1>2. ASSUME Ordered(sent, q, Len(q), e, h) PROVE Ordered(sent, << >>, 0, e, h)
  <2>1. (Len(q) + 1)..Len(q) = {} /\ (0 + 1)..Len(<< >>) = {}
    OBVIOUS
  <2> QED BY <1>2, <2>1 DEF Ordered
<1> QED BY <1>1, <1>2

\* Ageing moves nothing.
LEMMA OrderedAge ==
  ASSUME NEW sent, NEW q, NEW e, NEW h, NEW p, Len(p) = Len(q),
         \A k \in 1..Len(q) : p[k].msg = q[k].msg, Ordered(sent, q, 0, e, h)
  PROVE  Ordered(sent, p, 0, e, h)
BY DEF Ordered

-----------------------------------------------------------------------------
(* What is kept for replay, and what a connection is told. *)

Wires == [msg : Messages, replayed : BOOLEAN]
Kept(t) == ToSet(t.credentials) \cup ToSet(t.connect) \cup ToSet(t.join)
Heard(wire) == {wire[k].msg : k \in 1..Len(wire)}

\* On the wire the replay precedes all but what the listeners emitted.
WireOrdered(wire, h) ==
  \A j, k \in 1..Len(wire) :
    j < k /\ wire[k].replayed /\ ~ wire[j].replayed => wire[j].msg \in h

\* Map.set() adds or replaces: nothing but the message itself is new.
LEMMA MapSetType ==
  ASSUME NEW map \in Seq(Messages), NEW m \in Messages
  PROVE  /\ MapSet(map, m) \in Seq(Messages)
         /\ ToSet(MapSet(map, m)) \subseteq ToSet(map) \cup {m}
<1>1. CASE Has(map, m)
  <2>1. PICK new : new = [k \in DOMAIN map |-> IF Key[map[k]] = Key[m] THEN m ELSE map[k]]
    OBVIOUS
  <2>2. DOMAIN map = 1..Len(map) /\ Len(map) \in Nat
    OBVIOUS
  <2>3. new = [k \in 1..Len(map) |-> IF Key[map[k]] = Key[m] THEN m ELSE map[k]]
    BY <2>1, <2>2
  <2>4. new \in Seq(Messages) /\ Len(new) = Len(map)
    BY <2>2, <2>3
  <2>5. \A k \in 1..Len(new) : new[k] = m \/ (k \in 1..Len(map) /\ new[k] = map[k])
    BY <2>3, <2>4
  <2>6. ToSet(new) \subseteq ToSet(map) \cup {m}
    BY <2>4, <2>5, ToSetAt
  <2> QED BY <1>1, <2>1, <2>4, <2>6 DEF MapSet
<1>2. CASE ~ Has(map, m)
  BY <1>2, ToSetAppend DEF MapSet
<1> QED BY <1>1, <1>2

\* Map.delete() adds nothing.
LEMMA MapDeleteType ==
  ASSUME NEW map \in Seq(Messages), NEW m
  PROVE  /\ MapDelete(map, m) \in Seq(Messages)
         /\ ToSet(MapDelete(map, m)) \subseteq ToSet(map)
<1>1. CASE Has(map, m)
  <2>1. PICK i \in 1..Len(map) : MapDelete(map, m) = RemoveAt(map, i)
    <3>1. DOMAIN map = 1..Len(map)
      OBVIOUS
    <3> QED BY <1>1, <3>1 DEF MapDelete, Has
  <2>2. PICK a : a = SubSeq(map, 1, i - 1)
    OBVIOUS
  <2>3. PICK b : b = SubSeq(map, i + 1, Len(map))
    OBVIOUS
  <2>4. /\ a \in Seq(Messages) /\ \A k \in 1..Len(a) : k \in 1..Len(map) /\ a[k] = map[k]
    BY <2>2
  <2>5. /\ b \in Seq(Messages) /\ \A k \in 1..Len(b) : k + i \in 1..Len(map) /\ b[k] = map[k + i]
    BY <2>3
  <2>6. PICK new : new = a \o b
    OBVIOUS
  <2>7. /\ new \in Seq(Messages)
        /\ \A k \in 1..Len(new) : \/ k \in 1..Len(a) /\ new[k] = a[k]
                                  \/ k - Len(a) \in 1..Len(b) /\ new[k] = b[k - Len(a)]
    BY <2>4, <2>5, <2>6
  <2>8. ToSet(new) \subseteq ToSet(map)
    <3>1. \A k \in 1..Len(new) : \E j \in 1..Len(map) : new[k] = map[j]
      BY <2>4, <2>5, <2>7
    <3> QED BY <2>7, <3>1, ToSetAt
  <2>9. MapDelete(map, m) = new
    BY <2>1, <2>2, <2>3, <2>6 DEF RemoveAt
  <2> QED BY <2>7, <2>8, <2>9
<1>2. CASE ~ Has(map, m)
  BY <1>2 DEF MapDelete
<1> QED BY <1>1, <1>2

\* Whatever its kind, a message that is stored is the only one that can be new.
LEMMA StoredType ==
  ASSUME NEW t \in TrafficType, NEW m \in Messages
  PROVE  LET u == Stored(t, m) IN
         /\ u \in TrafficType /\ u.wire = t.wire /\ u.sent = t.sent /\ u.refused = t.refused
         /\ Kept(u) \subseteq Kept(t) \cup {m}
<1>1. /\ t.credentials \in Seq(Messages) /\ t.connect \in Seq(Messages) /\ t.join \in Seq(Messages)
  BY DEF TrafficType
<1>2. PICK c \in Seq(Messages) : /\ c = MapSet(t.credentials, m)
                                 /\ ToSet(c) \subseteq ToSet(t.credentials) \cup {m}
  BY <1>1, MapSetType
<1>3. PICK n \in Seq(Messages) : /\ n = MapSet(t.connect, m)
                                 /\ ToSet(n) \subseteq ToSet(t.connect) \cup {m}
  BY <1>1, MapSetType
<1>4. PICK j \in Seq(Messages) : /\ j = MapSet(t.join, m)
                                 /\ ToSet(j) \subseteq ToSet(t.join) \cup {m}
  BY <1>1, MapSetType
<1>5. PICK l \in Seq(Messages) : /\ l = MapDelete(t.join, m)
                                 /\ ToSet(l) \subseteq ToSet(t.join)
  BY <1>1, MapDeleteType
<1>6. PICK d \in Seq(Messages) : /\ d = MapDelete(t.connect, m)
                                 /\ ToSet(d) \subseteq ToSet(t.connect)
  BY <1>1, MapDeleteType
<1>7. Stored(t, m) \in {t, [t EXCEPT !.credentials = c], [t EXCEPT !.connect = n],
                        [t EXCEPT !.join = j], [t EXCEPT !.join = l], [t EXCEPT !.connect = d]}
  <2>1. Kind[m] \in {"credentials", "connect", "join", "leave", "disconnect", "other"}
    BY ClientAssumption DEF Kinds
  <2> QED BY <1>2, <1>3, <1>4, <1>5, <1>6, <2>1 DEF Stored
<1>8. \A x \in Seq(Messages) :
        /\ [t EXCEPT !.credentials = x] \in TrafficType
        /\ [t EXCEPT !.connect = x] \in TrafficType
        /\ [t EXCEPT !.join = x] \in TrafficType
  BY DEF TrafficType
<1>u. PICK u : u = Stored(t, m)
  OBVIOUS
<1>9. /\ u \in TrafficType /\ u.wire = t.wire /\ u.sent = t.sent /\ u.refused = t.refused
      /\ u.credentials \in {t.credentials, c}
      /\ u.connect \in {t.connect, n, d}
      /\ u.join \in {t.join, j, l}
  <2>1. CASE u = t
    BY <2>1
  <2>2. CASE u = [t EXCEPT !.credentials = c]
    <3>1. u \in TrafficType
      BY <1>8, <2>2
    <3>2. /\ u.wire = t.wire /\ u.sent = t.sent /\ u.refused = t.refused
          /\ u.credentials = c /\ u.connect = t.connect /\ u.join = t.join
      BY <2>2 DEF TrafficType
    <3> QED BY <3>1, <3>2
  <2>3. CASE u = [t EXCEPT !.connect = n]
    <3>1. u \in TrafficType
      BY <1>8, <2>3
    <3>2. /\ u.wire = t.wire /\ u.sent = t.sent /\ u.refused = t.refused
          /\ u.credentials = t.credentials /\ u.connect = n /\ u.join = t.join
      BY <2>3 DEF TrafficType
    <3> QED BY <3>1, <3>2
  <2>4. CASE u = [t EXCEPT !.connect = d]
    <3>1. u \in TrafficType
      BY <1>8, <2>4
    <3>2. /\ u.wire = t.wire /\ u.sent = t.sent /\ u.refused = t.refused
          /\ u.credentials = t.credentials /\ u.connect = d /\ u.join = t.join
      BY <2>4 DEF TrafficType
    <3> QED BY <3>1, <3>2
  <2>5. CASE u = [t EXCEPT !.join = j]
    <3>1. u \in TrafficType
      BY <1>8, <2>5
    <3>2. /\ u.wire = t.wire /\ u.sent = t.sent /\ u.refused = t.refused
          /\ u.credentials = t.credentials /\ u.connect = t.connect /\ u.join = j
      BY <2>5 DEF TrafficType
    <3> QED BY <3>1, <3>2
  <2>6. CASE u = [t EXCEPT !.join = l]
    <3>1. u \in TrafficType
      BY <1>8, <2>6
    <3>2. /\ u.wire = t.wire /\ u.sent = t.sent /\ u.refused = t.refused
          /\ u.credentials = t.credentials /\ u.connect = t.connect /\ u.join = l
      BY <2>6 DEF TrafficType
    <3> QED BY <3>1, <3>2
  <2> QED BY <1>7, <1>u, <2>1, <2>2, <2>3, <2>4, <2>5, <2>6
<1>10. Kept(u) \subseteq Kept(t) \cup {m}
  BY <1>2, <1>3, <1>4, <1>5, <1>6, <1>9 DEF Kept
<1> QED BY <1>u, <1>9, <1>10

\* sendOutbound(): what is valid is sent and kept, what is not is answered with an error.
LEMMA TransmittedIs ==
  ASSUME NEW t \in TrafficType, NEW m \in Messages
  PROVE  LET u == Transmitted(t, m) IN
         /\ u \in TrafficType
         /\ \/ /\ u.refused = t.refused \cup {m} /\ u.sent = t.sent /\ u.wire = t.wire
               /\ Kept(u) = Kept(t)
            \/ /\ u.refused = t.refused /\ u.sent = Append(t.sent, m)
               /\ u.wire = Append(t.wire, [msg |-> m, replayed |-> FALSE])
               /\ Kept(u) \subseteq Kept(t) \cup {m}
<1>1. CASE m \in Invalid
  <2>1. Transmitted(t, m) = [t EXCEPT !.refused = t.refused \cup {m}]
    BY <1>1 DEF Transmitted
  <2> PICK u : u = [t EXCEPT !.refused = t.refused \cup {m}]
    OBVIOUS
  <2>2. /\ u \in TrafficType /\ u.refused = t.refused \cup {m} /\ u.sent = t.sent
        /\ u.wire = t.wire /\ u.credentials = t.credentials /\ u.connect = t.connect
        /\ u.join = t.join
    BY DEF TrafficType
  <2> QED BY <2>1, <2>2 DEF Kept
<1>2. CASE m \notin Invalid
  <2> PICK s : s = Stored(t, m)
    OBVIOUS
  <2>1. /\ s \in TrafficType /\ s.wire = t.wire /\ s.sent = t.sent /\ s.refused = t.refused
        /\ Kept(s) \subseteq Kept(t) \cup {m}
    BY StoredType
  <2> PICK wire : wire = Append(t.wire, [msg |-> m, replayed |-> FALSE])
    OBVIOUS
  <2> PICK sent : sent = Append(t.sent, m)
    OBVIOUS
  <2>2. wire \in Seq([msg : Messages, replayed : BOOLEAN]) /\ sent \in Seq(Messages)
    <3>1. [msg |-> m, replayed |-> FALSE] \in [msg : Messages, replayed : BOOLEAN]
      OBVIOUS
    <3>2. t.wire \in Seq([msg : Messages, replayed : BOOLEAN]) /\ t.sent \in Seq(Messages)
      BY DEF TrafficType
    <3> QED BY <3>1, <3>2, AppendAt
  <2>3. Transmitted(t, m) = [s EXCEPT !.wire = wire, !.sent = sent]
    BY <1>2, <2>1 DEF Transmitted
  <2> PICK u : u = [s EXCEPT !.wire = wire, !.sent = sent]
    OBVIOUS
  <2>4. /\ u \in TrafficType /\ u.refused = s.refused /\ u.sent = sent /\ u.wire = wire
        /\ u.credentials = s.credentials /\ u.connect = s.connect /\ u.join = s.join
    BY <2>1, <2>2 DEF TrafficType
  <2> QED BY <2>1, <2>3, <2>4 DEF Kept
<1> QED BY <1>1, <1>2

\* A line more on the wire.
LEMMA WireGrows ==
  ASSUME NEW wire \in Seq(Wires), NEW m \in Messages, NEW h, WireOrdered(wire, h)
  PROVE  /\ WireOrdered(Append(wire, [msg |-> m, replayed |-> FALSE]), h)
         /\ Heard(Append(wire, [msg |-> m, replayed |-> FALSE])) = Heard(wire) \cup {m}
<1>1. PICK x \in Wires : x = [msg |-> m, replayed |-> FALSE]
  BY DEF Wires
<1>2. PICK new : new = Append(wire, x)
  OBVIOUS
<1>3. /\ new \in Seq(Wires) /\ Len(new) = Len(wire) + 1 /\ Len(wire) \in Nat
      /\ \A k \in 1..Len(wire) : new[k] = wire[k] /\ k \in 1..Len(new)
      /\ new[Len(wire) + 1] = x /\ Len(wire) + 1 \in 1..Len(new)
      /\ \A k \in 1..Len(new) : k \in 1..Len(wire) \/ k = Len(wire) + 1
      /\ \A j, k \in 1..Len(new) : j < k => j \in 1..Len(wire)
  BY <1>2
<1>4. x.msg = m /\ ~ x.replayed
  BY <1>1
<1>5. WireOrdered(new, h)
  BY <1>3, <1>4 DEF WireOrdered
<1>6. Heard(new) = Heard(wire) \cup {m}
  BY <1>3, <1>4 DEF Heard
<1> QED BY <1>1, <1>2, <1>5, <1>6

\* The three maps one after the other, behind what the listeners emitted.
LEMMA ReplayedIs ==
  ASSUME NEW t \in TrafficType, NEW h, WireOrdered(t.wire, h),
         \A k \in 1..Len(t.wire) : ~ t.wire[k].replayed => t.wire[k].msg \in h
  PROVE  LET u == Replayed(t) IN
         /\ u \in TrafficType /\ u.sent = t.sent /\ u.refused = t.refused
         /\ WireOrdered(u.wire, h) /\ Kept(u) \subseteq Heard(u.wire)
<1>1. PICK wire \in Seq(Wires) : wire = t.wire
  BY DEF TrafficType, Wires
<1>2. PICK a, b, c \in Seq(Messages) : a = t.credentials /\ b = t.connect /\ c = t.join
  BY DEF TrafficType
<1>3. PICK all : all = a \o b \o c
  OBVIOUS
<1>4. /\ all \in Seq(Messages) /\ Len(all) = Len(a) + Len(b) + Len(c)
      /\ \A k \in 1..Len(a) : all[k] = a[k] /\ k \in 1..Len(all)
      /\ \A k \in 1..Len(b) : all[Len(a) + k] = b[k] /\ Len(a) + k \in 1..Len(all)
      /\ \A k \in 1..Len(c) : all[Len(a) + Len(b) + k] = c[k] /\ Len(a) + Len(b) + k \in 1..Len(all)
  BY <1>3
<1>5. DOMAIN all = 1..Len(all) /\ Len(all) \in Nat
  BY <1>4
<1>6. PICK more : more = [k \in 1..Len(all) |-> [msg |-> all[k], replayed |-> TRUE]]
  OBVIOUS
<1>7. /\ more \in Seq(Wires) /\ Len(more) = Len(all)
      /\ \A k \in 1..Len(more) : more[k].msg = all[k] /\ more[k].replayed
  <2>1. \A k \in 1..Len(all) : all[k] \in Messages
    BY <1>4
  <2>2. \A k \in 1..Len(all) : [msg |-> all[k], replayed |-> TRUE] \in Wires
    BY <2>1 DEF Wires
  <2>3. more \in Seq(Wires) /\ Len(more) = Len(all)
    BY <1>5, <1>6, <2>2
  <2>4. \A k \in 1..Len(more) : more[k] = [msg |-> all[k], replayed |-> TRUE]
    BY <1>6, <2>3
  <2>5. ASSUME NEW k \in 1..Len(more) PROVE more[k].msg = all[k] /\ more[k].replayed
    <3>1. PICK x : x = all[k]
      OBVIOUS
    <3>2. more[k] = [msg |-> x, replayed |-> TRUE]
      BY <2>4, <3>1
    <3>3. more[k].msg = x /\ more[k].replayed = TRUE
      BY <3>2
    <3> QED BY <3>1, <3>3
  <2> QED BY <2>3, <2>5
<1>8. PICK new : new = wire \o more
  OBVIOUS
<1>9. /\ new \in Seq(Wires) /\ Len(new) = Len(wire) + Len(more)
      /\ \A k \in 1..Len(wire) : new[k] = wire[k]
      /\ \A k \in 1..Len(more) : new[Len(wire) + k] = more[k] /\ Len(wire) + k \in 1..Len(new)
      /\ \A k \in 1..Len(new) : \/ k \in 1..Len(wire)
                                \/ \E i \in 1..Len(more) : k = Len(wire) + i
  <2>1. /\ new \in Seq(Wires) /\ Len(new) = Len(wire) + Len(more)
        /\ \A k \in 1..Len(wire) : new[k] = wire[k]
        /\ \A k \in 1..Len(more) : new[Len(wire) + k] = more[k]
    BY <1>7, <1>8
  <2>2. Len(wire) \in Nat /\ Len(more) \in Nat
    BY <1>7
  <2>3. \A k \in 1..Len(more) : Len(wire) + k \in 1..Len(new)
    BY <2>1, <2>2
  <2>4. ASSUME NEW k \in 1..Len(new), k \notin 1..Len(wire)
        PROVE  \E i \in 1..Len(more) : k = Len(wire) + i
    <3>1. k - Len(wire) \in 1..Len(more) /\ k = Len(wire) + (k - Len(wire))
      BY <2>1, <2>2, <2>4
    <3> QED BY <3>1
  <2> QED BY <2>1, <2>3, <2>4
<1>10. Replayed(t) = [t EXCEPT !.wire = new]
  BY <1>1, <1>2, <1>3, <1>5, <1>6, <1>8 DEF Replayed
<1>11. PICK u : u = [t EXCEPT !.wire = new]
  OBVIOUS
<1>12. /\ u \in TrafficType /\ u.sent = t.sent /\ u.refused = t.refused /\ u.wire = new
       /\ u.credentials = a /\ u.connect = b /\ u.join = c
  BY <1>2, <1>9, <1>11 DEF TrafficType, Wires
<1>13. WireOrdered(new, h)
  <2> SUFFICES ASSUME NEW j \in 1..Len(new), NEW k \in 1..Len(new), j < k,
                      new[k].replayed, ~ new[j].replayed
               PROVE  new[j].msg \in h
    BY DEF WireOrdered
  <2>1. j \in 1..Len(wire)
    BY <1>7, <1>9
  <2>2. new[j] = wire[j]
    BY <1>9, <2>1
  <2> QED BY <1>1, <2>1, <2>2
<1>14. \A m \in ToSet(a) \cup ToSet(b) \cup ToSet(c) : m \in Heard(new)
  <2>1. \A m \in ToSet(a) \cup ToSet(b) \cup ToSet(c) : \E k \in 1..Len(all) : all[k] = m
    <3>1. ASSUME NEW m \in ToSet(a) PROVE \E k \in 1..Len(all) : all[k] = m
      <4>1. PICK i \in 1..Len(a) : a[i] = m
        BY ToSetAt
      <4>2. i \in 1..Len(all) /\ all[i] = m
        BY <1>4, <4>1
      <4> QED BY <4>2
    <3>2. ASSUME NEW m \in ToSet(b) PROVE \E k \in 1..Len(all) : all[k] = m
      <4>1. PICK i \in 1..Len(b) : b[i] = m
        BY ToSetAt
      <4>2. Len(a) + i \in 1..Len(all) /\ all[Len(a) + i] = m
        BY <1>4, <4>1
      <4> QED BY <4>2
    <3>3. ASSUME NEW m \in ToSet(c) PROVE \E k \in 1..Len(all) : all[k] = m
      <4>1. PICK i \in 1..Len(c) : c[i] = m
        BY ToSetAt
      <4>2. Len(a) + Len(b) + i \in 1..Len(all) /\ all[Len(a) + Len(b) + i] = m
        BY <1>4, <4>1
      <4> QED BY <4>2
    <3> QED BY <3>1, <3>2, <3>3
  <2>2. \A k \in 1..Len(all) : \E j \in 1..Len(new) : new[j].msg = all[k]
    BY <1>7, <1>9
  <2> QED BY <2>1, <2>2 DEF Heard
<1> QED BY <1>10, <1>11, <1>12, <1>13, <1>14 DEF Kept

-----------------------------------------------------------------------------
(* The queue is flushed, entry after entry. *)

\* A set of numbers has a least one: < is well-founded.
LEMMA LeastNatural ==
  ASSUME NEW S, S \subseteq Nat, S # {}
  PROVE  \E n \in S : \A m \in S : n <= m
<1>1. IsWellFoundedOn(OpToRel(<, Nat), Nat)
  BY NatLessThanWellFounded
<1>2. PICK n \in S : \A m \in S : ~ (<<m, n>> \in OpToRel(<, Nat))
  BY <1>1, WFMin
<1>3. \A m \in S : ~ (m < n)
  BY <1>2 DEF OpToRel
<1> QED BY <1>3

\* The step of an induction over the numbers, on a set instead of a predicate.
LEMMA Induction ==
  ASSUME NEW S, 0 \in S, \A n \in Nat : n \in S => n + 1 \in S
  PROVE  Nat \subseteq S
<1> SUFFICES ASSUME ~ (Nat \subseteq S) PROVE FALSE
  OBVIOUS
<1>1. PICK n \in Nat \ S : \A m \in Nat \ S : n <= m
  BY LeastNatural
<1>2. n # 0 /\ n - 1 \in Nat /\ n - 1 \in S
  BY <1>1
<1> QED BY <1>1, <1>2

\* The session is restored, and the queue is flushed up to its n-th entry.
Flushing(t, q, n, e, h) ==
  /\ t \in TrafficType
  /\ Placed(t.sent, t.refused, q, n, e) /\ Ordered(t.sent, q, n, e, h)
  /\ WireOrdered(t.wire, h) /\ Kept(t) \subseteq Heard(t.wire)

\* One turn of the loop of flushOutboundQueue().
LEMMA FlushingNext ==
  ASSUME NEW q \in Seq(Entries), NEW e \in Seq(Messages), NEW h, NEW n \in Nat, n < Len(q),
         NEW t, Flushing(t, q, n, e, h)
  PROVE  Flushing(SentIfYoung(t, q[n + 1]), q, n + 1, e, h)
<1>0. t \in TrafficType
  BY DEF Flushing
<1>1. n + 1 \in 1..Len(q) /\ q[n + 1] \in Entries
  OBVIOUS
<1>2. PICK m \in Messages : m = q[n + 1].msg
  BY <1>1 DEF Entries
<1>3. PICK sent \in Seq(Messages) : sent = t.sent
  BY <1>0 DEF TrafficType
<1>4. PICK wire \in Seq(Wires) : wire = t.wire
  BY <1>0 DEF TrafficType, Wires
<1>5. PICK refused \in SUBSET Messages : refused = t.refused
  BY <1>0 DEF TrafficType
<1>6. /\ Placed(sent, refused, q, n, e) /\ Ordered(sent, q, n, e, h)
      /\ WireOrdered(wire, h) /\ Kept(t) \subseteq Heard(wire)
  BY <1>3, <1>4, <1>5 DEF Flushing
<1>7. /\ Placed(Append(sent, m), refused, q, n + 1, e)
      /\ Placed(sent, refused \cup {m}, q, n + 1, e)
  BY <1>2, <1>6, PlacedFlush
<1>8. /\ Ordered(Append(sent, m), q, n + 1, e, h)
      /\ Ordered(sent, q, n + 1, e, h)
  BY <1>2, <1>6, OrderedFlush
<1>9. PICK u : u = SentIfYoung(t, q[n + 1])
  OBVIOUS
<1>10. ASSUME u \in TrafficType, u.refused = refused \cup {m}, u.sent = sent, u.wire = wire,
              Kept(u) = Kept(t)
       PROVE  Flushing(u, q, n + 1, e, h)
  BY <1>6, <1>7, <1>8, <1>10 DEF Flushing
<1>11. ASSUME u \in TrafficType, u.refused = refused, u.sent = Append(sent, m),
              u.wire = Append(wire, [msg |-> m, replayed |-> FALSE]),
              Kept(u) \subseteq Kept(t) \cup {m}
       PROVE  Flushing(u, q, n + 1, e, h)
  <2>1. /\ WireOrdered(Append(wire, [msg |-> m, replayed |-> FALSE]), h)
        /\ Heard(Append(wire, [msg |-> m, replayed |-> FALSE])) = Heard(wire) \cup {m}
    BY <1>6, WireGrows
  <2> QED BY <1>6, <1>7, <1>8, <1>11, <2>1 DEF Flushing
<1>12. CASE q[n + 1].old
  <2>1. u = [t EXCEPT !.refused = refused \cup {m}]
    BY <1>2, <1>5, <1>9, <1>12 DEF SentIfYoung
  <2>2. /\ u \in TrafficType /\ u.refused = refused \cup {m} /\ u.sent = sent /\ u.wire = wire
        /\ u.credentials = t.credentials /\ u.connect = t.connect /\ u.join = t.join
    BY <1>0, <1>3, <1>4, <2>1 DEF TrafficType
  <2>3. Kept(u) = Kept(t)
    BY <2>2 DEF Kept
  <2> QED BY <1>9, <1>10, <2>2, <2>3
<1>13. CASE ~ q[n + 1].old
  <2>1. u = Transmitted(t, m)
    BY <1>2, <1>9, <1>13 DEF SentIfYoung
  <2>2. /\ u \in TrafficType
        /\ \/ /\ u.refused = refused \cup {m} /\ u.sent = sent /\ u.wire = wire
              /\ Kept(u) = Kept(t)
           \/ /\ u.refused = refused /\ u.sent = Append(sent, m)
              /\ u.wire = Append(wire, [msg |-> m, replayed |-> FALSE])
              /\ Kept(u) \subseteq Kept(t) \cup {m}
    BY <1>0, <1>3, <1>4, <1>5, <2>1, TransmittedIs
  <2> QED BY <1>9, <1>10, <1>11, <2>2
<1> QED BY <1>9, <1>12, <1>13

\* The recursion of Flushed has a solution, and Flushed is its value at the end.
LEMMA FlushedRecursion ==
  ASSUME NEW t, queue \in Seq(Entries)
  PROVE  \E g : /\ g[0] = t /\ Flushed(t) = g[Len(queue)]
                /\ \A k \in 1..Len(queue) : g[k] = SentIfYoung(g[k - 1], queue[k])
<1> DEFINE Up == 0..Len(queue)
           V(g, k) == IF k = 0 THEN t ELSE SentIfYoung(g[k - 1], queue[k])
           Solves(g, n) == /\ g = [k \in Up |-> g[k]]
                           /\ \A k \in Up : k <= n => g[k] = V(g, k)
           N == {n \in Nat : \E g : Solves(g, n)}
           upTo == CHOOSE g : g = [k \in Up |-> V(g, k)]
<1>0. Len(queue) \in Nat
  OBVIOUS
<1>1. 0 \in N
  <2> DEFINE g == [k \in Up |-> t]
  <2>1. Solves(g, 0)
    OBVIOUS
  <2> QED BY <2>1
<1>2. ASSUME NEW n \in Nat, n \in N PROVE n + 1 \in N
  <2>1. PICK g : Solves(g, n)
    BY <1>2
  <2> DEFINE h == [k \in Up |-> IF k = n + 1 THEN V(g, n + 1) ELSE g[k]]
  <2>2. h = [k \in Up |-> h[k]]
    OBVIOUS
  <2>3. ASSUME NEW k \in Up, k <= n + 1 PROVE h[k] = V(h, k)
    <3>1. k # 0 => k - 1 \in Up /\ k - 1 # n + 1
      BY <1>0, <2>3
    <3>2. V(h, k) = V(g, k)
      BY <3>1
    <3>3. CASE k = n + 1
      <4> HIDE DEF V
      <4> QED BY <3>2, <3>3
    <3>4. CASE k <= n
      <4>1. h[k] = g[k]
        BY <3>4
      <4> HIDE DEF h, V
      <4> QED BY <2>1, <3>2, <3>4, <4>1
    <3> QED BY <1>0, <2>3, <3>3, <3>4
  <2>4. Solves(h, n + 1)
    <3> HIDE DEF h, V, Up
    <3> QED BY <2>2, <2>3
  <2> HIDE DEF h, Solves
  <2> QED BY <2>4
<1>3. \E g : Solves(g, Len(queue))
  <2> HIDE DEF Solves
  <2> QED BY <1>0, <1>1, <1>2, Induction
<1>4. \E g : g = [k \in Up |-> V(g, k)]
  <2> HIDE DEF V
  <2>1. PICK g : Solves(g, Len(queue))
    BY <1>3
  <2>2. \A k \in Up : g[k] = V(g, k)
    BY <1>0, <2>1
  <2> QED BY <2>1, <2>2
<1>5. upTo = [k \in Up |-> V(upTo, k)]
  <2> HIDE DEF V, Up
  <2> QED BY <1>4
<1>6. Flushed(t) = upTo[Len(queue)]
  BY DEF Flushed
<1> HIDE DEF upTo
<1>7. upTo[0] = t
  BY <1>0, <1>5
<1>8. ASSUME NEW k \in 1..Len(queue) PROVE upTo[k] = SentIfYoung(upTo[k - 1], queue[k])
  <2>1. k \in Up /\ k # 0
    BY <1>0
  <2>2. upTo[k] = V(upTo, k)
    <3> HIDE DEF V, Up
    <3> QED BY <1>5, <2>1
  <2> QED BY <2>1, <2>2
<1> QED BY <1>6, <1>7, <1>8

\* All of its turns.
LEMMA FlushedIs ==
  ASSUME queue \in Seq(Entries), NEW e \in Seq(Messages), NEW h,
         NEW t, Flushing(t, queue, 0, e, h)
  PROVE  Flushing(Flushed(t), queue, Len(queue), e, h)
<1>0. Len(queue) \in Nat
  OBVIOUS
<1>1. PICK g : /\ g[0] = t /\ Flushed(t) = g[Len(queue)]
               /\ \A k \in 1..Len(queue) : g[k] = SentIfYoung(g[k - 1], queue[k])
  BY FlushedRecursion
<1> DEFINE N == {n \in Nat : n <= Len(queue) => Flushing(g[n], queue, n, e, h)}
<1>2. 0 \in N
  BY <1>1
<1>3. ASSUME NEW n \in Nat, n \in N PROVE n + 1 \in N
  <2> SUFFICES ASSUME n + 1 <= Len(queue) PROVE Flushing(g[n + 1], queue, n + 1, e, h)
    OBVIOUS
  <2>1. n < Len(queue) /\ n + 1 \in 1..Len(queue) /\ (n + 1) - 1 = n
    BY <1>0
  <2>2. Flushing(g[n], queue, n, e, h)
    BY <1>0, <1>3, <2>1
  <2>3. g[n + 1] = SentIfYoung(g[n], queue[n + 1])
    BY <1>1, <2>1
  <2> QED BY <2>1, <2>2, <2>3, FlushingNext
<1>4. Len(queue) \in N
  <2> HIDE DEF N
  <2> QED BY <1>0, <1>2, <1>3, Induction
<1> QED BY <1>0, <1>1, <1>4

-----------------------------------------------------------------------------
(* The steps. *)

\* An answer under way is one to this connection, which has its replay to come
\* and has sent nothing; a ready client is synchronized with the server.
Handshake ==
  /\ asked => initCycle /\ initState \in {"initializing", "init_error"}
  /\ initState \in {"initializing", "init_error"} => traffic.wire = << >>
  /\ initTimer => initState = "initializing"
  /\ initState = "ready" => /\ queue = << >> /\ registry = server
                            /\ Kept(traffic) \subseteq Heard(traffic.wire)
  /\ initState # "idle" => connected

ClientInv ==
  /\ TypeOK /\ Handshake
  /\ Placed(traffic.sent, traffic.refused, queue, 0, emitted)
  /\ Ordered(traffic.sent, queue, 0, emitted, heard)
  /\ WireOrdered(traffic.wire, heard)

\* The types of what the lemmas above are applied to.
LEMMA Fields ==
  ASSUME TypeOK
  PROVE  /\ traffic.sent \in Seq(Messages) /\ traffic.wire \in Seq(Wires)
         /\ traffic.refused \in SUBSET Messages
         /\ queue \in Seq(Entries) /\ emitted \in Seq(Messages)
BY DEF TypeOK, TrafficType, Wires, Entries

\* A new client.
LEMMA InitClient == Init => ClientInv
<1> SUFFICES ASSUME Init PROVE ClientInv
  OBVIOUS
<1>1. /\ traffic.credentials = << >> /\ traffic.connect = << >> /\ traffic.join = << >>
      /\ traffic.wire = << >> /\ traffic.sent = << >> /\ traffic.refused = {}
      /\ queue = << >> /\ emitted = << >> /\ heard = {}
  BY DEF Init
<1>2. TypeOK
  <2>1. << >> \in Seq(Messages) /\ << >> \in Seq([msg : Messages, replayed : BOOLEAN])
        /\ << >> \in Seq([msg : Messages, old : BOOLEAN]) /\ Len(<< >>) = 0
    OBVIOUS
  <2>2. traffic \in TrafficType
    BY <2>1 DEF Init, TrafficType
  <2>3. 0 \in 0..MaxConnects /\ Len(queue) <= MaxQueued
    BY <1>1, <2>1, ClientAssumption
  <2> QED BY <1>1, <2>1, <2>2, <2>3 DEF Init, TypeOK
<1>3. Handshake
  BY DEF Init, Handshake
<1>4. ToSet(<< >>) = {} /\ Len(<< >>) = 0 /\ 1..0 = {}
  BY DEF ToSet
<1>5. Placed(<< >>, {}, << >>, 0, << >>)
  BY <1>4 DEF Placed
<1>6. Ordered(<< >>, << >>, 0, << >>, {})
  BY <1>4 DEF Ordered
<1>7. WireOrdered(<< >>, {})
  BY <1>4 DEF WireOrdered
<1> QED BY <1>1, <1>2, <1>3, <1>5, <1>6, <1>7 DEF ClientInv

\* Nothing but the state of the connection changes.
LEMMA QuietStep ==
  ASSUME ClientInv, TypeOK', Handshake', UNCHANGED <<queue, emitted, heard>>,
         UNCHANGED <<traffic.sent, traffic.refused, traffic.wire>>
  PROVE  ClientInv'
BY DEF ClientInv

\* A message is sent when the client is ready and queued when it is not; if the
\* queue is full its oldest entry is answered with an error.
LEMMA EmitStep ==
  ASSUME ClientInv, NEW m \in Messages, Emit(m)
  PROVE  ClientInv'
<1> PICK x : x = [msg |-> m, old |-> FALSE]
  OBVIOUS
<1> PICK q : q = queue
  OBVIOUS
<1> PICK e : e = emitted
  OBVIOUS
<1> PICK sent : sent = traffic.sent
  OBVIOUS
<1> PICK refused : refused = traffic.refused
  OBVIOUS
<1>1. /\ TypeOK /\ sent \in Seq(Messages) /\ traffic.wire \in Seq(Wires)
      /\ refused \in SUBSET Messages /\ q \in Seq(Entries) /\ e \in Seq(Messages)
  BY Fields DEF ClientInv
<1>2. Placed(sent, refused, q, 0, e) /\ Ordered(sent, q, 0, e, heard) /\ WireOrdered(traffic.wire, heard)
  BY DEF ClientInv
<1>3. m \notin ToSet(e)
  BY DEF Emit
<1>4. /\ Placed(Append(sent, m), refused, q, 0, Append(e, m))
      /\ Placed(sent, refused \cup {m}, q, 0, Append(e, m))
      /\ Placed(sent, refused, Append(q, x), 0, Append(e, m))
  BY <1>1, <1>2, <1>3, PlacedNew
<1>5. /\ Ordered(sent, q, 0, Append(e, m), heard)
      /\ 0 = Len(q) => Ordered(Append(sent, m), q, 0, Append(e, m), heard)
      /\ Ordered(sent, Append(q, x), 0, Append(e, m), heard)
  BY <1>1, <1>2, OrderedNew
<1>6. /\ emitted' = Append(e, m) /\ Append(e, m) \in Seq(Messages) /\ heard' = heard
      /\ UNCHANGED <<connVars, initVars, calls>>
  BY <1>1 DEF Emit
<1>7. x \in Entries /\ Append(q, x) \in Seq(Entries) /\ Len(Append(q, x)) = Len(q) + 1
      /\ Len(q) \in Nat /\ Append(q, x) # << >>
  BY <1>1 DEF Entries
<1>8. CASE initState # "ready" /\ Len(Append(q, x)) <= MaxQueued
  <2>1. queue' = Append(q, x) /\ traffic' = traffic
    BY <1>8 DEF Emit, Enqueue
  <2>2. TypeOK'
    BY <1>1, <1>6, <1>7, <1>8, <2>1 DEF TypeOK, connVars, initVars, Entries
  <2>3. Handshake'
    BY <1>6, <1>8, <2>1 DEF ClientInv, Handshake, connVars, initVars
  <2> QED BY <1>2, <1>4, <1>5, <1>6, <2>1, <2>2, <2>3 DEF ClientInv
<1>9. CASE initState # "ready" /\ ~ (Len(Append(q, x)) <= MaxQueued)
  <2> PICK longer \in Seq(Entries) : longer = Append(q, x)
    BY <1>7
  <2>1. /\ queue' = Tail(longer)
        /\ traffic' = [traffic EXCEPT !.refused = refused \cup {Head(longer).msg}]
    BY <1>9 DEF Emit, Enqueue
  <2>2. Tail(longer) \in Seq(Entries) /\ Len(Tail(longer)) = Len(q) /\ Head(longer) \in Entries
    BY <1>7
  <2>3. Head(longer).msg \in Messages
    BY <2>2 DEF Entries
  <2>4. /\ traffic' \in TrafficType /\ traffic'.sent = sent /\ traffic'.wire = traffic.wire
        /\ traffic'.refused = refused \cup {Head(longer).msg}
    BY <1>1, <2>1, <2>3 DEF TypeOK, TrafficType
  <2>5. Placed(sent, refused \cup {Head(longer).msg}, Tail(longer), 0, Append(e, m))
    BY <1>1, <1>4, <1>6, <1>7, PlacedShorter
  <2>6. Ordered(sent, Tail(longer), 0, Append(e, m), heard)
    BY <1>1, <1>5, <1>6, <1>7, OrderedShorter
  <2>7. TypeOK'
    BY <1>1, <1>6, <2>1, <2>2, <2>4 DEF TypeOK, connVars, initVars, Entries
  <2>8. Handshake'
    BY <1>6, <1>9, <2>1, <2>4 DEF ClientInv, Handshake, connVars, initVars
  <2> QED BY <1>2, <1>6, <2>1, <2>4, <2>5, <2>6, <2>7, <2>8 DEF ClientInv
<1>10. CASE initState = "ready"
  <2>1. traffic' = Transmitted(traffic, m) /\ queue' = q
    BY <1>10 DEF Emit
  <2>2. q = << >> /\ 0 = Len(q) /\ ~ asked /\ ~ initTimer /\ connected /\ registry = server
        /\ Kept(traffic) \subseteq Heard(traffic.wire)
    BY <1>10 DEF ClientInv, Handshake
  <2>3. traffic \in TrafficType
    BY <1>1 DEF TypeOK
  <2> PICK u : u = Transmitted(traffic, m)
    OBVIOUS
  <2>4. /\ u \in TrafficType
        /\ \/ /\ u.refused = refused \cup {m} /\ u.sent = sent /\ u.wire = traffic.wire
              /\ Kept(u) = Kept(traffic)
           \/ /\ u.refused = refused /\ u.sent = Append(sent, m)
              /\ u.wire = Append(traffic.wire, [msg |-> m, replayed |-> FALSE])
              /\ Kept(u) \subseteq Kept(traffic) \cup {m}
    BY <2>3, TransmittedIs
  <2>5. /\ WireOrdered(Append(traffic.wire, [msg |-> m, replayed |-> FALSE]), heard)
        /\ Heard(Append(traffic.wire, [msg |-> m, replayed |-> FALSE])) = Heard(traffic.wire) \cup {m}
    BY <1>1, <1>2, WireGrows
  <2>6. WireOrdered(u.wire, heard) /\ Kept(u) \subseteq Heard(u.wire)
    BY <1>2, <2>2, <2>4, <2>5
  <2>7. Placed(u.sent, u.refused, q, 0, Append(e, m))
    BY <1>4, <2>4
  <2>8. Ordered(u.sent, q, 0, Append(e, m), heard)
    BY <1>5, <2>2, <2>4
  <2>9. TypeOK'
    BY <1>1, <1>6, <2>1, <2>4 DEF TypeOK, connVars, initVars
  <2>10. Handshake'
    BY <1>6, <1>10, <2>1, <2>2, <2>6 DEF Handshake, connVars, initVars
  <2> QED BY <1>6, <2>1, <2>6, <2>7, <2>8, <2>9, <2>10 DEF ClientInv
<1> QED BY <1>8, <1>9, <1>10

\* Age: what is in the queue stays where it is.
LEMMA AgeStep ==
  ASSUME ClientInv, Age
  PROVE  ClientInv'
<1>1. TypeOK /\ queue \in Seq(Entries) /\ Len(queue) \in Nat
  BY Fields DEF ClientInv
<1>2. DOMAIN queue = 1..Len(queue)
  BY <1>1
<1>3. PICK k : queue' = [j \in 1..Len(queue) |-> [queue[j] EXCEPT !.old = @ \/ j <= k]]
  BY <1>2 DEF Age
<1>4. \A j \in 1..Len(queue) : [queue[j] EXCEPT !.old = @ \/ j <= k] \in Entries
  <2> SUFFICES ASSUME NEW j \in 1..Len(queue)
               PROVE  [queue[j] EXCEPT !.old = @ \/ j <= k] \in Entries
    OBVIOUS
  <2>1. PICK x \in Entries : x = queue[j]
    BY <1>1
  <2>2. (x.old \/ j <= k) \in BOOLEAN
    OBVIOUS
  <2> QED BY <2>1, <2>2 DEF Entries
<1>5. \A j \in 1..Len(queue) : [queue[j] EXCEPT !.old = @ \/ j <= k].msg = queue[j].msg
  <2> SUFFICES ASSUME NEW j \in 1..Len(queue)
               PROVE  [queue[j] EXCEPT !.old = @ \/ j <= k].msg = queue[j].msg
    OBVIOUS
  <2>1. PICK x \in Entries : x = queue[j]
    BY <1>1
  <2> QED BY <2>1 DEF Entries
<1>6. queue' \in Seq(Entries) /\ Len(queue') = Len(queue)
  BY <1>1, <1>3, <1>4
<1>7. \A j \in 1..Len(queue) : queue'[j].msg = queue[j].msg
  BY <1>3, <1>5
<1>8. UNCHANGED <<connVars, initVars, traffic, appVars, calls>>
  BY DEF Age
<1>9. Placed(traffic.sent, traffic.refused, queue', 0, emitted)
  BY <1>6, <1>7, PlacedAge DEF ClientInv
<1>10. Ordered(traffic.sent, queue', 0, emitted, heard)
  BY <1>6, <1>7, OrderedAge DEF ClientInv
<1>11. TypeOK'
  BY <1>1, <1>6, <1>8 DEF TypeOK, connVars, initVars, appVars, Entries
<1>12. Handshake'
  <2>1. queue = << >> => queue' = << >>
    BY <1>6
  <2> QED BY <1>8, <2>1 DEF ClientInv, Handshake, connVars, initVars
<1> QED BY <1>8, <1>9, <1>10, <1>11, <1>12 DEF ClientInv, appVars

\* ClearCredentials: less to replay.
LEMMA ClearCredentialsStep ==
  ASSUME ClientInv, ClearCredentials
  PROVE  ClientInv'
<1>1. /\ traffic' = [traffic EXCEPT !.credentials = << >>]
      /\ UNCHANGED <<connVars, initVars, queue, appVars, calls>>
  BY DEF ClearCredentials
<1>2. TypeOK /\ traffic \in TrafficType
  BY DEF ClientInv, TypeOK
<1>3. /\ traffic' \in TrafficType /\ UNCHANGED <<traffic.sent, traffic.refused, traffic.wire>>
      /\ traffic'.credentials = << >> /\ UNCHANGED <<traffic.connect, traffic.join>>
  <2>1. << >> \in Seq(Messages)
    OBVIOUS
  <2>2. traffic' \in TrafficType
    BY <1>1, <1>2, <2>1 DEF TrafficType
  <2>3. UNCHANGED <<traffic.sent, traffic.refused, traffic.wire, traffic.connect, traffic.join>>
    BY <1>1, <1>2 DEF TrafficType
  <2>4. traffic'.credentials = << >>
    BY <1>1, <1>2 DEF TrafficType
  <2> QED BY <2>2, <2>3, <2>4
<1>4. Kept(traffic)' \subseteq Kept(traffic)
  <2>1. ToSet(<< >>) = {}
    BY DEF ToSet
  <2> QED BY <1>3, <2>1 DEF Kept
<1>5. TypeOK'
  BY <1>1, <1>2, <1>3 DEF TypeOK, connVars, initVars, appVars
<1>6. Handshake'
  <2>1. Heard(traffic.wire)' = Heard(traffic.wire)
    BY <1>3
  <2> QED BY <1>1, <1>3, <1>4, <2>1 DEF ClientInv, Handshake, connVars, initVars
<1> QED BY <1>1, <1>3, <1>5, <1>6, QuietStep DEF appVars

\* Ready: a waiter more.
LEMMA ReadyStep ==
  ASSUME ClientInv, NEW k \in Calls, Ready(k)
  PROVE  ClientInv'
<1>1. UNCHANGED <<connVars, initVars, queue, traffic, appVars>>
  BY DEF Ready
<1>2. TypeOK'
  BY <1>1 DEF ClientInv, TypeOK, Ready, connVars, initVars, appVars
<1>3. Handshake'
  BY <1>1 DEF ClientInv, Handshake, connVars, initVars
<1> QED BY <1>1, <1>2, <1>3, QuietStep DEF appVars

\* Connect: an empty wire and a cycle to replay in.
LEMMA ConnectStep ==
  ASSUME ClientInv, Connect
  PROVE  ClientInv'
<1>1. TypeOK /\ traffic \in TrafficType
  BY DEF ClientInv, TypeOK
<1>2. /\ traffic' = [traffic EXCEPT !.wire = << >>]
      /\ UNCHANGED <<server, registry, queue, appVars, calls>>
      /\ initState' = "initializing" /\ initCycle' = TRUE /\ asked' = TRUE /\ initTimer' = TRUE
      /\ connected' = TRUE /\ connects' = connects + 1 /\ connects < MaxConnects
  BY DEF Connect, StartInitialization
<1>3. << >> \in Seq([msg : Messages, replayed : BOOLEAN])
  OBVIOUS
<1>4. /\ traffic' \in TrafficType /\ UNCHANGED <<traffic.sent, traffic.refused>>
      /\ traffic'.wire = << >>
  BY <1>1, <1>2, <1>3 DEF TrafficType
<1>5. TypeOK'
  <2>1. connects + 1 \in 0..MaxConnects
    BY <1>1, <1>2, ClientAssumption DEF TypeOK
  <2> QED BY <1>1, <1>2, <1>4, <2>1 DEF TypeOK, appVars
<1>6. Handshake'
  BY <1>2, <1>4 DEF Handshake
<1>7. WireOrdered(<< >>, heard)
  <2>1. Len(<< >>) = 0 /\ 1..0 = {}
    OBVIOUS
  <2> QED BY <2>1 DEF WireOrdered
<1> QED BY <1>2, <1>4, <1>5, <1>6, <1>7 DEF ClientInv, appVars

\* Disconnect: an answer under way does not survive it.
LEMMA DisconnectStep ==
  ASSUME ClientInv, Disconnect
  PROVE  ClientInv'
<1>1. TypeOK'
  BY DEF ClientInv, TypeOK, Disconnect, appVars
<1>2. Handshake'
  BY DEF Handshake, Disconnect
<1> QED BY <1>1, <1>2, QuietStep DEF Disconnect, appVars

\* InitTimeout: the answer may still come, and finds all as it was.
LEMMA InitTimeoutStep ==
  ASSUME ClientInv, InitTimeout
  PROVE  ClientInv'
<1>1. TypeOK'
  BY DEF ClientInv, TypeOK, InitTimeout, connVars, appVars
<1>2. Handshake'
  BY DEF ClientInv, Handshake, InitTimeout, connVars
<1> QED BY <1>1, <1>2, QuietStep DEF InitTimeout, appVars

\* What a listener of "ready" said, if anything, precedes the replay on the wire.
LEMMA AnsweredIs ==
  ASSUME ClientInv, initState # "ready", traffic.wire = << >>, NEW said,
         \/ said = << >>
         \/ \E m \in Messages : said = <<m>>,
         ListenerEmits(said)
  PROVE  LET t == Answered(traffic, said) IN
         /\ t \in TrafficType /\ emitted' \in Seq(Messages) /\ heard' \subseteq Messages
         /\ Placed(t.sent, t.refused, queue, 0, emitted')
         /\ Ordered(t.sent, queue, 0, emitted', heard')
         /\ WireOrdered(t.wire, heard')
         /\ \A k \in 1..Len(t.wire) : ~ t.wire[k].replayed => t.wire[k].msg \in heard'
<1> PICK q : q = queue
  OBVIOUS
<1> PICK e : e = emitted
  OBVIOUS
<1> PICK sent : sent = traffic.sent
  OBVIOUS
<1> PICK refused : refused = traffic.refused
  OBVIOUS
<1>1. /\ TypeOK /\ sent \in Seq(Messages) /\ traffic.wire \in Seq(Wires)
      /\ refused \in SUBSET Messages /\ q \in Seq(Entries) /\ e \in Seq(Messages)
  BY Fields DEF ClientInv
<1>2. Placed(sent, refused, q, 0, e) /\ Ordered(sent, q, 0, e, heard)
  BY DEF ClientInv
<1>3. traffic \in TrafficType /\ heard \subseteq Messages
  BY <1>1 DEF TypeOK
<1>4. \A h : WireOrdered(<< >>, h)
  <2>1. Len(<< >>) = 0 /\ 1..0 = {}
    OBVIOUS
  <2> QED BY <2>1 DEF WireOrdered
<1>5. CASE said = << >>
  <2>1. emitted' = e
    BY <1>1, <1>5 DEF ListenerEmits
  <2>2. heard' = heard
    <3>1. ToSet(<< >>) = {}
      BY DEF ToSet
    <3> QED BY <1>5, <3>1 DEF ListenerEmits
  <2>3. Answered(traffic, said) = traffic
    BY <1>5 DEF Answered
  <2>4. Len(traffic.wire) = 0 /\ 1..0 = {}
    OBVIOUS
  <2> QED BY <1>1, <1>2, <1>3, <1>4, <2>1, <2>2, <2>3, <2>4
<1>6. ASSUME NEW m \in Messages, said = <<m>>
      PROVE  LET t == Answered(traffic, said) IN
             /\ t \in TrafficType /\ emitted' \in Seq(Messages) /\ heard' \subseteq Messages
             /\ Placed(t.sent, t.refused, queue, 0, emitted')
             /\ Ordered(t.sent, queue, 0, emitted', heard')
             /\ WireOrdered(t.wire, heard')
             /\ \A k \in 1..Len(t.wire) : ~ t.wire[k].replayed => t.wire[k].msg \in heard'
  <2> PICK x : x = [msg |-> m, replayed |-> FALSE]
    OBVIOUS
  <2>1. /\ DOMAIN <<m>> = {1} /\ <<m>>[1] = m /\ <<m>> # << >> /\ Head(<<m>>) = m
        /\ e \o <<m>> = Append(e, m) /\ Append(e, m) \in Seq(Messages)
    BY <1>1
  <2>2. m \notin ToSet(e) /\ emitted' = Append(e, m)
    BY <1>6, <2>1 DEF ListenerEmits
  <2>3. heard' = heard \cup {m}
    <3>1. ToSet(<<m>>) = {m}
      BY <2>1 DEF ToSet
    <3> QED BY <1>6, <3>1 DEF ListenerEmits
  <2>4. Answered(traffic, said) = Transmitted(traffic, m)
    BY <1>6, <2>1 DEF Answered
  <2> PICK t : t = Transmitted(traffic, m)
    OBVIOUS
  <2>5. /\ t \in TrafficType
        /\ \/ t.refused = refused \cup {m} /\ t.sent = sent /\ t.wire = << >>
           \/ t.refused = refused /\ t.sent = Append(sent, m) /\ t.wire = Append(<< >>, x)
    BY <1>3, TransmittedIs
  <2>6. /\ Placed(Append(sent, m), refused, q, 0, Append(e, m))
        /\ Placed(sent, refused \cup {m}, q, 0, Append(e, m))
    BY <1>1, <1>2, <2>2, PlacedNew
  <2>7. /\ Ordered(sent, q, 0, Append(e, m), heard \cup {m})
        /\ Ordered(Append(sent, m), q, 0, Append(e, m), heard \cup {m})
    BY <1>1, <1>2, OrderedNew
  <2>8. << >> \in Seq(Wires) /\ Append(<< >>, x) = <<x>> /\ Len(<<x>>) = 1 /\ <<x>>[1] = x
        /\ 1..1 = {1} /\ 1..0 = {} /\ Len(<< >>) = 0 /\ x.msg = m
    OBVIOUS
  <2>9. WireOrdered(Append(<< >>, x), heard \cup {m})
    BY <1>4, <2>8, WireGrows
  <2>10. \A k \in 1..Len(t.wire) : ~ t.wire[k].replayed => t.wire[k].msg \in heard \cup {m}
    <3>1. t.wire = << >> \/ t.wire = <<x>>
      BY <2>5, <2>8
    <3> QED BY <2>8, <3>1
  <2>11. WireOrdered(t.wire, heard \cup {m})
    BY <1>4, <2>5, <2>9
  <2>12. Placed(t.sent, t.refused, q, 0, Append(e, m))
    BY <2>5, <2>6
  <2>13. Ordered(t.sent, q, 0, Append(e, m), heard \cup {m})
    BY <2>5, <2>7
  <2> QED BY <1>3, <2>1, <2>2, <2>3, <2>4, <2>5, <2>10, <2>11, <2>12, <2>13
<1> QED BY <1>5, <1>6

\* markReady() on the answer of the server: the listeners, the replay, the queue.
LEMMA RegistryArrivesStep ==
  ASSUME ClientInv, NEW said,
         \/ said = << >>
         \/ \E m \in Messages : said = <<m>>,
         RegistryArrives(said)
  PROVE  ClientInv'
<1>1. /\ asked /\ asked' = FALSE /\ UNCHANGED <<connected, connects, server>>
      /\ ApplyRegistry /\ ListenerEmits(said)
      /\ initState' = "ready" /\ initCycle' = FALSE /\ initTimer' = FALSE
      /\ calls' = [k \in Calls |-> IF calls[k] = "waiting" THEN "resolved" ELSE calls[k]]
      /\ traffic' = Flushed(IF initCycle THEN Replayed(Answered(traffic, said))
                                         ELSE Answered(traffic, said))
      /\ queue' = << >>
  BY DEF RegistryArrives, MarkReady
<1>2. initCycle /\ initState # "ready" /\ traffic.wire = << >> /\ connected
  BY <1>1 DEF ClientInv, Handshake
<1>3. TypeOK /\ queue \in Seq(Entries)
  BY Fields DEF ClientInv
<1>4. PICK a : a = Answered(traffic, said)
  OBVIOUS
<1>5. PICK r : r = Replayed(a)
  OBVIOUS
<1>6. PICK f : f = Flushed(r)
  OBVIOUS
<1>7. /\ a \in TrafficType /\ emitted' \in Seq(Messages) /\ heard' \subseteq Messages
      /\ Placed(a.sent, a.refused, queue, 0, emitted')
      /\ Ordered(a.sent, queue, 0, emitted', heard')
      /\ WireOrdered(a.wire, heard')
      /\ \A k \in 1..Len(a.wire) : ~ a.wire[k].replayed => a.wire[k].msg \in heard'
  BY <1>1, <1>2, <1>4, AnsweredIs
<1>8. /\ r \in TrafficType /\ r.sent = a.sent /\ r.refused = a.refused
      /\ WireOrdered(r.wire, heard') /\ Kept(r) \subseteq Heard(r.wire)
  BY <1>5, <1>7, ReplayedIs
<1>9. Flushing(r, queue, 0, emitted', heard')
  BY <1>7, <1>8 DEF Flushing
<1>10. Flushing(f, queue, Len(queue), emitted', heard')
  BY <1>3, <1>6, <1>7, <1>9, FlushedIs
<1>11. traffic' = f
  BY <1>1, <1>2, <1>4, <1>5, <1>6
<1>12. /\ f \in TrafficType /\ f.sent \in Seq(Messages)
       /\ Placed(f.sent, f.refused, queue, Len(queue), emitted')
       /\ Ordered(f.sent, queue, Len(queue), emitted', heard')
       /\ WireOrdered(f.wire, heard') /\ Kept(f) \subseteq Heard(f.wire)
  BY <1>10 DEF Flushing, TrafficType
<1>13. Placed(f.sent, f.refused, << >>, 0, emitted')
  BY <1>3, <1>7, <1>12, PlacedShorter
<1>14. Ordered(f.sent, << >>, 0, emitted', heard')
  BY <1>3, <1>12, OrderedShorter
<1>15. registry' = server' /\ server' = server
  BY <1>1 DEF ApplyRegistry
<1>16. TypeOK'
  <2>1. << >> \in Seq([msg : Messages, old : BOOLEAN]) /\ Len(<< >>) <= MaxQueued
    BY ClientAssumption
  <2>2. calls' \in [Calls -> {"none", "waiting", "resolved"}]
    BY <1>1, <1>3 DEF TypeOK
  <2> QED BY <1>1, <1>3, <1>7, <1>11, <1>12, <1>15, <2>1, <2>2 DEF TypeOK
<1>17. Handshake'
  BY <1>1, <1>2, <1>11, <1>12, <1>15 DEF Handshake
<1> QED BY <1>1, <1>11, <1>12, <1>13, <1>14, <1>16, <1>17 DEF ClientInv

\* One step, whichever it is.
LEMMA ClientNext ==
  ASSUME ClientInv, [Next]_vars
  PROVE  ClientInv'
<1>1. ASSUME NEW m \in Messages, Emit(m) PROVE ClientInv'
  BY <1>1, EmitStep
<1>2. CASE Age
  BY <1>2, AgeStep
<1>3. CASE ClearCredentials
  BY <1>3, ClearCredentialsStep
<1>4. ASSUME NEW k \in Calls, Ready(k) PROVE ClientInv'
  BY <1>4, ReadyStep
<1>5. CASE Connect
  BY <1>5, ConnectStep
<1>6. CASE Disconnect
  BY <1>6, DisconnectStep
<1>7. CASE InitTimeout
  BY <1>7, InitTimeoutStep
<1>8. CASE RegistryArrives(<< >>)
  BY <1>8, RegistryArrivesStep
<1>9. ASSUME NEW m \in Messages, RegistryArrives(<<m>>) PROVE ClientInv'
  BY <1>9, RegistryArrivesStep
<1>10. CASE UNCHANGED vars
  <2>1. TypeOK'
    BY <1>10 DEF ClientInv, TypeOK, vars, connVars, initVars, appVars
  <2>2. Handshake'
    BY <1>10 DEF ClientInv, Handshake, vars, connVars, initVars
  <2> QED BY <1>10, <2>1, <2>2, QuietStep DEF vars, appVars
<1> QED BY <1>1, <1>2, <1>3, <1>4, <1>5, <1>6, <1>7, <1>8, <1>9, <1>10 DEF Next

-----------------------------------------------------------------------------
(* The theorems. *)

\* The invariant holds in every state of every behaviour.
LEMMA ClientInvHolds == Spec => []ClientInv
<1>1. Init => ClientInv
  BY InitClient
<1>2. ClientInv /\ [Next]_vars => ClientInv'
  BY ClientNext
<1> QED BY <1>1, <1>2, PTL DEF Spec

\* Type correctness of the client's state.
THEOREM TypeCorrect == Spec => []TypeOK
<1>1. ClientInv => TypeOK
  BY DEF ClientInv
<1> QED BY <1>1, ClientInvHolds, PTL

\* A ready client validates with the registry its server has now.
THEOREM ReadyWithTheServersRegistryHolds == Spec => []ReadyWithTheServersRegistry
<1>1. ClientInv => ReadyWithTheServersRegistry
  BY DEF ClientInv, Handshake, ReadyWithTheServersRegistry
<1> QED BY <1>1, ClientInvHolds, PTL

\* A ready client has told this connection's server all that it would replay.
THEOREM SessionIsRestoredHolds == Spec => []SessionIsRestored
<1>1. ClientInv => SessionIsRestored
  <2> SUFFICES ASSUME ClientInv, initState = "ready" PROVE
        ToSet(traffic.credentials \o traffic.connect \o traffic.join)
          \subseteq {traffic.wire[k].msg : k \in DOMAIN traffic.wire}
    BY DEF SessionIsRestored
  <2>1. traffic \in TrafficType /\ traffic.wire \in Seq(Wires)
    BY Fields DEF ClientInv, TypeOK
  <2>2. PICK a, b, c \in Seq(Messages) :
          a = traffic.credentials /\ b = traffic.connect /\ c = traffic.join
    BY <2>1 DEF TrafficType
  <2>3. PICK wire \in Seq(Wires) : wire = traffic.wire
    BY <2>1
  <2>4. ToSet(a) \cup ToSet(b) \cup ToSet(c) \subseteq Heard(wire)
    BY <2>2, <2>3 DEF ClientInv, Handshake, Kept
  <2>5. Heard(wire) = {wire[k].msg : k \in DOMAIN wire}
    BY DEF Heard
  <2>6. PICK all : all = a \o b \o c
    OBVIOUS
  <2>7. /\ all \in Seq(Messages)
        /\ \A k \in 1..Len(all) : \/ \E i \in 1..Len(a) : all[k] = a[i]
                                  \/ \E i \in 1..Len(b) : all[k] = b[i]
                                  \/ \E i \in 1..Len(c) : all[k] = c[i]
    <3>1. PICK ab : ab = a \o b
      OBVIOUS
    <3>2. /\ ab \in Seq(Messages) /\ Len(ab) = Len(a) + Len(b)
          /\ \A k \in 1..Len(ab) : \/ k \in 1..Len(a) /\ ab[k] = a[k]
                                   \/ k - Len(a) \in 1..Len(b) /\ ab[k] = b[k - Len(a)]
      BY <3>1
    <3>3. /\ all \in Seq(Messages)
          /\ \A k \in 1..Len(all) : \/ k \in 1..Len(ab) /\ all[k] = ab[k]
                                    \/ k - Len(ab) \in 1..Len(c) /\ all[k] = c[k - Len(ab)]
      BY <2>6, <3>1, <3>2
    <3> QED BY <3>2, <3>3
  <2>8. ToSet(all) \subseteq ToSet(a) \cup ToSet(b) \cup ToSet(c)
    <3> SUFFICES ASSUME NEW m \in ToSet(all) PROVE m \in ToSet(a) \cup ToSet(b) \cup ToSet(c)
      OBVIOUS
    <3>1. PICK k \in 1..Len(all) : all[k] = m
      BY <2>7, ToSetAt
    <3>2. CASE \E i \in 1..Len(a) : all[k] = a[i]
      BY <3>1, <3>2, ToSetAt
    <3>3. CASE \E i \in 1..Len(b) : all[k] = b[i]
      BY <3>1, <3>3, ToSetAt
    <3>4. CASE \E i \in 1..Len(c) : all[k] = c[i]
      BY <3>1, <3>4, ToSetAt
    <3> QED BY <2>7, <3>2, <3>3, <3>4
  <2> QED BY <2>2, <2>3, <2>4, <2>5, <2>6, <2>8
<1> QED BY <1>1, ClientInvHolds, PTL

\* The replay precedes all messages but those of the listeners of "ready".
THEOREM ReplayComesFirstHolds == Spec => []ReplayComesFirst
<1>1. ClientInv => ReplayComesFirst
  <2> SUFFICES ASSUME ClientInv PROVE ReplayComesFirst
    OBVIOUS
  <2>1. PICK wire \in Seq(Wires) : wire = traffic.wire
    BY Fields DEF ClientInv
  <2>2. DOMAIN wire = 1..Len(wire)
    OBVIOUS
  <2>3. WireOrdered(wire, heard)
    BY <2>1 DEF ClientInv
  <2> QED BY <2>1, <2>2, <2>3 DEF WireOrdered, ReplayComesFirst
<1> QED BY <1>1, ClientInvHolds, PTL

\* Messages go out in the order of their emit(), but for those of the listeners.
THEOREM SentInOrderHolds == Spec => []SentInOrder
<1>1. ClientInv => SentInOrder
  <2> SUFFICES ASSUME ClientInv PROVE SentInOrder
    OBVIOUS
  <2>1. PICK sent \in Seq(Messages) : sent = traffic.sent
    BY Fields DEF ClientInv
  <2>2. PICK e \in Seq(Messages) : e = emitted
    BY Fields DEF ClientInv
  <2>3. DOMAIN sent = 1..Len(sent) /\ DOMAIN e = 1..Len(e)
    OBVIOUS
  <2>4. ASSUME NEW m, NEW n, Before(e, m, n)
        PROVE  \E i \in 1..Len(e) : e[i] = m /\ n \in ToSet(SubSeq(e, i + 1, Len(e)))
    <3>1. PICK i, j \in 1..Len(e) : i < j /\ e[i] = m /\ e[j] = n
      BY <2>4 DEF Before
    <3>2. PICK s : s = SubSeq(e, i + 1, Len(e))
      OBVIOUS
    <3>3. s \in Seq(Messages) /\ j - i \in 1..Len(s) /\ s[j - i] = e[j]
      BY <3>1, <3>2
    <3>4. n \in ToSet(s)
      BY <3>1, <3>3, ToSetAt
    <3> QED BY <3>1, <3>2, <3>4
  <2>5. \A j, k \in 1..Len(sent) :
          j < k /\ sent[j] \notin heard /\ sent[k] \notin heard => Before(e, sent[j], sent[k])
    BY <2>1, <2>2 DEF ClientInv, Ordered
  <2>6. \A j, k \in DOMAIN sent :
          j < k /\ sent[j] \notin heard /\ sent[k] \notin heard
            => \E i \in DOMAIN e : e[i] = sent[j] /\ sent[k] \in ToSet(SubSeq(e, i + 1, Len(e)))
    BY <2>3, <2>4, <2>5
  <2> QED BY <2>1, <2>2, <2>6 DEF SentInOrder
<1> QED BY <1>1, ClientInvHolds, PTL

\* How often a message is in a sequence without repetition.
LEMMA CopiesIs ==
  ASSUME NEW s, NEW m, \A j, k \in DOMAIN s : s[j] = s[k] => j = k
  PROVE  /\ (\E k \in DOMAIN s : s[k] = m) => Copies(m, s) = 1
         /\ (\A k \in DOMAIN s : s[k] # m) => Copies(m, s) = 0
<1>1. ASSUME NEW k \in DOMAIN s, s[k] = m PROVE Copies(m, s) = 1
  <2>1. {j \in DOMAIN s : s[j] = m} = {k}
    BY <1>1
  <2> QED BY <2>1, FS_Singleton DEF Copies
<1>2. ASSUME \A k \in DOMAIN s : s[k] # m PROVE Copies(m, s) = 0
  <2>1. {j \in DOMAIN s : s[j] = m} = {}
    BY <1>2
  <2> QED BY <2>1, FS_EmptySet DEF Copies
<1> QED BY <1>1, <1>2

\* What was emitted waits once, was sent once, or was answered with an error.
THEOREM EveryMessageIsAccountedForHolds == Spec => []EveryMessageIsAccountedFor
<1>1. ClientInv => EveryMessageIsAccountedFor
  <2> SUFFICES ASSUME ClientInv, NEW m \in ToSet(emitted) PROVE
        Copies(m, Queued) + Copies(m, traffic.sent) + (IF m \in traffic.refused THEN 1 ELSE 0) = 1
    BY DEF EveryMessageIsAccountedFor
  <2>1. PICK sent \in Seq(Messages) : sent = traffic.sent
    BY Fields DEF ClientInv
  <2>2. PICK refused : refused = traffic.refused
    OBVIOUS
  <2>3. PICK q \in Seq(Entries) : q = queue
    BY Fields DEF ClientInv
  <2>4. PICK waiting : waiting = Queued
    OBVIOUS
  <2>5. /\ DOMAIN sent = 1..Len(sent) /\ DOMAIN q = 1..Len(q) /\ DOMAIN waiting = 1..Len(q)
        /\ \A k \in 1..Len(q) : waiting[k] = q[k].msg
    BY <2>3, <2>4 DEF Queued
  <2>6. Placed(sent, refused, q, 0, emitted)
    BY <2>1, <2>2, <2>3 DEF ClientInv
  <2>7. 0 + 1 = 1
    OBVIOUS
  <2>8. /\ \A j, k \in DOMAIN sent : sent[j] = sent[k] => j = k
        /\ \A j, k \in DOMAIN waiting : waiting[j] = waiting[k] => j = k
        /\ \A j \in DOMAIN sent : sent[j] \notin refused
        /\ \A k \in DOMAIN waiting : /\ waiting[k] \notin refused
                                     /\ \A j \in DOMAIN sent : sent[j] # waiting[k]
        /\ \/ m \in refused
           \/ \E j \in DOMAIN sent : sent[j] = m
           \/ \E k \in DOMAIN waiting : waiting[k] = m
    BY <2>5, <2>6, <2>7 DEF Placed
  <2>9. CASE m \in refused
    <3>1. (\A j \in DOMAIN sent : sent[j] # m) /\ \A k \in DOMAIN waiting : waiting[k] # m
      BY <2>8, <2>9
    <3>2. Copies(m, sent) = 0 /\ Copies(m, waiting) = 0
      BY <2>8, <3>1, CopiesIs
    <3> QED BY <2>1, <2>2, <2>4, <2>9, <3>2
  <2>10. CASE \E j \in DOMAIN sent : sent[j] = m
    <3>1. m \notin refused /\ \A k \in DOMAIN waiting : waiting[k] # m
      BY <2>8, <2>10
    <3>2. Copies(m, sent) = 1 /\ Copies(m, waiting) = 0
      BY <2>8, <2>10, <3>1, CopiesIs
    <3> QED BY <2>1, <2>2, <2>4, <3>1, <3>2
  <2>11. CASE \E k \in DOMAIN waiting : waiting[k] = m
    <3>1. m \notin refused /\ \A j \in DOMAIN sent : sent[j] # m
      BY <2>8, <2>11
    <3>2. Copies(m, sent) = 0 /\ Copies(m, waiting) = 1
      BY <2>8, <2>11, <3>1, CopiesIs
    <3> QED BY <2>1, <2>2, <2>4, <3>1, <3>2
  <2> QED BY <2>8, <2>9, <2>10, <2>11
<1> QED BY <1>1, ClientInvHolds, PTL
=============================================================================
