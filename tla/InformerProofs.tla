--------------------------- MODULE InformerProofs ---------------------------
(***************************************************************************)
(* Lemmas about informers that the proofs of the controllers rest on: how  *)
(* the versions of an object that are on their way stay in order.          *)
(***************************************************************************)
EXTENDS Informer, SequenceTheorems, TLAPS

(* The versions of an object an informer has and will have; the order in which *)
(* they come is that of a relation R.                                          *)
Copies(cache, watch) == {cache} \cup {watch[i] : i \in 1 .. Len(watch)}

InOrder(R, cache, watch, stored) ==
    /\ \A x \in Copies(cache, watch) \cup {stored} : <<x, stored>> \in R
    /\ \A i \in 1 .. Len(watch) : <<cache, watch[i]>> \in R
    /\ \A i, k \in 1 .. Len(watch) : i <= k => <<watch[i], watch[k]>> \in R

(* A version that is stored is on its way behind those that are older. *)
LEMMA Written ==
    ASSUME NEW S, NEW R, NEW cache \in S, NEW watch \in Seq(S), NEW old, NEW new \in S,
           InOrder(R, cache, watch, old),
           \A x \in Copies(cache, watch) \cup {new} : <<x, new>> \in R
    PROVE  InOrder(R, cache, Published(watch, old, new), new)
<1>1. CASE new = old
  BY <1>1 DEF Published
<1>2. CASE new # old
  <2> DEFINE w == Append(watch, new)
  <2>1. /\ Published(watch, old, new) = w
        /\ Len(watch) \in Nat /\ Len(w) = Len(watch) + 1
        /\ \A i \in 1 .. Len(watch) : w[i] = watch[i]
        /\ w[Len(watch) + 1] = new
    BY <1>2, AppendProperties, LenProperties DEF Published
  <2> HIDE DEF w
  <2>2. \A i \in 1 .. Len(w) : i \in 1 .. Len(watch) \/ w[i] = new
    BY <2>1
  <2>3. \A i \in 1 .. Len(w) : w[i] \in Copies(cache, watch) \cup {new}
    BY <2>1, <2>2 DEF Copies
  <2>4. \A x \in Copies(cache, w) \cup {new} : <<x, new>> \in R
    BY <2>3 DEF Copies
  <2>5. \A i \in 1 .. Len(w) : <<cache, w[i]>> \in R
    BY <2>1, <2>2 DEF InOrder, Copies
  <2>6. \A i, k \in 1 .. Len(w) : i <= k => <<w[i], w[k]>> \in R
    <3> TAKE i, k \in 1 .. Len(w)
    <3> HAVE i <= k
    <3>1. CASE k \in 1 .. Len(watch)
      <4>1. i \in 1 .. Len(watch)
        BY <2>1, <3>1
      <4> QED BY <2>1, <3>1, <4>1 DEF InOrder
    <3>2. CASE w[k] = new
      BY <2>3, <3>2
    <3> QED BY <2>2, <3>1, <3>2
  <2> QED BY <2>1, <2>4, <2>5, <2>6 DEF InOrder
<1> QED BY <1>1, <1>2

(* A write adds the version written to the copies, and no other.              *)
LEMMA CopiesWritten ==
    ASSUME NEW S, NEW cache \in S, NEW watch \in Seq(S), NEW old, NEW new \in S
    PROVE  /\ Published(watch, old, new) \in Seq(S)
           /\ Copies(cache, Published(watch, old, new)) \subseteq Copies(cache, watch) \cup {new}
<1>1. CASE new = old
  BY <1>1 DEF Published
<1>2. CASE new # old
  <2> DEFINE w == Append(watch, new)
  <2>1. /\ Published(watch, old, new) = w /\ w \in Seq(S)
        /\ Len(watch) \in Nat /\ Len(w) = Len(watch) + 1
        /\ \A i \in 1 .. Len(watch) : w[i] = watch[i]
        /\ w[Len(watch) + 1] = new
    BY <1>2, AppendProperties, LenProperties DEF Published
  <2> HIDE DEF w
  <2>2. \A i \in 1 .. Len(w) : w[i] \in Copies(cache, watch) \cup {new}
    BY <2>1 DEF Copies
  <2> QED BY <2>1, <2>2 DEF Copies
<1> QED BY <1>1, <1>2

(* A version that arrives was on its way, and those behind it stay there. *)
LEMMA Delivered ==
    ASSUME NEW S, NEW cache \in S, NEW watch \in Seq(S), watch # <<>>
    PROVE  /\ Head(watch) \in S /\ Tail(watch) \in Seq(S)
           /\ Copies(Head(watch), Tail(watch)) \subseteq Copies(cache, watch)
           /\ \A R, stored : InOrder(R, cache, watch, stored)
                               => InOrder(R, Head(watch), Tail(watch), stored)
<1> DEFINE w == Tail(watch)
<1>1. /\ Head(watch) = watch[1] /\ Head(watch) \in S
      /\ w \in Seq(S) /\ Len(watch) \in Nat \ {0}
      /\ Len(w) = Len(watch) - 1
      /\ \A i \in 1 .. Len(w) : w[i] = watch[i + 1]
  BY HeadTailProperties, LenProperties, EmptySeq
<1> HIDE DEF w
<1>2. \A i \in 1 .. Len(w) : i + 1 \in 1 .. Len(watch)
  BY <1>1
<1>3. 1 \in 1 .. Len(watch)
  BY <1>1
<1>4. Copies(Head(watch), w) \subseteq Copies(cache, watch)
  BY <1>1, <1>2, <1>3 DEF Copies
<1>5. ASSUME NEW R, NEW stored, InOrder(R, cache, watch, stored)
      PROVE  InOrder(R, Head(watch), w, stored)
  <2>1. \A i \in 1 .. Len(w) : <<watch[1], w[i]>> \in R
    BY <1>1, <1>2, <1>3, <1>5 DEF InOrder
  <2>2. \A i, k \in 1 .. Len(w) : i <= k => <<w[i], w[k]>> \in R
    BY <1>1, <1>2, <1>5 DEF InOrder
  <2> QED BY <1>1, <1>4, <1>5, <2>1, <2>2 DEF InOrder
<1> QED BY <1>1, <1>4, <1>5 DEF w

(* A cache that has just been filled. *)
LEMMA Listed ==
    ASSUME NEW R, NEW stored, <<stored, stored>> \in R
    PROVE  Copies(stored, <<>>) = {stored} /\ InOrder(R, stored, <<>>, stored)
BY DEF Copies, InOrder

-----------------------------------------------------------------------------
(* What comes last *)

(* The result of the last write is what a write leaves on its way. *)
LEMMA NewestPublished ==
    ASSUME NEW S, NEW cache \in S, NEW watch \in Seq(S), NEW new \in S
    PROVE  Newest(cache, Published(watch, Newest(cache, watch), new)) = new
BY DEF Newest, Published

(* A write to an object sends a version of its type. *)
LEMMA PublishedType ==
    ASSUME NEW S, NEW watch \in Seq(S), NEW old, NEW new \in S
    PROVE  /\ Published(watch, old, new) \in Seq(S)
           /\ new # old => Published(watch, old, new) # <<>>
           /\ Published(watch, old, new) = <<>> => watch = <<>>
BY DEF Published

(* The sequence of length 0. *)
LEMMA EmptyWatch ==
    ASSUME NEW S, NEW watch \in Seq(S)
    PROVE  /\ Len(watch) \in Nat
           /\ watch = <<>> <=> Len(watch) = 0
BY EmptySeq, LenProperties

(* Delivering a version keeps the newest one the newest. *)
LEMMA NewestDelivered ==
    ASSUME NEW S, NEW cache \in S, NEW watch \in Seq(S), watch # <<>>
    PROVE  /\ Head(watch) \in S /\ Tail(watch) \in Seq(S)
           /\ Newest(Head(watch), Tail(watch)) = Newest(cache, watch)
<1>1. /\ Head(watch) = watch[1] /\ Head(watch) \in S
      /\ Tail(watch) \in Seq(S)
      /\ Len(Tail(watch)) = Len(watch) - 1
      /\ \A i \in 1 .. Len(Tail(watch)) : Tail(watch)[i] = watch[i + 1]
  BY HeadTailProperties
<1>2. Len(watch) \in Nat \ {0}
  BY EmptyWatch
<1> DEFINE rest == Tail(watch)
<1>3. rest = <<>> <=> Len(rest) = 0
  <2>1. rest \in Seq(S)
    BY <1>1
  <2> HIDE DEF rest
  <2> QED BY <2>1, EmptyWatch
<1>4. CASE Len(watch) = 1
  <2>1. Tail(watch) = <<>>
    BY <1>1, <1>3, <1>4
  <2> QED BY <1>1, <1>4, <2>1 DEF Newest
<1>5. CASE Len(watch) # 1
  <2>1. Tail(watch) # <<>> /\ Len(Tail(watch)) \in 1 .. Len(Tail(watch))
    BY <1>1, <1>2, <1>3, <1>5
  <2>2. Tail(watch)[Len(Tail(watch))] = watch[Len(watch)]
    BY <1>1, <1>2, <2>1
  <2> QED BY <1>1, <2>1, <2>2 DEF Newest
<1> QED BY <1>1, <1>4, <1>5
-----------------------------------------------------------------------------
(* What follows what *)

(* Each version that arrives stands to the one before it in the relation R. *)
Linked(R, cache, watch) ==
    /\ watch # <<>> => <<cache, watch[1]>> \in R
    /\ \A i \in 1 .. Len(watch) : i + 1 \in 1 .. Len(watch) => <<watch[i], watch[i + 1]>> \in R

(* A write adds a link from the newest version to the one written.            *)
LEMMA LinkedPublished ==
    ASSUME NEW S, NEW R, NEW cache \in S, NEW watch \in Seq(S), NEW new \in S,
           Linked(R, cache, watch), <<Newest(cache, watch), new>> \in R
    PROVE  Linked(R, cache, Published(watch, Newest(cache, watch), new))
<1> DEFINE old == Newest(cache, watch)
<1>1. CASE new = old
  BY <1>1 DEF Published
<1>2. CASE new # old
  <2> DEFINE w == Append(watch, new)
  <2>1. /\ Published(watch, old, new) = w
        /\ Len(watch) \in Nat /\ Len(w) = Len(watch) + 1
        /\ \A i \in 1 .. Len(watch) : w[i] = watch[i]
        /\ w[Len(watch) + 1] = new
        /\ watch = <<>> <=> Len(watch) = 0
    BY <1>2, AppendProperties, EmptyWatch DEF Published
  <2> HIDE DEF w
  <2>2. CASE watch = <<>>
    <3>1. Len(watch) = 0 /\ old = cache
      BY <2>1, <2>2 DEF Newest
    <3>2. Len(w) = 1 /\ w[1] = new
      BY <2>1, <3>1
    <3> QED BY <2>1, <3>1, <3>2 DEF Linked
  <2>3. CASE watch # <<>>
    <3>1. /\ old = watch[Len(watch)] /\ Len(watch) \in 1 .. Len(watch) /\ 1 \in 1 .. Len(watch)
      BY <2>1, <2>3 DEF Newest
    <3>2. <<cache, w[1]>> \in R
      BY <2>1, <2>3, <3>1 DEF Linked
    <3>3. ASSUME NEW i \in 1 .. Len(w), i + 1 \in 1 .. Len(w)
          PROVE  <<w[i], w[i + 1]>> \in R
      <4>1. i \in 1 .. Len(watch)
        BY <2>1, <3>3
      <4>2. CASE i = Len(watch)
        BY <2>1, <3>1, <4>1, <4>2
      <4>3. CASE i # Len(watch)
        <5>1. i + 1 \in 1 .. Len(watch)
          BY <2>1, <4>1, <4>3
        <5> QED BY <2>1, <4>1, <5>1 DEF Linked
      <4> QED BY <4>2, <4>3
    <3> QED BY <2>1, <3>2, <3>3 DEF Linked
  <2> QED BY <2>2, <2>3
<1> QED BY <1>1, <1>2

(* A delivery takes the first link away.                                      *)
LEMMA LinkedDelivered ==
    ASSUME NEW S, NEW R, NEW cache \in S, NEW watch \in Seq(S), watch # <<>>,
           Linked(R, cache, watch)
    PROVE  <<cache, Head(watch)>> \in R /\ Linked(R, Head(watch), Tail(watch))
<1> DEFINE w == Tail(watch)
<1>1. /\ Head(watch) = watch[1] /\ w \in Seq(S) /\ Len(watch) \in Nat \ {0}
      /\ Len(w) = Len(watch) - 1
      /\ \A i \in 1 .. Len(w) : w[i] = watch[i + 1]
  BY HeadTailProperties, LenProperties, EmptySeq
<1> HIDE DEF w
<1>2. w = <<>> <=> Len(w) = 0
  BY <1>1, EmptyWatch
<1>3. w # <<>> => <<watch[1], w[1]>> \in R
  <2> SUFFICES ASSUME w # <<>> PROVE <<watch[1], w[1]>> \in R
    OBVIOUS
  <2>1. 1 \in 1 .. Len(w) /\ 1 \in 1 .. Len(watch) /\ 1 + 1 \in 1 .. Len(watch)
    BY <1>1, <1>2
  <2> QED BY <1>1, <2>1 DEF Linked
<1>4. ASSUME NEW i \in 1 .. Len(w), i + 1 \in 1 .. Len(w)
      PROVE  <<w[i], w[i + 1]>> \in R
  <2>1. i + 1 \in 1 .. Len(watch) /\ (i + 1) + 1 \in 1 .. Len(watch)
    BY <1>1, <1>4
  <2>2. w[i] = watch[i + 1] /\ w[i + 1] = watch[(i + 1) + 1]
    BY <1>1, <1>4
  <2> QED BY <2>1, <2>2 DEF Linked
<1> QED BY <1>1, <1>3, <1>4 DEF Linked, w
=============================================================================
