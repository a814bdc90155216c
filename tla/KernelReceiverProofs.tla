----------------------- MODULE KernelReceiverProofs -----------------------
(***************************************************************************)
(* The steps of the receivers that read the kernel's sockets, for every    *)
(* size of a socket and of a batch, every range of the kernel's drop       *)
(* counter and every traffic: the turns the two lines take, what goes      *)
(* through a socket and what is dropped before it, and the buffers of the  *)
(* batch receiver.  The theorems that rest on these lemmas are in          *)
(* PacketSourcesProofs.                                                    *)
(***************************************************************************)
EXTENDS BatchReceiver, Functions, SequenceTheorems, WellFoundedInduction, TLAPS

\* The SMT solver may take up to two minutes on a step.
USE SMTT(120)

\* Sequences: what is kept of one, and its image under a function.

\* Induction over the natural numbers, with a set for what is shown.
LEMMA NatSet ==
  ASSUME NEW S, 0 \in S, \A n \in Nat : n \in S => n + 1 \in S
  PROVE  \A n \in Nat : n \in S
<1> DEFINE Less == {ss \in Nat \X Nat : ss[1] < ss[2]}
           T    == {n \in Nat : n \notin S}
<1>1. IsWellFoundedOn(Less, Nat)
  BY NatLessThanWellFounded DEF OpToRel
<1>2. ASSUME NEW m \in Nat, NEW n \in Nat, <<m, n>> \notin Less
      PROVE  n <= m
  BY <1>2 DEF Less
<1>3. T \subseteq Nat
  OBVIOUS
<1> SUFFICES ASSUME T # {} PROVE FALSE
  OBVIOUS
<1> HIDE DEF Less
<1>4. PICK n \in T : \A m \in T : <<m, n>> \notin Less
  <2> HIDE DEF T
  <2> QED
    BY <1>1, <1>3, WFMin, Zenon
<1>5. n # 0 /\ n - 1 \in Nat
  OBVIOUS
<1>6. PICK m \in Nat : m = n - 1 /\ ~(n <= m) /\ n = m + 1
  BY <1>5
<1>7. m \notin T
  BY <1>2, <1>4, <1>6, Zenon
<1>8. n \in S
  BY <1>6, <1>7
<1> QED
  BY <1>8

\* Induction over the sequences, appending.
LEMMA SeqSet ==
  ASSUME NEW D, NEW P, << >> \in P,
         \A s \in Seq(D), x \in D : s \in P => Append(s, x) \in P
  PROVE  \A s \in Seq(D) : s \in P
<1> DEFINE S == {n \in Nat : \A s \in Seq(D) : Len(s) = n => s \in P}
<1>1. 0 \in S
  <2>1. \A s \in Seq(D) : Len(s) = 0 => s = << >>
    OBVIOUS
  <2> QED
    BY <2>1
<1>2. ASSUME NEW n \in Nat, n \in S
      PROVE  n + 1 \in S
  <2> SUFFICES ASSUME NEW s \in Seq(D), Len(s) = n + 1
               PROVE  s \in P
    OBVIOUS
  <2>1. PICK t \in Seq(D), x \in D : s = Append(t, x) /\ Len(t) = n
    <3>1. s # << >>
      OBVIOUS
    <3>2. PICK t, x : t = SubSeq(s, 1, n) /\ x = s[n + 1]
      BY Zenon
    <3>3. t \in Seq(D) /\ x \in D /\ Len(t) = n /\ \A i \in 1 .. n : t[i] = s[i]
      BY <3>2
    <3>4. Append(t, x) \in Seq(D) /\ Len(Append(t, x)) = n + 1
          /\ \A i \in 1 .. n + 1 : Append(t, x)[i] = s[i]
      BY <3>2, <3>3
    <3>5. Append(t, x) = s
      BY <3>4, SeqEqual
    <3> QED
      BY <3>3, <3>5
  <2> QED
    BY <1>2, <2>1
<1> HIDE DEF S
<1>3. \A n \in Nat : n \in S
  BY <1>1, <1>2, NatSet
<1> QED
  BY <1>3 DEF S

\* g is what a loop over s has kept after each of its turns.
Keeps(g, s, T) ==
  g = [i \in 0 .. Len(s) |-> IF i = 0 THEN << >>
                             ELSE IF s[i] \in T THEN Append(g[i - 1], s[i]) ELSE g[i - 1]]

LEMMA KeptExists ==
  ASSUME NEW D, NEW T, NEW s \in Seq(D)
  PROVE  \E g : Keeps(g, s, T)
<1> DEFINE P == {r \in Seq(D) : \E g : Keeps(g, r, T)}
<1>1. << >> \in P
  <2>1. Keeps([i \in 0 .. 0 |-> << >>], << >>, T)
    BY DEF Keeps
  <2> QED
    BY <2>1
<1>2. ASSUME NEW r \in Seq(D), NEW x \in D, r \in P
      PROVE  Append(r, x) \in P
  <2>1. PICK g : Keeps(g, r, T)
    BY <1>2
  <2>2. PICK n \in Nat : n = Len(r)
    OBVIOUS
  <2>3. PICK t \in Seq(D) : t = Append(r, x) /\ Len(t) = n + 1 /\ t[n + 1] = x
                            /\ \A i \in 1 .. n : t[i] = r[i]
    <3>1. PICK t : t = Append(r, x)
      BY Zenon
    <3>2. t \in Seq(D) /\ Len(t) = n + 1 /\ t[n + 1] = x /\ \A i \in 1 .. n : t[i] = r[i]
      BY <2>2, <3>1, AppendProperties
    <3> QED
      BY <3>1, <3>2, Zenon
  <2>4. PICK z : z = IF x \in T THEN Append(g[n], x) ELSE g[n]
    BY Zenon
  <2> DEFINE h == [i \in 0 .. n + 1 |-> IF i = n + 1 THEN z ELSE g[i]]
  <2>5. ASSUME NEW i \in 0 .. n + 1
        PROVE  h[i] = IF i = 0 THEN << >>
                      ELSE IF t[i] \in T THEN Append(h[i - 1], t[i]) ELSE h[i - 1]
    <3>1. CASE i = n + 1
      <4>1. h[n] = g[n] /\ i - 1 = n /\ i # 0 /\ h[i] = z
        BY <3>1
      <4> QED
        BY <2>3, <2>4, <3>1, <4>1
    <3>2. CASE i # n + 1
      <4>1. i \in 0 .. n /\ h[i] = g[i] /\ (i # 0 => h[i - 1] = g[i - 1] /\ t[i] = r[i])
        BY <2>3, <3>2
      <4>2. g[i] = IF i = 0 THEN << >>
                   ELSE IF r[i] \in T THEN Append(g[i - 1], r[i]) ELSE g[i - 1]
        BY <2>1, <2>2, <4>1, Zenon DEF Keeps
      <4> HIDE DEF h
      <4> QED
        BY <4>1, <4>2
    <3> QED
      BY <3>1, <3>2
  <2>6. h = [i \in 0 .. n + 1 |-> h[i]]
    OBVIOUS
  <2> HIDE DEF h
  <2>7. Keeps(h, t, T)
    BY <2>3, <2>5, <2>6, Zenon DEF Keeps
  <2> QED
    BY <2>3, <2>7
<1> HIDE DEF P
<1>3. s \in P
  BY <1>1, <1>2, SeqSet
<1> QED
  BY <1>3 DEF P

\* Whatever the loop can be said to keep is what Kept says.
LEMMA KeptIs ==
  ASSUME NEW D, NEW T, NEW s \in Seq(D), NEW g, Keeps(g, s, T)
  PROVE  Kept(s, T) = g[Len(s)]
<1>1. PICK n \in Nat : n = Len(s)
  OBVIOUS
<1>2. PICK k : Keeps(k, s, T) /\ Kept(s, T) = k[Len(s)]
  <2> DEFINE k == CHOOSE k : Keeps(k, s, T)
  <2>1. Keeps(k, s, T)
    BY KeptExists
  <2>2. Kept(s, T) = k[Len(s)]
    BY DEF Kept, Keeps
  <2> QED
    BY <2>1, <2>2, Zenon
<1> DEFINE S == {i \in Nat : i <= n => k[i] = g[i]}
<1>3. 0 \in S
  BY <1>1, <1>2 DEF Keeps
<1>4. ASSUME NEW i \in Nat, i \in S
      PROVE  i + 1 \in S
  <2> SUFFICES ASSUME i + 1 <= n PROVE k[i + 1] = g[i + 1]
    OBVIOUS
  <2>1. k[i] = g[i] /\ i + 1 \in 0 .. n /\ i + 1 # 0 /\ (i + 1) - 1 = i
    BY <1>4
  <2>2. /\ k[i + 1] = IF s[i + 1] \in T THEN Append(k[i], s[i + 1]) ELSE k[i]
        /\ g[i + 1] = IF s[i + 1] \in T THEN Append(g[i], s[i + 1]) ELSE g[i]
    BY <1>1, <1>2, <2>1, ZenonT(60) DEF Keeps
  <2> QED
    BY <2>1, <2>2
<1> HIDE DEF S
<1>5. n \in S
  BY <1>3, <1>4, NatSet
<1> QED
  BY <1>1, <1>2, <1>5 DEF S

LEMMA KeptEmpty ==
  ASSUME NEW T
  PROVE  Kept(<< >>, T) = << >>
<1>1. Keeps([i \in 0 .. 0 |-> << >>], << >>, T)
  BY DEF Keeps
<1>2. Kept(<< >>, T) = [i \in 0 .. 0 |-> << >>][Len(<< >>)]
  <2>1. << >> \in Seq({})
    OBVIOUS
  <2> QED
    BY <1>1, <2>1, KeptIs
<1> QED
  BY <1>2

LEMMA KeptAppend ==
  ASSUME NEW D, NEW T, NEW s \in Seq(D), NEW x \in D
  PROVE  Kept(Append(s, x), T) = IF x \in T THEN Append(Kept(s, T), x) ELSE Kept(s, T)
<1>1. PICK n \in Nat : n = Len(s)
  OBVIOUS
<1>2. PICK t \in Seq(D) : t = Append(s, x) /\ Len(t) = n + 1 /\ t[n + 1] = x
                          /\ \A i \in 1 .. n : t[i] = s[i]
  <2>1. PICK t : t = Append(s, x)
    BY Zenon
  <2>2. t \in Seq(D) /\ Len(t) = n + 1 /\ t[n + 1] = x /\ \A i \in 1 .. n : t[i] = s[i]
    BY <1>1, <2>1, AppendProperties
  <2> QED
    BY <2>1, <2>2
<1>3. PICK g : Keeps(g, t, T)
  BY KeptExists, Zenon
<1> DEFINE h == [i \in 0 .. n |-> g[i]]
<1>4. ASSUME NEW i \in 0 .. n
      PROVE  h[i] = IF i = 0 THEN << >>
                    ELSE IF s[i] \in T THEN Append(h[i - 1], s[i]) ELSE h[i - 1]
  <2>1. h[i] = g[i] /\ (i # 0 => h[i - 1] = g[i - 1] /\ t[i] = s[i])
    BY <1>2
  <2>2. g[i] = IF i = 0 THEN << >>
               ELSE IF t[i] \in T THEN Append(g[i - 1], t[i]) ELSE g[i - 1]
    <3>1. i \in 0 .. Len(t)
      BY <1>2
    <3> HIDE DEF h
    <3> QED
      BY <1>3, <3>1, Zenon DEF Keeps
  <2> HIDE DEF h
  <2> QED
    BY <2>1, <2>2
<1>5. h = [i \in 0 .. n |-> h[i]] /\ h[n] = g[n]
  OBVIOUS
<1> HIDE DEF h
<1>6. Keeps(h, s, T)
  BY <1>1, <1>4, <1>5 DEF Keeps
<1>7. Kept(s, T) = g[n] /\ Kept(t, T) = g[n + 1]
  BY <1>1, <1>2, <1>3, <1>5, <1>6, KeptIs
<1>8. g[n + 1] = IF x \in T THEN Append(g[n], x) ELSE g[n]
  <2>1. n + 1 \in 0 .. Len(t) /\ n + 1 # 0 /\ (n + 1) - 1 = n
    BY <1>2
  <2> QED
    BY <1>2, <1>3, <2>1, ZenonT(60) DEF Keeps
<1> QED
  BY <1>2, <1>7, <1>8

LEMMA KeptType ==
  ASSUME NEW D, NEW T, NEW s \in Seq(D)
  PROVE  Kept(s, T) \in Seq(D)
<1> DEFINE P == {r \in Seq(D) : Kept(r, T) \in Seq(D)}
<1>1. << >> \in P
  <2>1. PICK e : e = << >> /\ e \in Seq(D) /\ Kept(e, T) = e
    BY KeptEmpty, Zenon, EmptySeq
  <2> QED
    BY <2>1, Zenon
<1>2. ASSUME NEW r \in Seq(D), NEW x \in D, r \in P
      PROVE  Append(r, x) \in P
  <2>1. PICK u : u = Kept(r, T) /\ u \in Seq(D)
    BY <1>2
  <2>2. PICK q : q = Append(r, x) /\ q \in Seq(D)
    BY AppendProperties, Zenon
  <2>3. Kept(q, T) = IF x \in T THEN Append(u, x) ELSE u
    BY <2>1, <2>2, KeptAppend
  <2>4. Append(u, x) \in Seq(D)
    BY <2>1, AppendProperties
  <2> QED
    BY <2>2, <2>3, <2>1, <2>4, Zenon
<1> HIDE DEF P
<1>3. s \in P
  BY <1>1, <1>2, SeqSet
<1> QED
  BY <1>3 DEF P

\* Three sequences put together, for citing where nothing else is known.
LEMMA NumbersAssociate == \A a, b, c \in Seq(Nat) : (a \o b) \o c = a \o (b \o c)
BY ConcatAssociative

LEMMA ConcatAppend ==
  ASSUME NEW D, NEW a \in Seq(D), NEW b \in Seq(D), NEW x \in D
  PROVE  a \o Append(b, x) = Append(a \o b, x)
<1>1. PICK c \in Seq(D) : c = <<x>>
  <2>1. <<x>> \in Seq(D)
    OBVIOUS
  <2> QED
    BY <2>1, Zenon
<1>2. Append(b, x) = b \o c
  BY <1>1, AppendIsConcat
<1>3. PICK ab \in Seq(D) : ab = a \o b
  BY ConcatProperties, Zenon
<1>4. Append(ab, x) = ab \o c
  BY <1>1, AppendIsConcat
<1>5. a \o (b \o c) = (a \o b) \o c
  BY ConcatAssociative
<1> QED
  BY <1>2, <1>3, <1>4, <1>5

\* What a loop keeps in two parts it keeps in one.
LEMMA KeptConcat ==
  ASSUME NEW D, NEW T, NEW s \in Seq(D), NEW t \in Seq(D)
  PROVE  Kept(s \o t, T) = Kept(s, T) \o Kept(t, T)
<1> DEFINE P == {r \in Seq(D) : Kept(s \o r, T) = Kept(s, T) \o Kept(r, T)}
<1>1. << >> \in P
  <2>1. PICK e : e = << >> /\ e \in Seq(D) /\ Kept(e, T) = e
    BY KeptEmpty, Zenon, EmptySeq
  <2>2. PICK u \in Seq(D) : u = Kept(s, T)
    BY KeptType
  <2>3. s \o e = s /\ u \o e = u
    BY <2>1, ConcatEmptySeq
  <2> QED
    BY <2>1, <2>2, <2>3
<1>2. ASSUME NEW r \in Seq(D), NEW x \in D, r \in P
      PROVE  Append(r, x) \in P
  <2>1. PICK u \in Seq(D), v \in Seq(D), w \in Seq(D) :
          u = Kept(s, T) /\ v = Kept(r, T) /\ w = s \o r
    BY KeptType, ConcatProperties, Zenon
  <2>2. Kept(w, T) = u \o v
    BY <1>2, <2>1
  <2>3. s \o Append(r, x) = Append(w, x) /\ u \o Append(v, x) = Append(u \o v, x)
    BY <2>1, ConcatAppend
  <2>4. PICK uv : uv = u \o v
    BY Zenon
  <2>5. Kept(Append(w, x), T) = IF x \in T THEN Append(uv, x) ELSE uv
    <3>1. Kept(w, T) = uv /\ w \in Seq(D)
      BY <2>2, <2>4, Zenon
    <3> QED
      BY <3>1, KeptAppend
  <2>6. Kept(Append(r, x), T) = IF x \in T THEN Append(v, x) ELSE v
    BY <2>1, KeptAppend
  <2>7. Kept(s \o Append(r, x), T) = u \o Kept(Append(r, x), T)
    BY <2>3, <2>4, <2>5, <2>6, Zenon
  <2>8. Append(r, x) \in Seq(D)
    BY AppendProperties
  <2> QED
    BY <2>1, <2>7, <2>8
<1> HIDE DEF P
<1>3. t \in P
  BY <1>1, <1>2, SeqSet
<1> QED
  BY <1>3 DEF P

\* It matters only which of the elements are in the set.
LEMMA KeptSame ==
  ASSUME NEW D, NEW T, NEW U, NEW s \in Seq(D),
         \A i \in 1 .. Len(s) : s[i] \in T <=> s[i] \in U
  PROVE  Kept(s, T) = Kept(s, U)
<1> DEFINE P == {r \in Seq(D) : (\A i \in 1 .. Len(r) : r[i] \in T <=> r[i] \in U)
                                  => Kept(r, T) = Kept(r, U)}
<1>1. << >> \in P
  BY KeptEmpty
<1>2. ASSUME NEW r \in Seq(D), NEW x \in D, r \in P
      PROVE  Append(r, x) \in P
  <2>1. PICK q \in Seq(D), n \in Nat :
          q = Append(r, x) /\ n = Len(r) /\ Len(q) = n + 1 /\ q[n + 1] = x
          /\ \A i \in 1 .. n : q[i] = r[i]
    <3>1. PICK q, n : q = Append(r, x) /\ n = Len(r)
      BY Zenon
    <3>2. /\ n \in Nat /\ q \in Seq(D) /\ Len(q) = n + 1 /\ q[n + 1] = x
          /\ \A i \in 1 .. n : q[i] = r[i]
      BY <3>1, AppendProperties
    <3> QED
      BY <3>1, <3>2, Zenon
  <2> SUFFICES ASSUME \A i \in 1 .. n + 1 : q[i] \in T <=> q[i] \in U
               PROVE  Kept(q, T) = Kept(q, U)
    BY <2>1, Zenon
  <2>2. \A i \in 1 .. n : r[i] \in T <=> r[i] \in U
    BY <2>1
  <2>3. Kept(r, T) = Kept(r, U)
    BY <1>2, <2>1, <2>2
  <2>4. x \in T <=> x \in U
    BY <2>1
  <2> QED
    BY <2>1, <2>3, <2>4, KeptAppend
<1> HIDE DEF P
<1>3. s \in P
  BY <1>1, <1>2, SeqSet
<1> QED
  BY <1>3 DEF P

\* The places of a sequence that hold an element of T.
Places(s, T) == Kept([i \in 1 .. Len(s) |-> i], {i \in 1 .. Len(s) : s[i] \in T})

\* Keeping the places of the elements of a set is keeping the elements.
LEMMA KeptPlaces ==
  ASSUME NEW D, NEW T, NEW s \in Seq(D)
  PROVE  /\ Places(s, T) \in Seq(1 .. Len(s)) /\ Len(Places(s, T)) = Len(Kept(s, T))
         /\ \A j \in 1 .. Len(Places(s, T)) : Kept(s, T)[j] = s[Places(s, T)[j]]
<1> DEFINE Good(r, p) == /\ p \in Seq(1 .. Len(r)) /\ Len(p) = Len(Kept(r, T))
                         /\ \A j \in 1 .. Len(p) : Kept(r, T)[j] = r[p[j]]
           P == {r \in Seq(D) : Good(r, Places(r, T))}
<1>1. << >> \in P
  <2>1. Places(<< >>, T) = << >>
    <3>1. [i \in 1 .. Len(<< >>) |-> i] = << >>
      OBVIOUS
    <3> QED
      BY <3>1, KeptEmpty DEF Places
  <2>2. PICK e : e = << >> /\ e \in Seq(D) /\ Kept(e, T) = e
    BY KeptEmpty, Zenon, EmptySeq
  <2>3. Places(e, T) = e /\ Len(e) = 0 /\ e \in Seq(1 .. Len(e))
    BY <2>1, <2>2
  <2>4. e \in Seq(D) /\ Good(e, e) /\ Places(e, T) = e
    <3>1. e \in Seq(D) /\ Kept(e, T) = e
      BY <2>2
    <3> QED
      BY <2>3, <3>1
  <2>5. e \in P
    BY <2>4, Zenon
  <2> QED
    BY <2>2, <2>5, Zenon
<1>2. ASSUME NEW r \in Seq(D), NEW x \in D, r \in P
      PROVE  Append(r, x) \in P
  <2>1. PICK q \in Seq(D), n \in Nat :
          q = Append(r, x) /\ n = Len(r) /\ Len(q) = n + 1 /\ q[n + 1] = x
          /\ \A i \in 1 .. n : q[i] = r[i]
    <3>1. PICK q, n : q = Append(r, x) /\ n = Len(r)
      BY Zenon
    <3>2. /\ n \in Nat /\ q \in Seq(D) /\ Len(q) = n + 1 /\ q[n + 1] = x
          /\ \A i \in 1 .. n : q[i] = r[i]
      BY <3>1, AppendProperties
    <3> QED
      BY <3>1, <3>2, Zenon
  <2>2. PICK id \in Seq(Nat) : id = [i \in 1 .. n |-> i] /\ Len(id) = n
                               /\ \A i \in 1 .. n : id[i] = i
    <3>1. [i \in 1 .. n |-> i] \in Seq(Nat) /\ Len([i \in 1 .. n |-> i]) = n
      BY IsASeq, LenProperties
    <3> QED
      BY <3>1, Zenon
  <2>3. [i \in 1 .. n + 1 |-> i] = Append(id, n + 1)
    BY <2>2
  <2>4. PICK F, G : F = {i \in 1 .. n : r[i] \in T} /\ G = {i \in 1 .. n + 1 : q[i] \in T}
    BY Zenon
  <2>5. \A i \in 1 .. n : id[i] \in F <=> id[i] \in G
    BY <2>1, <2>2, <2>4
  <2>6. Kept(id, F) = Kept(id, G)
    <3>1. id \in Seq(Nat) /\ Len(id) = n
      BY <2>2
    <3> QED
      BY <2>5, <3>1, KeptSame
  <2>7. n + 1 \in G <=> x \in T
    BY <2>1, <2>4
  <2>8. PICK p : p = Places(r, T) /\ Good(r, p)
    BY <1>2, Zenon
  <2>9. Places(r, T) = Kept(id, F) /\ Places(q, T) = Kept(Append(id, n + 1), G)
    BY <2>1, <2>2, <2>3, <2>4, Zenon DEF Places
  <2>10. Places(q, T) = IF x \in T THEN Append(p, n + 1) ELSE p
    <3>1. PICK m \in Nat : m = n + 1
      OBVIOUS
    <3>2. Kept(Append(id, m), G) = IF m \in G THEN Append(Kept(id, G), m) ELSE Kept(id, G)
      BY KeptAppend
    <3> QED
      BY <2>6, <2>7, <2>8, <2>9, <3>1, <3>2
  <2>11. PICK u \in Seq(D) : u = Kept(r, T)
    BY KeptType
  <2>12. p \in Seq(1 .. n) /\ Len(p) = Len(u) /\ \A j \in 1 .. Len(p) : u[j] = r[p[j]]
    BY <2>1, <2>8, <2>11, Zenon
  <2>13. p \in Seq(1 .. n + 1) /\ \A j \in 1 .. Len(p) : u[j] = q[p[j]]
    <3>1. 1 .. n \subseteq 1 .. n + 1
      OBVIOUS
    <3>2. \A j \in 1 .. Len(p) : p[j] \in 1 .. n
      BY <2>12
    <3> QED
      BY <2>1, <2>12, <3>1, <3>2, SeqMonotonic
  <2>14. CASE x \in T
    <3>1. Kept(q, T) = Append(u, x)
      BY <2>1, <2>11, <2>14, KeptAppend
    <3>2. Len(Append(u, x)) = Len(u) + 1 /\ Append(u, x)[Len(u) + 1] = x
          /\ \A i \in 1 .. Len(u) : Append(u, x)[i] = u[i]
      BY AppendProperties
    <3>3. /\ Append(p, n + 1) \in Seq(1 .. n + 1)
          /\ Len(Append(p, n + 1)) = Len(p) + 1 /\ Append(p, n + 1)[Len(p) + 1] = n + 1
          /\ \A i \in 1 .. Len(p) : Append(p, n + 1)[i] = p[i]
      <4>1. n + 1 \in 1 .. n + 1
        OBVIOUS
      <4> QED
        BY <2>13, <4>1, AppendProperties
    <3>4. PICK m \in Nat : m = Len(p) /\ m = Len(u)
      BY <2>12
    <3>5. ASSUME NEW j \in 1 .. m + 1
          PROVE  Append(u, x)[j] = q[Append(p, n + 1)[j]]
      <4>1. CASE j = m + 1
        BY <2>1, <3>2, <3>3, <3>4, <4>1
      <4>2. CASE j # m + 1
        <5>1. j \in 1 .. m
          BY <4>2
        <5> QED
          BY <2>13, <3>2, <3>3, <3>4, <5>1, Zenon
      <4> QED
        BY <4>1, <4>2, Zenon
    <3>6. Good(q, Append(p, n + 1))
      BY <2>1, <3>1, <3>2, <3>3, <3>4, <3>5
    <3>7. Places(q, T) = Append(p, n + 1)
      BY <2>10, <2>14
    <3> QED
      BY <2>1, <3>6, <3>7, Zenon
  <2>15. CASE x \notin T
    <3>1. Kept(q, T) = u /\ Places(q, T) = p
      BY <2>1, <2>10, <2>11, <2>15, KeptAppend
    <3>2. Good(q, p)
      BY <2>1, <2>12, <2>13, <3>1, Zenon
    <3> QED
      BY <2>1, <3>1, <3>2, Zenon
  <2> QED
    BY <2>14, <2>15, Zenon
<1>3. s \in P
  <2> HIDE DEF P
  <2> QED
    BY <1>1, <1>2, SeqSet
<1> QED
  BY <1>3

\* B takes the elements of D to elements of R.
Into(B, D, R) == \A d \in D : B[d] \in R

\* A function, applied to every element of a sequence.
Image(B, s) == [i \in DOMAIN s |-> B[s[i]]]

LEMMA ImageMembers ==
  ASSUME NEW D, NEW B, NEW s \in Seq(D)
  PROVE  Len(Image(B, s)) = Len(s) /\ \A i \in 1 .. Len(s) : Image(B, s)[i] = B[s[i]]
<1>1. PICK n \in Nat : n = Len(s) /\ DOMAIN s = 1 .. n
  OBVIOUS
<1>2. PICK f : f = Image(B, s)
  OBVIOUS
<1>3. f = [i \in 1 .. n |-> B[s[i]]]
  BY <1>1, <1>2 DEF Image
<1>4. Len(f) = n /\ \A i \in 1 .. n : f[i] = B[s[i]]
  BY <1>3
<1> QED
  BY <1>1, <1>2, <1>4

LEMMA ImageType ==
  ASSUME NEW D, NEW R, NEW B, Into(B, D, R), NEW s \in Seq(D)
  PROVE  Image(B, s) \in Seq(R)
<1>1. PICK n \in Nat : n = Len(s) /\ DOMAIN s = 1 .. n /\ \A i \in 1 .. n : s[i] \in D
  OBVIOUS
<1>2. PICK f : f = Image(B, s)
  OBVIOUS
<1>3. f = [i \in 1 .. n |-> B[s[i]]]
  BY <1>1, <1>2 DEF Image
<1>4. f \in [1 .. n -> R]
  BY <1>1, <1>3 DEF Into
<1>5. f \in Seq(R)
  BY <1>4
<1> QED
  BY <1>2, <1>5

LEMMA ImageConcat ==
  ASSUME NEW D, NEW B, NEW s \in Seq(D), NEW t \in Seq(D)
  PROVE  Image(B, s \o t) = Image(B, s) \o Image(B, t)
<1>1. PICK u \in Seq(D) : u = s \o t
  BY ConcatProperties, Zenon
<1>2. PICK n \in Nat, m \in Nat : n = Len(s) /\ m = Len(t)
  OBVIOUS
<1>3. Len(u) = n + m /\ \A i \in 1 .. n + m : u[i] = IF i <= n THEN s[i] ELSE t[i - n]
  BY <1>1, <1>2, ConcatProperties
<1>0. PICK R : Into(B, D, R)
  <2>1. Into(B, D, {B[e] : e \in D})
    BY DEF Into
  <2> QED
    BY <2>1
<1>4. PICK a \in Seq(R), b \in Seq(R), c \in Seq(R) :
        a = Image(B, s) /\ b = Image(B, t) /\ c = Image(B, u)
  <2>1. \A r \in Seq(D) : Image(B, r) \in Seq(R)
    BY <1>0, ImageType
  <2> QED
    BY <2>1
<1>40. \A r \in Seq(D) : Len(Image(B, r)) = Len(r) /\ \A i \in 1 .. Len(r) : Image(B, r)[i] = B[r[i]]
  BY ImageMembers
<1>5. Len(a) = n /\ Len(b) = m /\ Len(c) = n + m
  BY <1>2, <1>3, <1>4, <1>40
<1>6. /\ \A i \in 1 .. n : a[i] = B[s[i]]
      /\ \A i \in 1 .. m : b[i] = B[t[i]]
      /\ \A i \in 1 .. n + m : c[i] = B[u[i]]
  BY <1>2, <1>3, <1>4, <1>40, Zenon
<1>7. PICK d \in Seq(R) : d = a \o b
  BY ConcatProperties, Zenon
<1>8. Len(d) = n + m /\ \A i \in 1 .. n + m : d[i] = IF i <= n THEN a[i] ELSE b[i - n]
  BY <1>5, <1>7, ConcatProperties, Zenon
<1>9. ASSUME NEW i \in 1 .. n + m
      PROVE  c[i] = d[i]
  <2>1. CASE i <= n
    <3>1. i \in 1 .. n
      BY <2>1
    <3>2. u[i] = s[i] /\ d[i] = a[i]
      BY <1>3, <1>8, <2>1, Zenon
    <3>3. c[i] = B[u[i]] /\ a[i] = B[s[i]]
      BY <1>6, <3>1, Zenon
    <3> QED
      BY <3>2, <3>3
  <2>2. CASE ~(i <= n)
    <3>1. i - n \in 1 .. m
      BY <2>2
    <3>2. u[i] = t[i - n] /\ d[i] = b[i - n]
      BY <1>3, <1>8, <2>2, Zenon
    <3>3. c[i] = B[u[i]] /\ b[i - n] = B[t[i - n]]
      BY <1>6, <3>1
    <3> QED
      BY <3>2, <3>3
  <2> QED
    BY <2>1, <2>2
<1>10. c = d
  BY <1>5, <1>8, <1>9, SeqEqual, Zenon
<1> QED
  BY <1>1, <1>4, <1>7, <1>10

LEMMA ImageOne ==
  ASSUME NEW B, NEW d
  PROVE  Image(B, <<d>>) = <<B[d]>> /\ Image(B, << >>) = << >>
BY DEF Image

LEMMA ImageAppend ==
  ASSUME NEW D, NEW B, NEW s \in Seq(D), NEW x \in D
  PROVE  Image(B, Append(s, x)) = Append(Image(B, s), B[x])
<1>1. PICK one \in Seq(D) : one = <<x>>
  <2>1. <<x>> \in Seq(D)
    OBVIOUS
  <2> QED
    BY <2>1, Zenon
<1>2. Append(s, x) = s \o one
  BY <1>1, AppendIsConcat
<1>3. Image(B, s \o one) = Image(B, s) \o Image(B, one)
  BY ImageConcat
<1>0. PICK R : Into(B, D, R)
  <2>1. Into(B, D, {B[e] : e \in D})
    BY DEF Into
  <2> QED
    BY <2>1
<1>4. PICK b \in Seq(R), v \in R : b = Image(B, s) /\ v = B[x]
  <2>1. Image(B, s) \in Seq(R)
    BY <1>0, ImageType
  <2> QED
    BY <1>0, <2>1 DEF Into
<1>5. Append(b, v) = b \o <<v>>
  BY AppendIsConcat
<1>6. Image(B, <<x>>) = <<B[x]>>
  BY ImageOne
<1> QED
  BY <1>1, <1>2, <1>3, <1>4, <1>5, <1>6, Zenon

\* Taking the first of what waits leaves the whole as it was.
LEMMA ImageTaken ==
  ASSUME NEW D, NEW R, NEW B, Into(B, D, R), NEW s \in Seq(D), s # << >>, NEW g \in Seq(R)
  PROVE  /\ Append(g, B[Head(s)]) \in Seq(R)
         /\ Append(g, B[Head(s)]) \o Image(B, Tail(s)) = g \o Image(B, s)
<1>1. PICK x \in D, t \in Seq(D) : x = Head(s) /\ t = Tail(s)
  BY HeadTailProperties, Zenon
<1>2. PICK one \in Seq(D) : one = <<x>>
  <2>1. <<x>> \in Seq(D)
    OBVIOUS
  <2> QED
    BY <2>1, Zenon
<1>3. s = one \o t
  BY <1>1, <1>2, HeadTailProperties
<1>4. PICK k \in R : k = B[x]
  BY DEF Into
<1>5. PICK ko \in Seq(R) : ko = <<k>> /\ Image(B, one) = ko
  <2>1. <<k>> \in Seq(R) /\ Image(B, <<x>>) = <<B[x]>>
    BY ImageOne
  <2> QED
    BY <1>2, <1>4, <2>1, Zenon
<1>6. PICK it \in Seq(R) : it = Image(B, t)
  <2>1. Image(B, t) \in Seq(R)
    BY ImageType
  <2> QED
    BY <2>1
<1>7. Image(B, s) = ko \o it
  <2>1. Image(B, one \o t) = Image(B, one) \o Image(B, t)
    BY ImageConcat
  <2> QED
    BY <1>3, <1>5, <1>6, <2>1, Zenon
<1>8. Append(g, k) = g \o ko
  BY <1>5, AppendIsConcat
<1>9. (g \o ko) \o it = g \o (ko \o it)
  BY ConcatAssociative
<1>10. Append(g, k) \in Seq(R)
  BY AppendProperties
<1> QED
  BY <1>1, <1>4, <1>6, <1>7, <1>8, <1>9, <1>10, Zenon

\* Two functions that are the same on a set.
SameOn(B, C, D) == \A d \in D : B[d] = C[d]

LEMMA ImageSame ==
  ASSUME NEW D, NEW s \in Seq(D), NEW B, NEW C, SameOn(B, C, D)
  PROVE  Image(B, s) = Image(C, s)
BY DEF Image, SameOn

\* The sequence of one element.
Unit(x) == <<x>>

\* Keeping from a sequence of one element.
LEMMA KeptOne ==
  ASSUME NEW D, NEW T, NEW x \in D
  PROVE  Kept(<<x>>, T) = IF x \in T THEN <<x>> ELSE << >>
<1>1. PICK e \in Seq(D) : e = << >>
  BY EmptySeq, Zenon
<1>2. Append(e, x) = <<x>>
  BY <1>1
<1>3. Kept(Append(e, x), T) = IF x \in T THEN Append(Kept(e, T), x) ELSE Kept(e, T)
  BY KeptAppend
<1>4. Kept(e, T) = e
  BY <1>1, KeptEmpty, Zenon
<1> QED
  BY <1>1, <1>2, <1>3, <1>4, Zenon

\* Moving the first of what waits behind what was taken, if it is kept.
LEMMA KeptTaken ==
  ASSUME NEW D, NEW T, NEW x \in D, NEW u \in Seq(D), NEW g \in Seq(D)
  PROVE  g \o Kept(Unit(x) \o u, T) = (IF x \in T THEN Append(g, x) ELSE g) \o Kept(u, T)
<1>1. PICK one \in Seq(D) : one = <<x>>
  <2>1. <<x>> \in Seq(D)
    OBVIOUS
  <2> QED
    BY <2>1, Zenon
<1>2. Kept(one \o u, T) = Kept(one, T) \o Kept(u, T)
  BY KeptConcat
<1>3. PICK k \in Seq(D) : k = Kept(u, T)
  BY KeptType
<1>4. CASE x \in T
  <2>1. Kept(one, T) = one
    BY <1>1, <1>4, KeptOne, Zenon
  <2>2. (g \o one) \o k = g \o (one \o k)
    BY ConcatAssociative
  <2>3. Append(g, x) = g \o one
    BY <1>1, AppendIsConcat
  <2> QED
    BY <1>1, <1>2, <1>3, <1>4, <2>1, <2>2, <2>3, Zenon DEF Unit
<1>5. CASE x \notin T
  <2>1. PICK e : e = << >> /\ Kept(one, T) = e
    BY <1>1, <1>5, KeptOne, Zenon
  <2>2. << >> \o k = k
    BY ConcatEmptySeq
  <2> QED
    BY <1>1, <1>2, <1>3, <1>5, <2>1, <2>2, Zenon DEF Unit
<1> QED
  BY <1>4, <1>5, Zenon

\* A sequence is its first element and the rest.
LEMMA FirstAndRest ==
  ASSUME NEW D, NEW s \in Seq(D), s # << >>, NEW t \in Seq(D)
  PROVE  /\ Head(s) \in D /\ Tail(s) \in Seq(D) /\ Len(s) = Len(Tail(s)) + 1
         /\ s \o t = Unit(Head(s)) \o (Tail(s) \o t)
<1>1. PICK x \in D, r \in Seq(D) : x = Head(s) /\ r = Tail(s)
  BY HeadTailProperties, Zenon
<1>2. PICK one \in Seq(D) : one = <<x>>
  <2>1. <<x>> \in Seq(D)
    OBVIOUS
  <2> QED
    BY <2>1, Zenon
<1>3. s = one \o r
  BY <1>1, <1>2, HeadTailProperties
<1>4. (one \o r) \o t = one \o (r \o t)
  BY ConcatAssociative
<1>5. Len(s) = Len(r) + 1
  BY <1>1, HeadTailProperties
<1> QED
  BY <1>1, <1>2, <1>3, <1>4, <1>5, Zenon DEF Unit

\* The image of the first element and the rest.
LEMMA ImageFirst ==
  ASSUME NEW D, NEW B, NEW x \in D, NEW u \in Seq(D)
  PROVE  Image(B, Unit(x) \o u) = Unit(B[x]) \o Image(B, u)
<1>1. PICK one \in Seq(D) : one = <<x>>
  <2>1. <<x>> \in Seq(D)
    OBVIOUS
  <2> QED
    BY <2>1, Zenon
<1>2. Image(B, one \o u) = Image(B, one) \o Image(B, u)
  BY ImageConcat
<1>3. Image(B, one) = <<B[x]>>
  BY <1>1, ImageOne, Zenon
<1> QED
  BY <1>1, <1>2, <1>3, Zenon DEF Unit

\* A set of natural numbers that is not empty has a least one.
LEMMA LeastNatural ==
  ASSUME NEW I \in SUBSET Nat, I # {}
  PROVE  Min(I) \in I /\ \A m \in I : Min(I) <= m
<1> DEFINE Less == {ss \in Nat \X Nat : ss[1] < ss[2]}
<1>1. IsWellFoundedOn(Less, Nat)
  BY NatLessThanWellFounded DEF OpToRel
<1> HIDE DEF Less
<1>2. PICK n \in I : \A m \in I : <<m, n>> \notin Less
  BY <1>1, WFMin, Zenon
<1>3. ASSUME NEW m \in I
      PROVE  n <= m
  <2>1. m \in Nat /\ n \in Nat /\ <<m, n>> \in Nat \X Nat
    OBVIOUS
  <2>2. m < n => <<m, n>> \in Less
    BY <2>1 DEF Less
  <2> QED
    BY <1>2, <2>1, <2>2
<1> QED
  BY <1>3, Zenon DEF Min

\* The smaller of two natural numbers.
LEMMA MinOfTwo ==
  ASSUME NEW a \in Nat, NEW b \in Nat
  PROVE  Min({a, b}) = IF a <= b THEN a ELSE b
<1>1. Min({a, b}) \in {a, b} /\ \A m \in {a, b} : Min({a, b}) <= m
  BY LeastNatural
<1> QED
  BY <1>1

\* What Append does to the members of a sequence.
LEMMA AppendRange ==
  ASSUME NEW S, NEW s \in Seq(S), NEW x \in S
  PROVE  /\ Append(s, x) \in Seq(S)
         /\ Range(Append(s, x)) = Range(s) \cup {x}
         /\ IsInjective(s) /\ x \notin Range(s) => IsInjective(Append(s, x))
<1>1. /\ Append(s, x) \in Seq(S) /\ Len(Append(s, x)) = Len(s) + 1
      /\ \A i \in 1 .. Len(s) : Append(s, x)[i] = s[i]
      /\ Append(s, x)[Len(s) + 1] = x
      /\ DOMAIN Append(s, x) = 1 .. Len(s) + 1 /\ DOMAIN s = 1 .. Len(s) /\ Len(s) \in Nat
  OBVIOUS
<1> DEFINE t == Append(s, x)
<1> HIDE DEF t
<1>2. Range(t) = Range(s) \cup {x}
  BY <1>1 DEF Range, t
<1>3. ASSUME IsInjective(s), x \notin Range(s)
      PROVE  IsInjective(t)
  BY <1>1, <1>3 DEF IsInjective, Range, t
<1> QED
  BY <1>1, <1>2, <1>3 DEF t

\* What taking the first member of a sequence does.
LEMMA TailRange ==
  ASSUME NEW S, NEW s \in Seq(S), s # << >>
  PROVE  /\ Tail(s) \in Seq(S) /\ Head(s) \in S
         /\ Range(s) = Range(Tail(s)) \cup {Head(s)}
         /\ IsInjective(s) => IsInjective(Tail(s)) /\ Head(s) \notin Range(Tail(s))
<1>1. /\ Tail(s) \in Seq(S) /\ Len(s) \in Nat \ {0} /\ Len(Tail(s)) = Len(s) - 1
      /\ \A i \in 1 .. Len(s) - 1 : Tail(s)[i] = s[i + 1]
      /\ Head(s) = s[1] /\ Head(s) \in S
      /\ DOMAIN Tail(s) = 1 .. Len(s) - 1 /\ DOMAIN s = 1 .. Len(s)
  BY HeadTailProperties
<1> DEFINE t == Tail(s)
<1> HIDE DEF t
<1>2. Range(s) = Range(t) \cup {Head(s)}
  <2>1. ASSUME NEW i \in 1 .. Len(s)
        PROVE  s[i] \in Range(t) \cup {Head(s)}
    <3>1. CASE i = 1
      BY <1>1, <3>1
    <3>2. CASE i # 1
      <4>1. i - 1 \in DOMAIN t /\ t[i - 1] = s[i]
        BY <1>1, <3>2 DEF t
      <4> QED
        BY <4>1 DEF Range
    <3> QED
      BY <3>1, <3>2
  <2>2. ASSUME NEW i \in DOMAIN t
        PROVE  t[i] \in Range(s)
    BY <1>1, <2>2 DEF t, Range
  <2> QED
    BY <1>1, <2>1, <2>2 DEF Range
<1>3. ASSUME IsInjective(s)
      PROVE  IsInjective(t) /\ Head(s) \notin Range(t)
  BY <1>1, <1>3 DEF IsInjective, Range, t
<1> QED
  BY <1>1, <1>2, <1>3 DEF t

\* What splitting a sequence in two does.
LEMMA SplitRange ==
  ASSUME NEW S, NEW s \in Seq(S), NEW n \in 0 .. Len(s)
  PROVE  LET a == SubSeq(s, 1, n)
             b == SubSeq(s, n + 1, Len(s))
         IN  /\ a \in Seq(S) /\ b \in Seq(S) /\ Len(a) = n
             /\ Range(s) = Range(a) \cup Range(b)
             /\ IsInjective(s) =>
                  IsInjective(a) /\ IsInjective(b) /\ Range(a) \cap Range(b) = {}
<1> DEFINE a == SubSeq(s, 1, n)
           b == SubSeq(s, n + 1, Len(s))
<1>1. /\ Len(s) \in Nat /\ DOMAIN s = 1 .. Len(s)
      /\ a \in Seq(S) /\ Len(a) = n /\ DOMAIN a = 1 .. n /\ \A i \in 1 .. n : a[i] = s[i]
  OBVIOUS
<1>2. /\ b \in Seq(S) /\ Len(b) = Len(s) - n /\ DOMAIN b = 1 .. Len(s) - n
      /\ \A i \in 1 .. Len(s) - n : b[i] = s[n + i]
  OBVIOUS
<1> HIDE DEF a, b
<1>3. Range(s) = Range(a) \cup Range(b)
  <2>1. ASSUME NEW i \in 1 .. Len(s)
        PROVE  s[i] \in Range(a) \cup Range(b)
    <3>1. CASE i <= n
      BY <1>1, <3>1 DEF Range
    <3>2. CASE i > n
      <4>1. i - n \in DOMAIN b /\ b[i - n] = s[i]
        BY <1>1, <1>2, <3>2
      <4> QED
        BY <4>1 DEF Range
    <3> QED
      BY <1>1, <3>1, <3>2
  <2>2. \A i \in DOMAIN a : a[i] \in Range(s)
    BY <1>1 DEF Range
  <2>3. ASSUME NEW i \in DOMAIN b
        PROVE  b[i] \in Range(s)
    <3>1. n + i \in DOMAIN s /\ b[i] = s[n + i]
      BY <1>1, <1>2
    <3> QED
      BY <3>1 DEF Range
  <2> QED
    BY <1>1, <2>1, <2>2, <2>3 DEF Range
<1>4. ASSUME IsInjective(s)
      PROVE  IsInjective(a) /\ IsInjective(b) /\ Range(a) \cap Range(b) = {}
  <2>1. IsInjective(a)
    BY <1>1, <1>4 DEF IsInjective
  <2>2. IsInjective(b)
    <3> SUFFICES ASSUME NEW i \in DOMAIN b, NEW j \in DOMAIN b, b[i] = b[j]
                 PROVE  i = j
      BY DEF IsInjective
    <3>1. /\ i \in Int /\ j \in Int /\ n + i \in DOMAIN s /\ n + j \in DOMAIN s
          /\ s[n + i] = s[n + j]
      BY <1>1, <1>2
    <3>2. n + i = n + j
      BY <1>4, <3>1 DEF IsInjective
    <3> QED
      BY <3>1, <3>2
  <2>3. ASSUME NEW i \in DOMAIN a, NEW j \in DOMAIN b, a[i] = b[j]
        PROVE  FALSE
    <3>1. /\ i \in 1 .. n /\ j \in Int /\ j > 0
          /\ i \in DOMAIN s /\ n + j \in DOMAIN s /\ s[i] = s[n + j]
      BY <1>1, <1>2, <2>3
    <3>2. i = n + j
      BY <1>4, <3>1 DEF IsInjective
    <3> QED
      BY <3>1, <3>2
  <2>4. Range(a) \cap Range(b) = {}
    BY <2>3 DEF Range
  <2> QED
    BY <2>1, <2>2, <2>4
<1> QED
  BY <1>1, <1>2, <1>3, <1>4, Zenon DEF a, b
-----------------------------------------------------------------------------
\* The turns of the two lines.
Datagrams == [id : Nat, big : BOOLEAN, at : Nat, carried : Nat]

LineType ==
  /\ bypass \in [Lines -> {0, 1}]
  /\ nextAFirst \in BOOLEAN

\* A line that was passed over is asked first next time, and once it has been
\* asked in a call, it has not been passed over.
TurnInv ==
  /\ LineType
  /\ \A l \in Lines : bypass[l] = 1 => Preferred = l /\ call \in {"idle", "first"}

LEMMA OtherLine ==
  ASSUME NEW l \in Lines
  PROVE  Other(l) \in Lines /\ Other(l) # l /\ Other(Other(l)) = l /\ Lines = {l, Other(l)}
BY Zenon DEF Lines, Other

\* What a read of one line leaves: it has not been passed over, and the other
\* has been once more if a packet was found.
LEMMA ReceiveTurn ==
  ASSUME TurnInv, NEW l \in Lines, NEW found \in BOOLEAN, Receive(l, found), bypass[Other(l)] = 0
  PROVE  /\ bypass' \in [Lines -> {0, 1}] /\ bypass'[l] = 0
         /\ bypass'[Other(l)] = IF found THEN 1 ELSE 0
<1>1. Other(l) \in Lines /\ Other(l) # l /\ bypass \in [Lines -> {0, 1}]
  BY OtherLine, Zenon DEF TurnInv, LineType
<1>2. bypass' = [bypass EXCEPT ![l] = 0, ![Other(l)] = IF found THEN @ + 1 ELSE @]
  BY Zenon DEF Receive, Passed
<1>3. 0 + 1 = 1
  OBVIOUS
<1>4. bypass'[l] = 0 /\ bypass'[Other(l)] = IF found THEN 1 ELSE 0
  BY <1>1, <1>2, <1>3, ZenonT(60)
<1>5. bypass' = [m \in Lines |-> bypass'[m]] /\ Lines = {l, Other(l)}
  BY <1>1, <1>2, OtherLine, Zenon
<1>6. bypass' \in [Lines -> {0, 1}]
  BY <1>4, <1>5, Zenon
<1> QED
  BY <1>4, <1>6, Zenon

LEMMA TurnNext ==
  ASSUME TurnInv, Next
  PROVE  TurnInv'
<1> USE DEF kernelVars, readVars, lineVars
<1>1. PICK p \in Lines, o \in Lines :
        p = Preferred /\ o = Other(p) /\ o # p /\ Lines = {p, o} /\ Other(o) = p
  <2>1. Preferred \in Lines
    BY DEF Preferred, Lines
  <2> QED
    BY <2>1, OtherLine
<1>2. nextAFirst' = nextAFirst => Preferred' = p
  BY <1>1 DEF Preferred
<1>3. Turn => nextAFirst' \in BOOLEAN /\ Preferred' = o
  BY <1>1, Zenon DEF TurnInv, LineType, Turn, Preferred, Other
<1>4. bypass[o] = 0 /\ bypass[p] \in {0, 1} /\ nextAFirst \in BOOLEAN
  BY <1>1, Zenon DEF TurnInv, LineType
<1>5. ASSUME UNCHANGED <<nextAFirst, bypass>>,
             call \in {"idle", "first"} => call' \in {"idle", "first"}
      PROVE  TurnInv'
  BY <1>2, <1>1, <1>5, Zenon DEF TurnInv, LineType
<1>6. ASSUME NEW found \in BOOLEAN, Receive(p, found),
             IF found THEN Turn /\ call' = "idle" ELSE UNCHANGED nextAFirst
      PROVE  TurnInv'
  <2>1. bypass' \in [Lines -> {0, 1}] /\ bypass'[p] = 0 /\ bypass'[o] = IF found THEN 1 ELSE 0
    BY <1>1, <1>4, <1>6, ReceiveTurn, Zenon
  <2>2. CASE found
    <3>1. Preferred' = o /\ nextAFirst' \in BOOLEAN /\ call' = "idle"
      BY <1>3, <1>6, <2>2, Zenon
    <3> QED
      BY <1>1, <2>1, <3>1 DEF TurnInv, LineType
  <2>3. CASE ~found
    <3>1. nextAFirst' \in BOOLEAN /\ \A l \in Lines : bypass'[l] = 0
      BY <1>1, <1>4, <1>6, <2>1, <2>3, Zenon
    <3> QED
      BY <2>1, <3>1 DEF TurnInv, LineType
  <2> QED
    BY <2>2, <2>3, Zenon
<1>7. ASSUME NEW found \in BOOLEAN, Receive(o, found), UNCHANGED nextAFirst,
             call \in {"second", "again2"}, found => call' = "idle"
      PROVE  TurnInv'
  <2>1. bypass[p] = 0
    BY <1>1, <1>4, <1>7 DEF TurnInv
  <2>2. bypass' \in [Lines -> {0, 1}] /\ bypass'[o] = 0 /\ bypass'[p] = IF found THEN 1 ELSE 0
    BY <1>1, <1>7, <2>1, ReceiveTurn, Zenon
  <2>3. Preferred' = p /\ nextAFirst' \in BOOLEAN
    BY <1>1, <1>2, <1>4, <1>7, Zenon
  <2> QED
    BY <1>1, <1>7, <2>2, <2>3 DEF TurnInv, LineType
<1>8. CASE \E l \in Lines : Drop(l) \/ \E big \in BOOLEAN : Arrive(l, big)
  BY <1>5, <1>8, Zenon DEF Drop, Arrive
<1>9. CASE Call \/ Poll
  BY <1>5, <1>9 DEF Call, Poll
<1>10. CASE AskFirst
  BY <1>1, <1>6, <1>10, Zenon DEF AskFirst
<1>11. CASE AskSecond
  BY <1>1, <1>7, <1>11, Zenon DEF AskSecond
<1>12. CASE AskFirstAgain
  <2>1. CASE p \in ready
    BY <1>1, <1>6, <1>12, <2>1, Zenon DEF AskFirstAgain
  <2>2. CASE p \notin ready
    BY <1>1, <1>5, <1>12, <2>2 DEF AskFirstAgain
  <2> QED
    BY <2>1, <2>2, Zenon
<1>13. CASE AskSecondAgain
  <2>1. CASE o \in ready
    BY <1>1, <1>7, <1>13, <2>1, Zenon DEF AskSecondAgain
  <2>2. CASE o \notin ready
    BY <1>1, <1>5, <1>13, <2>2 DEF AskSecondAgain
  <2> QED
    BY <2>1, <2>2, Zenon
<1> QED
  BY <1>8, <1>9, <1>10, <1>11, <1>12, <1>13, Zenon DEF Next
-----------------------------------------------------------------------------
\* The drops of the sockets, and what goes through them.

\* The true drop count at datagram i of a line's socket, and at the last one
\* read.
DropsAt(l, i) == IF i = 0 THEN readAt[l] ELSE queue[l][i].at

\* What the receiver knows of it once it has read so far.
ShownAt(l, i) == IF i = 0 \/ ~metered THEN counted[l] ELSE queue[l][i].carried

\* What is known is less than a turn of the counter behind, and exact where
\* the counter is shown.
Known(l, i) ==
  /\ DropsAt(l, i) - ShownAt(l, i) \in 0 .. Wrap - 1
  /\ Shows(DropsAt(l, i)) => ShownAt(l, i) = DropsAt(l, i)

\* Between two datagrams that show the drops, and since the last one, the
\* kernel has dropped less than the range of its counter.
LineDrops(l) ==
  /\ last[l] = counted[l] % Wrap
  /\ \A i \in 1 .. Len(queue[l]) :
       /\ ShownAt(l, i) - ShownAt(l, i - 1) \in 0 .. Wrap - 1
       /\ ShownAt(l, i) = IF metered /\ Shows(DropsAt(l, i)) THEN DropsAt(l, i) ELSE ShownAt(l, i - 1)
  /\ metered => /\ \A i \in 0 .. Len(queue[l]) : Known(l, i)
                /\ carriedAt[l] = ShownAt(l, Len(queue[l]))
                /\ dropped[l] - carriedAt[l] \in 0 .. Wrap - 1
  /\ ~metered => counted[l] = 0

DropsInv == \A l \in Lines : LineDrops(l)

SocketType ==
  /\ arrived \in [Lines -> Nat] /\ dropped \in [Lines -> Nat]
  /\ carriedAt \in [Lines -> Nat] /\ readAt \in [Lines -> Nat]
  /\ counted \in [Lines -> Nat] /\ last \in [Lines -> Nat]
  /\ queue \in [Lines -> Seq(Datagrams)] /\ pending \in [Lines -> Seq(Datagrams)]
  /\ accepted \in [Lines -> Seq(Nat)] /\ got \in [Lines -> Seq(Nat)]

SocketInv == SocketType /\ DropsInv /\ NothingLost

\* A line that nothing happens to.
LEMMA SameDrops ==
  ASSUME NEW m \in Lines, LineDrops(m), metered' = metered,
         last'[m] = last[m], counted'[m] = counted[m], readAt'[m] = readAt[m],
         queue'[m] = queue[m], carriedAt'[m] = carriedAt[m], dropped'[m] = dropped[m]
  PROVE  LineDrops(m)'
<1>1. \A i : DropsAt(m, i)' = DropsAt(m, i) /\ ShownAt(m, i)' = ShownAt(m, i)
  BY ZenonT(60) DEF DropsAt, ShownAt
<1>2. \A i : Known(m, i)' = Known(m, i)
  BY ZenonT(60) DEF Known, DropsAt, ShownAt, Shows
<1> QED
  BY <1>1, <1>2, ZenonT(60) DEF LineDrops, Shows

\* The drops are numbers.
LEMMA DropsTypes ==
  ASSUME SocketType, NEW l \in Lines, NEW i \in 0 .. Len(queue[l])
  PROVE  DropsAt(l, i) \in Nat /\ ShownAt(l, i) \in Nat
<1>1. PICK q \in Seq(Datagrams) : q = queue[l]
  BY Zenon DEF SocketType
<1>2. readAt[l] \in Nat /\ counted[l] \in Nat
  BY Zenon DEF SocketType
<1>3. CASE i = 0
  BY <1>2, <1>3, Zenon DEF DropsAt, ShownAt
<1>4. CASE i # 0
  <2>1. q[i] \in Datagrams
    BY <1>1, <1>4
  <2>2. q[i].at \in Nat /\ q[i].carried \in Nat
    BY <2>1 DEF Datagrams
  <2> QED
    BY <1>1, <1>2, <1>4, <2>2, Zenon DEF DropsAt, ShownAt
<1> QED
  BY <1>3, <1>4, Zenon

\* What the receiver sees of the kernel's counter, modulo its range, tells how
\* much it has grown.
LEMMA DropsSinceExact ==
  ASSUME NEW a \in Nat, NEW b \in Nat, b - a \in 0 .. Wrap - 1
  PROVE  DropsSince(a % Wrap, b % Wrap) = b - a
<1>1. PICK w \in Nat \ {0} : w = Wrap
  BY ReceiverAssumption
<1>2. PICK q \in Int, r \in Int : q = a \div w /\ r = a % w
  OBVIOUS
<1>3. PICK x \in Int, y \in Int : x = b \div w /\ y = b % w
  OBVIOUS
<1>4. PICK p \in Int, z \in Int : p = q * w /\ z = x * w
  OBVIOUS
<1>5. a = p + r /\ 0 <= r /\ r < w /\ b = z + y /\ 0 <= y /\ y < w
  BY <1>2, <1>3, <1>4
<1>6. ~(x < q)
  <2> SUFFICES ASSUME x + 1 <= q PROVE FALSE
    OBVIOUS
  <2>1. x * w + w <= q * w
    OBVIOUS
  <2> QED
    BY <1>1, <1>4, <1>5, <2>1
<1>7. ~(x > q + 1)
  <2> SUFFICES ASSUME q + 2 <= x PROVE FALSE
    OBVIOUS
  <2>1. q * w + w + w <= x * w
    OBVIOUS
  <2> QED
    BY <1>1, <1>4, <1>5, <2>1
<1>8. CASE x = q
  <2>1. z = p
    BY <1>4, <1>8, Zenon
  <2> QED
    BY <1>1, <1>2, <1>3, <1>5, <2>1 DEF DropsSince
<1>9. CASE x = q + 1
  <2>1. z = p + w
    BY <1>4, <1>9
  <2> QED
    BY <1>1, <1>2, <1>3, <1>5, <2>1 DEF DropsSince
<1> QED
  BY <1>6, <1>7, <1>8, <1>9

\* However many datagrams of a socket are read at once, the count is what the
\* last of them that shows the drops says.
LEMMA CountedExact ==
  ASSUME SocketType, DropsInv, NEW l \in Lines, NEW n \in 0 .. Len(queue[l])
  PROVE  Counted(l, SubSeq(queue[l], 1, n)) = [last |-> ShownAt(l, n) % Wrap, count |-> ShownAt(l, n)]
<1>1. PICK q \in Seq(Datagrams) : q = queue[l]
  BY Zenon DEF SocketType
<1>2. PICK b : b = SubSeq(q, 1, n) /\ Len(b) = n /\ \A i \in 1 .. n : b[i] = q[i]
  <2>1. n \in 0 .. Len(q)
    BY <1>1
  <2>2. PICK b : b = SubSeq(q, 1, n)
    BY Zenon
  <2>3. Len(b) = n /\ \A i \in 1 .. n : b[i] = q[i]
    BY <2>1, <2>2
  <2> QED
    BY <2>2, <2>3
<1> DEFINE Next1(c, i) ==
             IF metered /\ Shows(b[i].at)
               THEN [last |-> b[i].at % Wrap, count |-> c.count + DropsSince(c.last, b[i].at % Wrap)]
               ELSE c
           First == [last |-> last[l], count |-> counted[l]]
           Chain(c) == c = [i \in 0 .. Len(b) |-> IF i = 0 THEN First ELSE Next1(c[i - 1], i)]
           At(i) == [last |-> ShownAt(l, i) % Wrap, count |-> ShownAt(l, i)]
           g == [i \in 0 .. n |-> At(i)]
<1>3. First = At(0)
  BY Zenon DEF DropsInv, LineDrops, ShownAt
<1>4. ASSUME NEW i \in 1 .. n
      PROVE  Next1(At(i - 1), i) = At(i)
  <2>1. b[i].at = DropsAt(l, i) /\ i \in 1 .. Len(queue[l])
    BY <1>1, <1>2, <1>4 DEF DropsAt
  <2>2. PICK x \in Nat, y \in Nat : x = ShownAt(l, i - 1) /\ y = ShownAt(l, i)
    <3>1. i \in 0 .. Len(queue[l]) /\ i - 1 \in 0 .. Len(queue[l])
      BY <1>1, <1>4
    <3> QED
      BY <3>1, DropsTypes, Zenon
  <2>3. y - x \in 0 .. Wrap - 1 /\ y = IF metered /\ Shows(DropsAt(l, i)) THEN DropsAt(l, i) ELSE x
    BY <2>1, <2>2, ZenonT(60) DEF DropsInv, LineDrops
  <2>4. DropsSince(x % Wrap, y % Wrap) = y - x
    BY <2>3, DropsSinceExact, Zenon
  <2>5. At(i - 1) = [last |-> x % Wrap, count |-> x] /\ At(i) = [last |-> y % Wrap, count |-> y]
    BY <2>2, Zenon
  <2>6. CASE metered /\ Shows(DropsAt(l, i))
    <3>1. Next1(At(i - 1), i) = [last |-> y % Wrap, count |-> x + (y - x)]
      BY <2>1, <2>2, <2>3, <2>4, <2>5, <2>6, Zenon
    <3>2. x + (y - x) = y
      OBVIOUS
    <3> QED
      BY <2>5, <3>1, <3>2, Zenon
  <2>7. CASE ~(metered /\ Shows(DropsAt(l, i)))
    BY <2>1, <2>3, <2>5, <2>7, Zenon
  <2> QED
    BY <2>6, <2>7, Zenon
<1> HIDE DEF Next1, First, At
<1>5. Chain(g)
  <2>1. \A i \in 1 .. n : g[i - 1] = At(i - 1)
    OBVIOUS
  <2>2. \A i \in 0 .. n : g[i] = IF i = 0 THEN First ELSE Next1(g[i - 1], i)
    BY <1>3, <1>4, <2>1
  <2>3. g = [i \in 0 .. n |-> g[i]]
    OBVIOUS
  <2> HIDE DEF g
  <2> QED
    BY <1>2, <2>2, <2>3, Zenon
<1>6. PICK c : Chain(c) /\ Counted(l, b) = c[n]
  <2> DEFINE c == CHOOSE c : Chain(c)
  <2>1. Chain(c)
    <3> HIDE DEF Chain
    <3> QED
      BY <1>5, Zenon
  <2>2. Counted(l, b) = c[Len(b)]
    BY Zenon DEF Counted, Next1, First
  <2> QED
    BY <1>2, <2>1, <2>2, Zenon
<1> DEFINE S == {i \in Nat : i <= n => c[i] = At(i)}
<1>7. 0 \in S
  BY <1>2, <1>3, <1>6
<1>8. ASSUME NEW i \in Nat, i \in S
      PROVE  i + 1 \in S
  <2> SUFFICES ASSUME i + 1 <= n PROVE c[i + 1] = At(i + 1)
    OBVIOUS
  <2>1. PICK j \in 1 .. n : j = i + 1 /\ j - 1 = i
    OBVIOUS
  <2>2. c[j] = Next1(c[j - 1], j)
    BY <1>2, <1>6, <2>1
  <2>3. c[j - 1] = At(j - 1)
    BY <1>8, <2>1
  <2>4. Next1(At(j - 1), j) = At(j)
    BY <1>4
  <2> QED
    BY <2>1, <2>2, <2>3, <2>4, Zenon
<1> HIDE DEF S
<1>9. n \in S
  BY <1>7, <1>8, NatSet
<1>10. Counted(l, b) = At(n)
  BY <1>6, <1>9 DEF S
<1> QED
  BY <1>1, <1>2, <1>10, Zenon DEF At

\* The numbers of a sequence of datagrams.
LEMMA IdsImage ==
  ASSUME NEW D, \A d \in D : d.id \in Nat
  PROVE  \E B : Into(B, D, Nat) /\ (\A d \in D : B[d] = d.id) /\ \A s \in Seq(D) : Ids(s) = Image(B, s)
<1>1. PICK B : B = [d \in D |-> d.id]
  BY Zenon
<1>2. Into(B, D, Nat) /\ \A d \in D : B[d] = d.id
  BY <1>1, Zenon DEF Into
<1>3. ASSUME NEW s \in Seq(D)
      PROVE  Ids(s) = Image(B, s)
  BY <1>2 DEF Ids, Image
<1> QED
  BY <1>2, <1>3

LEMMA IdsType ==
  ASSUME NEW D, \A d \in D : d.id \in Nat, NEW s \in Seq(D)
  PROVE  Ids(s) \in Seq(Nat) /\ Len(Ids(s)) = Len(s) /\ \A i \in 1 .. Len(s) : Ids(s)[i] = s[i].id
<1>1. PICK B : Into(B, D, Nat) /\ (\A d \in D : B[d] = d.id) /\ \A r \in Seq(D) : Ids(r) = Image(B, r)
  BY IdsImage, Zenon
<1>2. PICK f : f = Ids(s) /\ f = Image(B, s)
  BY <1>1, Zenon
<1>3. f \in Seq(Nat)
  BY <1>1, <1>2, ImageType
<1>4. Len(f) = Len(s) /\ \A i \in 1 .. Len(s) : f[i] = B[s[i]]
  BY <1>2, ImageMembers
<1>5. \A i \in 1 .. Len(s) : s[i] \in D
  OBVIOUS
<1> QED
  BY <1>1, <1>2, <1>3, <1>4, <1>5, Zenon

LEMMA IdsConcat ==
  ASSUME NEW D, \A d \in D : d.id \in Nat, NEW s \in Seq(D), NEW t \in Seq(D)
  PROVE  Ids(s \o t) = Ids(s) \o Ids(t)
<1>1. PICK B : \A r \in Seq(D) : Ids(r) = Image(B, r)
  BY IdsImage, Zenon
<1>2. s \o t \in Seq(D)
  BY ConcatProperties
<1>3. Image(B, s \o t) = Image(B, s) \o Image(B, t)
  BY ImageConcat
<1> QED
  BY <1>1, <1>2, <1>3, Zenon

LEMMA IdsEmpty == Ids(<< >>) = << >>
BY DEF Ids

LEMMA IdsAppend ==
  ASSUME NEW D, \A d \in D : d.id \in Nat, NEW s \in Seq(D), NEW x \in D
  PROVE  Ids(Append(s, x)) = Append(Ids(s), x.id)
<1>1. PICK B : (\A d \in D : B[d] = d.id) /\ \A r \in Seq(D) : Ids(r) = Image(B, r)
  BY IdsImage
<1>2. Append(s, x) \in Seq(D)
  BY AppendProperties
<1>3. Image(B, Append(s, x)) = Append(Image(B, s), B[x])
  BY ImageAppend
<1> QED
  BY <1>1, <1>2, <1>3, Zenon

\* Taking the first of what waits leaves the whole as it was.
LEMMA IdsTaken ==
  ASSUME NEW D, \A d \in D : d.id \in Nat, NEW s \in Seq(D), s # << >>, NEW g \in Seq(Nat)
  PROVE  /\ Append(g, Head(s).id) \in Seq(Nat)
         /\ Append(g, Head(s).id) \o Ids(Tail(s)) = g \o Ids(s)
<1>1. PICK B : Into(B, D, Nat) /\ (\A d \in D : B[d] = d.id) /\ \A r \in Seq(D) : Ids(r) = Image(B, r)
  BY IdsImage, Zenon
<1>2. Head(s) \in D /\ Tail(s) \in Seq(D)
  BY HeadTailProperties
<1>3. /\ Append(g, B[Head(s)]) \in Seq(Nat)
      /\ Append(g, B[Head(s)]) \o Image(B, Tail(s)) = g \o Image(B, s)
  <2>1. Into(B, D, Nat)
    BY <1>1
  <2> QED
    BY <2>1, ImageTaken
<1> QED
  BY <1>1, <1>2, <1>3, Zenon

LEMMA DatagramIds == \A d \in Datagrams : d.id \in Nat /\ d.at \in Nat /\ d.carried \in Nat
BY DEF Datagrams

\* Two parts of a socket's datagrams.
LEMMA SplitSeq ==
  ASSUME NEW D, NEW q \in Seq(D), NEW n \in 0 .. Len(q)
  PROVE  /\ SubSeq(q, 1, n) \in Seq(D) /\ Len(SubSeq(q, 1, n)) = n
         /\ \A i \in 1 .. n : SubSeq(q, 1, n)[i] = q[i]
         /\ SubSeq(q, n + 1, Len(q)) \in Seq(D) /\ Len(SubSeq(q, n + 1, Len(q))) = Len(q) - n
         /\ \A i \in 1 .. Len(q) - n : SubSeq(q, n + 1, Len(q))[i] = q[n + i]
         /\ q = SubSeq(q, 1, n) \o SubSeq(q, n + 1, Len(q))
<1>1. PICK a : a = SubSeq(q, 1, n)
  BY Zenon
<1>2. PICK b : b = SubSeq(q, n + 1, Len(q))
  BY Zenon
<1>3. a \in Seq(D) /\ Len(a) = n /\ \A i \in 1 .. n : a[i] = q[i]
  BY <1>1
<1>4. b \in Seq(D) /\ Len(b) = Len(q) - n /\ \A i \in 1 .. Len(q) - n : b[i] = q[n + i]
  BY <1>2
<1>5. PICK c \in Seq(D) : c = a \o b
  BY <1>3, <1>4, ConcatProperties, Zenon
<1>6. PICK m \in Nat : m = Len(q) /\ n \in Nat /\ n <= m /\ Len(b) = m - n
  <2>1. Len(q) \in Nat /\ n \in Nat /\ n <= Len(q)
    OBVIOUS
  <2> QED
    BY <1>4, <2>1, Zenon
<1>7. Len(c) = m /\ \A i \in 1 .. m : c[i] = IF i <= n THEN a[i] ELSE b[i - n]
  BY <1>3, <1>4, <1>5, <1>6, ConcatProperties
<1>8. ASSUME NEW i \in 1 .. m PROVE c[i] = q[i]
  <2>1. CASE i <= n
    BY <1>3, <1>6, <1>7, <2>1
  <2>2. CASE ~(i <= n)
    <3>1. i - n \in 1 .. m - n /\ n + (i - n) = i
      BY <1>6, <2>2
    <3> QED
      BY <1>4, <1>6, <1>7, <2>2, <3>1, Zenon
  <2> QED
    BY <2>1, <2>2, Zenon
<1>9. c = q
  BY <1>6, <1>7, <1>8, SeqEqual, Zenon
<1> QED
  BY <1>1, <1>2, <1>3, <1>4, <1>5, <1>9, Zenon

\* next() of one line: what is counted, what is lost.
LEMMA ReceiveSocket ==
  ASSUME SocketInv, NEW l \in Lines, Take(l),
         UNCHANGED <<metered, arrived, dropped, carriedAt, accepted>>
  PROVE  SocketInv'
<1> USE DEF SocketInv
<1>1. PICK q \in Seq(Datagrams), p \in Seq(Datagrams), g \in Seq(Nat) :
        q = queue[l] /\ p = pending[l] /\ g = got[l]
  BY DEF SocketType
<1>2. PICK batch : batch = IF p = << >> THEN Batch(l) ELSE << >>
  OBVIOUS
<1>20. PICK n \in 0 .. Len(q) : batch = SubSeq(q, 1, n) /\ Len(batch) = n /\ (p # << >> => n = 0)
  <2>1. PICK k \in Nat \ {0} : k = IF batched THEN BatchSize ELSE 1
    BY ReceiverAssumption
  <2>2. PICK m \in Nat : m = Len(q)
    OBVIOUS
  <2>3. PICK j : j = Min({m, k})
    OBVIOUS
  <2>4. j \in 0 .. m
    <3>1. {m, k} \in SUBSET Nat /\ {m, k} # {}
      OBVIOUS
    <3>2. j \in {m, k} /\ \A i \in {m, k} : j <= i
      BY <2>3, <3>1, LeastNatural, Zenon
    <3> QED
      BY <3>2
  <2>5. Batch(l) = SubSeq(q, 1, j)
    BY <1>1, <2>1, <2>2, <2>3, Zenon DEF Batch
  <2>6. SubSeq(q, 1, 0) = << >> /\ Len(<< >>) = 0 /\ 0 \in 0 .. m
    OBVIOUS
  <2>7. Len(SubSeq(q, 1, j)) = j
    BY <2>2, <2>4, SplitSeq
  <2>8. CASE p = << >>
    <3>1. batch = Batch(l)
      BY <1>2, <2>8
    <3>2. batch = SubSeq(q, 1, j) /\ Len(batch) = j /\ j \in 0 .. Len(q)
      BY <2>2, <2>4, <2>5, <2>7, <3>1, Zenon
    <3> QED
      BY <2>8, <3>2, Zenon
  <2>9. CASE p # << >>
    <3>1. batch = << >>
      BY <1>2, <2>9
    <3>2. batch = SubSeq(q, 1, 0) /\ Len(batch) = 0 /\ 0 \in 0 .. Len(q)
      BY <2>2, <2>6, <3>1, Zenon
    <3> QED
      BY <2>9, <3>2, Zenon
  <2> QED
    BY <2>8, <2>9
<1>3. PICK rest : rest = SubSeq(q, n + 1, Len(q))
  BY Zenon
<1>4. /\ batch \in Seq(Datagrams) /\ \A i \in 1 .. n : batch[i] = q[i]
      /\ rest \in Seq(Datagrams) /\ Len(rest) = Len(q) - n
      /\ \A i \in 1 .. Len(q) - n : rest[i] = q[n + i]
      /\ q = batch \o rest
  <2>1. /\ SubSeq(q, 1, n) \in Seq(Datagrams) /\ \A i \in 1 .. n : SubSeq(q, 1, n)[i] = q[i]
        /\ SubSeq(q, n + 1, Len(q)) \in Seq(Datagrams) /\ Len(SubSeq(q, n + 1, Len(q))) = Len(q) - n
        /\ \A i \in 1 .. Len(q) - n : SubSeq(q, n + 1, Len(q))[i] = q[n + i]
        /\ q = SubSeq(q, 1, n) \o SubSeq(q, n + 1, Len(q))
    BY SplitSeq, ZenonT(60)
  <2> QED
    BY <1>2, <1>20, <1>3, <2>1, Zenon
<1>5. PICK r : r = Refilled(l)
  OBVIOUS
<1>6. /\ queue' = [queue EXCEPT ![l] = rest]
      /\ counted' = [counted EXCEPT ![l] = Counted(l, batch).count]
      /\ last' = [last EXCEPT ![l] = Counted(l, batch).last]
      /\ readAt' = IF batch = << >> THEN readAt ELSE [readAt EXCEPT ![l] = batch[Len(batch)].at]
      /\ pending' = [pending EXCEPT ![l] = IF r # << >> THEN Tail(r) ELSE << >>]
      /\ got' = IF r # << >> THEN [got EXCEPT ![l] = Append(g, Head(r).id)] ELSE got
  BY <1>1, <1>2, <1>20, <1>3, <1>5, Zenon DEF Take, Delivers
<1>7. PICK d \in Nat, c \in Nat : d = DropsAt(l, n) /\ c = ShownAt(l, n)
  BY <1>1, DropsTypes, Zenon
<1>8. counted' = [counted EXCEPT ![l] = c] /\ last' = [last EXCEPT ![l] = c % Wrap]
  <2>1. Counted(l, batch) = [last |-> c % Wrap, count |-> c]
    BY <1>1, <1>2, <1>20, <1>7, CountedExact, Zenon
  <2> QED
    BY <1>6, <2>1
<1>9. readAt' = [readAt EXCEPT ![l] = d]
  <2>1. CASE n = 0
    <3>1. batch = << >> /\ d = readAt[l]
      <4>1. batch = << >>
        BY <1>20, <1>4, <2>1
      <4>2. d = readAt[l]
        BY <1>7, <2>1, Zenon DEF DropsAt
      <4> QED
        BY <4>1, <4>2, Zenon
    <3>2. readAt' = readAt
      BY <1>6, <3>1
    <3> QED
      BY <3>1, <3>2 DEF SocketType
  <2>2. CASE n # 0
    <3>1. n \in 1 .. n /\ batch # << >>
      <4>1. n \in 1 .. n
        BY <2>2
      <4>2. Len(<< >>) = 0
        OBVIOUS
      <4>3. batch # << >>
        BY <1>20, <2>2, <4>2, Zenon
      <4> QED
        BY <4>1, <4>3, Zenon
    <3>2. batch[n] = q[n] /\ d = q[n].at
      BY <1>1, <1>4, <1>7, <2>2, <3>1, Zenon DEF DropsAt
    <3> QED
      BY <1>20, <1>6, <3>1, <3>2, Zenon
  <2> QED
    BY <2>1, <2>2
<1>10. c % Wrap \in Nat
  BY ReceiverAssumption
<1>11. DropsInv'
  <2> SUFFICES ASSUME NEW m \in Lines
               PROVE  LineDrops(m)'
    BY Zenon DEF DropsInv
  <2>0. LineDrops(m)
    BY Zenon DEF DropsInv
  <2>1. CASE m # l
    <3>1. /\ counted'[m] = counted[m] /\ last'[m] = last[m] /\ readAt'[m] = readAt[m]
          /\ queue'[m] = queue[m] /\ carriedAt'[m] = carriedAt[m] /\ dropped'[m] = dropped[m]
      BY <1>6, <1>8, <1>9, <2>1, ZenonT(60) DEF SocketType
    <3> QED
      BY <2>0, <3>1, SameDrops, Zenon
  <2>2. CASE m = l
    <3>1. /\ counted'[m] = c /\ last'[m] = c % Wrap /\ readAt'[m] = d /\ queue'[m] = rest
          /\ carriedAt'[m] = carriedAt[m] /\ dropped'[m] = dropped[m]
      BY <1>6, <1>8, <1>9, <2>2, ZenonT(60) DEF SocketType
    <3>2. PICK k \in Nat : k = Len(q) /\ Len(rest) = k - n /\ n \in Nat /\ n <= k
      BY <1>4
    <3>3. ASSUME NEW i \in 0 .. k - n
          PROVE  DropsAt(m, i)' = DropsAt(m, n + i) /\ ShownAt(m, i)' = ShownAt(m, n + i)
      <4>1. CASE i = 0
        <5>1. n + i = n
          BY <3>2, <4>1
        <5> QED
          BY <1>7, <2>2, <3>1, <4>1, <5>1, Zenon DEF DropsAt, ShownAt
      <4>2. CASE i # 0
        <5>0. i \in 1 .. Len(q) - n
          BY <3>2, <4>2
        <5>1. rest[i] = q[n + i] /\ n + i # 0
          <6>1. n + i # 0
            BY <3>2, <5>0
          <6> QED
            BY <1>4, <5>0, <6>1, Zenon
        <5>2. DropsAt(m, i)' = DropsAt(m, n + i)
          BY <1>1, <2>2, <3>1, <4>2, <5>1, Zenon DEF DropsAt
        <5>3. ShownAt(m, i)' = ShownAt(m, n + i)
          BY <1>1, <1>7, <2>2, <3>1, <4>2, <5>1, ZenonT(60) DEF ShownAt
        <5> QED
          BY <5>2, <5>3, Zenon
      <4> QED
        BY <4>1, <4>2, Zenon
    <3>4. ASSUME NEW i \in 1 .. k - n
          PROVE  /\ ShownAt(m, i)' - ShownAt(m, i - 1)' \in 0 .. Wrap - 1
                 /\ ShownAt(m, i)' = IF metered /\ Shows(DropsAt(m, i)') THEN DropsAt(m, i)' ELSE ShownAt(m, i - 1)'
      <4>1. n + i \in 1 .. k /\ n + (i - 1) = (n + i) - 1 /\ i - 1 \in 0 .. k - n /\ i \in 0 .. k - n
        BY <3>2
      <4>2. /\ ShownAt(m, n + i) - ShownAt(m, (n + i) - 1) \in 0 .. Wrap - 1
            /\ ShownAt(m, n + i) = IF metered /\ Shows(DropsAt(m, n + i)) THEN DropsAt(m, n + i)
                                   ELSE ShownAt(m, (n + i) - 1)
        BY <1>1, <2>0, <2>2, <3>2, <4>1, ZenonT(60) DEF LineDrops
      <4>3. /\ ShownAt(m, i)' = ShownAt(m, n + i) /\ ShownAt(m, i - 1)' = ShownAt(m, (n + i) - 1)
            /\ DropsAt(m, i)' = DropsAt(m, n + i)
        BY <3>3, <4>1, Zenon
      <4> QED
        BY <4>2, <4>3, Zenon
    <3>5. ShownAt(m, k - n)' = ShownAt(m, k)
      <4>1. k - n \in 0 .. k - n /\ n + (k - n) = k
        BY <3>2
      <4> QED
        BY <3>3, <4>1, Zenon
    <3>6. ASSUME metered, NEW i \in 0 .. k - n
          PROVE  Known(m, i)'
      <4>1. n + i \in 0 .. k
        BY <3>2
      <4>2. Known(m, n + i)
        BY <1>1, <2>0, <2>2, <3>2, <3>6, <4>1, Zenon DEF LineDrops
      <4> QED
        BY <3>3, <4>2, ZenonT(60) DEF Known, Shows
    <3>7. metered => carriedAt[m] = ShownAt(m, k) /\ dropped[m] - carriedAt[m] \in 0 .. Wrap - 1
      BY <1>1, <2>0, <2>2, <3>2, Zenon DEF LineDrops
    <3>8. ~metered => c = 0
      BY <1>7, <2>0, <2>2, Zenon DEF LineDrops, ShownAt
    <3>9. Len(queue'[m]) = k - n
      BY <3>1, <3>2, Zenon
    <3> QED
      BY <3>1, <3>4, <3>5, <3>6, <3>7, <3>8, <3>9, ZenonT(60) DEF LineDrops, Shows
  <2> QED
    BY <2>1, <2>2, Zenon
<1>12. PICK f \in Seq(Datagrams), h \in Seq(Datagrams) : f = Kept(batch, Fitting) /\ h = Kept(rest, Fitting)
  BY <1>4, KeptType, Zenon
<1>13. r \in Seq(Datagrams) /\ (p # << >> => r = p) /\ (p = << >> => r = f)
  BY <1>1, <1>2, <1>20, <1>5, <1>12, Zenon DEF Refilled
<1>14. PICK x \in Seq(Nat), y \in Seq(Nat) : x = Ids(r) /\ y = Ids(h)
  BY <1>13, DatagramIds, IdsType, Zenon
<1>15. accepted[l] = (g \o x) \o y
  <2>1. accepted[l] = (g \o Ids(p)) \o Ids(Kept(q, Fitting))
    BY <1>1, Zenon DEF NothingLost
  <2>2. CASE p # << >>
    <3>1. n = 0 /\ q = rest
      <4>1. n = 0
        BY <1>2, <1>20, <2>2, Zenon
      <4>2. SubSeq(q, 0 + 1, Len(q)) = q
        BY SubSeqFull
      <4> QED
        BY <1>3, <4>1, <4>2, Zenon
    <3>2. r = p /\ Kept(q, Fitting) = h
      BY <1>12, <1>13, <2>2, <3>1, Zenon
    <3> QED
      BY <1>14, <2>1, <3>2, Zenon
  <2>3. CASE p = << >>
    <3>1. PICK e \in Seq(Nat) : e = Ids(p) /\ g \o e = g
      <4>1. PICK e : e = << >> /\ e \in Seq(Nat) /\ Ids(<< >>) = e
        BY IdsEmpty, EmptySeq, Zenon
      <4>2. g \o e = g
        BY <4>1, ConcatEmptySeq, Zenon
      <4> QED
        BY <2>3, <4>1, <4>2, Zenon
    <3>2. Kept(q, Fitting) = f \o h
      <4>1. Kept(batch \o rest, Fitting) = Kept(batch, Fitting) \o Kept(rest, Fitting)
        BY <1>4, KeptConcat, ZenonT(60)
      <4> QED
        BY <1>4, <1>12, <4>1, Zenon
    <3>3. r = f /\ Ids(f \o h) = x \o y
      BY <1>13, <1>14, <2>3, DatagramIds, IdsConcat, Zenon
    <3>4. accepted[l] = g \o (x \o y)
      BY <2>1, <3>1, <3>2, <3>3, Zenon
    <3>5. g \o (x \o y) = (g \o x) \o y
      BY NumbersAssociate, ZenonT(60)
    <3> QED
      BY <3>4, <3>5, Zenon
  <2> QED
    BY <2>2, <2>3, Zenon
<1>16. PICK g2 \in Seq(Nat), p2 \in Seq(Datagrams) :
         /\ got' = [got EXCEPT ![l] = g2] /\ pending' = [pending EXCEPT ![l] = p2]
         /\ g2 \o Ids(p2) = g \o x
  <2>1. CASE r # << >>
    <3>1. PICK g2, p2 : g2 = Append(g, Head(r).id) /\ p2 = Tail(r)
      BY Zenon
    <3>2. g2 \in Seq(Nat) /\ g2 \o Ids(p2) = g \o x
      <4>1. /\ Append(g, Head(r).id) \in Seq(Nat)
            /\ Append(g, Head(r).id) \o Ids(Tail(r)) = g \o Ids(r)
        BY <1>13, <2>1, DatagramIds, IdsTaken, ZenonT(60)
      <4> QED
        BY <1>14, <3>1, <4>1, Zenon
    <3>3. p2 \in Seq(Datagrams)
      BY <1>13, <2>1, <3>1, HeadTailProperties, Zenon
    <3>4. got' = [got EXCEPT ![l] = g2] /\ pending' = [pending EXCEPT ![l] = p2]
      BY <1>6, <2>1, <3>1, Zenon
    <3> QED
      BY <3>2, <3>3, <3>4, Zenon
  <2>2. CASE r = << >>
    <3>1. got' = [got EXCEPT ![l] = g] /\ pending' = [pending EXCEPT ![l] = r]
      BY <1>1, <1>6, <2>2, Zenon DEF SocketType
    <3> QED
      BY <1>13, <1>14, <3>1, ZenonT(60)
  <2> QED
    BY <2>1, <2>2, Zenon
<1>17. SocketType'
  <2>1. /\ got' \in [Lines -> Seq(Nat)] /\ pending' \in [Lines -> Seq(Datagrams)]
        /\ queue' \in [Lines -> Seq(Datagrams)]
    <3>1. got \in [Lines -> Seq(Nat)] /\ pending \in [Lines -> Seq(Datagrams)] /\ queue \in [Lines -> Seq(Datagrams)]
      BY Zenon DEF SocketType
    <3>2. got' \in [Lines -> Seq(Nat)]
      BY <1>16, <3>1, Zenon
    <3>3. pending' \in [Lines -> Seq(Datagrams)]
      BY <1>16, <3>1, Zenon
    <3>4. queue' \in [Lines -> Seq(Datagrams)]
      <4>1. queue' = [queue EXCEPT ![l] = rest] /\ rest \in Seq(Datagrams)
        BY <1>4, <1>6, Zenon
      <4> QED
        BY <3>1, <4>1, Zenon
    <3> QED
      BY <3>2, <3>3, <3>4, Zenon
  <2>2. counted' \in [Lines -> Nat] /\ last' \in [Lines -> Nat] /\ readAt' \in [Lines -> Nat]
    BY <1>8, <1>9, <1>10, Zenon DEF SocketType
  <2> QED
    BY <2>1, <2>2, ZenonT(60) DEF SocketType
<1>18. NothingLost'
  <2> SUFFICES ASSUME NEW m \in Lines
               PROVE  accepted'[m] = got'[m] \o Ids(pending'[m]) \o Ids(Kept(queue'[m], Fitting))
    BY Zenon DEF NothingLost, Ids
  <2>1. CASE m # l
    <3>1. got'[m] = got[m] /\ pending'[m] = pending[m] /\ queue'[m] = queue[m] /\ accepted'[m] = accepted[m]
      BY <1>6, <1>16, <2>1, Zenon DEF SocketType
    <3>2. accepted[m] = got[m] \o Ids(pending[m]) \o Ids(Kept(queue[m], Fitting))
      BY Zenon DEF NothingLost
    <3> QED
      BY <3>1, <3>2, Zenon
  <2>2. CASE m = l
    <3>1. got'[l] = g2 /\ pending'[l] = p2 /\ queue'[l] = rest /\ accepted'[l] = accepted[l]
      BY <1>6, <1>16, ZenonT(60) DEF SocketType
    <3> QED
      BY <1>12, <1>14, <1>15, <1>16, <2>2, <3>1, ZenonT(60)
  <2> QED
    BY <2>1, <2>2, Zenon
<1> QED
  BY <1>11, <1>17, <1>18, Zenon

\* The kernel queues a datagram.
LEMMA ArriveSocket ==
  ASSUME SocketInv, NEW l \in Lines, NEW big \in BOOLEAN, Arrive(l, big)
  PROVE  SocketInv'
<1> USE DEF SocketInv
<1>1. PICK q \in Seq(Datagrams), k \in Nat, n \in Nat :
        q = queue[l] /\ k = Len(q) /\ n = arrived[l]
  BY DEF SocketType
<1>2. PICK c \in Nat, e \in Nat : c = dropped[l] /\ e = IF Shows(c) THEN c ELSE carriedAt[l]
  BY Zenon DEF SocketType
<1>3. PICK d \in Datagrams : d = [id |-> n, big |-> big, at |-> c, carried |-> e]
  BY Zenon DEF Datagrams
<1>4. PICK q2 : q2 = Append(q, d)
  BY Zenon
<1>5. /\ q2 \in Seq(Datagrams) /\ Len(q2) = k + 1 /\ q2[k + 1] = d
      /\ \A i \in 1 .. k : q2[i] = q[i]
  BY <1>1, <1>4, AppendProperties
<1>6. /\ arrived' = [arrived EXCEPT ![l] = n + 1]
      /\ queue' = [queue EXCEPT ![l] = q2]
      /\ carriedAt' = [carriedAt EXCEPT ![l] = e]
      /\ accepted' = IF big THEN accepted ELSE [accepted EXCEPT ![l] = Append(accepted[l], n)]
      /\ UNCHANGED <<metered, dropped, pending, counted, last, got, readAt>>
  BY <1>1, <1>2, <1>3, <1>4, Zenon DEF Arrive, configVars
<1>7. SocketType'
  <2>1. arrived' \in [Lines -> Nat] /\ carriedAt' \in [Lines -> Nat]
    BY <1>6 DEF SocketType
  <2>2. queue' \in [Lines -> Seq(Datagrams)]
    <3>1. queue \in [Lines -> Seq(Datagrams)]
      BY Zenon DEF SocketType
    <3>2. queue' = [queue EXCEPT ![l] = q2] /\ q2 \in Seq(Datagrams)
      BY <1>5, <1>6, Zenon
    <3> QED
      BY <3>1, <3>2
  <2>3. accepted' \in [Lines -> Seq(Nat)]
    <3>1. accepted \in [Lines -> Seq(Nat)]
      BY Zenon DEF SocketType
    <3>2. PICK a : a = Append(accepted[l], n)
      BY ZenonT(60)
    <3>3. a \in Seq(Nat)
      BY <3>1, <3>2, AppendProperties, ZenonT(60)
    <3>4. accepted' = accepted \/ accepted' = [accepted EXCEPT ![l] = a]
      BY <1>6, <3>2, Zenon
    <3> QED
      BY <3>1, <3>3, <3>4, Zenon
  <2> QED
    BY <1>6, <2>1, <2>2, <2>3, ZenonT(60) DEF SocketType
<1>8. DropsInv'
  <2> SUFFICES ASSUME NEW m \in Lines
               PROVE  LineDrops(m)'
    BY Zenon DEF DropsInv
  <2>1. LineDrops(m)
    BY Zenon DEF DropsInv
  <2>2. CASE m # l
    <3>1. /\ counted'[m] = counted[m] /\ last'[m] = last[m] /\ readAt'[m] = readAt[m]
          /\ queue'[m] = queue[m] /\ carriedAt'[m] = carriedAt[m] /\ dropped'[m] = dropped[m]
      BY <1>6, <2>2, Zenon DEF SocketType
    <3> QED
      BY <1>6, <2>1, <3>1, SameDrops, Zenon
  <2>3. CASE m = l
    <3>1. /\ queue'[m] = q2 /\ carriedAt'[m] = e /\ dropped'[m] = c /\ readAt'[m] = readAt[m]
          /\ counted'[m] = counted[m] /\ last'[m] = last[m] /\ metered' = metered
      BY <1>2, <1>6, <2>3, Zenon DEF SocketType
    <3>2. ASSUME NEW i \in 0 .. k
          PROVE  DropsAt(m, i)' = DropsAt(m, i) /\ ShownAt(m, i)' = ShownAt(m, i)
      <4>1. i # 0 => q2[i] = q[i]
        BY <1>5
      <4> QED
        BY <1>1, <2>3, <3>1, <4>1, Zenon DEF DropsAt, ShownAt
    <3>3. DropsAt(m, k + 1)' = c /\ ShownAt(m, k + 1)' = IF metered THEN e ELSE counted[m]
      <4>1. k + 1 # 0
        OBVIOUS
      <4>2. q2[k + 1].at = c /\ q2[k + 1].carried = e
        BY <1>3, <1>5
      <4> QED
        BY <3>1, <4>1, <4>2, Zenon DEF DropsAt, ShownAt
    <3>4. PICK x \in Nat : /\ x = ShownAt(m, k)
                           /\ metered => x = carriedAt[m] /\ c - x \in 0 .. Wrap - 1
                           /\ ~metered => x = counted[m] /\ counted[m] = 0
      <4>1. k \in 0 .. Len(queue[m])
        BY <1>1, <2>3
      <4>2. ShownAt(m, k) \in Nat
        BY <4>1, DropsTypes, Zenon
      <4> QED
        BY <1>1, <1>2, <2>1, <2>3, <4>2, ZenonT(60) DEF LineDrops, ShownAt
    <3>5. PICK y \in Nat : /\ y = ShownAt(m, k + 1)'
                           /\ y = IF metered /\ Shows(c) THEN c ELSE x
                           /\ metered => y = e
      BY <1>2, <2>3, <3>3, <3>4, ZenonT(60)
    <3>6. Wrap \in Nat \ {0}
      BY ReceiverAssumption, Zenon
    <3>7. y - x \in 0 .. Wrap - 1 /\ (metered => c - y \in 0 .. Wrap - 1)
      BY <3>4, <3>5, <3>6
    <3>8. ASSUME NEW i \in 1 .. k + 1
          PROVE  /\ ShownAt(m, i)' - ShownAt(m, i - 1)' \in 0 .. Wrap - 1
                 /\ ShownAt(m, i)' = IF metered /\ Shows(DropsAt(m, i)') THEN DropsAt(m, i)' ELSE ShownAt(m, i - 1)'
      <4>1. CASE i = k + 1
        <5>1. i - 1 = k /\ k \in 0 .. k
          BY <4>1
        <5>2. DropsAt(m, i)' = c /\ ShownAt(m, i)' = y /\ ShownAt(m, i - 1)' = x
          BY <3>2, <3>3, <3>4, <3>5, <4>1, <5>1, Zenon
        <5> QED
          BY <3>5, <3>7, <5>2, Zenon
      <4>2. CASE i # k + 1
        <5>1. i \in 1 .. k /\ i \in 0 .. k /\ i - 1 \in 0 .. k
          BY <4>2
        <5>2. /\ ShownAt(m, i) - ShownAt(m, i - 1) \in 0 .. Wrap - 1
              /\ ShownAt(m, i) = IF metered /\ Shows(DropsAt(m, i)) THEN DropsAt(m, i) ELSE ShownAt(m, i - 1)
          BY <1>1, <2>1, <2>3, <5>1, ZenonT(60) DEF LineDrops
        <5>3. /\ ShownAt(m, i)' = ShownAt(m, i) /\ ShownAt(m, i - 1)' = ShownAt(m, i - 1)
              /\ DropsAt(m, i)' = DropsAt(m, i)
          BY <3>2, <5>1, Zenon
        <5> QED
          BY <5>2, <5>3, Zenon
      <4> QED
        BY <4>1, <4>2, Zenon
    <3>9. ASSUME metered, NEW i \in 0 .. k + 1
          PROVE  Known(m, i)'
      <4>1. CASE i = k + 1
        <5>1. DropsAt(m, i)' = c /\ ShownAt(m, i)' = y
          BY <3>3, <3>5, <4>1, Zenon
        <5> QED
          BY <3>5, <3>7, <3>9, <5>1, ZenonT(60) DEF Known, Shows
      <4>2. CASE i # k + 1
        <5>1. i \in 0 .. k
          BY <4>2
        <5>2. Known(m, i)
          BY <1>1, <2>1, <2>3, <3>9, <5>1, Zenon DEF LineDrops
        <5> QED
          BY <3>2, <5>1, <5>2, ZenonT(60) DEF Known, Shows
      <4> QED
        BY <4>1, <4>2, Zenon
    <3>10. Len(queue'[m]) = k + 1
      BY <1>5, <3>1, Zenon
    <3>11. last[m] = counted[m] % Wrap /\ (~metered => counted[m] = 0)
      BY <2>1, Zenon DEF LineDrops
    <3> QED
      BY <3>1, <3>5, <3>7, <3>8, <3>9, <3>10, <3>11, ZenonT(60) DEF LineDrops, Shows
  <2> QED
    BY <2>2, <2>3, Zenon
<1>9. NothingLost'
  <2> SUFFICES ASSUME NEW m \in Lines
               PROVE  accepted'[m] = got'[m] \o Ids(pending'[m]) \o Ids(Kept(queue'[m], Fitting))
    BY Zenon DEF NothingLost, Ids
  <2>1. accepted[m] = got[m] \o Ids(pending[m]) \o Ids(Kept(queue[m], Fitting))
    BY Zenon DEF NothingLost
  <2>2. CASE m # l
    <3>1. got'[m] = got[m] /\ pending'[m] = pending[m] /\ queue'[m] = queue[m] /\ accepted'[m] = accepted[m]
      BY <1>6, <2>2, Zenon DEF SocketType
    <3> QED
      BY <2>1, <3>1, Zenon
  <2>3. CASE m = l
    <3>1. PICK a \in Seq(Nat), b \in Seq(Nat) : a = got[l] \o Ids(pending[l]) /\ b = Ids(Kept(q, Fitting))
      <4>1. PICK g \in Seq(Nat), p \in Seq(Datagrams) : g = got[l] /\ p = pending[l]
        BY Zenon DEF SocketType
      <4>2. Ids(p) \in Seq(Nat)
        BY DatagramIds, IdsType, Zenon
      <4>3. g \o Ids(p) \in Seq(Nat)
        BY <4>2, ConcatProperties, Zenon
      <4>4. Kept(q, Fitting) \in Seq(Datagrams)
        BY KeptType
      <4>5. Ids(Kept(q, Fitting)) \in Seq(Nat)
        BY <4>4, DatagramIds, IdsType, Zenon
      <4> QED
        BY <4>1, <4>3, <4>5, Zenon
    <3>2. accepted[l] = a \o b /\ got'[l] = got[l] /\ pending'[l] = pending[l] /\ queue'[l] = q2
      <4>1. got'[l] = got[l] /\ pending'[l] = pending[l] /\ queue'[l] = q2
        BY <1>6, Zenon DEF SocketType
      <4> QED
        BY <1>1, <2>1, <2>3, <3>1, <4>1, ZenonT(60)
    <3>3. CASE big
      <4>1. d \notin Fitting
        BY <1>3, <3>3, Zenon DEF Fitting
      <4>2. Kept(q2, Fitting) = Kept(q, Fitting)
        BY <1>4, <4>1, KeptAppend
      <4>3. accepted'[l] = accepted[l]
        BY <1>6, <3>3, Zenon
      <4> QED
        BY <2>3, <3>1, <3>2, <4>2, <4>3, ZenonT(60)
    <3>4. CASE ~big
      <4>1. d \in Fitting /\ d.id = n
        BY <1>3, <3>4, Zenon DEF Fitting
      <4>2. PICK f \in Seq(Datagrams), f2 \in Seq(Datagrams) :
              f = Kept(q, Fitting) /\ f2 = Append(f, d)
        <5>1. PICK f \in Seq(Datagrams) : f = Kept(q, Fitting)
          BY KeptType, Zenon
        <5>2. Append(f, d) \in Seq(Datagrams)
          BY AppendProperties, Zenon
        <5> QED
          BY <5>1, <5>2, Zenon
      <4>3. Kept(q2, Fitting) = f2
        BY <1>4, <4>1, <4>2, KeptAppend
      <4>4. Ids(f2) = Append(b, n)
        <5>1. Ids(Append(f, d)) = Append(Ids(f), d.id)
          BY DatagramIds, IdsAppend, Zenon
        <5> QED
          BY <3>1, <4>1, <4>2, <5>1, Zenon
      <4>5. accepted'[l] = Append(a \o b, n)
        <5>1. accepted'[l] = Append(accepted[l], n)
          BY <1>6, <3>4, Zenon DEF SocketType
        <5> QED
          BY <3>2, <5>1, ZenonT(60)
      <4>6. a \o Append(b, n) = Append(a \o b, n)
        BY ConcatAppend
      <4> QED
        BY <2>3, <3>1, <3>2, <4>3, <4>4, <4>5, <4>6, ZenonT(60)
    <3> QED
      BY <3>3, <3>4, Zenon
  <2> QED
    BY <2>2, <2>3, Zenon
<1> QED
  BY <1>7, <1>8, <1>9, Zenon

\* The kernel drops a datagram, never as many as its counter's range.
LEMMA DropSocket ==
  ASSUME SocketInv, NEW l \in Lines, Drop(l)
  PROVE  SocketInv'
<1> USE DEF SocketInv
<1>1. /\ arrived' = [arrived EXCEPT ![l] = @ + 1] /\ dropped' = [dropped EXCEPT ![l] = @ + 1]
      /\ dropped[l] - carriedAt[l] < Wrap - 1
      /\ UNCHANGED <<metered, queue, carriedAt, accepted, pending, counted, last, got, readAt>>
  BY Zenon DEF Drop, configVars
<1>2. SocketType'
  <2>1. arrived \in [Lines -> Nat] /\ dropped \in [Lines -> Nat]
    BY Zenon DEF SocketType
  <2>2. arrived' = [arrived EXCEPT ![l] = arrived[l] + 1]
        /\ dropped' = [dropped EXCEPT ![l] = dropped[l] + 1]
    BY <1>1, Zenon
  <2>3. arrived' \in [Lines -> Nat] /\ dropped' \in [Lines -> Nat]
    BY <2>1, <2>2
  <2> QED
    BY <1>1, <2>3, Zenon DEF SocketType
<1>3. NothingLost'
  BY <1>1, ZenonT(60) DEF NothingLost, Ids
<1>4. ASSUME NEW m \in Lines, metered
      PROVE  dropped'[m] - carriedAt'[m] \in 0 .. Wrap - 1
  <2>1. dropped[m] - carriedAt[m] \in 0 .. Wrap - 1 /\ dropped[m] \in Nat /\ carriedAt[m] \in Nat
    BY <1>4, Zenon DEF DropsInv, LineDrops, SocketType
  <2>2. dropped'[m] = IF m = l THEN dropped[m] + 1 ELSE dropped[m]
    BY <1>1, Zenon DEF SocketType
  <2>3. Wrap \in Nat
    BY ReceiverAssumption, Zenon
  <2> QED
    BY <1>1, <2>1, <2>2, <2>3
<1>5. \A m, i : DropsAt(m, i)' = DropsAt(m, i) /\ ShownAt(m, i)' = ShownAt(m, i)
  BY <1>1, ZenonT(60) DEF DropsAt, ShownAt
<1>6. \A m, i : Known(m, i)' = Known(m, i)
  BY <1>5, ZenonT(60) DEF Known, Shows
<1>7. ASSUME NEW m \in Lines
      PROVE  LineDrops(m)'
  <2>1. LineDrops(m)
    BY Zenon DEF DropsInv
  <2> QED
    BY <1>1, <1>4, <1>5, <1>6, <2>1, ZenonT(60) DEF LineDrops, Shows
<1>8. DropsInv'
  BY <1>7, Zenon DEF DropsInv
<1> QED
  BY <1>2, <1>3, <1>8, Zenon

LEMMA SocketNext ==
  ASSUME SocketInv, Next
  PROVE  SocketInv'
<1>1. Preferred \in Lines /\ Other(Preferred) \in Lines
  BY DEF Preferred, Lines, Other
<1>2. CASE UNCHANGED <<metered, arrived, dropped, carriedAt, accepted, queue, pending, counted, last, got, readAt>>
  <2>1. SocketType' /\ NothingLost'
    BY <1>2, ZenonT(60) DEF SocketInv, SocketType, NothingLost, Ids
  <2>2. DropsInv'
    BY <1>2, SameDrops, ZenonT(60) DEF SocketInv, DropsInv
  <2> QED
    BY <2>1, <2>2, Zenon DEF SocketInv
<1>3. ASSUME NEW l \in Lines, NEW found \in BOOLEAN, Receive(l, found),
             UNCHANGED <<metered, arrived, dropped, carriedAt, accepted>>
      PROVE  SocketInv'
  BY <1>2, <1>3, ReceiveSocket, Zenon DEF Receive, readVars
<1>4. CASE \E l \in Lines : Drop(l) \/ \E big \in BOOLEAN : Arrive(l, big)
  BY <1>4, DropSocket, ArriveSocket, Zenon
<1>5. CASE Call \/ Poll
  BY <1>2, <1>5, Zenon DEF Call, Poll, kernelVars, configVars
<1>6. CASE AskFirst \/ AskSecond
  BY <1>1, <1>3, <1>6, Zenon DEF AskFirst, AskSecond, configVars
<1>7. CASE AskFirstAgain \/ AskSecondAgain
  BY <1>1, <1>2, <1>3, <1>7, Zenon DEF AskFirstAgain, AskSecondAgain, lineVars, readVars, configVars
<1> QED
  BY <1>4, <1>5, <1>6, <1>7 DEF Next
-----------------------------------------------------------------------------
\* The views of the batch receiver.
BatchInv == views \in Seq(Range(views)) /\ BatchViewsIntact

\* A step of the batch receiver: it receives only when no view is out.
LEMMA BatchPreserves ==
  ASSUME BatchInv, BatchNext
  PROVE  BatchInv'
<1>1. CASE UNCHANGED <<views, buffers>>
  BY <1>1, Zenon DEF BatchInv, BatchViewsIntact
<1>2. CASE views' = << >>
  BY <1>2 DEF BatchInv, BatchViewsIntact
<1>3. CASE CopyView
  <2> DEFINE v == [buffer |-> Head(filled), id |-> buffers[Head(filled)]]
  <2>1. views' = Append(views, v) /\ buffers' = buffers
    BY <1>3 DEF CopyView
  <2>2. views \in Seq(Range(views) \cup {v})
    BY DEF BatchInv
  <2>3. buffers[v.buffer] = v.id
    BY Zenon
  <2> HIDE DEF v
  <2>4. Append(views, v) \in Seq(Range(views) \cup {v})
        /\ Range(Append(views, v)) = Range(views) \cup {v}
    BY <2>2, AppendRange
  <2>5. \A w \in Range(views) : buffers[w.buffer] = w.id
    BY Zenon DEF BatchInv, BatchViewsIntact, Range
  <2>6. \A w \in Range(Append(views, v)) : buffers[w.buffer] = w.id
    BY <2>3, <2>4, <2>5, Zenon
  <2>7. BatchViewsIntact'
    BY <2>1, <2>6, ZenonT(60) DEF BatchViewsIntact, Range
  <2> QED
    BY <2>1, <2>4, <2>7, Zenon DEF BatchInv
<1>4. CASE RefillBatch
  BY <1>2, <1>4, Zenon DEF RefillBatch, MayRefill
<1> QED
  BY <1>1, <1>2, <1>3, <1>4, Zenon
     DEF BatchNext, DatagramArrives, CallNextBatch, RefillFails, ReturnBatch

\* The datagrams of the batch receiver.
SizedDatagrams == [id : Nat, big : BOOLEAN]

SmallOnes == [id : Nat, big : {FALSE}]

OrderType ==
  /\ socket \in Seq(SizedDatagrams) /\ sent \in Seq(SizedDatagrams)
  /\ buffers \in [1 .. BatchSize -> Nat]
  /\ filled \in Seq(1 .. BatchSize) /\ handed \in Seq(Nat)

OrderInv == OrderType /\ BatchNothingLost

LEMMA SizedIds == \A d \in SizedDatagrams : d.id \in Nat
BY DEF SizedDatagrams

\* The datagrams that fit.
LEMMA SmallIff ==
  ASSUME NEW d \in SizedDatagrams
  PROVE  d \in SmallOnes <=> ~d.big
<1>1. PICK n \in Nat, b \in BOOLEAN : d = [id |-> n, big |-> b]
  BY DEF SizedDatagrams
<1> QED
  BY <1>1, Zenon DEF SmallOnes

\* Their places.
LEMMA SmallPlaces ==
  ASSUME NEW s \in Seq(SizedDatagrams)
  PROVE  /\ Places(s, SmallOnes) \in Seq(1 .. Len(s))
         /\ Len(Places(s, SmallOnes)) = Len(Kept(s, SmallOnes))
         /\ \A j \in 1 .. Len(Places(s, SmallOnes)) :
              Kept(s, SmallOnes)[j] = s[Places(s, SmallOnes)[j]]
BY KeptPlaces

\* The numbers of the datagrams that fit.
LEMMA SmallIds ==
  ASSUME NEW s \in Seq(SizedDatagrams)
  PROVE  /\ Ids(Small(s)) \in Seq(Nat) /\ Small(s) \in Seq(SizedDatagrams)
         /\ \A d \in SizedDatagrams :
              Ids(Small(Append(s, d))) = IF d.big THEN Ids(Small(s)) ELSE Append(Ids(Small(s)), d.id)
<1>1. PICK k \in Seq(SizedDatagrams) : k = Small(s)
  BY KeptType, Zenon DEF Small
<1>2. Ids(k) \in Seq(Nat)
  BY SizedIds, IdsType, Zenon
<1>3. ASSUME NEW d \in SizedDatagrams
      PROVE  Ids(Small(Append(s, d))) = IF d.big THEN Ids(Small(s)) ELSE Append(Ids(Small(s)), d.id)
  <2>1. d \in SmallOnes <=> ~d.big
    BY SmallIff
  <2>2. Kept(Append(s, d), SmallOnes) = IF d \in SmallOnes THEN Append(Kept(s, SmallOnes), d) ELSE Kept(s, SmallOnes)
    BY KeptAppend
  <2>3. Kept(s, SmallOnes) = k
    BY <1>1 DEF Small, SmallOnes
  <2>4. Small(Append(s, d)) = IF d \in SmallOnes THEN Append(k, d) ELSE k
    BY <2>2, <2>3, Zenon DEF Small, SmallOnes
  <2>5. Ids(Append(k, d)) = Append(Ids(k), d.id)
    BY SizedIds, IdsAppend, Zenon
  <2> QED
    BY <1>1, <2>1, <2>4, <2>5, Zenon
<1> QED
  BY <1>1, <1>2, <1>3, Zenon

\* What is pending, as the numbers in the buffers.
LEMMA HeldImage == [i \in DOMAIN filled |-> buffers[filled[i]]] = Image(buffers, filled)
BY DEF Image

\* A datagram arrives.
LEMMA OrderArrive ==
  ASSUME OrderInv, NEW big \in BOOLEAN, DatagramArrives(big)
  PROVE  OrderInv'
<1> USE DEF OrderInv
<1>1. PICK s \in Seq(SizedDatagrams), t \in Seq(SizedDatagrams) : s = sent /\ t = socket
  BY DEF OrderType
<1>2. PICK d \in SizedDatagrams : d = [id |-> Len(sent) + 1, big |-> big]
  <2>1. Len(sent) + 1 \in Nat
    BY DEF OrderType
  <2> QED
    BY <2>1, Zenon DEF SizedDatagrams
<1>3. sent' = Append(s, d) /\ socket' = Append(t, d) /\ UNCHANGED <<buffers, filled, handed>>
  BY <1>1, <1>2, Zenon DEF DatagramArrives
<1>4. OrderType'
  <2>1. Append(s, d) \in Seq(SizedDatagrams) /\ Append(t, d) \in Seq(SizedDatagrams)
    BY AppendProperties, Zenon
  <2> QED
    BY <1>3, <2>1, Zenon DEF OrderType
<1>5. PICK h \in Seq(Nat) : h = handed \o Image(buffers, filled)
  <2>1. Into(buffers, 1 .. BatchSize, Nat)
    BY Zenon DEF OrderType, Into
  <2>2. Image(buffers, filled) \in Seq(Nat)
    BY <2>1, ImageType, Zenon DEF OrderType
  <2>3. handed \in Seq(Nat)
    BY DEF OrderType
  <2>4. handed \o Image(buffers, filled) \in Seq(Nat)
    BY <2>2, <2>3, ConcatProperties, Zenon
  <2> QED
    BY <2>4, Zenon
<1>6. PICK x \in Seq(Nat), y \in Seq(Nat) : x = Ids(Small(s)) /\ y = Ids(Small(t))
  BY SmallIds, Zenon
<1>7. x = h \o y
  BY <1>1, <1>5, <1>6, HeldImage, Zenon DEF BatchNothingLost
<1>8. /\ Ids(Small(Append(s, d))) = IF big THEN x ELSE Append(x, d.id)
      /\ Ids(Small(Append(t, d))) = IF big THEN y ELSE Append(y, d.id)
  <2>1. d.big = big
    BY <1>2, Zenon
  <2> QED
    BY <1>6, <2>1, SmallIds, Zenon
<1>9. h \o Append(y, d.id) = Append(h \o y, d.id)
  <2>1. d.id \in Nat
    BY SizedIds
  <2> QED
    BY <2>1, ConcatAppend
<1>10. Ids(Small(sent')) = (handed' \o Image(buffers', filled')) \o Ids(Small(socket'))
  <2>1. handed' \o Image(buffers', filled') = h
    BY <1>3, <1>5, Zenon
  <2> QED
    BY <1>3, <1>7, <1>8, <1>9, <2>1, Zenon
<1>11. BatchNothingLost'
  BY <1>10, Zenon DEF BatchNothingLost, Image, Small, Ids
<1> QED
  BY <1>4, <1>11

\* A packet is handed to the caller.
LEMMA OrderCopy ==
  ASSUME OrderInv, CopyView
  PROVE  OrderInv'
<1> USE DEF OrderInv
<1>1. PICK f \in Seq(1 .. BatchSize), h \in Seq(Nat) : f = filled /\ h = handed /\ f # << >>
  BY Zenon DEF OrderType, CopyView
<1>2. /\ handed' = Append(h, buffers[Head(f)]) /\ filled' = Tail(f)
      /\ UNCHANGED <<socket, buffers, sent>>
  BY <1>1, Zenon DEF CopyView
<1>3. Into(buffers, 1 .. BatchSize, Nat)
  BY Zenon DEF OrderType, Into
<1>4. /\ Append(h, buffers[Head(f)]) \in Seq(Nat)
      /\ Append(h, buffers[Head(f)]) \o Image(buffers, Tail(f)) = h \o Image(buffers, f)
  <2>1. PICK D, R, B : D = 1 .. BatchSize /\ R = Nat /\ B = buffers
    BY Zenon
  <2>2. f \in Seq(D) /\ h \in Seq(R) /\ Into(B, D, R) /\ f # << >>
    BY <1>1, <1>3, <2>1, Zenon
  <2>3. Append(h, B[Head(f)]) \in Seq(R) /\ Append(h, B[Head(f)]) \o Image(B, Tail(f)) = h \o Image(B, f)
    BY <2>2, ImageTaken
  <2> QED
    BY <2>1, <2>3, Zenon
<1>5. Tail(f) \in Seq(1 .. BatchSize)
  BY <1>1, HeadTailProperties
<1>6. OrderType'
  BY <1>2, <1>4, <1>5, Zenon DEF OrderType
<1>7. Ids(Small(sent)) = (h \o Image(buffers, f)) \o Ids(Small(socket))
  BY <1>1, HeldImage, Zenon DEF BatchNothingLost
<1>8. Ids(Small(sent')) = (handed' \o Image(buffers', filled')) \o Ids(Small(socket'))
  BY <1>2, <1>4, <1>7, Zenon
<1>9. BatchNothingLost'
  BY <1>8, Zenon DEF BatchNothingLost, Image, Small, Ids
<1> QED
  BY <1>6, <1>9, Zenon

\* A batch is received into the buffers.
LEMMA OrderRefill ==
  ASSUME OrderInv, RefillBatch
  PROVE  OrderInv'
<1> USE DEF OrderInv
<1>1. PICK q \in Seq(SizedDatagrams) : q = socket
  BY DEF OrderType
<1>2. PICK n : n = Min({Len(socket), BatchSize})
  OBVIOUS
<1>3. n \in 0 .. Len(q) /\ n \in 0 .. BatchSize /\ n \in Nat
  <2>1. PICK m \in Nat, k \in Nat : m = Len(q) /\ k = BatchSize
    BY ReceiverAssumption
  <2>2. n = Min({m, k})
    BY <1>1, <1>2, <2>1
  <2>3. {m, k} \in SUBSET Nat /\ {m, k} # {}
    OBVIOUS
  <2>4. n \in {m, k} /\ \A i \in {m, k} : n <= i
    BY <2>2, <2>3, LeastNatural, Zenon
  <2> QED
    BY <2>1, <2>4
<1>4. PICK batch, rest : batch = SubSeq(q, 1, n) /\ rest = SubSeq(q, n + 1, Len(q))
  BY Zenon
<1>5. /\ batch \in Seq(SizedDatagrams) /\ rest \in Seq(SizedDatagrams)
      /\ Len(batch) = n /\ \A i \in 1 .. n : batch[i] = q[i]
      /\ q = batch \o rest
  <2>1. /\ SubSeq(q, 1, n) \in Seq(SizedDatagrams) /\ Len(SubSeq(q, 1, n)) = n
        /\ \A i \in 1 .. n : SubSeq(q, 1, n)[i] = q[i]
        /\ SubSeq(q, n + 1, Len(q)) \in Seq(SizedDatagrams)
        /\ q = SubSeq(q, 1, n) \o SubSeq(q, n + 1, Len(q))
    BY <1>3, SplitSeq, ZenonT(60)
  <2> QED
    BY <1>4, <2>1, Zenon
<1>6. PICK p : p = Places(batch, SmallOnes)
  OBVIOUS
<1>7. /\ buffers' = [i \in 1 .. BatchSize |-> IF i <= n THEN q[i].id ELSE buffers[i]]
      /\ filled' = p /\ socket' = rest /\ filled = << >> /\ UNCHANGED <<sent, handed>>
  <2>1. {i \in 1 .. n : ~socket[i].big} = {i \in 1 .. Len(batch) : batch[i] \in SmallOnes}
    <3>1. ASSUME NEW i \in 1 .. n
          PROVE  ~socket[i].big <=> batch[i] \in SmallOnes
      <4>1. q[i] \in SizedDatagrams /\ batch[i] = q[i] /\ socket[i] = q[i]
        BY <1>1, <1>3, <1>5
      <4>2. q[i] \in SmallOnes <=> ~q[i].big
        BY <4>1, SmallIff, Zenon
      <4> QED
        BY <4>1, <4>2, Zenon
    <3> QED
      BY <1>5, <3>1, Zenon
  <2>2. /\ buffers' = [i \in 1 .. BatchSize |-> IF i <= n THEN socket[i].id ELSE buffers[i]]
        /\ filled' = Kept([i \in 1 .. n |-> i], {i \in 1 .. n : ~socket[i].big})
        /\ socket' = SubSeq(socket, n + 1, Len(socket))
        /\ filled = << >> /\ UNCHANGED <<sent, handed>>
    BY <1>2, Zenon DEF RefillBatch
  <2>3. filled' = p
    BY <1>5, <1>6, <2>1, <2>2, Zenon DEF Places
  <2> QED
    BY <1>1, <1>4, <2>2, <2>3, Zenon
<1>8. PICK k \in Seq(SizedDatagrams) : k = Small(batch)
  BY <1>5, SmallIds, Zenon
<1>9. p \in Seq(1 .. n) /\ Len(p) = Len(k) /\ \A j \in 1 .. Len(p) : k[j] = batch[p[j]]
  <2>1. k = Kept(batch, SmallOnes)
    BY <1>8 DEF Small, SmallOnes
  <2> QED
    <3>1. PICK c \in Nat : c = Len(batch)
      BY <1>3, <1>5, Zenon
    <3>2. PICK g : g = Places(batch, SmallOnes)
      BY Zenon
    <3>3. /\ g \in Seq(1 .. c) /\ Len(g) = Len(Kept(batch, SmallOnes))
          /\ \A j \in 1 .. Len(g) : Kept(batch, SmallOnes)[j] = batch[g[j]]
      <4>1. batch \in Seq(SizedDatagrams)
        BY <1>5, ZenonT(60)
      <4>2. /\ Places(batch, SmallOnes) \in Seq(1 .. Len(batch))
            /\ Len(Places(batch, SmallOnes)) = Len(Kept(batch, SmallOnes))
            /\ \A j \in 1 .. Len(Places(batch, SmallOnes)) :
                 Kept(batch, SmallOnes)[j] = batch[Places(batch, SmallOnes)[j]]
        BY <4>1, SmallPlaces, Zenon
      <4> QED
        BY <3>1, <3>2, <4>2, Zenon
    <3>4. g = p
      BY <1>6, <3>2, Zenon
    <3> QED
      BY <1>5, <2>1, <3>1, <3>3, <3>4, ZenonT(60)
<1>10. p \in Seq(1 .. BatchSize)
  <2>1. 1 .. n \subseteq 1 .. BatchSize
    BY <1>3, ReceiverAssumption
  <2> QED
    BY <1>9, <2>1, SeqMonotonic, Zenon
<1>11. buffers' \in [1 .. BatchSize -> Nat]
  <2>1. ASSUME NEW i \in 1 .. BatchSize
        PROVE  (IF i <= n THEN q[i].id ELSE buffers[i]) \in Nat
    <3>1. i <= n => q[i].id \in Nat
      <4>1. i <= n => q[i] \in SizedDatagrams
        BY <1>3
      <4> QED
        BY <4>1, SizedIds, Zenon
    <3>2. buffers[i] \in Nat
      BY Zenon DEF OrderType
    <3> QED
      BY <3>1, <3>2, Zenon
  <2> QED
    BY <1>7, <2>1, Zenon
<1>12. OrderType'
  BY <1>5, <1>7, <1>10, <1>11, Zenon DEF OrderType
<1>13. PICK C : C = buffers' /\ Into(C, 1 .. BatchSize, Nat)
  BY <1>11, Zenon DEF Into
<1>14. Image(C, p) = Ids(k)
  <2>1. PICK a \in Seq(Nat), b \in Seq(Nat) : a = Image(C, p) /\ b = Ids(k)
    <3>1. Image(C, p) \in Seq(Nat)
      BY <1>10, <1>13, ImageType, Zenon
    <3>2. Ids(k) \in Seq(Nat)
      BY SizedIds, IdsType, Zenon
    <3> QED
      BY <3>1, <3>2, Zenon
  <2>2. PICK m \in Nat : m = Len(p) /\ m = Len(k)
    BY <1>9
  <2>3. Len(a) = m /\ \A j \in 1 .. m : a[j] = C[p[j]]
    <3>1. PICK D : p \in Seq(D)
      BY <1>10, Zenon
    <3>2. Len(Image(C, p)) = Len(p) /\ \A j \in 1 .. Len(p) : Image(C, p)[j] = C[p[j]]
      BY <3>1, ImageMembers
    <3> QED
      BY <2>1, <2>2, <3>2, Zenon
  <2>4. Len(b) = m /\ \A j \in 1 .. m : b[j] = k[j].id
    BY <2>1, <2>2, SizedIds, IdsType, ZenonT(60)
  <2>5. ASSUME NEW j \in 1 .. m
        PROVE  a[j] = b[j]
    <3>1. p[j] \in 1 .. n /\ k[j] = batch[p[j]]
      <4>1. j \in 1 .. Len(p)
        BY <2>2, Zenon
      <4>2. p \in Seq(1 .. n)
        BY <1>9, Zenon
      <4>3. p[j] \in 1 .. n
        <5>1. PICK R : R = 1 .. n
          OBVIOUS
        <5>2. p \in Seq(R)
          BY <4>2, <5>1, Zenon
        <5>3. p[j] \in R
          BY <4>1, <5>2, ElementOfSeq, Zenon
        <5> QED
          BY <5>1, <5>3, Zenon
      <4> QED
        BY <1>9, <4>1, <4>3, Zenon
    <3>2. C[p[j]] = q[p[j]].id
      <4>1. p[j] \in 1 .. BatchSize /\ p[j] <= n
        BY <1>3, <3>1, ReceiverAssumption
      <4> QED
        BY <1>7, <1>13, <4>1, Zenon
    <3>3. batch[p[j]] = q[p[j]]
      BY <1>5, <3>1, Zenon
    <3> QED
      BY <2>3, <2>4, <3>1, <3>2, <3>3, Zenon
  <2>6. a = b
    BY <2>3, <2>4, <2>5, SeqEqual, Zenon
  <2> QED
    BY <2>1, <2>6, Zenon
<1>15. PICK h \in Seq(Nat), r \in Seq(SizedDatagrams) : h = handed /\ r = Small(rest)
  BY <1>5, SmallIds, Zenon DEF OrderType
<1>16. PICK x \in Seq(Nat), y \in Seq(Nat) : x = Ids(k) /\ y = Ids(r)
  BY SizedIds, IdsType, Zenon
<1>17. Ids(Small(q)) = x \o y
  <2>1. Small(q) = k \o r
    <3>1. Kept(batch \o rest, SmallOnes) = Kept(batch, SmallOnes) \o Kept(rest, SmallOnes)
      BY <1>5, KeptConcat, ZenonT(60)
    <3> QED
      BY <1>5, <1>8, <1>15, <3>1, Zenon DEF Small, SmallOnes
  <2>2. Ids(k \o r) = Ids(k) \o Ids(r)
    BY SizedIds, IdsConcat, Zenon
  <2> QED
    BY <1>16, <2>1, <2>2, Zenon
<1>18. Ids(Small(sent)) = h \o (x \o y)
  <2>1. Ids(Small(sent)) = (h \o Image(buffers, << >>)) \o Ids(Small(q))
    BY <1>1, <1>7, <1>15, HeldImage, Zenon DEF BatchNothingLost
  <2>2. Image(buffers, << >>) = << >> /\ h \o << >> = h
    BY ImageOne, ConcatEmptySeq, Zenon
  <2> QED
    BY <1>17, <2>1, <2>2, Zenon
<1>19. h \o (x \o y) = (h \o x) \o y
  BY NumbersAssociate, ZenonT(60)
<1>20. Ids(Small(sent')) = (handed' \o Image(buffers', filled')) \o Ids(Small(socket'))
  BY <1>7, <1>13, <1>14, <1>15, <1>16, <1>18, <1>19, ZenonT(60)
<1>21. BatchNothingLost'
  BY <1>20, Zenon DEF BatchNothingLost, Image, Small, Ids
<1> QED
  BY <1>12, <1>21

\* The steps of the batch receiver.
LEMMA OrderNext ==
  ASSUME OrderInv, BatchNext
  PROVE  OrderInv'
<1>1. ASSUME UNCHANGED <<socket, buffers, filled, sent, handed>>
      PROVE  OrderInv'
  BY <1>1, Zenon DEF OrderInv, OrderType, BatchNothingLost, Small, Ids
<1>2. CASE \E n \in 1 .. MaxPackets : CallNextBatch(n)
  BY <1>1, <1>2, Zenon DEF CallNextBatch
<1>3. CASE RefillFails \/ ReturnBatch
  BY <1>1, <1>3, Zenon DEF RefillFails, ReturnBatch
<1>4. CASE \E big \in BOOLEAN : DatagramArrives(big)
  BY <1>4, OrderArrive
<1>5. CASE CopyView \/ RefillBatch
  BY <1>5, OrderCopy, OrderRefill
<1> QED
  BY <1>2, <1>3, <1>4, <1>5, Zenon DEF BatchNext
=============================================================================
