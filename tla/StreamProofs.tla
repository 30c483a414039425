---------------------------- MODULE StreamProofs ----------------------------
(***************************************************************************)
(* What the loop task of the TUN device keeps of the bytes of its TCP      *)
(* flows, for any number of flows, connections and bytes and any capacity  *)
(* of the channels and of the sockets: both directions of a flow keep      *)
(* their order and lose nothing while its task and its socket last, and    *)
(* only what earlier tasks of its key left can come before it.             *)
(*                                                                         *)
(* A stream is a sequence of numbers that is spread over several queues,   *)
(* each of which holds a run of them (Runs).  Every handler is shown to    *)
(* move a run from one queue to the next, and the queues are put together  *)
(* only at the end.                                                        *)
(***************************************************************************)
EXTENDS TunProofs

-----------------------------------------------------------------------------
(* Numbered streams.                                                       *)
(*                                                                         *)
(* A queue carries the numbers after a up to b, in order and each once: v  *)
(* gives, for the positions that belong to the stream, the number before   *)
(* the l numbers of that position.                                         *)
Runs(v, l, a, b) ==
  /\ a \in Nat /\ b \in Nat /\ a <= b
  /\ \A i \in DOMAIN v : v[i] \in Nat /\ a <= v[i] /\ v[i] + l <= b
  /\ \A n \in a + 1 .. b : \E i \in DOMAIN v : v[i] < n /\ n <= v[i] + l
  /\ \A i, j \in DOMAIN v : i < j => v[i] + l <= v[j]

(* Nothing of the stream.                                                  *)
LEMMA RunsEmpty ==
  ASSUME NEW v, DOMAIN v = {}, NEW l, NEW a \in Nat
  PROVE  Runs(v, l, a, a) /\ \A b : Runs(v, l, a, b) => b = a
BY DEF Runs

(* The same numbers at the same positions.                                 *)
LEMMA RunsEqual ==
  ASSUME NEW v, NEW w, NEW l, NEW a, NEW b, Runs(v, l, a, b), DOMAIN w = DOMAIN v,
         \A i \in DOMAIN v : w[i] = v[i]
  PROVE  Runs(w, l, a, b)
BY DEF Runs

(* Positions that keep their order.                                        *)
LEMMA RunsSame ==
  ASSUME NEW v, NEW w, NEW l \in Nat, NEW a, NEW b, Runs(v, l, a, b), DOMAIN v \subseteq Nat,
         DOMAIN w \subseteq Nat, NEW p,
         \A i \in DOMAIN w : p[i] \in DOMAIN v /\ w[i] = v[p[i]],
         \A i, j \in DOMAIN w : i < j => p[i] < p[j],
         \A j \in DOMAIN v : \E i \in DOMAIN w : p[i] = j
  PROVE  Runs(w, l, a, b)
<1>1. \A n \in a + 1 .. b : \E i \in DOMAIN w : w[i] < n /\ n <= w[i] + l
  <2> TAKE n \in a + 1 .. b
  <2>1. PICK j \in DOMAIN v : v[j] < n /\ n <= v[j] + l
    BY DEF Runs
  <2>2. PICK i \in DOMAIN w : p[i] = j
    BY <2>1
  <2> QED BY <2>1, <2>2
<1>2. \A i, j \in DOMAIN w : i < j => w[i] + l <= w[j]
  BY DEF Runs
<1> QED BY <1>1, <1>2 DEF Runs

(* One more at the end.                                                    *)
LEMMA RunsAppend ==
  ASSUME NEW v, NEW w, NEW l \in Nat, NEW a, NEW b, Runs(v, l, a, b), DOMAIN v \subseteq Nat,
         NEW k \in Nat, \A i \in DOMAIN v : i < k,
         DOMAIN w = DOMAIN v \cup {k}, \A i \in DOMAIN v : w[i] = v[i], w[k] = b
  PROVE  Runs(w, l, a, b + l)
<1>1. \A n \in a + 1 .. b + l : \E i \in DOMAIN w : w[i] < n /\ n <= w[i] + l
  <2> TAKE n \in a + 1 .. b + l
  <2>1. CASE n <= b
    <3>1. PICK j \in DOMAIN v : v[j] < n /\ n <= v[j] + l
      BY <2>1 DEF Runs
    <3> QED BY <3>1
  <2>2. CASE ~(n <= b)
    BY <2>2 DEF Runs
  <2> QED BY <2>1, <2>2
<1>2. ASSUME NEW i \in DOMAIN w, NEW j \in DOMAIN w, i < j PROVE w[i] + l <= w[j]
  <2>1. i \in DOMAIN v
    BY <1>2
  <2>2. CASE j = k
    BY <2>1, <2>2 DEF Runs
  <2>3. CASE j # k
    BY <1>2, <2>1, <2>3 DEF Runs
  <2> QED BY <2>2, <2>3
<1>3. \A i \in DOMAIN w : w[i] \in Nat /\ a <= w[i] /\ w[i] + l <= b + l
  BY DEF Runs
<1> QED BY <1>1, <1>2, <1>3 DEF Runs

(* The first is the next number, and what is left goes on after it.        *)
LEMMA RunsFirst ==
  ASSUME NEW v, NEW l \in Nat \ {0}, NEW a, NEW b, Runs(v, l, a, b), DOMAIN v \subseteq Nat,
         NEW k \in DOMAIN v, \A i \in DOMAIN v : k <= i,
         NEW w, DOMAIN w = DOMAIN v \ {k}, \A i \in DOMAIN w : w[i] = v[i]
  PROVE  v[k] = a /\ Runs(w, l, a + l, b)
<1>1. v[k] \in Nat /\ a <= v[k] /\ v[k] + l <= b /\ a \in Nat /\ b \in Nat
  BY DEF Runs
<1>2. v[k] = a
  <2>1. a + 1 \in a + 1 .. b
    BY <1>1
  <2>2. PICK i \in DOMAIN v : v[i] < a + 1 /\ a + 1 <= v[i] + l
    BY <2>1 DEF Runs
  <2>3. v[i] = a
    BY <1>1, <2>2 DEF Runs
  <2>4. i = k \/ k < i
    OBVIOUS
  <2> QED BY <1>1, <2>2, <2>3, <2>4 DEF Runs
<1>3. \A i \in DOMAIN w : w[i] \in Nat /\ a + l <= w[i] /\ w[i] + l <= b
  <2> TAKE i \in DOMAIN w
  <2>1. i \in DOMAIN v /\ k < i /\ w[i] = v[i]
    OBVIOUS
  <2> QED BY <1>2, <2>1 DEF Runs
<1>4. \A n \in a + l + 1 .. b : \E i \in DOMAIN w : w[i] < n /\ n <= w[i] + l
  <2> TAKE n \in a + l + 1 .. b
  <2>1. n \in a + 1 .. b
    BY <1>1
  <2>2. PICK i \in DOMAIN v : v[i] < n /\ n <= v[i] + l
    BY <2>1 DEF Runs
  <2>3. i # k
    BY <1>1, <1>2, <2>2
  <2> QED BY <2>2, <2>3
<1>5. \A i, j \in DOMAIN w : i < j => w[i] + l <= w[j]
  BY DEF Runs
<1> QED BY <1>1, <1>2, <1>3, <1>4, <1>5 DEF Runs

(* A stream is cut at any position: what comes before ends at some number. *)
LEMMA RunsCut ==
  ASSUME NEW v, NEW a, NEW b, Runs(v, 1, a, b), DOMAIN v \subseteq Nat, NEW k \in Nat,
         NEW w, \A i \in DOMAIN w : i \in DOMAIN v /\ i <= k /\ w[i] = v[i],
         NEW u, \A i \in DOMAIN u : i \in DOMAIN v /\ i > k /\ u[i] = v[i],
         \A i \in DOMAIN v : (i <= k => i \in DOMAIN w) /\ (i > k => i \in DOMAIN u)
  PROVE  \E c \in Nat : Runs(w, 1, a, c) /\ Runs(u, 1, c, b)
<1> DEFINE N == {c \in Nat : a <= c /\ c <= b /\ \A i \in DOMAIN w : w[i] + 1 <= c}
<1>1. a \in Nat /\ b \in Nat /\ a <= b /\ \A i \in DOMAIN v : v[i] \in Nat /\ a <= v[i] /\ v[i] + 1 <= b
  BY DEF Runs
<1>2. b \in N /\ N \subseteq Nat
  BY <1>1
<1>3. PICK c \in N : \A m \in N : c <= m
  <2> HIDE DEF N
  <2> QED BY <1>2, LeastNatural
<1>4. c \in Nat /\ a <= c /\ c <= b /\ \A i \in DOMAIN w : w[i] + 1 <= c
  BY <1>3
<1>5. c = a \/ \E i \in DOMAIN w : w[i] + 1 = c
  <2> SUFFICES ASSUME c # a, \A i \in DOMAIN w : w[i] + 1 # c PROVE FALSE
    OBVIOUS
  <2>1. c - 1 \in N
    BY <1>1, <1>4
  <2> QED BY <1>3, <1>4, <2>1
<1> HIDE DEF N
<1>6. ASSUME NEW n \in a + 1 .. c PROVE \E i \in DOMAIN w : w[i] < n /\ n <= w[i] + 1
  <2>1. PICK i0 \in DOMAIN w : w[i0] + 1 = c
    BY <1>1, <1>4, <1>5, <1>6
  <2>2. n \in a + 1 .. b
    BY <1>1, <1>4, <1>6
  <2>3. PICK i \in DOMAIN v : v[i] < n /\ n <= v[i] + 1
    BY <2>2 DEF Runs
  <2>4. ~(i0 < i)
    <3>1. i0 \in DOMAIN v /\ v[i0] + 1 = c
      BY <2>1
    <3> QED BY <1>1, <1>4, <1>6, <2>3, <3>1 DEF Runs
  <2>5. i \in DOMAIN w
    BY <2>1, <2>3, <2>4
  <2> QED BY <2>3, <2>5
<1>7. Runs(w, 1, a, c)
  BY <1>1, <1>4, <1>6 DEF Runs
<1>8. ASSUME NEW i \in DOMAIN u PROVE c <= u[i]
  <2>1. CASE c = a
    BY <1>1, <1>8, <2>1
  <2>2. CASE c # a
    <3>1. PICK i0 \in DOMAIN w : w[i0] + 1 = c
      BY <1>5, <2>2
    <3>2. i0 \in DOMAIN v /\ i \in DOMAIN v /\ i0 < i
      BY <1>8, <3>1
    <3> QED BY <1>8, <3>1, <3>2 DEF Runs
  <2> QED BY <2>1, <2>2
<1>9. ASSUME NEW n \in c + 1 .. b PROVE \E i \in DOMAIN u : u[i] < n /\ n <= u[i] + 1
  <2>1. n \in a + 1 .. b
    BY <1>1, <1>4, <1>9
  <2>2. PICK i \in DOMAIN v : v[i] < n /\ n <= v[i] + 1
    BY <2>1 DEF Runs
  <2>3. i \notin DOMAIN w
    BY <1>1, <1>4, <1>9, <2>2
  <2>4. i \in DOMAIN u
    BY <2>2, <2>3
  <2> QED BY <2>2, <2>4
<1>10. Runs(u, 1, c, b)
  BY <1>1, <1>4, <1>8, <1>9 DEF Runs
<1> QED BY <1>4, <1>7, <1>10

(* Two streams that follow each other are one.                             *)
LEMMA RunsJoin ==
  ASSUME NEW v, NEW w, NEW u, NEW l \in Nat, NEW a, NEW b, NEW c, Runs(v, l, a, c), Runs(w, l, c, b),
         DOMAIN v \subseteq Nat, DOMAIN w \subseteq Nat, DOMAIN u \subseteq Nat, NEW k \in Nat,
         \A i \in DOMAIN v : i <= k /\ i \in DOMAIN u /\ u[i] = v[i],
         \A i \in DOMAIN w : i + k \in DOMAIN u /\ i >= 1 /\ u[i + k] = w[i],
         \A i \in DOMAIN u : i \in DOMAIN v \/ (i > k /\ i - k \in DOMAIN w)
  PROVE  Runs(u, l, a, b)
<1>1. /\ a \in Nat /\ b \in Nat /\ c \in Nat /\ a <= c /\ c <= b
      /\ \A i \in DOMAIN v : v[i] \in Nat /\ a <= v[i] /\ v[i] + l <= c
      /\ \A i \in DOMAIN w : w[i] \in Nat /\ c <= w[i] /\ w[i] + l <= b
  BY DEF Runs
<1>2. ASSUME NEW i \in DOMAIN u
      PROVE  \/ i \in DOMAIN v /\ u[i] = v[i] /\ i <= k
             \/ i > k /\ i - k \in DOMAIN w /\ u[i] = w[i - k] /\ i \in Nat /\ i - k >= 1
  <2>1. CASE i \in DOMAIN v
    BY <2>1
  <2>2. CASE i > k /\ i - k \in DOMAIN w
    <3>1. i = (i - k) + k /\ i \in Nat
      BY <1>2
    <3>2. u[(i - k) + k] = w[i - k] /\ i - k >= 1
      BY <2>2
    <3> QED BY <2>2, <3>1, <3>2
  <2> QED BY <1>2, <2>1, <2>2
<1>3. \A i \in DOMAIN u : u[i] \in Nat /\ a <= u[i] /\ u[i] + l <= b
  BY <1>1, <1>2
<1>4. ASSUME NEW n \in a + 1 .. b PROVE \E i \in DOMAIN u : u[i] < n /\ n <= u[i] + l
  <2>1. CASE n <= c
    <3>1. n \in a + 1 .. c
      BY <1>1, <1>4, <2>1
    <3>2. PICK i \in DOMAIN v : v[i] < n /\ n <= v[i] + l
      BY <3>1 DEF Runs
    <3> QED BY <3>2
  <2>2. CASE ~(n <= c)
    <3>1. n \in c + 1 .. b
      BY <1>1, <1>4, <2>2
    <3>2. PICK i \in DOMAIN w : w[i] < n /\ n <= w[i] + l
      BY <3>1 DEF Runs
    <3> QED BY <3>2
  <2> QED BY <2>1, <2>2
<1>5. ASSUME NEW i \in DOMAIN u, NEW j \in DOMAIN u, i < j PROVE u[i] + l <= u[j]
  <2>1. CASE i \in DOMAIN v /\ u[i] = v[i] /\ j \in DOMAIN v /\ u[j] = v[j]
    BY <1>5, <2>1 DEF Runs
  <2>2. CASE i \in DOMAIN v /\ u[i] = v[i] /\ j - k \in DOMAIN w /\ u[j] = w[j - k]
    BY <1>1, <2>2
  <2>3. CASE i - k \in DOMAIN w /\ u[i] = w[i - k] /\ j - k \in DOMAIN w /\ u[j] = w[j - k]
    <3>1. i - k < j - k
      BY <1>5
    <3> QED BY <2>3, <3>1 DEF Runs
  <2>4. CASE i > k /\ j <= k
    BY <1>5, <2>4
  <2> QED BY <1>2, <1>5, <2>1, <2>2, <2>3, <2>4
<1> QED BY <1>1, <1>3, <1>4, <1>5 DEF Runs

-----------------------------------------------------------------------------
(* FlattenSeq puts the sequences together one after the other.             *)
LEMMA FlattenFollows ==
  ASSUME NEW X, NEW ss \in Seq(Seq(X)), NEW P, <<>> \in P[0],
         \A k \in 0 .. Len(ss) - 1 : \A y \in P[k] : y \in Seq(X) => y \o ss[k + 1] \in P[k + 1]
  PROVE  FlattenSeq(ss) \in P[Len(ss)]
<1> DEFINE n == Len(ss)
           S == 1 .. n
           G == Seq(X)
           F == [p \in S \X G |-> p[2] \o ss[p[1]]]
           c == [s \in SUBSET S |-> Max(s)]
           Step(h) == h = [i \in 1 .. n |-> IF i = 1 THEN ss[i] ELSE h[i - 1] \o ss[i]]
           e == CHOOSE h : Step(h)
<1>1. n \in Nat /\ IsFiniteSet(S) /\ \A i \in S : ss[i] \in G
  <2>1. n \in Nat /\ \A i \in 1 .. n : ss[i] \in Seq(X)
    OBVIOUS
  <2>2. IsFiniteSet(S)
    <3>1. 1 \in Int /\ n \in Int
      BY <2>1
    <3> HIDE DEF n
    <3> QED BY <3>1, FS_Interval
  <2> QED BY <2>1, <2>2
<1>2. F \in [S \X G -> G]
  BY <1>1
<1>3. \A s \in SUBSET S : s # {} => Max(s) \in s /\ \A y \in s : Max(s) >= y
  BY <1>1, MaxIsIn
<1>4. \A s \in SUBSET S : c[s] = Max(s)
  OBVIOUS
<1>5. <<>> \in G /\ \A s \in SUBSET S : s # {} => c[s] \in s
  BY <1>3, <1>4
<1>6. PICK g \in [SUBSET S -> G] : Folding(F, <<>>, c, SUBSET S, g)
  <2> HIDE DEF F, c, S, G
  <2> QED BY <1>1, <1>2, <1>5, FoldingExists
<1> DEFINE h == [i \in 1 .. n |-> g[1 .. i]]
<1>7. g[{}] = <<>> /\ \A s \in SUBSET S : s # {} => g[s] = F[<<c[s], g[s \ {c[s]}]>>]
  BY <1>6 DEF Folding
<1>8. ASSUME NEW i \in 1 .. n PROVE g[1 .. i] = g[1 .. i - 1] \o ss[i]
  <2>1. i \in Nat /\ 1 <= i /\ i <= n
    BY <1>1, <1>8
  <2>2. 1 .. i \in SUBSET S /\ 1 .. i # {} /\ 1 .. i - 1 \in SUBSET S
    <3>1. \A x \in 1 .. i : x \in 1 .. n
      BY <1>1, <2>1
    <3>2. \A x \in 1 .. i - 1 : x \in 1 .. n
      BY <1>1, <2>1
    <3>3. i \in 1 .. i
      BY <2>1
    <3> QED BY <3>1, <3>2, <3>3
  <2>3. Max(1 .. i) = i
    <3>1. Max(1 .. i) \in 1 .. i /\ Max(1 .. i) >= i
      <4>1. i \in 1 .. i
        BY <2>1
      <4> HIDE DEF S
      <4> QED BY <1>3, <2>2, <4>1
    <3>2. Max(1 .. i) <= i /\ Max(1 .. i) \in Nat
      BY <2>1, <3>1
    <3> QED BY <2>1, <3>1, <3>2
  <2>4. (1 .. i) \ {i} = 1 .. i - 1
    BY <1>8
  <2>5. g[1 .. i] = F[<<i, g[1 .. i - 1]>>]
    <3>1. c[1 .. i] = i
      <4> HIDE DEF c
      <4> QED BY <1>4, <2>2, <2>3
    <3> HIDE DEF F, c, S
    <3> QED BY <1>7, <2>2, <2>4, <3>1
  <2>6. <<i, g[1 .. i - 1]>> \in S \X G
    BY <1>6, <1>8, <2>2
  <2> QED BY <2>5, <2>6
<1>9. Step(h)
  <2>1. ASSUME NEW i \in 1 .. n
        PROVE  g[1 .. i] = IF i = 1 THEN ss[i] ELSE g[1 .. i - 1] \o ss[i]
    <3>1. CASE i = 1
      <4>1. 1 .. i - 1 = {} /\ ss[i] \in Seq(X)
        BY <1>1, <2>1, <3>1
      <4>2. <<>> \o ss[i] = ss[i]
        BY <4>1
      <4> QED BY <1>7, <1>8, <3>1, <4>1, <4>2, ZenonT(40)
    <3>2. CASE i # 1
      BY <1>8, <3>2
    <3> QED BY <3>1, <3>2
  <2>2. \A i \in 1 .. n : i # 1 => i - 1 \in 1 .. n
    BY <1>1
  <2> QED BY <2>1, <2>2
<1>10. Step(e)
  BY <1>9
<1>11. n # 0 => FlattenSeq(ss) = e[n]
  BY DEF FlattenSeq
<1>12. n = 0 => FlattenSeq(ss) = <<>>
  BY DEF FlattenSeq
<1> HIDE DEF e
<1> DEFINE N == {k \in Nat : k \in 1 .. n /\ ~(e[k] \in P[k] /\ e[k] \in G)}
<1>13. N = {}
  <2> SUFFICES ASSUME N # {} PROVE FALSE
    OBVIOUS
  <2>1. PICK k \in N : \A m \in N : k <= m
    BY LeastNatural
  <2>2. k \in 1 .. n /\ ss[k] \in G
    BY <1>1, <2>1
  <2>3. CASE k = 1
    <3>1. e[k] = ss[1] /\ <<>> \o ss[1] = ss[1]
      BY <1>1, <1>10, <2>2, <2>3
    <3>2. <<>> \o ss[0 + 1] \in P[0 + 1]
      <4>1. 0 \in 0 .. Len(ss) - 1 /\ <<>> \in Seq(X)
        BY <1>1, <2>2
      <4> QED BY <4>1
    <3> QED BY <2>1, <2>2, <2>3, <3>1, <3>2
  <2>4. CASE k # 1
    <3>1. k - 1 \in 1 .. n /\ k - 1 \in 0 .. n - 1 /\ k - 1 \notin N /\ (k - 1) + 1 = k
      BY <1>1, <2>1, <2>2, <2>4
    <3>2. e[k - 1] \in P[k - 1] /\ e[k - 1] \in G
      BY <3>1
    <3>3. e[k] = e[k - 1] \o ss[k]
      BY <1>10, <2>2, <2>4
    <3>4. e[k - 1] \o ss[(k - 1) + 1] \in P[(k - 1) + 1]
      BY <3>1, <3>2
    <3>5. e[k - 1] \o ss[k] \in G
      BY <2>2, <3>2
    <3> QED BY <2>1, <3>1, <3>3, <3>4, <3>5
  <2> QED BY <2>3, <2>4
<1> QED BY <1>1, <1>11, <1>12, <1>13

(* The part of the word W between a and b.                                 *)
Piece(W, a, b) == [j \in 1 .. b - a |-> W[a + j]]

(* Put together, the parts of a stream are its numbers in order.           *)
LEMMA FlattenRuns ==
  ASSUME NEW X, NEW W \in [Nat -> X], NEW ss \in Seq(Seq(X)), NEW l \in Nat \ {0},
         NEW v, NEW a, NEW b, Runs(v, l, a, b), DOMAIN v \subseteq DOMAIN ss,
         \A i \in DOMAIN v : ss[i] = Piece(W, v[i], v[i] + l),
         \A i \in DOMAIN ss : i \notin DOMAIN v => ss[i] = <<>>
  PROVE  FlattenSeq(ss) = Piece(W, a, b)
<1> DEFINE n == Len(ss)
           U(c) == [j \in 1 .. c - a |-> W[a + j]]
           Before(k) == [i \in {x \in DOMAIN v : x <= k} |-> v[i]]
           P == [k \in 0 .. n |-> {U(c) : c \in {d \in Nat : a <= d /\ d <= b /\ Runs(Before(k), l, a, d)}}]
<1>1. /\ n \in Nat /\ DOMAIN ss = 1 .. n /\ a \in Nat /\ b \in Nat /\ a <= b
      /\ DOMAIN v \subseteq Nat /\ \A i \in DOMAIN v : i \in 1 .. n
  BY DEF Runs
<1>2. ASSUME NEW c \in Nat, a <= c
      PROVE  U(c) \in Seq(X) /\ Len(U(c)) = c - a /\ \A j \in 1 .. c - a : U(c)[j] = W[a + j]
  <2>1. c - a \in Nat /\ \A j \in 1 .. c - a : W[a + j] \in X
    BY <1>1, <1>2
  <2>2. U(c) \in [1 .. c - a -> X]
    BY <2>1
  <2>3. U(c) \in Seq(X)
    BY <2>1, <2>2
  <2> QED BY <2>1, <2>2, <2>3
<1>3. <<>> \in P[0]
  <2>1. DOMAIN Before(0) = {}
    BY <1>1
  <2>2. Runs(Before(0), l, a, a)
    <3> HIDE DEF Before
    <3> QED BY <1>1, <2>1, RunsEmpty
  <2>3. U(a) = <<>>
    BY <1>1
  <2> HIDE DEF U, Before
  <2>4. U(a) \in P[0]
    BY <1>1, <2>2
  <2> QED BY <2>3, <2>4
<1>4. ASSUME NEW k \in 0 .. n - 1, NEW y \in P[k]
      PROVE  y \o ss[k + 1] \in P[k + 1]
  <2>1. PICK c \in Nat : a <= c /\ c <= b /\ Runs(Before(k), l, a, c) /\ y = U(c)
    <3> HIDE DEF U, Before
    <3> QED BY <1>1, <1>4
  <2>2. k \in Nat /\ k + 1 \in 1 .. n /\ k + 1 \in DOMAIN ss /\ k + 1 \in 0 .. n
    BY <1>1, <1>4
  <2>3. U(c) \in Seq(X)
    BY <1>2, <2>1
  <2>4. CASE k + 1 \notin DOMAIN v
    <3>1. ss[k + 1] = <<>>
      BY <2>2, <2>4
    <3>2. y \o ss[k + 1] = U(c)
      <4> HIDE DEF U
      <4> QED BY <2>1, <2>3, <3>1
    <3>3. \A x \in DOMAIN v : x <= k <=> x <= k + 1
      BY <1>1, <2>2, <2>4
    <3>4. Before(k + 1) = Before(k)
      BY <3>3
    <3> HIDE DEF U, Before
    <3> QED BY <2>1, <2>2, <3>2, <3>4
  <2>5. CASE k + 1 \in DOMAIN v
    <3>1. /\ v[k + 1] \in Nat /\ a <= v[k + 1] /\ v[k + 1] + l <= b
      BY <2>5 DEF Runs
    <3>2. c <= v[k + 1]
      <4>1. CASE c = a
        BY <3>1, <4>1
      <4>2. CASE c # a
        <5>1. c \in a + 1 .. c
          BY <1>1, <2>1, <4>2
        <5>2. PICK i \in DOMAIN Before(k) : Before(k)[i] < c /\ c <= Before(k)[i] + l
          BY <2>1, <5>1 DEF Runs
        <5>3. i \in DOMAIN v /\ i <= k /\ Before(k)[i] = v[i] /\ i \in Nat
          BY <1>1, <5>2
        <5>4. v[i] + l <= v[k + 1] /\ v[i] \in Nat
          BY <1>1, <2>2, <2>5, <5>3 DEF Runs
        <5> QED BY <2>1, <3>1, <5>2, <5>3, <5>4
      <4> QED BY <4>1, <4>2
    <3>3. v[k + 1] = c
      <4> SUFFICES ASSUME c < v[k + 1] PROVE FALSE
        BY <2>1, <3>1, <3>2
      <4>1. c + 1 \in a + 1 .. b
        BY <1>1, <2>1, <3>1
      <4>2. PICK i \in DOMAIN v : v[i] < c + 1 /\ c + 1 <= v[i] + l
        BY <4>1 DEF Runs
      <4>3. v[i] \in Nat /\ i \in Nat
        BY <1>1, <4>2 DEF Runs
      <4>4. CASE i <= k
        <5>1. i \in DOMAIN Before(k) /\ Before(k)[i] = v[i]
          BY <4>2, <4>4
        <5>2. v[i] + l <= c
          BY <2>1, <5>1 DEF Runs
        <5> QED BY <2>1, <4>2, <4>3, <5>2
      <4>5. CASE i = k + 1
        BY <2>1, <3>1, <4>2, <4>5
      <4>6. CASE k + 1 < i
        <5>1. v[k + 1] + l <= v[i]
          BY <2>5, <4>2, <4>6 DEF Runs
        <5> QED BY <2>1, <3>1, <4>2, <4>3, <5>1
      <4> QED BY <2>2, <4>3, <4>4, <4>5, <4>6
    <3>4. Runs(Before(k + 1), l, a, c + l)
      <4>1. /\ DOMAIN Before(k) \subseteq Nat /\ \A i \in DOMAIN Before(k) : i < k + 1
            /\ DOMAIN Before(k + 1) = DOMAIN Before(k) \cup {k + 1}
            /\ \A i \in DOMAIN Before(k) : Before(k + 1)[i] = Before(k)[i]
            /\ Before(k + 1)[k + 1] = c
        BY <1>1, <2>2, <2>5, <3>3
      <4> HIDE DEF Before
      <4>2. k + 1 \in Nat /\ l \in Nat
        BY <2>2
      <4> QED BY <2>1, <4>1, <4>2, RunsAppend
    <3>5. y \o ss[k + 1] = U(c + l)
      <4>1. ss[k + 1] = [j \in 1 .. l |-> W[c + j]]
        <5>1. ss[k + 1] = Piece(W, c, c + l)
          BY <2>5, <3>3
        <5>2. (c + l) - c = l
          BY <2>1
        <5> QED BY <5>1, <5>2 DEF Piece
      <4>2. ss[k + 1] \in Seq(X) /\ Len(ss[k + 1]) = l
        BY <2>1, <4>1
      <4>3. U(c) \in Seq(X) /\ Len(U(c)) = c - a /\ \A j \in 1 .. c - a : U(c)[j] = W[a + j]
        BY <1>2, <2>1
      <4>4. U(c + l) \in Seq(X) /\ Len(U(c + l)) = (c + l) - a
            /\ \A j \in 1 .. (c + l) - a : U(c + l)[j] = W[a + j]
        <5> DEFINE d == c + l
        <5>1. d \in Nat /\ a <= d
          BY <1>1, <2>1
        <5> HIDE DEF U, d
        <5>2. U(d) \in Seq(X) /\ Len(U(d)) = d - a /\ \A j \in 1 .. d - a : U(d)[j] = W[a + j]
          BY <1>2, <5>1
        <5> QED BY <5>2 DEF d
      <4> DEFINE A == U(c)
                 B == ss[k + 1]
                 C == U(c + l)
      <4>5. \A j \in 1 .. l : B[j] = W[c + j]
        BY <4>1
      <4> HIDE DEF A, B, C
      <4>6. /\ A \o B \in Seq(X) /\ Len(A \o B) = Len(A) + Len(B)
            /\ \A i \in 1 .. Len(A) + Len(B) : (A \o B)[i] = IF i <= Len(A) THEN A[i] ELSE B[i - Len(A)]
        <5>1. A \in Seq(X) /\ B \in Seq(X)
          BY <4>2, <4>3 DEF A, B
        <5> QED BY <5>1, ConcatProperties
      <4>7. ASSUME NEW i \in 1 .. (c + l) - a PROVE (A \o B)[i] = C[i]
        <5>1. Len(A) = c - a /\ Len(B) = l /\ C[i] = W[a + i]
          BY <4>2, <4>3, <4>4, <4>7 DEF A, B, C
        <5>2. CASE i <= c - a
          <6>1. A[i] = W[a + i]
            BY <1>1, <2>1, <4>3, <4>7, <5>2 DEF A
          <6> QED BY <1>1, <2>1, <4>6, <4>7, <5>1, <5>2, <6>1
        <5>3. CASE ~(i <= c - a)
          <6>1. i - (c - a) \in 1 .. l /\ c + (i - (c - a)) = a + i
            BY <1>1, <2>1, <4>7, <5>3, SMTT(40)
          <6>2. B[i - (c - a)] = W[a + i]
            BY <4>5, <6>1
          <6> QED BY <1>1, <2>1, <4>6, <4>7, <5>1, <5>3, <6>2, SMTT(40)
        <5> QED BY <5>2, <5>3
      <4>8. Len(A \o B) = (c + l) - a /\ Len(C) = (c + l) - a /\ C \in Seq(X)
        BY <1>1, <2>1, <4>2, <4>3, <4>4, <4>6 DEF A, B, C
      <4>9. A \o B = C
        BY <4>6, <4>7, <4>8, SeqEqual
      <4> QED BY <2>1, <4>9 DEF A, B, C
    <3>6. c + l \in Nat /\ a <= c + l /\ c + l <= b
      BY <1>1, <2>1, <3>1, <3>3
    <3> HIDE DEF U, Before
    <3> QED BY <2>2, <3>4, <3>5, <3>6
  <2> QED BY <2>4, <2>5
<1>5. FlattenSeq(ss) \in P[n]
  <2> HIDE DEF P
  <2> QED BY <1>3, <1>4, FlattenFollows
<1>6. Before(n) = [i \in DOMAIN v |-> v[i]]
  <2>1. \A x \in DOMAIN v : x <= n
    BY <1>1
  <2> QED BY <2>1
<1>7. PICK c \in Nat : a <= c /\ c <= b /\ Runs(Before(n), l, a, c) /\ FlattenSeq(ss) = U(c)
  <2>1. n \in 0 .. n
    BY <1>1
  <2> HIDE DEF U, Before, n
  <2> QED BY <1>5, <2>1
<1>8. c = b
  <2> SUFFICES ASSUME c < b PROVE FALSE
    BY <1>1, <1>7
  <2>1. b \in a + 1 .. b
    BY <1>1, <1>7
  <2>2. PICK i \in DOMAIN v : v[i] < b /\ b <= v[i] + l
    BY <2>1 DEF Runs
  <2>3. i \in DOMAIN Before(n) /\ Before(n)[i] = v[i]
    BY <1>6, <2>2
  <2>4. v[i] + l <= c /\ v[i] \in Nat
    BY <1>7, <2>2, <2>3 DEF Runs
  <2> QED BY <1>1, <1>7, <2>2, <2>4
<1> QED BY <1>7, <1>8 DEF Piece
-----------------------------------------------------------------------------
(* What a handler does to every flow of a set, or with every event of a    *)
(* queue, leads to what a step from the ones before leads to.              *)
LEMMA FlushFollows ==
  ASSUME NEW S, IsFiniteSet(S), NEW G, NEW r \in G, \A x \in S : \A y \in G : FlushFlow(x, y) \in G,
         NEW P, r \in P[{}],
         \A t \in SUBSET S : \A x \in S \ t : \A y \in P[t] : FlushFlow(x, y) \in P[t \cup {x}]
  PROVE  FoldSet(FlushFlow, r, S) \in P[S]
<1> DEFINE F == [p \in S \X G |-> FlushFlow(p[1], p[2])]
           c == [s \in SUBSET S |-> Pick(s)]
           Step(h) == h = [s \in SUBSET S |-> IF s = {} THEN r ELSE FlushFlow(Pick(s), h[s \ {Pick(s)}])]
           e == CHOOSE h : Step(h)
<1>1. F \in [S \X G -> G]
  OBVIOUS
<1>2. \A s \in SUBSET S : s # {} => Pick(s) \in s
  BY DEF Pick
<1>3. \A s \in SUBSET S : c[s] = Pick(s)
  OBVIOUS
<1>4. \A s \in SUBSET S : s # {} => c[s] \in s
  BY <1>2, <1>3
<1>5. PICK h \in [SUBSET S -> G] : Folding(F, r, c, SUBSET S, h)
  <2> HIDE DEF F, c
  <2> QED BY <1>1, <1>4, FoldingExists
<1>6. Step(h)
  <2>1. ASSUME NEW s \in SUBSET S, s # {}
        PROVE  F[<<c[s], h[s \ {c[s]}]>>] = FlushFlow(Pick(s), h[s \ {Pick(s)}])
    <3>1. <<Pick(s), h[s \ {Pick(s)}]>> \in S \X G /\ c[s] = Pick(s)
      BY <1>2, <1>3, <1>5, <2>1
    <3> QED BY <3>1
  <2> QED BY <1>5, <2>1 DEF Folding
<1>7. Step(e)
  BY <1>6
<1>8. FoldSet(FlushFlow, r, S) = e[S]
  BY DEF FoldSet, MapThenFoldSet, Pick
<1> HIDE DEF e
<1>9. e[{}] \in P[{}]
  BY <1>7
<1>10. ASSUME NEW s \in SUBSET S, s # {}
       PROVE  \E x \in s : e[s \ {x}] \in P[s \ {x}] => e[s] \in P[s]
  <2>1. e[s] = FlushFlow(Pick(s), e[s \ {Pick(s)}])
    BY <1>7, <1>10
  <2>2. Pick(s) \in s
    BY <1>2, <1>10
  <2>3. SUFFICES ASSUME e[s \ {Pick(s)}] \in P[s \ {Pick(s)}] PROVE e[s] \in P[s]
    <3> HIDE DEF Step
    <3> QED BY <2>2
  <2> DEFINE t == s \ {Pick(s)}
             x == Pick(s)
  <2>4. t \in SUBSET S /\ x \in S \ t /\ t \cup {x} = s /\ e[t] \in P[t] /\ e[s] = FlushFlow(x, e[t])
    <3> HIDE DEF Step
    <3> QED BY <2>1, <2>2, <2>3
  <2> HIDE DEF Step, t, x
  <2> QED BY <2>4
<1>11. e[S] \in P[S]
  <2> HIDE DEF Step
  <2> QED BY <1>9, <1>10, FoldFollows
<1> QED BY <1>8, <1>11

LEMMA CloseFollows ==
  ASSUME NEW S, IsFiniteSet(S), NEW G, NEW r \in G, \A x \in S : \A y \in G : CloseFlow(x, y) \in G,
         NEW P, r \in P[{}],
         \A t \in SUBSET S : \A x \in S \ t : \A y \in P[t] : CloseFlow(x, y) \in P[t \cup {x}]
  PROVE  FoldSet(CloseFlow, r, S) \in P[S]
<1> DEFINE F == [p \in S \X G |-> CloseFlow(p[1], p[2])]
           c == [s \in SUBSET S |-> Pick(s)]
           Step(h) == h = [s \in SUBSET S |-> IF s = {} THEN r ELSE CloseFlow(Pick(s), h[s \ {Pick(s)}])]
           e == CHOOSE h : Step(h)
<1>1. F \in [S \X G -> G]
  OBVIOUS
<1>2. \A s \in SUBSET S : s # {} => Pick(s) \in s
  BY DEF Pick
<1>3. \A s \in SUBSET S : c[s] = Pick(s)
  OBVIOUS
<1>4. \A s \in SUBSET S : s # {} => c[s] \in s
  BY <1>2, <1>3
<1>5. PICK h \in [SUBSET S -> G] : Folding(F, r, c, SUBSET S, h)
  <2> HIDE DEF F, c
  <2> QED BY <1>1, <1>4, FoldingExists
<1>6. Step(h)
  <2>1. ASSUME NEW s \in SUBSET S, s # {}
        PROVE  F[<<c[s], h[s \ {c[s]}]>>] = CloseFlow(Pick(s), h[s \ {Pick(s)}])
    <3>1. <<Pick(s), h[s \ {Pick(s)}]>> \in S \X G /\ c[s] = Pick(s)
      BY <1>2, <1>3, <1>5, <2>1
    <3> QED BY <3>1
  <2> QED BY <1>5, <2>1 DEF Folding
<1>7. Step(e)
  BY <1>6
<1>8. FoldSet(CloseFlow, r, S) = e[S]
  BY DEF FoldSet, MapThenFoldSet, Pick
<1> HIDE DEF e
<1>9. e[{}] \in P[{}]
  BY <1>7
<1>10. ASSUME NEW s \in SUBSET S, s # {}
       PROVE  \E x \in s : e[s \ {x}] \in P[s \ {x}] => e[s] \in P[s]
  <2>1. e[s] = CloseFlow(Pick(s), e[s \ {Pick(s)}])
    BY <1>7, <1>10
  <2>2. Pick(s) \in s
    BY <1>2, <1>10
  <2>3. SUFFICES ASSUME e[s \ {Pick(s)}] \in P[s \ {Pick(s)}] PROVE e[s] \in P[s]
    <3> HIDE DEF Step
    <3> QED BY <2>2
  <2> DEFINE t == s \ {Pick(s)}
             x == Pick(s)
  <2>4. t \in SUBSET S /\ x \in S \ t /\ t \cup {x} = s /\ e[t] \in P[t] /\ e[s] = CloseFlow(x, e[t])
    <3> HIDE DEF Step
    <3> QED BY <2>1, <2>2, <2>3
  <2> HIDE DEF Step, t, x
  <2> QED BY <2>4
<1>11. e[S] \in P[S]
  <2> HIDE DEF Step
  <2> QED BY <1>9, <1>10, FoldFollows
<1> QED BY <1>8, <1>11

LEMMA ReplayGoes ==
  ASSUME NEW E, NEW q \in Seq(E), NEW G, NEW r \in G,
         \A x \in E : \A y \in G : ReplayEvent(y, x) \in G,
         NEW P, r \in P[0],
         \A k \in 0 .. Len(q) - 1 : \A y \in G : y \in P[k] => ReplayEvent(y, q[k + 1]) \in P[k + 1]
  PROVE  FoldLeft(ReplayEvent, r, q) \in P[Len(q)]
<1> DEFINE S == DOMAIN q
           F == [p \in S \X G |-> ReplayEvent(p[2], q[p[1]])]
           c == [s \in SUBSET S |-> Max(s)]
           Step(h) == h = [s \in SUBSET S |-> IF s = {} THEN r ELSE ReplayEvent(h[s \ {Max(s)}], q[Max(s)])]
           e == CHOOSE h : Step(h)
<1>1. IsFiniteSet(S) /\ S = 1 .. Len(q) /\ Len(q) \in Nat /\ \A i \in S : q[i] \in E
  <2> DEFINE n == Len(q)
  <2>1. S = 1 .. n /\ n \in Nat /\ \A i \in S : q[i] \in E
    OBVIOUS
  <2> HIDE DEF n
  <2>2. IsFiniteSet(1 .. n)
    BY <2>1, FS_Interval
  <2> QED BY <2>1, <2>2 DEF n
<1>2. F \in [S \X G -> G]
  BY <1>1
<1>3. \A s \in SUBSET S : s # {} => Max(s) \in s /\ \A y \in s : Max(s) >= y
  BY <1>1, MaxIsIn
<1>4. \A s \in SUBSET S : c[s] = Max(s)
  OBVIOUS
<1>5. \A s \in SUBSET S : s # {} => c[s] \in s
  BY <1>3, <1>4
<1>6. PICK h \in [SUBSET S -> G] : Folding(F, r, c, SUBSET S, h)
  <2> HIDE DEF F, c, S
  <2> QED BY <1>1, <1>2, <1>5, FoldingExists
<1>7. Step(h)
  <2>1. ASSUME NEW s \in SUBSET S, s # {}
        PROVE  F[<<c[s], h[s \ {c[s]}]>>] = ReplayEvent(h[s \ {Max(s)}], q[Max(s)])
    <3>1. <<Max(s), h[s \ {Max(s)}]>> \in S \X G /\ c[s] = Max(s)
      BY <1>3, <1>4, <1>6, <2>1
    <3> QED BY <3>1
  <2> QED BY <1>6, <2>1 DEF Folding
<1>8. Step(e)
  BY <1>7
<1>9. FoldLeft(ReplayEvent, r, q) = e[S]
  BY DEF FoldLeft, MapThenFoldSet
<1> HIDE DEF e
<1>10. e[{}] = r
  BY <1>8
<1>11. ASSUME NEW k \in 1 .. Len(q) PROVE e[1 .. k] = ReplayEvent(e[1 .. k - 1], q[k])
  <2>1. 1 .. k \in SUBSET S /\ k \in 1 .. k /\ k \in Nat
    <3>1. \A x \in 1 .. k : x \in S
      BY <1>1, <1>11
    <3> QED BY <1>11, <3>1
  <2>2. Max(1 .. k) = k
    <3>1. Max(1 .. k) \in 1 .. k /\ Max(1 .. k) >= k
      <4> HIDE DEF S
      <4> QED BY <1>3, <2>1
    <3>2. Max(1 .. k) <= k /\ Max(1 .. k) \in Nat
      BY <2>1, <3>1
    <3> QED BY <2>1, <3>1, <3>2
  <2>3. (1 .. k) \ {k} = 1 .. k - 1
    BY <1>11
  <2>4. e[1 .. k] = ReplayEvent(e[(1 .. k) \ {Max(1 .. k)}], q[Max(1 .. k)])
    BY <1>8, <2>1
  <2> HIDE DEF Step
  <2> QED BY <2>2, <2>3, <2>4
<1> HIDE DEF Step, S
<1> DEFINE N == {k \in Nat : k <= Len(q) /\ ~(e[1 .. k] \in P[k] /\ e[1 .. k] \in G)}
<1>12. N = {}
  <2> SUFFICES ASSUME N # {} PROVE FALSE
    OBVIOUS
  <2>1. PICK k \in N : \A m \in N : k <= m
    BY LeastNatural
  <2>2. k # 0
    <3>1. 1 .. 0 = {}
      OBVIOUS
    <3> QED BY <1>10, <2>1, <3>1
  <2>3. k - 1 \in Nat /\ k - 1 \in 0 .. Len(q) - 1 /\ k - 1 \notin N /\ (k - 1) + 1 = k /\ k \in 1 .. Len(q)
    BY <1>1, <2>1, <2>2
  <2>4. e[1 .. k - 1] \in P[k - 1] /\ e[1 .. k - 1] \in G
    BY <1>1, <2>3
  <2> DEFINE j == k - 1
             y == e[1 .. k - 1]
  <2>5. j \in 0 .. Len(q) - 1 /\ y \in G /\ y \in P[j] /\ j + 1 = k /\ q[k] \in E
    BY <1>1, <2>3, <2>4
  <2>6. e[1 .. k] = ReplayEvent(y, q[k])
    BY <1>11, <2>3
  <2> HIDE DEF y, j
  <2>7. ReplayEvent(y, q[j + 1]) \in P[j + 1] /\ ReplayEvent(y, q[k]) \in G
    BY <2>5
  <2> QED BY <2>1, <2>5, <2>6, <2>7
<1>13. e[1 .. Len(q)] \in P[Len(q)]
  BY <1>1, <1>12
<1> QED BY <1>1, <1>9, <1>13

LEMMA KeptGoes ==
  ASSUME NEW E, NEW q \in Seq(E), NEW G, <<>> \in G, NEW f,
         \A x \in E : \A y \in G : (IF x.flow = f THEN y ELSE Append(y, x)) \in G,
         NEW P, <<>> \in P[0],
         \A k \in 0 .. Len(q) - 1 : \A y \in G :
           y \in P[k] => (IF q[k + 1].flow = f THEN y ELSE Append(y, q[k + 1])) \in P[k + 1]
  PROVE  EventsBut(q, f) \in P[Len(q)]
<1> DEFINE S == DOMAIN q
           F == [p \in S \X G |-> (IF q[p[1]].flow = f THEN p[2] ELSE Append(p[2], q[p[1]]))]
           c == [s \in SUBSET S |-> Max(s)]
           Step(h) == h = [s \in SUBSET S |->
                             IF s = {} THEN <<>>
                             ELSE (IF q[Max(s)].flow = f THEN h[s \ {Max(s)}]
                                   ELSE Append(h[s \ {Max(s)}], q[Max(s)]))]
           e == CHOOSE h : Step(h)
<1>1. IsFiniteSet(S) /\ S = 1 .. Len(q) /\ Len(q) \in Nat /\ \A i \in S : q[i] \in E
  <2>1. S = 1 .. Len(q) /\ Len(q) \in Nat /\ \A i \in S : q[i] \in E
    OBVIOUS
  <2>2. IsFiniteSet(1 .. Len(q))
    BY <2>1, FS_Interval
  <2> QED BY <2>1, <2>2
<1>2. F \in [S \X G -> G]
  BY <1>1
<1>3. \A s \in SUBSET S : s # {} => Max(s) \in s /\ \A y \in s : Max(s) >= y
  BY <1>1, MaxIsIn
<1>4. \A s \in SUBSET S : c[s] = Max(s)
  OBVIOUS
<1>5. \A s \in SUBSET S : s # {} => c[s] \in s
  BY <1>3, <1>4
<1>6. PICK h \in [SUBSET S -> G] : Folding(F, <<>>, c, SUBSET S, h)
  <2> HIDE DEF F, c, S
  <2> QED BY <1>1, <1>2, <1>5, FoldingExists
<1>7. Step(h)
  <2>1. ASSUME NEW s \in SUBSET S, s # {}
        PROVE  F[<<c[s], h[s \ {c[s]}]>>] = (IF q[Max(s)].flow = f THEN h[s \ {Max(s)}]
                                             ELSE Append(h[s \ {Max(s)}], q[Max(s)]))
    <3>1. <<Max(s), h[s \ {Max(s)}]>> \in S \X G /\ c[s] = Max(s)
      BY <1>3, <1>4, <1>6, <2>1
    <3> QED BY <3>1
  <2> QED BY <1>6, <2>1 DEF Folding
<1>8. Step(e)
  BY <1>7
<1>9. EventsBut(q, f) = e[S]
  BY DEF EventsBut, FoldLeft, MapThenFoldSet
<1> HIDE DEF e
<1>10. e[{}] = <<>>
  BY <1>8
<1>11. ASSUME NEW k \in 1 .. Len(q) PROVE e[1 .. k] = (IF q[k].flow = f THEN e[1 .. k - 1] ELSE Append(e[1 .. k - 1], q[k]))
  <2>1. 1 .. k \in SUBSET S /\ k \in 1 .. k /\ k \in Nat
    <3>1. \A x \in 1 .. k : x \in S
      BY <1>1, <1>11
    <3> QED BY <1>11, <3>1
  <2>2. Max(1 .. k) = k
    <3>1. Max(1 .. k) \in 1 .. k /\ Max(1 .. k) >= k
      <4> HIDE DEF S
      <4> QED BY <1>3, <2>1
    <3>2. Max(1 .. k) <= k /\ Max(1 .. k) \in Nat
      BY <2>1, <3>1
    <3> QED BY <2>1, <3>1, <3>2
  <2>3. (1 .. k) \ {k} = 1 .. k - 1
    BY <1>11
  <2>4. e[1 .. k] = (IF q[Max(1 .. k)].flow = f THEN e[(1 .. k) \ {Max(1 .. k)}]
                     ELSE Append(e[(1 .. k) \ {Max(1 .. k)}], q[Max(1 .. k)]))
    BY <1>8, <2>1
  <2> HIDE DEF Step
  <2> QED BY <2>2, <2>3, <2>4
<1> HIDE DEF Step, S
<1> DEFINE N == {k \in Nat : k <= Len(q) /\ ~(e[1 .. k] \in P[k] /\ e[1 .. k] \in G)}
<1>12. N = {}
  <2> SUFFICES ASSUME N # {} PROVE FALSE
    OBVIOUS
  <2>1. PICK k \in N : \A m \in N : k <= m
    BY LeastNatural
  <2>2. k # 0
    <3>1. 1 .. 0 = {}
      OBVIOUS
    <3> QED BY <1>10, <2>1, <3>1
  <2>3. k - 1 \in Nat /\ k - 1 \in 0 .. Len(q) - 1 /\ k - 1 \notin N /\ (k - 1) + 1 = k /\ k \in 1 .. Len(q)
    BY <1>1, <2>1, <2>2
  <2>4. e[1 .. k - 1] \in P[k - 1] /\ e[1 .. k - 1] \in G
    BY <1>1, <2>3
  <2> DEFINE j == k - 1
             y == e[1 .. k - 1]
  <2>5. j \in 0 .. Len(q) - 1 /\ y \in G /\ y \in P[j] /\ j + 1 = k /\ q[k] \in E
    BY <1>1, <2>3, <2>4
  <2>6. e[1 .. k] = (IF q[k].flow = f THEN y ELSE Append(y, q[k]))
    BY <1>11, <2>3
  <2> HIDE DEF y, j
  <2>7. /\ (IF q[j + 1].flow = f THEN y ELSE Append(y, q[j + 1])) \in P[j + 1]
        /\ (IF q[k].flow = f THEN y ELSE Append(y, q[k])) \in G
    BY <2>5
  <2> QED BY <2>1, <2>5, <2>6, <2>7
<1>13. e[1 .. Len(q)] \in P[Len(q)]
  BY <1>1, <1>12
<1> QED BY <1>1, <1>9, <1>13

(* A stream without the first position of its queue.                       *)
LEMMA RunsTail ==
  ASSUME NEW v, NEW w, NEW l \in Nat \ {0}, NEW a, NEW b, Runs(v, l, a, b),
         DOMAIN v \subseteq Nat \ {0}, DOMAIN w \subseteq Nat \ {0},
         \A i \in DOMAIN w : i + 1 \in DOMAIN v /\ w[i] = v[i + 1],
         \A j \in DOMAIN v : j # 1 => j - 1 \in DOMAIN w
  PROVE  /\ 1 \in DOMAIN v => v[1] = a /\ Runs(w, l, a + l, b)
         /\ 1 \notin DOMAIN v => Runs(w, l, a, b)
<1> DEFINE u == [i \in DOMAIN v \ {1} |-> v[i]]
           p == [i \in DOMAIN w |-> i + 1]
<1>1. ASSUME NEW c, Runs(u, l, c, b) PROVE Runs(w, l, c, b)
  <2>1. \A i \in DOMAIN w : p[i] \in DOMAIN u /\ w[i] = u[p[i]]
    <3> TAKE i \in DOMAIN w
    <3>1. p[i] = i + 1 /\ i + 1 # 1 /\ i + 1 \in DOMAIN v
      OBVIOUS
    <3> QED BY <3>1
  <2>2. \A i, j \in DOMAIN w : i < j => p[i] < p[j]
    OBVIOUS
  <2>3. \A j \in DOMAIN u : \E i \in DOMAIN w : p[i] = j
    <3> TAKE j \in DOMAIN u
    <3>1. j \in DOMAIN v /\ j # 1 /\ j - 1 \in DOMAIN w /\ (j - 1) + 1 = j
      OBVIOUS
    <3> QED BY <3>1
  <2>4. DOMAIN u \subseteq Nat /\ DOMAIN w \subseteq Nat
    OBVIOUS
  <2> HIDE DEF u, p
  <2> QED BY <1>1, <2>1, <2>2, <2>3, <2>4, RunsSame
<1>2. CASE 1 \in DOMAIN v
  <2>1. \A i \in DOMAIN v : 1 <= i
    OBVIOUS
  <2>2. DOMAIN u = DOMAIN v \ {1} /\ (\A i \in DOMAIN u : u[i] = v[i]) /\ DOMAIN v \subseteq Nat
    OBVIOUS
  <2> HIDE DEF u
  <2>3. v[1] = a /\ Runs(u, l, a + l, b)
    BY <1>2, <2>1, <2>2, RunsFirst
  <2> QED BY <1>1, <1>2, <2>3
<1>3. CASE 1 \notin DOMAIN v
  <2>1. DOMAIN u = DOMAIN v /\ \A i \in DOMAIN u : u[i] = v[i]
    BY <1>3
  <2> HIDE DEF u
  <2>2. Runs(u, l, a, b)
    BY <2>1 DEF Runs
  <2> QED BY <1>1, <1>3, <2>2
<1> QED BY <1>2, <1>3

(* A stream whose positions all move by k.                                 *)
LEMMA RunsMoved ==
  ASSUME NEW v, NEW w, NEW l \in Nat, NEW a, NEW b, Runs(v, l, a, b), NEW k \in Nat,
         DOMAIN v \subseteq Nat, DOMAIN w \subseteq Nat,
         \A i \in DOMAIN w : i + k \in DOMAIN v /\ w[i] = v[i + k],
         \A j \in DOMAIN v : j >= k /\ j - k \in DOMAIN w
  PROVE  Runs(w, l, a, b)
<1> DEFINE p == [i \in DOMAIN w |-> i + k]
<1>1. \A i \in DOMAIN w : p[i] \in DOMAIN v /\ w[i] = v[p[i]]
  OBVIOUS
<1>2. \A i, j \in DOMAIN w : i < j => p[i] < p[j]
  OBVIOUS
<1>3. \A j \in DOMAIN v : \E i \in DOMAIN w : p[i] = j
  <2> TAKE j \in DOMAIN v
  <2>1. j - k \in DOMAIN w /\ (j - k) + k = j
    OBVIOUS
  <2> QED BY <2>1
<1> HIDE DEF p
<1> QED BY <1>1, <1>2, <1>3, RunsSame, SMTT(40)

-----------------------------------------------------------------------------
(* The numbers the positions of a queue stand for: the units of generation *)
(* g in what a socket got, the chunks of a task's flow in the outputs, the *)
(* commands of a task and the events that feed one.  A half-close is the   *)
(* number after the last one sent.                                         *)
UnitsIn(s, g) == [i \in {j \in DOMAIN s : s[j][1] = g} |-> s[i][2] - 1]
From(o) == o.payload[1][2] - 1
ChunksIn(outs, h, g) == [i \in {j \in DOMAIN outs : Chunk(outs[j], h, g)} |-> From(outs[i])]
Mark(c, top) == IF c \in 1 .. top THEN c - 1 ELSE -1
CommandsIn(c, top) == [i \in DOMAIN c |-> IF c[i] = 0 THEN top ELSE Mark(c[i], top)]
Feeds(e, h) == e.flow = h /\ e.kind \in {"data", "half"}
FeedsIn(q, h, top) ==
  [i \in {j \in DOMAIN q : Feeds(q[j], h)} |-> IF q[i].kind = "half" THEN top ELSE Mark(q[i].n, top)]
Total(n, fin) == IF fin THEN n + 1 ELSE n
Written(t) == IF t.writeClosed THEN Len(t.forwarded) + 1 ELSE Len(t.forwarded)

(* What the socket of flow h got and what waits for it.                    *)
Stream(r, h) == r.sock[h].got \o r.pending[h]

(* What task t read is in stream s, and then in the outputs, after what    *)
(* earlier tasks of the key left.                                          *)
Download(t, s, outs, h) ==
  /\ \E b \in Nat : /\ Runs(UnitsIn(s, t.gen), 1, 0, b)
                    /\ Runs(ChunksIn(outs, h, t.gen), ChunkLen, b, t.emitted)
  /\ LeftoversFirst(s, outs, h, t.gen)

(* What a client sent, n chunks and perhaps the end, is what task t wrote, *)
(* then its commands, then the events in q.                                *)
Upload(t, n, fin, q, h) ==
  /\ \A i \in DOMAIN t.forwarded : t.forwarded[i] = i
  /\ Len(t.forwarded) \in 0 .. n /\ (t.writeClosed => fin /\ Len(t.forwarded) = n)
  /\ \E b \in Nat : /\ Runs(CommandsIn(t.cmds, n), 1, Written(t), b)
                    /\ Runs(FeedsIn(q, h, n), 1, b, Total(n, fin))

(* A socket whose opening waits in q has all that it sent behind it.       *)
Opening(k, q, h) ==
  \A i \in DOMAIN q : q[i].flow = h /\ q[i].kind = "opened" =>
    /\ k.gen = 0 /\ \A j \in DOMAIN q : j < i => q[j].flow # h
    /\ Runs(FeedsIn(q, h, k.sent), 1, 0, Total(k.sent, k.fin))

Dated(r, h) ==
  /\ r.sock[h].gen <= r.gens /\ (r.sock[h].st = "none" => r.sock[h].gen = 0)
  /\ h \in DOMAIN r.task => 0 < r.task[h].gen /\ r.task[h].gen <= r.gens
  /\ \A i \in DOMAIN Stream(r, h) : Stream(r, h)[i][1] <= r.gens
Settled(r, q, h) == Dated(r, h) /\ (r.sock[h].st # "none" => Opening(r.sock[h], q, h))

Served(r, h) == h \in DOMAIN r.task /\ r.task[h].gen = r.sock[h].gen
Streams(r, q, outs, h) ==
  Served(r, h) => /\ Download(r.task[h], Stream(r, h), outs, h)
                  /\ Upload(r.task[h], r.sock[h].sent, r.sock[h].fin, q, h)

(* A chunk in the outputs is whole, and of a task that was spawned.        *)
Shaped(outs, n) ==
  \A i \in DOMAIN outs : outs[i].kind = "data" =>
    /\ outs[i].gen <= n /\ From(outs[i]) \in Nat
    /\ outs[i].payload = Units(outs[i].gen, From(outs[i]), ChunkLen)

(* After the pending bytes were written, what is left found no room.       *)
Drained(r, h) == Writable(r, h) /\ r.pending[h] # <<>> => r.sock[h].tx = TxCap

(* The units of two sequences that are put together.                       *)
LEMMA UnitsTogether ==
  ASSUME NEW s \in Seq(Unit), NEW u \in Seq(Unit), NEW g
  PROVE  LET v == UnitsIn(s, g)
             w == UnitsIn(u, g)
             x == UnitsIn(s \o u, g)
             k == Len(s) IN
         /\ k \in Nat /\ DOMAIN v \subseteq Nat /\ DOMAIN w \subseteq Nat /\ DOMAIN x \subseteq Nat
         /\ \A i \in DOMAIN v : i <= k /\ i \in DOMAIN x /\ x[i] = v[i]
         /\ \A i \in DOMAIN w : i + k \in DOMAIN x /\ i >= 1 /\ x[i + k] = w[i]
         /\ \A i \in DOMAIN x : \/ i \in DOMAIN v /\ i <= k
                                \/ i > k /\ i - k \in DOMAIN w /\ i \notin DOMAIN v
<1> DEFINE k == Len(s)
           m == Len(u)
           t == s \o u
<1>1. k \in Nat /\ m \in Nat /\ DOMAIN s = 1 .. k /\ DOMAIN u = 1 .. m
  OBVIOUS
<1>2. /\ t \in Seq(Unit) /\ Len(t) = k + m
      /\ \A i \in 1 .. k + m : t[i] = IF i <= k THEN s[i] ELSE u[i - k]
  BY ConcatProperties
<1>3. DOMAIN t = 1 .. k + m
  BY <1>2
<1> HIDE DEF t, k, m
<1>4. \A i \in 1 .. k : i \in DOMAIN t /\ t[i] = s[i] /\ i <= k
  BY <1>1, <1>2, <1>3
<1>5. \A i \in 1 .. m : i + k \in DOMAIN t /\ t[i + k] = u[i] /\ i >= 1
  <2> TAKE i \in 1 .. m
  <2>1. i + k \in 1 .. k + m /\ ~(i + k <= k) /\ (i + k) - k = i /\ i >= 1
    BY <1>1
  <2> QED BY <1>2, <1>3, <2>1
<1>6. \A i \in DOMAIN t : \/ i \in 1 .. k /\ t[i] = s[i]
                          \/ i > k /\ i - k \in 1 .. m /\ t[i] = u[i - k] /\ i \notin 1 .. k
  BY <1>1, <1>2, <1>3
<1>7. \A i \in DOMAIN UnitsIn(s, g) : i <= k /\ i \in DOMAIN UnitsIn(t, g) /\ UnitsIn(t, g)[i] = UnitsIn(s, g)[i]
  BY <1>1, <1>4 DEF UnitsIn
<1>8. \A i \in DOMAIN UnitsIn(u, g) : /\ i + k \in DOMAIN UnitsIn(t, g) /\ i >= 1
                                      /\ UnitsIn(t, g)[i + k] = UnitsIn(u, g)[i]
  BY <1>1, <1>5 DEF UnitsIn
<1>9. \A i \in DOMAIN UnitsIn(t, g) : \/ i \in DOMAIN UnitsIn(s, g) /\ i <= k
                                      \/ i > k /\ i - k \in DOMAIN UnitsIn(u, g) /\ i \notin DOMAIN UnitsIn(s, g)
  <2> TAKE i \in DOMAIN UnitsIn(t, g)
  <2>1. i \in DOMAIN t /\ t[i][1] = g
    BY DEF UnitsIn
  <2>2. CASE i \in 1 .. k /\ t[i] = s[i]
    BY <1>1, <2>1, <2>2 DEF UnitsIn
  <2>3. CASE i > k /\ i - k \in 1 .. m /\ t[i] = u[i - k] /\ i \notin 1 .. k
    BY <1>1, <2>1, <2>3 DEF UnitsIn
  <2> QED BY <1>6, <2>1, <2>2, <2>3
<1>10. /\ DOMAIN UnitsIn(s, g) \subseteq Nat /\ DOMAIN UnitsIn(u, g) \subseteq Nat
       /\ DOMAIN UnitsIn(t, g) \subseteq Nat
  BY <1>1, <1>2, <1>3 DEF UnitsIn
<1> QED BY <1>1, <1>7, <1>8, <1>9, <1>10 DEF k, t

LEMMA UnitsJoin ==
  ASSUME NEW s \in Seq(Unit), NEW u \in Seq(Unit), NEW g, NEW a, NEW b, NEW c,
         Runs(UnitsIn(s, g), 1, a, c), Runs(UnitsIn(u, g), 1, c, b)
  PROVE  Runs(UnitsIn(s \o u, g), 1, a, b)
<1> DEFINE v == UnitsIn(s, g)
           w == UnitsIn(u, g)
           x == UnitsIn(s \o u, g)
           k == Len(s)
<1>1. /\ k \in Nat /\ DOMAIN v \subseteq Nat /\ DOMAIN w \subseteq Nat /\ DOMAIN x \subseteq Nat
      /\ \A i \in DOMAIN v : i <= k /\ i \in DOMAIN x /\ x[i] = v[i]
      /\ \A i \in DOMAIN w : i + k \in DOMAIN x /\ i >= 1 /\ x[i + k] = w[i]
      /\ \A i \in DOMAIN x : i \in DOMAIN v \/ (i > k /\ i - k \in DOMAIN w)
  BY UnitsTogether
<1>2. Runs(v, 1, a, c) /\ Runs(w, 1, c, b)
  OBVIOUS
<1> HIDE DEF v, w, x, k
<1>3. Runs(x, 1, a, b)
  BY <1>1, <1>2, RunsJoin
<1> QED BY <1>3 DEF x

LEMMA UnitsCut ==
  ASSUME NEW s \in Seq(Unit), NEW u \in Seq(Unit), NEW g, NEW a, NEW b, Runs(UnitsIn(s \o u, g), 1, a, b)
  PROVE  \E c \in Nat : Runs(UnitsIn(s, g), 1, a, c) /\ Runs(UnitsIn(u, g), 1, c, b)
<1> DEFINE v == UnitsIn(s, g)
           w == UnitsIn(u, g)
           x == UnitsIn(s \o u, g)
           k == Len(s)
           y == [i \in {j \in DOMAIN x : j > k} |-> x[i]]
<1>1. /\ k \in Nat /\ DOMAIN v \subseteq Nat /\ DOMAIN w \subseteq Nat /\ DOMAIN x \subseteq Nat
      /\ \A i \in DOMAIN v : i <= k /\ i \in DOMAIN x /\ x[i] = v[i]
      /\ \A i \in DOMAIN w : i + k \in DOMAIN x /\ i >= 1 /\ x[i + k] = w[i]
      /\ \A i \in DOMAIN x : \/ i \in DOMAIN v /\ i <= k
                             \/ i > k /\ i - k \in DOMAIN w /\ i \notin DOMAIN v
  BY UnitsTogether
<1>2. Runs(x, 1, a, b)
  OBVIOUS
<1> HIDE DEF v, w, x, k
<1>3. \A i \in DOMAIN v : i \in DOMAIN x /\ i <= k /\ v[i] = x[i]
  BY <1>1
<1>4. \A i \in DOMAIN y : i \in DOMAIN x /\ i > k /\ y[i] = x[i]
  OBVIOUS
<1>5. \A i \in DOMAIN x : (i <= k => i \in DOMAIN v) /\ (i > k => i \in DOMAIN y)
  BY <1>1
<1>6. /\ \A i \in DOMAIN w : i + k \in DOMAIN y /\ w[i] = y[i + k]
      /\ \A j \in DOMAIN y : j >= k /\ j - k \in DOMAIN w
      /\ DOMAIN y \subseteq Nat
  <2>1. \A i \in DOMAIN w : i + k > k /\ i + k \in DOMAIN x
    BY <1>1
  <2>2. \A j \in DOMAIN x : j > k => j - k \in DOMAIN w /\ j >= k
    BY <1>1
  <2> QED BY <1>1, <1>4, <2>1, <2>2
<1> HIDE DEF y
<1>7. PICK c \in Nat : Runs(v, 1, a, c) /\ Runs(y, 1, c, b)
  BY <1>1, <1>2, <1>3, <1>4, <1>5, RunsCut
<1>8. Runs(w, 1, c, b)
  BY <1>1, <1>6, <1>7, RunsMoved
<1> QED BY <1>7, <1>8 DEF v, w

(* A chunk is the next units of its own generation, and nothing to others. *)
LEMMA UnitsAre ==
  ASSUME NEW g \in Nat, NEW m \in Nat, NEW n \in Nat
  PROVE  /\ Units(g, m, n) \in Seq(Unit) /\ Len(Units(g, m, n)) = n
         /\ Runs(UnitsIn(Units(g, m, n), g), 1, m, m + n)
         /\ \A i \in DOMAIN Units(g, m, n) : Units(g, m, n)[i][1] = g
<1> DEFINE u == Units(g, m, n)
<1>1. DOMAIN u = 1 .. n /\ \A i \in 1 .. n : u[i] = <<g, m + i>>
  BY DEF Units
<1>2. \A i \in 1 .. n : u[i] \in Unit
  <2>1. \A i \in 1 .. n : <<g, m + i>> \in Unit
    BY DEF Unit
  <2> HIDE DEF u
  <2> QED BY <1>1, <2>1
<1>3. u \in [1 .. n -> Unit]
  BY <1>1, <1>2 DEF Units
<1>4. u \in Seq(Unit) /\ Len(u) = n
  BY <1>3
<1> HIDE DEF u
<1> DEFINE v == UnitsIn(u, g)
<1>5. DOMAIN v = 1 .. n /\ \A i \in 1 .. n : v[i] = m + i - 1
  <2>1. \A i \in 1 .. n : u[i][1] = g /\ u[i][2] = m + i
    BY <1>1
  <2> QED BY <1>1, <2>1 DEF UnitsIn
<1> HIDE DEF v
<1>6. \A x \in m + 1 .. m + n : x - m \in 1 .. n /\ v[x - m] < x /\ x <= v[x - m] + 1
  BY <1>5
<1>7. Runs(v, 1, m, m + n)
  <2>1. \A i \in DOMAIN v : v[i] \in Nat /\ m <= v[i] /\ v[i] + 1 <= m + n
    BY <1>5
  <2>2. \A x \in m + 1 .. m + n : \E i \in DOMAIN v : v[i] < x /\ x <= v[i] + 1
    BY <1>5, <1>6
  <2>3. \A i, j \in DOMAIN v : i < j => v[i] + 1 <= v[j]
    BY <1>5
  <2>4. m + n \in Nat /\ m <= m + n
    OBVIOUS
  <2> QED BY <2>1, <2>2, <2>3, <2>4 DEF Runs
<1> QED BY <1>1, <1>4, <1>7 DEF u, v

-----------------------------------------------------------------------------
(* The queues a stream passes: what is taken from the front and put at the *)
(* back.                                                                   *)
LEMMA QueueTail ==
  ASSUME NEW X, NEW q \in Seq(X), q # <<>>
  PROVE  /\ Tail(q) \in Seq(X) /\ Head(q) = q[1] /\ 1 \in DOMAIN q /\ DOMAIN q \subseteq Nat \ {0}
         /\ DOMAIN Tail(q) \subseteq Nat \ {0}
         /\ \A i \in DOMAIN Tail(q) : i + 1 \in DOMAIN q /\ Tail(q)[i] = q[i + 1]
         /\ \A j \in DOMAIN q : j # 1 => j - 1 \in DOMAIN Tail(q) /\ Tail(q)[j - 1] = q[j]
<1>1. Len(q) \in Nat /\ Len(q) # 0 /\ DOMAIN q = 1 .. Len(q) /\ Head(q) = q[1]
  BY EmptySeq
<1>2. Tail(q) \in Seq(X) /\ Len(Tail(q)) = Len(q) - 1 /\ \A i \in 1 .. Len(q) - 1 : Tail(q)[i] = q[i + 1]
  BY <1>1
<1>3. DOMAIN Tail(q) = 1 .. Len(q) - 1
  BY <1>2
<1>4. \A i \in 1 .. Len(q) - 1 : i + 1 \in 1 .. Len(q)
  BY <1>1
<1>5. \A j \in DOMAIN q : j # 1 => j - 1 \in 1 .. Len(q) - 1 /\ (j - 1) + 1 = j
  BY <1>1
<1> QED BY <1>1, <1>2, <1>3, <1>4, <1>5

LEMMA QueueAppend ==
  ASSUME NEW X, NEW q \in Seq(X), NEW e \in X
  PROVE  /\ Append(q, e) \in Seq(X) /\ DOMAIN Append(q, e) = DOMAIN q \cup {Len(q) + 1} /\ Len(q) + 1 \in Nat
         /\ Append(q, e)[Len(q) + 1] = e /\ \A i \in DOMAIN q : Append(q, e)[i] = q[i] /\ i < Len(q) + 1 /\ i \in Nat
<1>1. Len(q) \in Nat /\ DOMAIN q = 1 .. Len(q)
  OBVIOUS
<1>2. /\ Append(q, e) \in Seq(X) /\ Len(Append(q, e)) = Len(q) + 1
      /\ \A i \in 1 .. Len(q) : Append(q, e)[i] = q[i]
      /\ Append(q, e)[Len(q) + 1] = e
  BY AppendProperties
<1>3. DOMAIN Append(q, e) = 1 .. Len(q) + 1
  BY <1>2
<1> QED BY <1>1, <1>2, <1>3

LEMMA FeedsTail ==
  ASSUME NEW X, NEW q \in Seq(X), q # <<>>, NEW h, NEW top, NEW a, NEW b,
         Runs(FeedsIn(q, h, top), 1, a, b)
  PROVE  /\ Feeds(q[1], h) => /\ (IF q[1].kind = "half" THEN top ELSE Mark(q[1].n, top)) = a
                              /\ Runs(FeedsIn(Tail(q), h, top), 1, a + 1, b)
         /\ ~Feeds(q[1], h) => Runs(FeedsIn(Tail(q), h, top), 1, a, b)
<1> DEFINE v == FeedsIn(q, h, top)
           w == FeedsIn(Tail(q), h, top)
           t == Tail(q)
<1>1. /\ 1 \in DOMAIN q /\ DOMAIN q \subseteq Nat \ {0} /\ DOMAIN t \subseteq Nat \ {0}
      /\ \A i \in DOMAIN t : i + 1 \in DOMAIN q /\ t[i] = q[i + 1]
      /\ \A j \in DOMAIN q : j # 1 => j - 1 \in DOMAIN t /\ t[j - 1] = q[j]
  BY QueueTail
<1> HIDE DEF t
<1>2. DOMAIN v \subseteq Nat \ {0} /\ DOMAIN w \subseteq Nat \ {0}
  BY <1>1 DEF FeedsIn, t
<1>3. \A i \in DOMAIN w : i + 1 \in DOMAIN v /\ w[i] = v[i + 1]
  BY <1>1 DEF FeedsIn, t
<1>4. \A j \in DOMAIN v : j # 1 => j - 1 \in DOMAIN w
  BY <1>1 DEF FeedsIn, t
<1>5. /\ 1 \in DOMAIN v <=> Feeds(q[1], h)
      /\ Feeds(q[1], h) => v[1] = IF q[1].kind = "half" THEN top ELSE Mark(q[1].n, top)
  BY <1>1 DEF FeedsIn
<1>6. Runs(v, 1, a, b)
  OBVIOUS
<1> HIDE DEF v, w
<1>7. /\ 1 \in DOMAIN v => v[1] = a /\ Runs(w, 1, a + 1, b)
      /\ 1 \notin DOMAIN v => Runs(w, 1, a, b)
  BY <1>2, <1>3, <1>4, <1>6, RunsTail
<1> QED BY <1>5, <1>7 DEF w

LEMMA FeedsAppend ==
  ASSUME NEW X, NEW q \in Seq(X), NEW e \in X, NEW h, NEW top, NEW a, NEW b,
         Runs(FeedsIn(q, h, top), 1, a, b)
  PROVE  /\ ~Feeds(e, h) => Runs(FeedsIn(Append(q, e), h, top), 1, a, b)
         /\ Feeds(e, h) /\ (IF e.kind = "half" THEN top ELSE Mark(e.n, top)) = b
              => Runs(FeedsIn(Append(q, e), h, top), 1, a, b + 1)
<1> DEFINE v == FeedsIn(q, h, top)
           s == Append(q, e)
           w == FeedsIn(s, h, top)
           k == Len(q) + 1
<1>1. /\ DOMAIN s = DOMAIN q \cup {k} /\ k \in Nat
      /\ s[k] = e /\ \A i \in DOMAIN q : s[i] = q[i] /\ i < k /\ i \in Nat
  BY QueueAppend
<1> HIDE DEF s, k
<1>2. /\ DOMAIN v \subseteq Nat /\ \A i \in DOMAIN v : i < k /\ i \in DOMAIN w /\ w[i] = v[i]
      /\ \A i \in DOMAIN w : i \in DOMAIN v \/ i = k
  BY <1>1 DEF FeedsIn
<1>3. k \in DOMAIN w <=> Feeds(e, h)
  BY <1>1 DEF FeedsIn
<1>4. Runs(v, 1, a, b)
  OBVIOUS
<1>5. CASE ~Feeds(e, h)
  <2>1. DOMAIN w = DOMAIN v
    BY <1>2, <1>3, <1>5
  <2> HIDE DEF v, w
  <2>2. Runs(w, 1, a, b)
    BY <1>2, <1>4, <2>1, RunsEqual
  <2> QED BY <1>5, <2>2 DEF w, s
<1>6. CASE Feeds(e, h) /\ (IF e.kind = "half" THEN top ELSE Mark(e.n, top)) = b
  <2>1. w[k] = b
    BY <1>1, <1>3, <1>6 DEF FeedsIn
  <2>2. DOMAIN w = DOMAIN v \cup {k}
    BY <1>2, <1>3, <1>6
  <2> HIDE DEF v, w
  <2>3. Runs(w, 1, a, b + 1)
    BY <1>1, <1>2, <1>4, <2>1, <2>2, RunsAppend
  <2> QED BY <1>6, <2>3 DEF w, s
<1> QED BY <1>5, <1>6

(* A client that did not end sends one more: what is in the queues has the *)
(* same numbers.                                                           *)
LEMMA FeedsTop ==
  ASSUME NEW q, NEW h, NEW top \in Nat, NEW a, NEW b \in Nat, b <= top, Runs(FeedsIn(q, h, top), 1, a, b)
  PROVE  Runs(FeedsIn(q, h, top + 1), 1, a, b)
<1> DEFINE v == FeedsIn(q, h, top)
           w == FeedsIn(q, h, top + 1)
<1>1. DOMAIN v = DOMAIN w
  BY DEF FeedsIn
<1>2. ASSUME NEW i \in DOMAIN v PROVE w[i] = v[i]
  <2>1. v[i] \in Nat /\ v[i] + 1 <= b
    BY <1>2 DEF Runs
  <2>2. v[i] = IF q[i].kind = "half" THEN top ELSE Mark(q[i].n, top)
    BY <1>2 DEF FeedsIn
  <2>3. q[i].kind # "half" /\ v[i] = Mark(q[i].n, top)
    BY <2>1, <2>2
  <2>4. q[i].n \in 1 .. top /\ v[i] = q[i].n - 1
    BY <2>1, <2>3 DEF Mark
  <2>5. q[i].n \in 1 .. top + 1
    BY <2>4
  <2>6. Mark(q[i].n, top + 1) = q[i].n - 1
    BY <2>5 DEF Mark
  <2>7. w[i] = Mark(q[i].n, top + 1)
    BY <1>1, <1>2, <2>3 DEF FeedsIn
  <2> QED BY <2>4, <2>6, <2>7
<1>3. Runs(v, 1, a, b)
  OBVIOUS
<1> HIDE DEF v, w
<1>4. Runs(w, 1, a, b)
  BY <1>1, <1>2, <1>3 DEF Runs
<1> QED BY <1>4 DEF w

LEMMA CommandsTop ==
  ASSUME NEW c, NEW top \in Nat, NEW a, NEW b \in Nat, b <= top, Runs(CommandsIn(c, top), 1, a, b)
  PROVE  Runs(CommandsIn(c, top + 1), 1, a, b)
<1> DEFINE v == CommandsIn(c, top)
           w == CommandsIn(c, top + 1)
<1>1. DOMAIN v = DOMAIN w
  BY DEF CommandsIn
<1>2. ASSUME NEW i \in DOMAIN v PROVE w[i] = v[i]
  <2>1. v[i] \in Nat /\ v[i] + 1 <= b
    BY <1>2 DEF Runs
  <2>2. v[i] = IF c[i] = 0 THEN top ELSE Mark(c[i], top)
    BY <1>2 DEF CommandsIn
  <2>3. c[i] # 0 /\ v[i] = Mark(c[i], top)
    BY <2>1, <2>2
  <2>4. c[i] \in 1 .. top /\ v[i] = c[i] - 1
    BY <2>1, <2>3 DEF Mark
  <2>5. c[i] \in 1 .. top + 1
    BY <2>4
  <2>6. Mark(c[i], top + 1) = c[i] - 1
    BY <2>5 DEF Mark
  <2>7. w[i] = Mark(c[i], top + 1)
    BY <1>1, <1>2, <2>3 DEF CommandsIn
  <2> QED BY <2>4, <2>6, <2>7
<1>3. Runs(v, 1, a, b)
  OBVIOUS
<1> HIDE DEF v, w
<1>4. Runs(w, 1, a, b)
  BY <1>1, <1>2, <1>3 DEF Runs
<1> QED BY <1>4 DEF w

LEMMA CommandsMove ==
  ASSUME NEW c \in Seq(Nat), NEW top, NEW a, NEW b, Runs(CommandsIn(c, top), 1, a, b)
  PROVE  /\ c # <<>> => /\ (IF Head(c) = 0 THEN top ELSE Mark(Head(c), top)) = a
                        /\ Runs(CommandsIn(Tail(c), top), 1, a + 1, b)
         /\ \A x \in Nat : (IF x = 0 THEN top ELSE Mark(x, top)) = b
              => Runs(CommandsIn(Append(c, x), top), 1, a, b + 1)
<1> DEFINE v == CommandsIn(c, top)
<1>1. Runs(v, 1, a, b)
  OBVIOUS
<1>2. ASSUME c # <<>>
      PROVE  /\ (IF Head(c) = 0 THEN top ELSE Mark(Head(c), top)) = a
             /\ Runs(CommandsIn(Tail(c), top), 1, a + 1, b)
  <2> DEFINE t == Tail(c)
             w == CommandsIn(t, top)
  <2>1. /\ Head(c) = c[1] /\ 1 \in DOMAIN c /\ DOMAIN c \subseteq Nat \ {0} /\ DOMAIN t \subseteq Nat \ {0}
        /\ \A i \in DOMAIN t : i + 1 \in DOMAIN c /\ t[i] = c[i + 1]
        /\ \A j \in DOMAIN c : j # 1 => j - 1 \in DOMAIN t /\ t[j - 1] = c[j]
    BY <1>2, QueueTail
  <2> HIDE DEF t
  <2>2. /\ DOMAIN v \subseteq Nat \ {0} /\ DOMAIN w \subseteq Nat \ {0} /\ 1 \in DOMAIN v
        /\ \A i \in DOMAIN w : i + 1 \in DOMAIN v /\ w[i] = v[i + 1]
        /\ \A j \in DOMAIN v : j # 1 => j - 1 \in DOMAIN w
    BY <2>1 DEF CommandsIn
  <2>3. v[1] = IF Head(c) = 0 THEN top ELSE Mark(Head(c), top)
    BY <2>1 DEF CommandsIn
  <2> HIDE DEF v, w
  <2>4. v[1] = a /\ Runs(w, 1, a + 1, b)
    BY <1>1, <2>2, RunsTail
  <2> QED BY <2>3, <2>4 DEF w, t
<1>3. ASSUME NEW x \in Nat, (IF x = 0 THEN top ELSE Mark(x, top)) = b
      PROVE  Runs(CommandsIn(Append(c, x), top), 1, a, b + 1)
  <2> DEFINE t == Append(c, x)
             w == CommandsIn(t, top)
             k == Len(c) + 1
  <2>1. /\ DOMAIN t = DOMAIN c \cup {k} /\ k \in Nat
        /\ t[k] = x /\ \A i \in DOMAIN c : t[i] = c[i] /\ i < k /\ i \in Nat
    BY QueueAppend
  <2> HIDE DEF t, k
  <2>2. /\ DOMAIN v \subseteq Nat /\ (\A i \in DOMAIN v : i < k /\ w[i] = v[i])
        /\ DOMAIN w = DOMAIN v \cup {k}
    BY <2>1 DEF CommandsIn
  <2>3. w[k] = b
    BY <1>3, <2>1 DEF CommandsIn
  <2> HIDE DEF v, w
  <2>4. Runs(w, 1, a, b + 1)
    BY <1>1, <2>1, <2>2, <2>3, RunsAppend
  <2> QED BY <2>4 DEF w, t
<1> QED BY <1>2, <1>3

LEMMA ChunksMove ==
  ASSUME NEW o \in Seq(OutputRecord), NEW h, NEW g, NEW a, NEW b, Runs(ChunksIn(o, h, g), ChunkLen, a, b)
  PROVE  /\ o # <<>> /\ Chunk(Head(o), h, g) => /\ From(Head(o)) = a
                                                /\ Runs(ChunksIn(Tail(o), h, g), ChunkLen, a + ChunkLen, b)
         /\ o # <<>> /\ ~Chunk(Head(o), h, g) => Runs(ChunksIn(Tail(o), h, g), ChunkLen, a, b)
         /\ \A x \in OutputRecord : ~Chunk(x, h, g) => Runs(ChunksIn(Append(o, x), h, g), ChunkLen, a, b)
         /\ \A x \in OutputRecord : Chunk(x, h, g) /\ From(x) = b
              => Runs(ChunksIn(Append(o, x), h, g), ChunkLen, a, b + ChunkLen)
<1> DEFINE v == ChunksIn(o, h, g)
<1>1. Runs(v, ChunkLen, a, b) /\ ChunkLen \in Nat \ {0} /\ ChunkLen \in Nat
  BY TunTcpAssumption
<1>2. ASSUME o # <<>>
      PROVE  /\ Chunk(Head(o), h, g) => /\ From(Head(o)) = a
                                        /\ Runs(ChunksIn(Tail(o), h, g), ChunkLen, a + ChunkLen, b)
             /\ ~Chunk(Head(o), h, g) => Runs(ChunksIn(Tail(o), h, g), ChunkLen, a, b)
  <2> DEFINE t == Tail(o)
             w == ChunksIn(t, h, g)
  <2>1. /\ Head(o) = o[1] /\ 1 \in DOMAIN o /\ DOMAIN o \subseteq Nat \ {0} /\ DOMAIN t \subseteq Nat \ {0}
        /\ \A i \in DOMAIN t : i + 1 \in DOMAIN o /\ t[i] = o[i + 1]
        /\ \A j \in DOMAIN o : j # 1 => j - 1 \in DOMAIN t /\ t[j - 1] = o[j]
    BY <1>2, QueueTail
  <2> HIDE DEF t
  <2>2. /\ DOMAIN v \subseteq Nat \ {0} /\ DOMAIN w \subseteq Nat \ {0}
        /\ \A i \in DOMAIN w : i + 1 \in DOMAIN v /\ w[i] = v[i + 1]
        /\ \A j \in DOMAIN v : j # 1 => j - 1 \in DOMAIN w
    BY <2>1 DEF ChunksIn
  <2>3. (1 \in DOMAIN v <=> Chunk(Head(o), h, g)) /\ (1 \in DOMAIN v => v[1] = From(Head(o)))
    BY <2>1 DEF ChunksIn
  <2> HIDE DEF v, w
  <2>4. /\ 1 \in DOMAIN v => v[1] = a /\ Runs(w, ChunkLen, a + ChunkLen, b)
        /\ 1 \notin DOMAIN v => Runs(w, ChunkLen, a, b)
    BY <1>1, <2>2, RunsTail
  <2> QED BY <2>3, <2>4 DEF w, t
<1>3. ASSUME NEW x \in OutputRecord
      PROVE  /\ ~Chunk(x, h, g) => Runs(ChunksIn(Append(o, x), h, g), ChunkLen, a, b)
             /\ Chunk(x, h, g) /\ From(x) = b => Runs(ChunksIn(Append(o, x), h, g), ChunkLen, a, b + ChunkLen)
  <2> DEFINE t == Append(o, x)
             w == ChunksIn(t, h, g)
             k == Len(o) + 1
  <2>1. /\ DOMAIN t = DOMAIN o \cup {k} /\ k \in Nat
        /\ t[k] = x /\ \A i \in DOMAIN o : t[i] = o[i] /\ i < k /\ i \in Nat
    BY QueueAppend
  <2> HIDE DEF t, k
  <2>2. /\ DOMAIN v \subseteq Nat /\ (\A i \in DOMAIN v : i < k /\ i \in DOMAIN w /\ w[i] = v[i])
        /\ \A i \in DOMAIN w : i \in DOMAIN v \/ i = k
    BY <2>1 DEF ChunksIn
  <2>3. (k \in DOMAIN w <=> Chunk(x, h, g)) /\ (k \in DOMAIN w => w[k] = From(x))
    BY <2>1 DEF ChunksIn
  <2> HIDE DEF v, w
  <2>4. CASE ~Chunk(x, h, g)
    <3>1. DOMAIN w = DOMAIN v
      BY <2>2, <2>3, <2>4
    <3>2. Runs(w, ChunkLen, a, b)
      BY <1>1, <2>2, <3>1, RunsEqual
    <3> QED BY <2>4, <3>2 DEF w, t
  <2>5. CASE Chunk(x, h, g) /\ From(x) = b
    <3>1. DOMAIN w = DOMAIN v \cup {k} /\ w[k] = b
      BY <2>2, <2>3, <2>5
    <3>2. Runs(w, ChunkLen, a, b + ChunkLen)
      BY <1>1, <2>1, <2>2, <3>1, RunsAppend
    <3> QED BY <2>5, <3>2 DEF w, t
  <2> QED BY <2>4, <2>5
<1> QED BY <1>2, <1>3


-----------------------------------------------------------------------------
(* The opening of a socket and what follows it in the queue.               *)
LEMMA RunsSkip ==
  ASSUME NEW v, NEW w, NEW l \in Nat, NEW a, NEW b, Runs(v, l, a, b), NEW m \in Nat,
         DOMAIN v \subseteq Nat, DOMAIN w \subseteq Nat, m \notin DOMAIN v,
         \A i \in DOMAIN w : i < m => i \in DOMAIN v /\ w[i] = v[i],
         \A i \in DOMAIN w : i >= m => i + 1 \in DOMAIN v /\ w[i] = v[i + 1],
         \A j \in DOMAIN v : (j < m => j \in DOMAIN w) /\ (j > m => j - 1 \in DOMAIN w)
  PROVE  Runs(w, l, a, b)
<1> DEFINE p == [i \in DOMAIN w |-> IF i < m THEN i ELSE i + 1]
<1>1. \A i \in DOMAIN w : p[i] \in DOMAIN v /\ w[i] = v[p[i]]
  <2> TAKE i \in DOMAIN w
  <2>1. (i < m => p[i] = i) /\ (i >= m => p[i] = i + 1) /\ (i < m \/ i >= m)
    OBVIOUS
  <2> HIDE DEF p
  <2>2. CASE i < m
    <3>1. i < m => i \in DOMAIN v /\ w[i] = v[i]
      OBVIOUS
    <3>2. i \in DOMAIN v /\ w[i] = v[i] /\ p[i] = i
      BY ONLY <2>1, <2>2, <3>1
    <3> QED BY ONLY <3>2
  <2>3. CASE i >= m
    <3>1. i + 1 \in DOMAIN v /\ w[i] = v[i + 1] /\ p[i] = i + 1
      BY <2>1, <2>3
    <3> QED BY ONLY <3>1
  <2> QED BY ONLY <2>1, <2>2, <2>3
<1>2. \A i, j \in DOMAIN w : i < j => p[i] < p[j]
  OBVIOUS
<1>3. \A j \in DOMAIN v : \E i \in DOMAIN w : p[i] = j
  <2> TAKE j \in DOMAIN v
  <2>1. j < m => j \in DOMAIN w /\ p[j] = j
    OBVIOUS
  <2>2. j > m => j - 1 \in DOMAIN w /\ p[j - 1] = j
    OBVIOUS
  <2>3. j < m \/ j > m
    OBVIOUS
  <2> HIDE DEF p
  <2> QED BY <2>1, <2>2, <2>3
<1> HIDE DEF p
<1> QED BY <1>1, <1>2, <1>3, RunsSame

LEMMA OpeningDrop ==
  ASSUME NEW X, NEW q \in Seq(X), NEW w \in Seq(X), NEW m \in DOMAIN q, Len(q) = Len(w) + 1,
         \A i \in DOMAIN w : w[i] = IF i < m THEN q[i] ELSE q[i + 1],
         NEW h, q[m].flow = h => \A i \in DOMAIN q : i < m => q[i].flow # h,
         NEW k, Opening(k, q, h)
  PROVE  Opening(k, w, h)
<1> DEFINE p == [i \in DOMAIN w |-> IF i < m THEN i ELSE i + 1]
<1>1. DOMAIN q = 1 .. Len(w) + 1 /\ DOMAIN w = 1 .. Len(w) /\ Len(w) \in Nat /\ m \in Nat
  OBVIOUS
<1>2. /\ \A i \in DOMAIN w : p[i] \in DOMAIN q /\ w[i] = q[p[i]] /\ p[i] # m /\ (i < m => p[i] = i) /\ p[i] \in Nat
      /\ \A i, j \in DOMAIN w : i < j => p[i] < p[j]
      /\ \A j \in DOMAIN q : j # m => \E i \in DOMAIN w : p[i] = j
  <2>1. /\ \A i \in DOMAIN w : p[i] \in DOMAIN q /\ w[i] = q[p[i]] /\ p[i] # m /\ (i < m => p[i] = i) /\ p[i] \in Nat
        /\ \A i, j \in DOMAIN w : i < j => p[i] < p[j]
    BY <1>1
  <2>2. ASSUME NEW j \in DOMAIN q, j # m PROVE \E i \in DOMAIN w : p[i] = j
    <3>1. CASE j < m
      <4>1. j \in DOMAIN w /\ p[j] = j
        BY <1>1, <3>1
      <4> QED BY <4>1
    <3>2. CASE j > m
      <4>1. j - 1 \in DOMAIN w /\ p[j - 1] = j
        BY <1>1, <3>2
      <4> QED BY <4>1
    <3> QED BY <1>1, <2>2, <3>1, <3>2
  <2> QED BY <2>1, <2>2
<1> HIDE DEF p
<1>3. ASSUME NEW i \in DOMAIN w, w[i].flow = h, w[i].kind = "opened"
      PROVE  /\ k.gen = 0 /\ \A j \in DOMAIN w : j < i => w[j].flow # h
             /\ Runs(FeedsIn(w, h, k.sent), 1, 0, Total(k.sent, k.fin))
  <2>1. p[i] \in DOMAIN q /\ q[p[i]].flow = h /\ q[p[i]].kind = "opened" /\ p[i] # m /\ p[i] \in Nat
    BY <1>2, <1>3
  <2>2. /\ k.gen = 0 /\ \A j \in DOMAIN q : j < p[i] => q[j].flow # h
        /\ Runs(FeedsIn(q, h, k.sent), 1, 0, Total(k.sent, k.fin))
    BY <2>1 DEF Opening
  <2>3. \A j \in DOMAIN w : j < i => w[j].flow # h
    BY <1>2, <2>2
  <2>4. q[m].flow # h
    BY <1>1, <2>1, <2>2
  <2> DEFINE v == FeedsIn(q, h, k.sent)
             u == FeedsIn(w, h, k.sent)
             b == Total(k.sent, k.fin)
  <2>5. /\ DOMAIN v \subseteq Nat /\ DOMAIN u \subseteq Nat /\ m \notin DOMAIN v /\ m \in Nat
        /\ \A j \in DOMAIN u : j < m => j \in DOMAIN v /\ u[j] = v[j]
        /\ \A j \in DOMAIN u : j >= m => j + 1 \in DOMAIN v /\ u[j] = v[j + 1]
        /\ \A j \in DOMAIN v : (j < m => j \in DOMAIN u) /\ (j > m => j - 1 \in DOMAIN u)
    BY <1>1, <2>4, SMTT(40) DEF FeedsIn, Feeds
  <2>6. Runs(v, 1, 0, b)
    BY <2>2
  <2> HIDE DEF v, u, b
  <2>7. Runs(u, 1, 0, b)
    BY <2>5, <2>6, RunsSkip
  <2> QED BY <2>2, <2>3, <2>7 DEF u, b
<1> QED BY <1>3 DEF Opening

LEMMA OpeningTail ==
  ASSUME NEW X, NEW q \in Seq(X), q # <<>>, NEW h, NEW k, Opening(k, q, h)
  PROVE  Opening(k, Tail(q), h)
<1>1. /\ Tail(q) \in Seq(X) /\ 1 \in DOMAIN q /\ Len(q) = Len(Tail(q)) + 1
      /\ \A i \in DOMAIN Tail(q) : Tail(q)[i] = IF i < 1 THEN q[i] ELSE q[i + 1]
      /\ \A i \in DOMAIN q : ~(i < 1)
  OBVIOUS
<1> DEFINE w == Tail(q)
<1> HIDE DEF w
<1>2. Opening(k, w, h)
  BY <1>1, OpeningDrop DEF w
<1> QED BY <1>2 DEF w

(* Events of a flow are dropped from the ones that wait for a lookup.      *)
LEMMA OpeningKept ==
  ASSUME NEW X, NEW E \in Seq(X), NEW z \in Seq(X), NEW f, NEW h, NEW k, Opening(k, E \o z, h)
  PROVE  Opening(k, EventsBut(E, f) \o z, h)
<1> DEFINE G == Seq(X)
           rest(n) == SubSeq(E, n + 1, Len(E)) \o z
           P == [n \in 0 .. Len(E) |-> {y \in G : /\ \A i \in DOMAIN y : y[i].flow # f
                                                  /\ Opening(k, y \o rest(n), h)}]
<1>1. <<>> \in G /\ \A x \in X : \A y \in G : (IF x.flow = f THEN y ELSE Append(y, x)) \in G
  OBVIOUS
<1>2. <<>> \in P[0]
  <2>1. 0 \in 0 .. Len(E) /\ SubSeq(E, 0 + 1, Len(E)) = E
    <3>1. SubSeq(E, 1, Len(E)) = E
      BY SubSeqFull
    <3>2. 0 + 1 = 1 /\ 0 \in 0 .. Len(E)
      OBVIOUS
    <3> QED BY <3>1, <3>2
  <2>2. <<>> \o rest(0) = E \o z
    <3>1. E \o z \in Seq(X)
      OBVIOUS
    <3> DEFINE y == SubSeq(E, 0 + 1, Len(E))
    <3>2. y = E
      BY <2>1
    <3> HIDE DEF y
    <3>3. y \o z = E \o z
      BY <3>2
    <3>4. rest(0) = E \o z
      BY <3>3 DEF y
    <3> HIDE DEF rest
    <3> QED BY <3>1, <3>4
  <2>3. <<>> \in G /\ (\A i \in DOMAIN <<>> : <<>>[i].flow # f) /\ Opening(k, <<>> \o rest(0), h)
    <3> DEFINE y == <<>> \o rest(0)
    <3>1. y = E \o z
      BY <2>2
    <3> HIDE DEF y
    <3>2. Opening(k, y, h)
      BY <3>1
    <3>3. <<>> \in G /\ \A i \in DOMAIN <<>> : <<>>[i].flow # f
      OBVIOUS
    <3> QED BY <3>2, <3>3 DEF y
  <2> HIDE DEF rest, G
  <2> QED BY <2>1, <2>3
<1>3. ASSUME NEW n \in 0 .. Len(E) - 1, NEW y \in G, y \in P[n]
      PROVE  (IF E[n + 1].flow = f THEN y ELSE Append(y, E[n + 1])) \in P[n + 1]
  <2> DEFINE e == E[n + 1]
             t == SubSeq(E, n + 2, Len(E))
             q == y \o rest(n)
             w == y \o rest(n + 1)
  <2>1. /\ n \in Nat /\ n + 1 \in 1 .. Len(E) /\ n \in 0 .. Len(E) /\ n + 1 \in 0 .. Len(E)
        /\ n + 1 + 1 = n + 2 /\ e \in X
    BY <1>3
  <2>2. t \in Seq(X) /\ SubSeq(E, n + 1, Len(E)) = <<e>> \o t
    BY <2>1
  <2> DEFINE s == t \o z
  <2>3. s \in Seq(X) /\ rest(n) = <<e>> \o s /\ rest(n + 1) = s
    <3> HIDE DEF t
    <3>1. (<<e>> \o t) \o z = <<e>> \o s /\ s \in Seq(X)
      BY <2>1, <2>2, SMTT(40)
    <3> QED BY <2>1, <2>2, <3>1 DEF t
  <2>4. y \in Seq(X) /\ (\A i \in DOMAIN y : y[i].flow # f) /\ Opening(k, q, h)
    BY <1>3, <2>1
  <2> HIDE DEF e, t, s, rest
  <2>5. CASE e.flow = f
    <3>1. /\ q \in Seq(X) /\ w \in Seq(X) /\ Len(y) + 1 \in DOMAIN q /\ Len(q) = Len(w) + 1
          /\ q[Len(y) + 1] = e
          /\ \A i \in DOMAIN w : w[i] = IF i < Len(y) + 1 THEN q[i] ELSE q[i + 1]
          /\ \A i \in DOMAIN q : i < Len(y) + 1 => i \in DOMAIN y /\ q[i] = y[i]
      BY <2>1, <2>3, <2>4
    <3>2. q[Len(y) + 1].flow = h => \A i \in DOMAIN q : i < Len(y) + 1 => q[i].flow # h
      BY <2>4, <2>5, <3>1
    <3> HIDE DEF q, w
    <3>3. Opening(k, w, h)
      BY <2>4, <3>1, <3>2, OpeningDrop
    <3> QED BY <2>1, <2>4, <2>5, <3>3 DEF w, e
  <2>6. CASE e.flow # f
    <3>1. Append(y, e) \in Seq(X) /\ Append(y, e) \o s = y \o (<<e>> \o s)
      BY <2>1, <2>3, <2>4
    <3>2. \A i \in DOMAIN Append(y, e) : Append(y, e)[i].flow # f
      BY <2>1, <2>4, <2>6
    <3>3. Opening(k, Append(y, e) \o rest(n + 1), h)
      BY <2>3, <2>4, <3>1
    <3> QED BY <2>1, <2>6, <3>1, <3>2, <3>3 DEF e
  <2> QED BY <2>5, <2>6
<1>4. EventsBut(E, f) \in P[Len(E)]
  <2> HIDE DEF P, G
  <2>1. E \in Seq(X) /\ (\A n \in 0 .. Len(E) - 1 : \A y \in G : y \in P[n] =>
            (IF E[n + 1].flow = f THEN y ELSE Append(y, E[n + 1])) \in P[n + 1])
    BY <1>3
  <2> QED BY <1>1, <1>2, <2>1, KeptGoes
<1>5. Len(E) \in 0 .. Len(E) /\ SubSeq(E, Len(E) + 1, Len(E)) = <<>>
  OBVIOUS
<1>6. rest(Len(E)) = z
  BY <1>5
<1> QED BY <1>4, <1>5, <1>6

(* What the client of a flow sends next is put at the end of the queue.    *)
Sends(e, h, top, n, fin) ==
  /\ e.flow = h
  /\ \/ e.kind = "data" /\ e.n = top + 1 /\ n = top + 1 /\ fin = FALSE
     \/ e.kind = "half" /\ n = top /\ fin = TRUE

LEMMA FeedsGrow ==
  ASSUME NEW X, NEW q \in Seq(X), NEW e \in X, NEW h, NEW top \in Nat, NEW n, NEW fin, Sends(e, h, top, n, fin),
         NEW a, Runs(FeedsIn(q, h, top), 1, a, top)
  PROVE  Runs(FeedsIn(Append(q, e), h, n), 1, a, Total(n, fin))
<1>1. CASE e.kind = "data" /\ e.n = top + 1 /\ n = top + 1 /\ fin = FALSE
  <2>1. Runs(FeedsIn(q, h, top + 1), 1, a, top)
    BY FeedsTop
  <2>2. Feeds(e, h) /\ (IF e.kind = "half" THEN n ELSE Mark(e.n, n)) = top
    BY <1>1 DEF Feeds, Sends, Mark
  <2>3. Runs(FeedsIn(Append(q, e), h, n), 1, a, top + 1)
    BY <1>1, <2>1, <2>2, FeedsAppend
  <2>4. Total(n, fin) = top + 1
    BY <1>1 DEF Total
  <2> QED BY <2>3, <2>4
<1>2. CASE e.kind = "half" /\ n = top /\ fin = TRUE
  <2>1. Feeds(e, h) /\ (IF e.kind = "half" THEN n ELSE Mark(e.n, n)) = top
    BY <1>2 DEF Feeds, Sends
  <2>2. Runs(FeedsIn(Append(q, e), h, n), 1, a, top + 1)
    BY <1>2, <2>1, FeedsAppend
  <2>3. Total(n, fin) = top + 1
    BY <1>2 DEF Total
  <2> QED BY <2>2, <2>3
<1> QED BY <1>1, <1>2 DEF Sends

LEMMA OpeningMore ==
  ASSUME NEW X, NEW q \in Seq(X), NEW e \in X, NEW h, NEW k, Opening(k, q, h), e.flow # h
  PROVE  Opening(k, Append(q, e), h)
<1> DEFINE w == Append(q, e)
           m == Len(q) + 1
<1>1. /\ DOMAIN w = DOMAIN q \cup {m} /\ w[m] = e /\ \A i \in DOMAIN q : w[i] = q[i] /\ i < m /\ i \in Nat
  BY QueueAppend
<1>2. m \in Nat
  OBVIOUS
<1> HIDE DEF w, m
<1>3. ASSUME NEW i \in DOMAIN w, w[i].flow = h, w[i].kind = "opened"
      PROVE  /\ k.gen = 0 /\ \A j \in DOMAIN w : j < i => w[j].flow # h
             /\ Runs(FeedsIn(w, h, k.sent), 1, 0, Total(k.sent, k.fin))
  <2>1. i \in DOMAIN q /\ q[i].flow = h /\ q[i].kind = "opened"
    BY <1>1, <1>3
  <2>2. /\ k.gen = 0 /\ \A j \in DOMAIN q : j < i => q[j].flow # h
        /\ Runs(FeedsIn(q, h, k.sent), 1, 0, Total(k.sent, k.fin))
    BY <2>1 DEF Opening
  <2>3. \A j \in DOMAIN w : j < i => w[j].flow # h
    BY <1>1, <2>2
  <2>4. ~Feeds(e, h)
    BY DEF Feeds
  <2>5. Runs(FeedsIn(w, h, k.sent), 1, 0, Total(k.sent, k.fin))
    BY <2>2, <2>4, FeedsAppend DEF w
  <2> QED BY <2>2, <2>3, <2>5
<1>4. Opening(k, w, h)
  BY <1>3 DEF Opening
<1> QED BY <1>4 DEF w

LEMMA OpeningGrows ==
  ASSUME NEW X, NEW q \in Seq(X), NEW e \in X, NEW h, NEW k, Opening(k, q, h), NEW c,
         k.sent \in Nat, ~k.fin, c.gen = k.gen, Sends(e, h, k.sent, c.sent, c.fin)
  PROVE  Opening(c, Append(q, e), h)
<1> DEFINE w == Append(q, e)
           m == Len(q) + 1
<1>1. /\ DOMAIN w = DOMAIN q \cup {m} /\ w[m] = e /\ \A i \in DOMAIN q : w[i] = q[i] /\ i < m /\ i \in Nat
  BY QueueAppend
<1>2. m \in Nat
  OBVIOUS
<1> HIDE DEF w, m
<1>3. ASSUME NEW i \in DOMAIN w, w[i].flow = h, w[i].kind = "opened"
      PROVE  /\ c.gen = 0 /\ \A j \in DOMAIN w : j < i => w[j].flow # h
             /\ Runs(FeedsIn(w, h, c.sent), 1, 0, Total(c.sent, c.fin))
  <2>1. i \in DOMAIN q /\ q[i].flow = h /\ q[i].kind = "opened"
    BY <1>1, <1>3 DEF Sends
  <2>2. /\ k.gen = 0 /\ \A j \in DOMAIN q : j < i => q[j].flow # h
        /\ Runs(FeedsIn(q, h, k.sent), 1, 0, k.sent)
    BY <2>1 DEF Opening, Total
  <2>3. \A j \in DOMAIN w : j < i => w[j].flow # h
    BY <1>1, <1>2, <2>1, <2>2
  <2>4. Runs(FeedsIn(w, h, c.sent), 1, 0, Total(c.sent, c.fin))
    BY <2>2, FeedsGrow DEF w
  <2> QED BY <2>2, <2>3, <2>4
<1>4. Opening(c, w, h)
  BY <1>3 DEF Opening
<1> QED BY <1>4 DEF w

LEMMA UploadMore ==
  ASSUME NEW X, NEW q \in Seq(X), NEW e \in X, NEW h, NEW t, NEW n, NEW fin, Upload(t, n, fin, q, h)
  PROVE  /\ e.flow # h => Upload(t, n, fin, Append(q, e), h)
         /\ \A m, d : n \in Nat /\ ~fin /\ Sends(e, h, n, m, d) => Upload(t, m, d, Append(q, e), h)
<1>1. PICK b \in Nat : /\ Runs(CommandsIn(t.cmds, n), 1, Written(t), b)
                       /\ Runs(FeedsIn(q, h, n), 1, b, Total(n, fin))
  BY DEF Upload
<1>2. ASSUME e.flow # h PROVE Upload(t, n, fin, Append(q, e), h)
  <2>1. Runs(FeedsIn(Append(q, e), h, n), 1, b, Total(n, fin))
    BY <1>1, <1>2, FeedsAppend DEF Feeds
  <2> QED BY <1>1, <2>1 DEF Upload
<1>3. ASSUME NEW m, NEW d, n \in Nat, ~fin, Sends(e, h, n, m, d) PROVE Upload(t, m, d, Append(q, e), h)
  <2>1. Runs(FeedsIn(q, h, n), 1, b, n)
    BY <1>1, <1>3 DEF Total
  <2>2. Runs(FeedsIn(Append(q, e), h, m), 1, b, Total(m, d))
    BY <1>3, <2>1, FeedsGrow
  <2>3. b <= n
    BY <2>1 DEF Runs
  <2>4. Runs(CommandsIn(t.cmds, m), 1, Written(t), b)
    <3>1. Runs(CommandsIn(t.cmds, n + 1), 1, Written(t), b)
      BY <1>1, <1>3, <2>3, CommandsTop
    <3> QED BY <1>1, <1>3, <3>1 DEF Sends
  <2>5. (\A i \in DOMAIN t.forwarded : t.forwarded[i] = i) /\ ~t.writeClosed
    BY <1>3 DEF Upload
  <2>6. Len(t.forwarded) \in 0 .. m
    <3>1. Len(t.forwarded) \in 0 .. n
      BY DEF Upload
    <3> QED BY <1>3, <3>1 DEF Sends
  <2> QED BY <1>1, <2>2, <2>4, <2>5, <2>6 DEF Upload
<1> QED BY <1>2, <1>3

-----------------------------------------------------------------------------
(* What a handler that only ends flows does to a flow, and to the bytes    *)
(* that wait for its socket.                                               *)
Trails(s, u) == \A i \in DOMAIN s : \E j \in DOMAIN u : s[i] = u[j]
SameFlow(a, r, h) ==
  /\ a.sock[h].sent = r.sock[h].sent /\ a.sock[h].fin = r.sock[h].fin /\ a.sock[h].gen = r.sock[h].gen
  /\ a.sock[h].st = "none" <=> r.sock[h].st = "none"
  /\ Trails(Stream(a, h), Stream(r, h))
  /\ h \in DOMAIN a.task => h \in DOMAIN r.task /\ a.task[h] = r.task[h] /\ Stream(a, h) = Stream(r, h)
Fewer(a, r) == a.gens = r.gens /\ \A h \in TcpFlows : SameFlow(a, r, h)
NoMore(a, r) ==
  \A h \in TcpFlows : /\ Writable(a, h) => Writable(r, h)
                      /\ \/ a.pending[h] = <<>>
                         \/ a.pending[h] = r.pending[h] /\ a.sock[h].tx = r.sock[h].tx
Sheds(a, r) == Fewer(a, r) /\ NoMore(a, r)

(* What the loop holds carries every stream of the flows H.                *)
Carries(r, q, outs, H) ==
  /\ Shaped(outs, r.gens)
  /\ \A h \in TcpFlows : Settled(r, q, h) /\ (h \in H => Streams(r, q, outs, h))

LEMMA FewerTwice ==
  ASSUME NEW a, NEW b, NEW r, Fewer(a, b), Fewer(b, r)
  PROVE  Fewer(a, r)
<1>1. ASSUME NEW h \in TcpFlows PROVE SameFlow(a, r, h)
  <2>1. SameFlow(a, b, h) /\ SameFlow(b, r, h)
    BY DEF Fewer
  <2>2. Trails(Stream(a, h), Stream(r, h))
    BY <2>1 DEF SameFlow, Trails
  <2> QED BY <2>1, <2>2 DEF SameFlow
<1> QED BY <1>1 DEF Fewer

LEMMA ShedsTwice ==
  ASSUME NEW a, NEW b, NEW r, Sheds(a, b), Sheds(b, r)
  PROVE  Sheds(a, r)
<1>1. Fewer(a, r)
  BY FewerTwice DEF Sheds
<1>2. NoMore(a, r)
  BY DEF Sheds, NoMore
<1> QED BY <1>1, <1>2 DEF Sheds

LEMMA FewerCarries ==
  ASSUME NEW a, NEW r, NEW q, NEW outs, NEW H, Carries(r, q, outs, H), Fewer(a, r)
  PROVE  Carries(a, q, outs, H)
<1>1. ASSUME NEW h \in TcpFlows PROVE Settled(a, q, h)
  <2>1. SameFlow(a, r, h) /\ Settled(r, q, h) /\ a.gens = r.gens
    BY DEF Carries, Fewer
  <2>2. \A i \in DOMAIN Stream(a, h) : Stream(a, h)[i][1] <= a.gens
    BY <2>1 DEF SameFlow, Trails, Settled, Dated
  <2>3. Dated(a, h)
    BY <2>1, <2>2 DEF SameFlow, Settled, Dated
  <2>4. a.sock[h].st # "none" => Opening(a.sock[h], q, h)
    BY <2>1 DEF SameFlow, Settled, Opening
  <2> QED BY <2>3, <2>4 DEF Settled
<1>2. ASSUME NEW h \in TcpFlows, h \in H PROVE Streams(a, q, outs, h)
  <2>1. SameFlow(a, r, h) /\ Streams(r, q, outs, h)
    BY <1>2 DEF Carries, Fewer
  <2> QED BY <2>1 DEF SameFlow, Streams, Served
<1>3. Shaped(outs, a.gens)
  BY DEF Carries, Fewer
<1> QED BY <1>1, <1>2, <1>3 DEF Carries

LEMMA NoMoreDrained ==
  ASSUME NEW a, NEW r, NoMore(a, r), \A h \in TcpFlows : Drained(r, h)
  PROVE  \A h \in TcpFlows : Drained(a, h)
BY DEF NoMore, Drained

LEMMA SameSheds ==
  ASSUME NEW a, NEW r, a.sock = r.sock, a.pending = r.pending, a.task = r.task, a.gens = r.gens
  PROVE  Sheds(a, r)
<1>1. ASSUME NEW h \in TcpFlows PROVE SameFlow(a, r, h)
  <2>1. Stream(a, h) = Stream(r, h)
    BY DEF Stream
  <2> QED BY <2>1 DEF SameFlow, Trails
<1>2. NoMore(a, r)
  BY DEF NoMore, Writable
<1> QED BY <1>1, <1>2 DEF Sheds, Fewer

LEMMA SocketSheds ==
  ASSUME NEW r \in LoopRecord, NEW f \in TcpFlows
  PROVE  Sheds(CloseTcp(r, f), r) /\ Sheds(AbortTcp(r, f), r)
<1>1. ASSUME NEW a, SameBesideSockets(a, r), SameBuffers(a, r) PROVE Sheds(a, r)
  <2>1. ASSUME NEW h \in TcpFlows PROVE SameFlow(a, r, h)
    <3>1. Stream(a, h) = Stream(r, h)
      BY <1>1 DEF Stream, SameBesideSockets, SameBuffers
    <3>2. a.sock[h].st = "none" <=> r.sock[h].st = "none"
      BY <1>1 DEF SameBuffers, Socketed
    <3> QED BY <1>1, <3>1, <3>2 DEF SameFlow, Trails, SameBesideSockets, SameBuffers
  <2>2. NoMore(a, r)
    BY <1>1 DEF NoMore, SameBesideSockets, SameBuffers
  <2>3. a.gens = r.gens
    BY <1>1 DEF SameBesideSockets
  <2> QED BY <2>1, <2>2, <2>3 DEF Sheds, Fewer
<1> QED BY <1>1, CloseTcpReturns

(* A flow that loses what waits for its socket, and its task.              *)
LEMMA ClearedSheds ==
  ASSUME NEW r \in LoopRecord, NEW f \in TcpFlows, NEW a, a.sock = r.sock, a.gens = r.gens,
         a.pending = [r.pending EXCEPT ![f] = <<>>],
         DOMAIN a.task = DOMAIN r.task \ {f}, \A g \in DOMAIN a.task : a.task[g] = r.task[g]
  PROVE  Sheds(a, r)
<1>1. /\ r.pending \in [TcpFlows -> Seq(Unit)]
      /\ \A h \in TcpFlows : r.sock[h].got \in Seq(Unit)
  BY DEF LoopRecord, SocketRecord
<1>2. \A h \in TcpFlows : a.pending[h] = IF h = f THEN <<>> ELSE r.pending[h]
  BY <1>1
<1>3. ASSUME NEW h \in TcpFlows PROVE SameFlow(a, r, h)
  <2>1. CASE h = f
    <3> DEFINE s == r.sock[f].got
               u == r.pending[f]
    <3>1. s \in Seq(Unit) /\ u \in Seq(Unit) /\ Stream(a, h) = s \o <<>> /\ Stream(r, h) = s \o u
      BY <1>1, <1>2, <2>1 DEF Stream
    <3> HIDE DEF s, u
    <3>2. s \o <<>> = s /\ \A i \in DOMAIN s : i \in DOMAIN (s \o u) /\ (s \o u)[i] = s[i]
      BY <3>1
    <3>3. Trails(Stream(a, h), Stream(r, h))
      <4> DEFINE x == Stream(a, h)
                 y == Stream(r, h)
      <4>1. \A i \in DOMAIN x : i \in DOMAIN y /\ x[i] = y[i]
        BY <3>1, <3>2
      <4> HIDE DEF x, y
      <4>2. Trails(x, y)
        BY <4>1 DEF Trails
      <4> QED BY <4>2 DEF x, y
    <3> QED BY <2>1, <3>3 DEF SameFlow
  <2>2. CASE h # f
    <3>1. Stream(a, h) = Stream(r, h)
      BY <1>2, <2>2 DEF Stream
    <3> QED BY <3>1 DEF SameFlow, Trails
  <2> QED BY <2>1, <2>2
<1>4. NoMore(a, r)
  BY <1>2 DEF NoMore, Writable
<1> QED BY <1>3, <1>4 DEF Sheds, Fewer

-----------------------------------------------------------------------------
(* The helpers that end flows.                                             *)
LEMMA HelpersShed ==
  ASSUME NEW r \in LoopRecord, NEW f \in TcpFlows
  PROVE  /\ Sheds(AbortTask(r, f), r) /\ Sheds(Untrack(r, f), r)
         /\ \A b \in BOOLEAN : Sheds([r EXCEPT !.ok = b], r)
<1>1. Sheds(AbortTask(r, f), r)
  <2> DEFINE a == AbortTask(r, f)
  <2>1. /\ a.sock = r.sock /\ a.gens = r.gens
        /\ DOMAIN a.task = DOMAIN r.task \ {f} /\ \A g \in DOMAIN a.task : a.task[g] = r.task[g]
        /\ a.pending = [r.pending EXCEPT ![f] = <<>>]
    BY AbortReturns
  <2> HIDE DEF a
  <2>2. Sheds(a, r)
    BY <2>1, ClearedSheds
  <2> QED BY <2>2 DEF a
<1>2. Sheds(Untrack(r, f), r)
  <2> DEFINE a == Untrack(r, f)
  <2>1. a.sock = r.sock /\ a.task = r.task /\ a.pending = r.pending /\ a.gens = r.gens
    BY UntrackReturns
  <2> HIDE DEF a
  <2>2. Sheds(a, r)
    BY <2>1, SameSheds
  <2> QED BY <2>2 DEF a
<1>3. ASSUME NEW b \in BOOLEAN PROVE Sheds([r EXCEPT !.ok = b], r)
  <2> DEFINE a == [r EXCEPT !.ok = b]
  <2>1. a.sock = r.sock /\ a.task = r.task /\ a.pending = r.pending /\ a.gens = r.gens
    BY DEF LoopRecord
  <2> HIDE DEF a
  <2>2. Sheds(a, r)
    BY <2>1, SameSheds
  <2> QED BY <2>2 DEF a
<1> QED BY <1>1, <1>2, <1>3

LEMMA ReleaseSheds ==
  ASSUME NEW r \in LoopRecord, NEW f \in TcpFlows
  PROVE  LET u == Untrack(AbortTask(r, f), f) IN
         /\ u \in LoopRecord /\ Sheds(u, r) /\ u.lookup = r.lookup /\ f \notin DOMAIN u.task
<1> DEFINE a == AbortTask(r, f)
           u == Untrack(a, f)
<1>1. a \in LoopRecord /\ Sheds(a, r) /\ a.lookup = r.lookup /\ f \notin DOMAIN a.task
  BY AbortReturns, HelpersShed, ZenonT(40)
<1> HIDE DEF a
<1>2. u \in LoopRecord /\ Sheds(u, a) /\ u.lookup = a.lookup /\ u.task = a.task
  BY <1>1, UntrackReturns, HelpersShed
<1> HIDE DEF u
<1>3. Sheds(u, r)
  BY <1>1, <1>2, ShedsTwice
<1> QED BY <1>1, <1>2, <1>3 DEF u, a

LEMMA FinishSheds ==
  ASSUME NEW r \in LoopRecord, NEW f \in TcpFlows
  PROVE  LET u == FinishTcpClose(r, f) IN
         u \in LoopRecord /\ Sheds(u, r) /\ u.lookup = r.lookup
<1> DEFINE c == CloseTcp(r, f)
           u == FinishTcpClose(r, f)
<1>1. c \in LoopRecord /\ Sheds(c, r) /\ c.lookup = r.lookup
  BY CloseTcpReturns, SocketSheds DEF SameBesideSockets
<1> HIDE DEF c
<1>2. u = Untrack(AbortTask(c, f), f)
  BY DEF FinishTcpClose, c
<1> HIDE DEF u
<1>3. u \in LoopRecord /\ Sheds(u, c) /\ u.lookup = c.lookup
  BY <1>1, <1>2, ReleaseSheds
<1>4. Sheds(u, r)
  BY <1>1, <1>3, ShedsTwice
<1> QED BY <1>1, <1>3, <1>4 DEF u

(* The queue of a loop: what waits for the lookup, then what was reported. *)
Queue(r, z) == r.lookup.events \o z

LEMMA QueueTyped ==
  ASSUME NEW r \in LoopRecord, NEW z \in Seq(InputRecord)
  PROVE  /\ r.lookup.events \in Seq(InputRecord) /\ Queue(r, z) \in Seq(InputRecord)
         /\ r.lookup.events = <<>> => Queue(r, z) = z
<1>1. r.lookup.events \in Seq(DeferredRecord)
  BY DEF LoopRecord, LookupRecord
<1>2. \A e \in DeferredRecord : e \in InputRecord
  BY DEF DeferredRecord, InputRecord
<1>3. r.lookup.events \in Seq(InputRecord)
  BY <1>1, <1>2
<1> DEFINE s == r.lookup.events
<1> HIDE DEF s
<1>4. s \in Seq(InputRecord) /\ s \o z \in Seq(InputRecord) /\ (s = <<>> => s \o z = z)
  BY <1>3 DEF s
<1> QED BY <1>3, <1>4 DEF Queue, s

LEMMA DropCarries ==
  ASSUME NEW L, NEW P, NEW r \in Ordered(L, P), NEW f \in TcpFlows, NEW z \in Seq(InputRecord), NEW outs, NEW H,
         Carries(r, Queue(r, z), outs, H)
  PROVE  LET d == DropDeferred(r, f) IN
         /\ d \in LoopRecord /\ Carries(d, Queue(d, z), outs, H) /\ Sheds(d, r)
<1> DEFINE d == DropDeferred(r, f)
           kept == EventsBut(r.lookup.events, f)
<1>1. r \in LoopRecord /\ TasksInOrder(r) /\ LookupInOrder(r, L)
  BY DEF Ordered
<1>2. d \in LoopRecord /\ d.sock = r.sock /\ d.task = r.task /\ d.pending = r.pending /\ d.gens = r.gens
  BY <1>1, DropDeferredReturns DEF LookupInOrder
<1>3. Sheds(d, r)
  <2> HIDE DEF d
  <2> QED BY <1>2, SameSheds
<1>4. CASE r.lookup.id = 0
  <2>1. d = r
    BY <1>4 DEF DropDeferred
  <2> HIDE DEF d
  <2> QED BY <1>2, <1>3, <2>1 DEF d
<1>5. CASE r.lookup.id # 0
  <2>1. d.lookup.events = kept
    <3>1. CASE kept = <<>>
      <4>1. d = [r EXCEPT !.lookup = NoLookup]
        BY <1>5, <3>1 DEF DropDeferred
      <4>2. d.lookup = NoLookup
        BY <1>1, <4>1 DEF LoopRecord
      <4> QED BY <3>1, <4>2 DEF NoLookup
    <3>2. CASE kept # <<>>
      <4>1. d = [r EXCEPT !.lookup.events = kept]
        BY <1>5, <3>2 DEF DropDeferred
      <4> HIDE DEF kept
      <4> QED BY <1>1, <4>1 DEF LoopRecord, LookupRecord
    <3> QED BY <3>1, <3>2
  <2>2. DOMAIN d.task = {}
    BY <1>1, <1>2, <1>5 DEF TasksInOrder
  <2>3. r.lookup.events \in Seq(InputRecord)
    BY <1>1, QueueTyped
  <2>4. ASSUME NEW h \in TcpFlows PROVE Settled(d, Queue(d, z), h)
    <3>1. Settled(r, Queue(r, z), h)
      BY DEF Carries
    <3>2. Dated(d, h)
      <4> HIDE DEF d
      <4> QED BY <1>2, <3>1 DEF Settled, Dated, Stream
    <3>3. r.sock[h].st # "none" => Opening(r.sock[h], kept \o z, h)
      <4>1. ASSUME r.sock[h].st # "none" PROVE Opening(r.sock[h], kept \o z, h)
        <5>1. Opening(r.sock[h], r.lookup.events \o z, h)
          BY <3>1, <4>1 DEF Settled, Queue
        <5> QED BY <2>3, <5>1, OpeningKept
      <4> QED BY <4>1
    <3>4. Queue(d, z) = kept \o z
      BY <2>1 DEF Queue
    <3> HIDE DEF d, kept
    <3> QED BY <1>2, <3>2, <3>3, <3>4 DEF Settled
  <2> HIDE DEF d
  <2>5. \A h \in TcpFlows : Streams(d, Queue(d, z), outs, h)
    BY <2>2 DEF Streams, Served
  <2>6. Shaped(outs, d.gens)
    BY <1>2 DEF Carries
  <2>7. Carries(d, Queue(d, z), outs, H)
    BY <2>4, <2>5, <2>6 DEF Carries
  <2> QED BY <1>2, <1>3, <2>7 DEF d
<1> QED BY <1>4, <1>5

LEMMA ShedsCarries ==
  ASSUME NEW a, NEW r, Fewer(a, r), a.lookup = r.lookup, NEW z, NEW outs, NEW H, Carries(r, Queue(r, z), outs, H)
  PROVE  Carries(a, Queue(a, z), outs, H)
<1>1. Queue(a, z) = Queue(r, z)
  BY DEF Queue
<1> QED BY <1>1, FewerCarries

(* A flow is removed with all that waits for it.                           *)
LEMMA RemoveCarries ==
  ASSUME NEW L, NEW P, NEW r \in Ordered(L, P), NEW f \in TcpFlows, NEW z \in Seq(InputRecord), NEW outs, NEW H,
         Carries(r, Queue(r, z), outs, H)
  PROVE  LET a == RemoveFlowTask(r, f) IN
         /\ a \in LoopRecord /\ Carries(a, Queue(a, z), outs, H) /\ Sheds(a, r) /\ f \notin DOMAIN a.task
<1> DEFINE d == DropDeferred(r, f)
           a == RemoveFlowTask(r, f)
<1>1. d \in LoopRecord /\ Carries(d, Queue(d, z), outs, H) /\ Sheds(d, r)
  BY DropCarries
<1> HIDE DEF d
<1>2. a = AbortTask(d, f)
  BY DEF RemoveFlowTask, d
<1> HIDE DEF a
<1>3. a \in LoopRecord /\ Sheds(a, d) /\ a.lookup = d.lookup /\ f \notin DOMAIN a.task
  BY <1>1, <1>2, AbortReturns, HelpersShed, ZenonT(40)
<1>4. Sheds(a, r) /\ Fewer(a, d)
  BY <1>1, <1>3, ShedsTwice DEF Sheds
<1>5. Carries(a, Queue(a, z), outs, H)
  BY <1>1, <1>3, <1>4, ShedsCarries
<1> QED BY <1>3, <1>4, <1>5 DEF a

LEMMA CloseFlowCarries ==
  ASSUME NEW L, NEW P, NEW r \in Ordered(L, P), NEW f \in TcpFlows, NEW z \in Seq(InputRecord), NEW outs, NEW H,
         Carries(r, Queue(r, z), outs, H)
  PROVE  LET a == CloseFlow(f, r) IN
         Carries(a, Queue(a, z), outs, H) /\ Sheds(a, r) /\ f \notin DOMAIN a.task
<1> DEFINE d == RemoveFlowTask(r, f)
           b == AbortTcp(d, f)
           a == CloseFlow(f, r)
<1>1. d \in LoopRecord /\ Carries(d, Queue(d, z), outs, H) /\ Sheds(d, r) /\ f \notin DOMAIN d.task
  BY RemoveCarries
<1> HIDE DEF d
<1>2. b \in LoopRecord /\ Sheds(b, d) /\ b.lookup = d.lookup /\ b.task = d.task
  BY <1>1, CloseTcpReturns, SocketSheds DEF SameBesideSockets
<1> HIDE DEF b
<1>3. a = Untrack(b, f)
  BY DEF CloseFlow, d, b
<1> HIDE DEF a
<1>4. Sheds(a, b) /\ a.lookup = b.lookup /\ a.task = b.task
  BY <1>2, <1>3, UntrackReturns, HelpersShed
<1>5. Sheds(a, d)
  BY <1>2, <1>4, ShedsTwice
<1>6. Sheds(a, r) /\ Fewer(a, d)
  BY <1>1, <1>5, ShedsTwice DEF Sheds
<1>7. Carries(a, Queue(a, z), outs, H)
  BY <1>1, <1>2, <1>4, <1>6, ShedsCarries
<1> QED BY <1>1, <1>2, <1>4, <1>6, <1>7 DEF a

LEMMA ExpireCarries ==
  ASSUME NEW L, NEW P, NEW r \in Ordered(L, P), NEW f \in TcpFlows, NEW z \in Seq(InputRecord), NEW outs, NEW H,
         Carries(r, Queue(r, z), outs, H)
  PROVE  LET a == ExpireFlow(f, r) IN Carries(a, Queue(a, z), outs, H)
<1> DEFINE b == AbortTcp(r, f)
<1>1. r \in LoopRecord
  BY DEF Ordered
<1>2. b \in Ordered(L, P) /\ Sheds(b, r) /\ b.lookup = r.lookup
  BY <1>1, CloseTcpReturns, CloseTcpOrdered, SocketSheds DEF SameBesideSockets
<1> HIDE DEF b
<1>3. Carries(b, Queue(b, z), outs, H)
  BY <1>2, ShedsCarries DEF Sheds
<1>4. ExpireFlow(f, r) = RemoveFlowTask(b, f)
  BY DEF ExpireFlow, b
<1> QED BY <1>2, <1>3, <1>4, RemoveCarries

LEMMA ReapSheds ==
  ASSUME NEW r \in LoopRecord, NEW f \in TcpFlows
  PROVE  LET a == ReapFlow(f, r) IN Sheds(a, r) /\ a.lookup = r.lookup
<1>1. CASE r.pending[f] # <<>>
  <2> DEFINE a == [r EXCEPT !.closes = @ \cup {f}]
  <2>1. a.sock = r.sock /\ a.task = r.task /\ a.pending = r.pending /\ a.gens = r.gens /\ a.lookup = r.lookup
    BY DEF LoopRecord
  <2> HIDE DEF a
  <2>2. Sheds(a, r)
    BY <2>1, SameSheds
  <2> QED BY <1>1, <2>1, <2>2 DEF ReapFlow, a
<1>2. CASE r.pending[f] = <<>>
  BY <1>2, FinishSheds DEF ReapFlow
<1> QED BY <1>1, <1>2

(* A sequence is cut, and put together again.                              *)
LEMMA CutSeq ==
  ASSUME NEW p \in Seq(Unit), NEW n \in 0 .. Len(p), NEW g \in Seq(Unit)
  PROVE  LET x == SubSeq(p, 1, n)
             rest == SubSeq(p, n + 1, Len(p)) IN
         /\ x \o rest = p /\ (g \o x) \o rest = g \o p
         /\ n = Len(p) => rest = <<>>
         /\ n = 0 => x = <<>> /\ rest = p
<1> DEFINE x == SubSeq(p, 1, n)
           rest == SubSeq(p, n + 1, Len(p))
<1>1. n \in Nat /\ Len(p) \in Nat /\ n <= Len(p)
  OBVIOUS
<1>2. x \in Seq(Unit) /\ rest \in Seq(Unit)
  BY <1>1, SubSeqProperties
<1>3. x \o rest = p
  <2>1. /\ Len(x) = n /\ Len(rest) = Len(p) - n
        /\ \A i \in 1 .. n : x[i] = p[i]
        /\ \A i \in 1 .. Len(p) - n : rest[i] = p[n + i]
    BY <1>1
  <2> HIDE DEF x, rest
  <2> DEFINE y == x \o rest
  <2>2. /\ y \in Seq(Unit) /\ Len(y) = Len(x) + Len(rest)
        /\ \A i \in 1 .. Len(x) + Len(rest) : y[i] = IF i <= Len(x) THEN x[i] ELSE rest[i - Len(x)]
    BY <1>2, ConcatProperties
  <2> HIDE DEF y
  <2>3. y \in Seq(Unit) /\ Len(y) = Len(p) /\ \A i \in 1 .. Len(p) : y[i] = p[i]
    <3>1. Len(y) = Len(p)
      BY <1>1, <2>1, <2>2
    <3>2. ASSUME NEW i \in 1 .. Len(p) PROVE y[i] = p[i]
      <4>1. CASE i <= n
        BY <1>1, <2>1, <2>2, <4>1
      <4>2. CASE i > n
        <5>1. i - n \in 1 .. Len(p) - n /\ n + (i - n) = i
          BY <1>1, <4>2
        <5>2. y[i] = rest[i - n]
          BY <1>1, <2>1, <2>2, <4>2
        <5> QED BY <2>1, <5>1, <5>2
      <4> QED BY <1>1, <4>1, <4>2
    <3> QED BY <2>2, <3>1, <3>2
  <2>4. y = p
    BY <2>3, SeqEqual
  <2> QED BY <2>4 DEF y
<1>4. n = Len(p) => rest = <<>>
  BY <1>1, SubSeqEmpty
<1>5. n = 0 => x = <<>> /\ rest = p
  <2>1. ASSUME n = 0 PROVE x = <<>> /\ rest = p
    <3>1. SubSeq(p, 1, 0) = <<>> /\ SubSeq(p, 1, Len(p)) = p /\ n + 1 = 1
      BY <2>1, SubSeqEmpty, SubSeqFull
    <3> QED BY <2>1, <3>1
  <2> QED BY <2>1
<1> HIDE DEF x, rest
<1>6. (g \o x) \o rest = g \o p
  <2>1. (g \o x) \o rest = g \o (x \o rest)
    BY <1>2, ConcatAssociative, SMTT(40)
  <2> DEFINE y == x \o rest
  <2> HIDE DEF y
  <2>2. (g \o x) \o rest = g \o y /\ y = p
    BY <1>3, <2>1 DEF y
  <2> QED BY ONLY <2>2
<1> QED BY <1>3, <1>4, <1>5, <1>6 DEF x, rest

(* The pending bytes are written: the stream of a flow stays the same, and *)
(* only what found no room still waits.                                    *)
LEMMA WriteFewer ==
  ASSUME NEW r \in LoopRecord, NEW f \in TcpFlows
  PROVE  LET n == Fits(r, f, r.pending[f])
             rest == SubSeq(r.pending[f], n + 1, Len(r.pending[f]))
             w == [WriteTcp(r, f, r.pending[f]) EXCEPT !.pending[f] = rest] IN
         /\ w \in LoopRecord /\ Fewer(w, r) /\ w.lookup = r.lookup /\ w.closes = r.closes /\ w.pending[f] = rest
         /\ rest # <<>> => w.sock[f].tx = TxCap
         /\ \A h \in TcpFlows : h # f => w.sock[h] = r.sock[h] /\ w.pending[h] = r.pending[h]
<1> DEFINE p == r.pending[f]
           n == Fits(r, f, p)
           x == SubSeq(p, 1, n)
           rest == SubSeq(p, n + 1, Len(p))
           v == WriteTcp(r, f, p)
           w == [v EXCEPT !.pending[f] = rest]
<1>1. /\ p \in Seq(Unit) /\ r.pending \in [TcpFlows -> Seq(Unit)] /\ r.sock \in [TcpFlows -> SocketRecord]
      /\ r.sock[f].got \in Seq(Unit)
  BY DEF LoopRecord, SocketRecord
<1>2. /\ n \in 0 .. Len(p) /\ x \in Seq(Unit) /\ rest \in Seq(Unit)
      /\ v \in LoopRecord /\ SameBesideSockets(v, r)
      /\ \A g \in TcpFlows : g # f => v.sock[g] = r.sock[g]
      /\ v.sock[f].got = r.sock[f].got \o x
      /\ v.sock[f].st = r.sock[f].st /\ v.sock[f].gen = r.sock[f].gen /\ v.sock[f].sent = r.sock[f].sent
      /\ v.sock[f].fin = r.sock[f].fin /\ v.sock[f].tx = r.sock[f].tx + n
      /\ n = Len(p) \/ r.sock[f].tx + n = TxCap
  BY <1>1, WriteReturns, ZenonT(40)
<1> HIDE DEF v, n
<1>3. (r.sock[f].got \o x) \o rest = r.sock[f].got \o p /\ (n = Len(p) => rest = <<>>)
  BY <1>1, <1>2, CutSeq, ZenonT(40)
<1> HIDE DEF rest, x
<1>4. /\ w \in LoopRecord /\ w.pending = [r.pending EXCEPT ![f] = rest] /\ w.sock = v.sock /\ w.task = r.task
      /\ w.gens = r.gens /\ w.lookup = r.lookup /\ w.closes = r.closes
  BY <1>1, <1>2 DEF LoopRecord, SameBesideSockets
<1> HIDE DEF w
<1>5. w.pending[f] = rest /\ \A h \in TcpFlows : h # f => w.sock[h] = r.sock[h] /\ w.pending[h] = r.pending[h]
  BY <1>1, <1>2, <1>4
<1>6. Stream(w, f) = Stream(r, f)
  BY <1>2, <1>3, <1>4, <1>5 DEF Stream
<1>7. ASSUME NEW h \in TcpFlows PROVE SameFlow(w, r, h)
  <2>1. Stream(w, h) = Stream(r, h)
    BY <1>5, <1>6 DEF Stream
  <2> HIDE DEF p
  <2>2. /\ w.sock[h].sent = r.sock[h].sent /\ w.sock[h].fin = r.sock[h].fin
        /\ w.sock[h].gen = r.sock[h].gen /\ w.sock[h].st = r.sock[h].st
    BY <1>2, <1>4, <1>5
  <2> QED BY <1>4, <2>1, <2>2 DEF SameFlow, Trails
<1>8. Fewer(w, r)
  BY <1>4, <1>7 DEF Fewer
<1>9. rest # <<>> => w.sock[f].tx = TxCap
  BY <1>2, <1>3, <1>4
<1> QED BY <1>4, <1>5, <1>8, <1>9 DEF w, rest, n, v

LEMMA FlushFewer ==
  ASSUME NEW r \in LoopRecord, NEW f \in TcpFlows
  PROVE  LET a == FlushFlow(f, r) IN
         /\ Fewer(a, r) /\ a.lookup = r.lookup /\ Drained(a, f)
         /\ \A h \in TcpFlows : Drained(r, h) => Drained(a, h)
<1> DEFINE bytes == r.pending[f]
           n == Fits(r, f, bytes)
           rest == SubSeq(bytes, n + 1, Len(bytes))
           w == [WriteTcp(r, f, bytes) EXCEPT !.pending[f] = rest]
           Q(a) == /\ Fewer(a, r) /\ a.lookup = r.lookup /\ Drained(a, f)
                   /\ \A h \in TcpFlows : Drained(r, h) => Drained(a, h)
<1>1. /\ w \in LoopRecord /\ Fewer(w, r) /\ w.lookup = r.lookup /\ w.closes = r.closes /\ w.pending[f] = rest
      /\ rest # <<>> => w.sock[f].tx = TxCap
      /\ \A h \in TcpFlows : h # f => w.sock[h] = r.sock[h] /\ w.pending[h] = r.pending[h]
  BY WriteFewer
<1>2. FlushFlow(f, r) = IF bytes = <<>> THEN r
        ELSE IF ~Writable(r, f) THEN (IF f \in r.closes THEN FinishTcpClose(r, f) ELSE r)
        ELSE IF rest # <<>> THEN w
        ELSE IF f \in w.closes THEN FinishTcpClose(w, f) ELSE ClearPending(w, f)
  BY DEF FlushFlow
<1> HIDE DEF w, rest
<1>3. Fewer(r, r) /\ Sheds(r, r)
  BY SameSheds DEF Sheds
<1>4. bytes = <<>> \/ ~Writable(r, f) => Q(r)
  BY <1>3 DEF Drained
<1>5. ASSUME ~Writable(r, f) PROVE Q(FinishTcpClose(r, f))
  <2> DEFINE a == FinishTcpClose(r, f)
  <2>1. Sheds(a, r) /\ a.lookup = r.lookup
    BY FinishSheds
  <2> HIDE DEF a
  <2>2. ~Writable(a, f) /\ \A h \in TcpFlows : Drained(r, h) => Drained(a, h)
    BY <1>5, <2>1 DEF Sheds, NoMore, Drained
  <2> QED BY <2>1, <2>2 DEF Sheds, Drained, a
<1>6. rest # <<>> => Q(w)
  BY <1>1 DEF Drained, Writable
<1>7. ASSUME rest = <<>>, NEW a, Sheds(a, w), a.lookup = w.lookup PROVE Q(a)
  <2>1. Fewer(a, r)
    BY <1>1, <1>7, FewerTwice DEF Sheds
  <2>2. \A h \in TcpFlows : Drained(w, h) => Drained(a, h)
    BY <1>7 DEF Sheds, NoMore, Drained
  <2>3. Drained(w, f) /\ \A h \in TcpFlows : Drained(r, h) => Drained(w, h)
    BY <1>1, <1>7 DEF Drained, Writable
  <2> QED BY <1>1, <1>7, <2>1, <2>2, <2>3
<1>8. rest = <<>> => Q(FinishTcpClose(w, f))
  BY <1>1, <1>7, FinishSheds
<1>9. rest = <<>> => Q(ClearPending(w, f))
  <2>1. ASSUME rest = <<>> PROVE Q(ClearPending(w, f))
    <3> DEFINE a == ClearPending(w, f)
    <3>1. a.sock = w.sock /\ a.task = w.task /\ a.pending = w.pending /\ a.gens = w.gens /\ a.lookup = w.lookup
      BY <1>1, <2>1 DEF ClearPending, LoopRecord
    <3> HIDE DEF a
    <3>2. Sheds(a, w)
      BY <3>1, SameSheds
    <3> QED BY <1>7, <2>1, <3>1, <3>2 DEF a
  <2> QED BY <2>1
<1> HIDE DEF Q, bytes
<1>10. Q(FlushFlow(f, r))
  BY <1>2, <1>4, <1>5, <1>6, <1>8, <1>9
<1> QED BY <1>10 DEF Q

-----------------------------------------------------------------------------
(* handle_ready_input takes the first event of the queue.                  *)
LEMMA TailCarries ==
  ASSUME NEW a, NEW q \in Seq(InputRecord), q # <<>>, NEW outs, NEW H, Carries(a, q, outs, H),
         \A h \in TcpFlows : h \in DOMAIN a.task => ~Feeds(q[1], h)
  PROVE  Carries(a, Tail(q), outs, H)
<1>1. ASSUME NEW h \in TcpFlows PROVE Settled(a, Tail(q), h)
  <2>1. Settled(a, q, h)
    BY DEF Carries
  <2>2. Opening(a.sock[h], q, h) => Opening(a.sock[h], Tail(q), h)
    BY OpeningTail
  <2> QED BY <2>1, <2>2 DEF Settled
<1>2. ASSUME NEW h \in TcpFlows, h \in H PROVE Streams(a, Tail(q), outs, h)
  <2>1. SUFFICES ASSUME Served(a, h)
                 PROVE  /\ Download(a.task[h], Stream(a, h), outs, h)
                        /\ Upload(a.task[h], a.sock[h].sent, a.sock[h].fin, Tail(q), h)
    BY DEF Streams
  <2>2. /\ Download(a.task[h], Stream(a, h), outs, h)
        /\ Upload(a.task[h], a.sock[h].sent, a.sock[h].fin, q, h)
    BY <1>2, <2>1 DEF Carries, Streams
  <2> DEFINE t == a.task[h]
             n == a.sock[h].sent
             fin == a.sock[h].fin
  <2>3. ~Feeds(q[1], h)
    BY <2>1 DEF Served
  <2>4. Upload(t, n, fin, q, h)
    BY <2>2
  <2> HIDE DEF t, n, fin
  <2>5. PICK b \in Nat : /\ Runs(CommandsIn(t.cmds, n), 1, Written(t), b)
                         /\ Runs(FeedsIn(q, h, n), 1, b, Total(n, fin))
    BY <2>4 DEF Upload
  <2>6. Runs(FeedsIn(Tail(q), h, n), 1, b, Total(n, fin))
    BY <2>3, <2>5, FeedsTail
  <2>7. Upload(t, n, fin, Tail(q), h)
    BY <2>4, <2>5, <2>6 DEF Upload
  <2> QED BY <2>2, <2>7 DEF t, n, fin
<1> QED BY <1>1, <1>2 DEF Carries

LEMMA ReleaseCarries ==
  ASSUME NEW r \in LoopRecord, NEW q \in Seq(InputRecord), q # <<>>, NEW outs, NEW H, Carries(r, q, outs, H),
         NEW a, Sheds(a, r), q[1].flow \notin DOMAIN a.task
  PROVE  Carries(a, Tail(q), outs, H)
<1>1. Carries(a, q, outs, H)
  BY FewerCarries DEF Sheds
<1>2. \A h \in TcpFlows : h \in DOMAIN a.task => ~Feeds(q[1], h)
  BY DEF Feeds
<1> QED BY <1>1, <1>2, TailCarries

(* A command is queued: it carries the next number of the client's stream. *)
LEMMA QueueCarries ==
  ASSUME NEW r \in LoopRecord, NEW f \in DOMAIN r.task, NEW c \in Nat, f \in TcpFlows,
         NEW q \in Seq(InputRecord), q # <<>>, Feeds(q[1], f), c = IF q[1].kind = "half" THEN 0 ELSE q[1].n,
         NEW outs, NEW H, Carries(r, q, outs, H), NEW a, a = [r EXCEPT !.task[f].cmds = Append(@, c)]
  PROVE  Carries(a, Tail(q), outs, H) /\ NoMore(a, r)
<1>1. /\ DOMAIN a.task = DOMAIN r.task /\ a.sock = r.sock /\ a.pending = r.pending /\ a.gens = r.gens
      /\ \A g \in DOMAIN r.task : g # f => a.task[g] = r.task[g]
      /\ a.task[f].cmds = Append(r.task[f].cmds, c) /\ a.task[f].gen = r.task[f].gen
      /\ a.task[f].forwarded = r.task[f].forwarded /\ a.task[f].emitted = r.task[f].emitted
      /\ a.task[f].writeClosed = r.task[f].writeClosed
  BY QueueReturns
<1>2. NoMore(a, r)
  BY <1>1 DEF NoMore, Writable
<1>3. \A h \in TcpFlows : Stream(a, h) = Stream(r, h)
  BY <1>1 DEF Stream
<1>4. \A h \in DOMAIN r.task : a.task[h].gen = r.task[h].gen
  BY <1>1
<1>5. ASSUME NEW h \in TcpFlows PROVE Settled(a, Tail(q), h)
  <2>1. Settled(r, q, h)
    BY DEF Carries
  <2>2. Opening(r.sock[h], q, h) => Opening(r.sock[h], Tail(q), h)
    BY OpeningTail
  <2>3. Dated(a, h)
    BY <1>1, <1>3, <1>4, <2>1 DEF Settled, Dated
  <2> QED BY <1>1, <2>1, <2>2, <2>3 DEF Settled
<1>6. ASSUME NEW h \in TcpFlows, h \in H PROVE Streams(a, Tail(q), outs, h)
  <2>1. SUFFICES ASSUME Served(a, h)
                 PROVE  /\ Download(a.task[h], Stream(a, h), outs, h)
                        /\ Upload(a.task[h], a.sock[h].sent, a.sock[h].fin, Tail(q), h)
    BY DEF Streams
  <2>2. /\ Download(r.task[h], Stream(r, h), outs, h)
        /\ Upload(r.task[h], r.sock[h].sent, r.sock[h].fin, q, h)
    BY <1>1, <1>4, <1>6, <2>1 DEF Carries, Streams, Served
  <2> DEFINE t == r.task[h]
             s == a.task[h]
             n == r.sock[h].sent
             fin == r.sock[h].fin
             m == IF q[1].kind = "half" THEN n ELSE Mark(q[1].n, n)
  <2>3. Upload(t, n, fin, q, h) /\ Written(s) = Written(t) /\ t.cmds \in Seq(Nat)
    <3>1. t \in TaskRecord
      BY <1>1, <2>1 DEF Served, LoopRecord, TaskMap
    <3> QED BY <1>1, <2>1, <2>2, <3>1 DEF Written, Served, TaskRecord
  <2>4. Download(s, Stream(a, h), outs, h)
    BY <1>1, <1>3, <2>1, <2>2 DEF Download, Served
  <2>5. n \in Nat
    BY DEF LoopRecord, SocketRecord
  <2> HIDE DEF t, n, fin
  <2>6. PICK b \in Nat : /\ Runs(CommandsIn(t.cmds, n), 1, Written(t), b)
                         /\ Runs(FeedsIn(q, h, n), 1, b, Total(n, fin))
    BY <2>3 DEF Upload
  <2>7. Upload(s, n, fin, Tail(q), h)
    <3>1. CASE h = f
      <4>1. m = b /\ Runs(FeedsIn(Tail(q), h, n), 1, b + 1, Total(n, fin))
        BY <2>6, <3>1, FeedsTail
      <4>2. (IF c = 0 THEN n ELSE Mark(c, n)) = b
        BY <2>5, <4>1 DEF Mark
      <4>3. Runs(CommandsIn(Append(t.cmds, c), n), 1, Written(t), b + 1)
        BY <2>3, <2>6, <4>2, CommandsMove
      <4>4. s.cmds = Append(t.cmds, c) /\ s.forwarded = t.forwarded /\ s.writeClosed = t.writeClosed
        BY <1>1, <3>1 DEF t
      <4> HIDE DEF s
      <4>5. b + 1 \in Nat
        OBVIOUS
      <4> QED BY <2>3, <4>1, <4>3, <4>4, <4>5 DEF Upload
    <3>2. CASE h # f
      <4>1. ~Feeds(q[1], h) /\ s = t
        BY <1>1, <2>1, <3>2 DEF Feeds, t, Served
      <4>2. Runs(FeedsIn(Tail(q), h, n), 1, b, Total(n, fin))
        BY <2>6, <4>1, FeedsTail
      <4> QED BY <2>3, <2>6, <4>1, <4>2 DEF Upload
    <3> QED BY <3>1, <3>2
  <2> QED BY <1>1, <2>4, <2>7 DEF n, fin
<1>7. Carries(a, Tail(q), outs, H)
  BY <1>1, <1>5, <1>6 DEF Carries
<1> QED BY <1>2, <1>7

(* A task is spawned: nothing of its generation is in the loop, and all    *)
(* that its client sent is behind the opening.                             *)
LEMMA SpawnCarries ==
  ASSUME NEW r \in LoopRecord, NEW q \in Seq(InputRecord), q # <<>>, q[1].kind = "opened", NEW f \in TcpFlows,
         q[1].flow = f, NEW outs \in Seq(OutputRecord), NEW H, Carries(r, q, outs, H)
  PROVE  Carries(SpawnTask(r, f), Tail(q), outs, H) /\ NoMore(SpawnTask(r, f), r)
<1> DEFINE t == SpawnTask(r, f)
           g == r.gens + 1
<1>1. /\ t \in LoopRecord /\ DOMAIN t.task = DOMAIN r.task \cup {f}
      /\ \A h \in DOMAIN r.task : h # f => t.task[h] = r.task[h]
      /\ t.task[f] = [gen |-> g, pc |-> "connecting", cmds |-> <<>>,
                      forwarded |-> <<>>, emitted |-> 0, writeClosed |-> FALSE]
      /\ t.gens = g
      /\ t.pending = [r.pending EXCEPT ![f] = <<>>]
      /\ \A h \in TcpFlows : h # f => t.sock[h] = r.sock[h]
      /\ t.sock[f].got = r.sock[f].got /\ t.sock[f].sent = r.sock[f].sent /\ t.sock[f].st = r.sock[f].st
      /\ t.sock[f].fin = r.sock[f].fin /\ t.sock[f].tx = r.sock[f].tx
      /\ t.sock[f].gen = IF r.sock[f].st = "none" THEN 0 ELSE g
  BY SpawnReturns, ZenonT(40)
<1>2. /\ r.gens \in Nat /\ r.pending \in [TcpFlows -> Seq(Unit)] /\ g \in Nat /\ g > r.gens
      /\ \A h \in TcpFlows : r.sock[h] \in SocketRecord /\ r.sock[h].got \in Seq(Unit)
      /\ \A h \in TcpFlows : r.sock[h].gen \in Nat /\ r.sock[h].sent \in Nat
  BY DEF LoopRecord, SocketRecord
<1>3. \A h \in DOMAIN r.task : r.task[h].gen \in Nat
  BY DEF LoopRecord, TaskMap, TaskRecord
<1>4. /\ t.task[f].gen = g /\ t.task[f].cmds = <<>> /\ t.task[f].forwarded = <<>> /\ t.task[f].emitted = 0
      /\ t.task[f].writeClosed = FALSE
  BY <1>1
<1> HIDE DEF t, g
<1>5. t.pending[f] = <<>> /\ \A h \in TcpFlows : h # f => t.pending[h] = r.pending[h]
  BY <1>1, <1>2
<1>6. NoMore(t, r)
  BY <1>1, <1>5 DEF NoMore, Writable
<1>7. /\ Stream(t, f) = r.sock[f].got /\ \A h \in TcpFlows : h # f => Stream(t, h) = Stream(r, h)
  <2>1. Stream(t, f) = r.sock[f].got \o <<>>
    BY <1>1, <1>5 DEF Stream
  <2>2. r.sock[f].got \o <<>> = r.sock[f].got
    BY <1>2, ConcatEmptySeq
  <2> QED BY <1>1, <1>5, <2>1, <2>2 DEF Stream
<1>8. \A i \in DOMAIN r.sock[f].got : r.sock[f].got[i][1] \in Nat /\ r.sock[f].got[i][1] <= r.gens
  <2> DEFINE s == r.sock[f].got
             u == r.pending[f]
  <2>1. s \in Seq(Unit) /\ u \in Seq(Unit)
    BY <1>2
  <2>2. \A i \in DOMAIN (s \o u) : (s \o u)[i][1] <= r.gens
    BY DEF Carries, Settled, Dated, Stream
  <2> HIDE DEF s, u
  <2>3. \A i \in DOMAIN s : i \in DOMAIN (s \o u) /\ (s \o u)[i] = s[i] /\ s[i] \in Unit
    BY <2>1
  <2>4. \A x \in Unit : x[1] \in Nat
    BY DEF Unit
  <2>5. \A i \in DOMAIN s : s[i][1] \in Nat /\ s[i][1] <= r.gens
    BY <2>2, <2>3, <2>4
  <2> QED BY <2>5 DEF s
<1>9. /\ Shaped(outs, t.gens) /\ \A i \in DOMAIN outs : ~Chunk(outs[i], f, g)
  <2>1. \A i \in DOMAIN outs : outs[i].gen \in Nat
    <3>1. \A i \in DOMAIN outs : outs[i] \in OutputRecord
      OBVIOUS
    <3>2. \A o \in OutputRecord : o.gen \in Nat
      BY DEF OutputRecord
    <3> QED BY <3>1, <3>2
  <2>2. \A i \in DOMAIN outs : outs[i].kind = "data" => outs[i].gen <= r.gens
    BY DEF Carries, Shaped
  <2>3. \A i \in DOMAIN outs : outs[i].kind = "data" => outs[i].gen <= g /\ outs[i].gen # g
    BY <1>2, <2>1, <2>2
  <2>4. Shaped(outs, g)
    BY <2>3 DEF Carries, Shaped
  <2> QED BY <1>1, <2>3, <2>4 DEF Chunk
<1>10. ASSUME NEW h \in TcpFlows PROVE Settled(t, Tail(q), h)
  <2>1. Settled(r, q, h)
    BY DEF Carries
  <2>2. Opening(r.sock[h], q, h) => Opening(r.sock[h], Tail(q), h)
    BY OpeningTail
  <2>3. CASE h # f
    <3>1. Stream(t, h) = Stream(r, h) /\ t.sock[h] = r.sock[h] /\ t.gens = g
      BY <1>1, <1>7, <2>3
    <3>2. h \in DOMAIN t.task => h \in DOMAIN r.task /\ t.task[h] = r.task[h]
      BY <1>1, <2>3
    <3>3. \A i \in DOMAIN Stream(r, h) : Stream(r, h)[i][1] <= g
      <4> DEFINE s == Stream(r, h)
      <4>1. s \in Seq(Unit)
        BY <1>2 DEF Stream
      <4>2. \A i \in DOMAIN s : s[i][1] <= r.gens
        BY <2>1 DEF Settled, Dated
      <4> HIDE DEF s
      <4>3. \A x \in Unit : x[1] \in Nat
        BY DEF Unit
      <4>4. \A i \in DOMAIN s : s[i] \in Unit /\ s[i][1] \in Nat
        BY <4>1, <4>3
      <4>5. \A i \in DOMAIN s : s[i][1] <= g
        BY <1>2, <4>2, <4>4
      <4> QED BY <4>5 DEF s
    <3>4. Dated(t, h)
      <4>1. t.sock[h].gen <= t.gens /\ (t.sock[h].st = "none" => t.sock[h].gen = 0)
        BY <1>2, <2>1, <3>1 DEF Settled, Dated
      <4>2. h \in DOMAIN t.task => 0 < t.task[h].gen /\ t.task[h].gen <= t.gens
        BY <1>2, <1>3, <2>1, <3>1, <3>2 DEF Settled, Dated
      <4> QED BY <3>1, <3>3, <4>1, <4>2 DEF Dated
    <3> QED BY <2>1, <2>2, <3>1, <3>4 DEF Settled
  <2>4. CASE h = f
    <3>1. Dated(t, h)
      <4>1. t.sock[h].gen <= t.gens /\ (t.sock[h].st = "none" => t.sock[h].gen = 0)
        BY <1>1, <1>2, <2>4
      <4>2. 0 < t.task[h].gen /\ t.task[h].gen <= t.gens
        BY <1>1, <1>2, <1>4, <2>4
      <4>3. \A i \in DOMAIN Stream(t, h) : Stream(t, h)[i][1] <= t.gens
        BY <1>1, <1>2, <1>7, <1>8, <2>4
      <4> QED BY <4>1, <4>2, <4>3 DEF Dated
    <3>2. ASSUME t.sock[h].st # "none" PROVE Opening(t.sock[h], Tail(q), h)
      <4>1. Opening(r.sock[h], q, h)
        BY <1>1, <2>1, <2>4, <3>2 DEF Settled
      <4>2. /\ 1 \in DOMAIN q /\ \A i \in DOMAIN Tail(q) : i + 1 \in DOMAIN q /\ Tail(q)[i] = q[i + 1] /\ 1 < i + 1
        BY QueueTail
      <4>3. \A i \in DOMAIN Tail(q) : ~(Tail(q)[i].flow = h /\ Tail(q)[i].kind = "opened")
        BY <2>4, <4>1, <4>2 DEF Opening
      <4> QED BY <4>3 DEF Opening
    <3> QED BY <3>1, <3>2 DEF Settled
  <2> QED BY <2>3, <2>4
<1>11. ASSUME NEW h \in TcpFlows, h \in H PROVE Streams(t, Tail(q), outs, h)
  <2>1. SUFFICES ASSUME Served(t, h)
                 PROVE  /\ Download(t.task[h], Stream(t, h), outs, h)
                        /\ Upload(t.task[h], t.sock[h].sent, t.sock[h].fin, Tail(q), h)
    BY DEF Streams
  <2>2. CASE h # f
    <3>1. Stream(t, h) = Stream(r, h) /\ t.sock[h] = r.sock[h] /\ h \in DOMAIN r.task /\ t.task[h] = r.task[h]
      BY <1>1, <1>7, <2>1, <2>2 DEF Served
    <3>2. /\ Download(r.task[h], Stream(r, h), outs, h)
          /\ Upload(r.task[h], r.sock[h].sent, r.sock[h].fin, q, h)
      BY <1>11, <2>1, <3>1 DEF Carries, Streams, Served
    <3> DEFINE k == r.task[h]
               n == r.sock[h].sent
               fin == r.sock[h].fin
    <3> HIDE DEF k, n, fin
    <3>3. PICK b \in Nat : /\ Runs(CommandsIn(k.cmds, n), 1, Written(k), b)
                           /\ Runs(FeedsIn(q, h, n), 1, b, Total(n, fin))
      BY <3>2 DEF Upload, k, n, fin
    <3>4. Runs(FeedsIn(Tail(q), h, n), 1, b, Total(n, fin))
      BY <2>2, <3>3, FeedsTail DEF Feeds
    <3>5. Upload(k, n, fin, Tail(q), h)
      BY <3>2, <3>3, <3>4 DEF Upload, k, n, fin
    <3> QED BY <3>1, <3>2, <3>5 DEF k, n, fin
  <2>3. CASE h = f
    <3>1. r.sock[f].st # "none" /\ t.task[f].gen = g
      BY <1>1, <1>2, <1>4, <2>1, <2>3 DEF Served
    <3>2. Opening(r.sock[f], q, f)
      BY <3>1 DEF Carries, Settled
    <3> DEFINE n == r.sock[f].sent
               fin == r.sock[f].fin
               k == t.task[f]
    <3>3. Runs(FeedsIn(q, f, n), 1, 0, Total(n, fin))
      <4>1. 1 \in DOMAIN q
        BY QueueTail
      <4> QED BY <3>2, <4>1 DEF Opening
    <3> HIDE DEF n, fin, k
    <3>4. Runs(FeedsIn(Tail(q), f, n), 1, 0, Total(n, fin))
      BY <3>3, FeedsTail DEF Feeds
    <3>5. k.cmds = <<>> /\ k.forwarded = <<>> /\ k.emitted = 0 /\ k.writeClosed = FALSE /\ k.gen = g
      BY <1>4 DEF k
    <3>6. Written(k) = 0
      BY <3>5 DEF Written
    <3>7. Runs(CommandsIn(k.cmds, n), 1, 0, 0)
      <4>1. DOMAIN CommandsIn(k.cmds, n) = {}
        BY <3>5 DEF CommandsIn
      <4> DEFINE v == CommandsIn(k.cmds, n)
      <4> HIDE DEF v
      <4>2. Runs(v, 1, 0, 0)
        BY <4>1, RunsEmpty DEF v
      <4> QED BY <4>2 DEF v
    <3>8. Upload(k, n, fin, Tail(q), f)
      <4>1. DOMAIN k.forwarded = {}
        BY <3>5
      <4>2. Len(k.forwarded) \in 0 .. n
        BY <1>2, <3>5 DEF n
      <4> QED BY <3>4, <3>5, <3>6, <3>7, <4>1, <4>2 DEF Upload
    <3>9. Download(k, Stream(t, f), outs, f)
      <4> DEFINE s == Stream(t, f)
                 v == UnitsIn(s, g)
                 w == ChunksIn(outs, f, g)
      <4>1. \A i \in DOMAIN s : s[i][1] # g
        BY <1>2, <1>7, <1>8
      <4> HIDE DEF s
      <4>2. DOMAIN v = {} /\ DOMAIN w = {}
        BY <1>9, <4>1 DEF UnitsIn, ChunksIn
      <4> HIDE DEF v, w
      <4>3. Runs(v, 1, 0, 0) /\ Runs(w, ChunkLen, 0, 0)
        BY <4>2, RunsEmpty
      <4>4. \A i \in DOMAIN s : s[i][1] <= g
        BY <1>2, <1>7, <1>8 DEF s
      <4>5. \A i \in DOMAIN outs : DataOf(outs[i], f) => outs[i].gen <= g
        BY <1>1, <1>9 DEF Shaped, DataOf
      <4>6. LeftoversFirst(s, outs, f, g)
        BY <1>9, <4>1, <4>4, <4>5 DEF LeftoversFirst
      <4> QED BY <3>5, <4>3, <4>6 DEF Download, v, w, s
    <3> QED BY <1>1, <2>3, <3>8, <3>9 DEF k, n, fin
  <2> QED BY <2>2, <2>3
<1>12. Carries(t, Tail(q), outs, H)
  BY <1>9, <1>10, <1>11 DEF Carries
<1> QED BY <1>6, <1>12 DEF t

LEMMA ReadyCarries ==
  ASSUME NEW r \in LoopRecord, NEW q \in Seq(InputRecord), q # <<>>, NEW outs \in Seq(OutputRecord), NEW H,
         Carries(r, q, outs, H)
  PROVE  Carries(Ready(r, q[1]), Tail(q), outs, H) /\ NoMore(Ready(r, q[1]), r)
<1> DEFINE e == q[1]
           f == e.flow
<1>1. e \in InputRecord
  OBVIOUS
<1>2. f \in TcpFlows /\ e.n \in Nat /\ e.kind \in {"opened", "data", "half", "closed"}
  BY <1>1 DEF InputRecord
<1>3. CASE e.kind = "opened"
  <2> DEFINE a == Track(r, f)
  <2>1. /\ a \in LoopRecord /\ a.sock = r.sock /\ a.task = r.task /\ a.pending = r.pending /\ a.gens = r.gens
    BY <1>2, TrackReturns
  <2>2. Ready(r, e) = SpawnTask(a, f)
    BY <1>3 DEF Ready
  <2> HIDE DEF a
  <2>3. Sheds(a, r)
    BY <2>1, SameSheds
  <2>4. Carries(a, q, outs, H)
    BY <2>3, FewerCarries DEF Sheds
  <2>5. Carries(SpawnTask(a, f), Tail(q), outs, H) /\ NoMore(SpawnTask(a, f), a)
    BY <1>2, <1>3, <2>1, <2>4, SpawnCarries
  <2>6. NoMore(SpawnTask(a, f), r)
    <3> DEFINE b == SpawnTask(a, f)
    <3>1. NoMore(b, a)
      BY <2>5
    <3> HIDE DEF b
    <3>2. NoMore(b, r)
      BY <2>3, <3>1 DEF Sheds, NoMore
    <3> QED BY <3>2 DEF b
  <2> QED BY <2>2, <2>5, <2>6
<1>4. ASSUME NEW c \in Nat, Feeds(e, f), c = IF e.kind = "half" THEN 0 ELSE e.n
      PROVE  Carries(SendCommand(r, f, c), Tail(q), outs, H) /\ NoMore(SendCommand(r, f, c), r)
  <2>1. CASE Accepts(r, f)
    <3>1. f \in DOMAIN r.task /\ SendCommand(r, f, c) = [r EXCEPT !.task[f].cmds = Append(@, c)]
      BY <2>1 DEF Accepts, SendCommand
    <3> DEFINE a == SendCommand(r, f, c)
    <3>2. a = [r EXCEPT !.task[f].cmds = Append(@, c)]
      BY <3>1
    <3>3. f \in TcpFlows /\ c \in Nat /\ Feeds(q[1], f) /\ c = IF q[1].kind = "half" THEN 0 ELSE q[1].n
      BY <1>2, <1>4
    <3> HIDE DEF a, f
    <3>4. Carries(a, Tail(q), outs, H) /\ NoMore(a, r)
      BY <3>1, <3>2, <3>3, QueueCarries
    <3> QED BY <3>4 DEF a, f
  <2>2. CASE ~Accepts(r, f)
    <3> DEFINE u == Untrack(AbortTask(r, f), f)
               a == SendCommand(r, f, c)
    <3>1. u \in LoopRecord /\ Sheds(u, r) /\ f \notin DOMAIN u.task
      BY <1>2, ReleaseSheds
    <3> HIDE DEF u
    <3>2. a = [u EXCEPT !.ok = FALSE]
      BY <2>2 DEF SendCommand, u
    <3>3. Sheds(a, u) /\ a.task = u.task
      BY <1>2, <3>1, <3>2, HelpersShed, ZenonT(40) DEF LoopRecord
    <3> HIDE DEF a
    <3>4. Sheds(a, r) /\ f \notin DOMAIN a.task
      BY <3>1, <3>3, ShedsTwice
    <3>5. Carries(a, Tail(q), outs, H) /\ NoMore(a, r)
      BY <3>4, ReleaseCarries DEF Sheds
    <3> QED BY <3>5 DEF a
  <2> QED BY <2>1, <2>2
<1>5. CASE e.kind = "data"
  <2>1. Ready(r, e) = SendCommand(r, f, e.n) /\ Feeds(e, f)
    BY <1>5 DEF Ready, Feeds
  <2> QED BY <1>2, <1>4, <1>5, <2>1
<1>6. CASE e.kind = "half"
  <2>1. Ready(r, e) = SendCommand(r, f, 0) /\ Feeds(e, f)
    BY <1>6 DEF Ready, Feeds
  <2> QED BY <1>2, <1>4, <1>6, <2>1
<1>7. CASE e.kind = "closed"
  <2> DEFINE u == Untrack(AbortTask(r, f), f)
  <2>1. Ready(r, e) = u /\ Sheds(u, r) /\ f \notin DOMAIN u.task
    BY <1>2, <1>7, ReleaseSheds DEF Ready
  <2> HIDE DEF u
  <2>2. Carries(u, Tail(q), outs, H) /\ NoMore(u, r)
    BY <2>1, ReleaseCarries DEF Sheds
  <2> QED BY <2>1, <2>2
<1> QED BY <1>2, <1>3, <1>5, <1>6, <1>7

-----------------------------------------------------------------------------
(* handle_proxy_input: an event moves from the inputs to the deferred      *)
(* events of the lookup, or is handled at once.                            *)
LEMMA QueueShift ==
  ASSUME NEW X, NEW E \in Seq(X), NEW z \in Seq(X), z # <<>>
  PROVE  /\ Append(E, z[1]) \o Tail(z) = E \o z /\ <<z[1]>> \o Tail(z) = z /\ <<>> \o z = z
         /\ Tail(z) \in Seq(X) /\ z[1] \in X /\ Head(z) = z[1]
         /\ E \o z \in Seq(X) /\ E \o Tail(z) \in Seq(X) /\ Len(E \o z) = Len(E \o Tail(z)) + 1
         /\ Len(E) + 1 \in DOMAIN (E \o z) /\ (E \o z)[Len(E) + 1] = z[1]
         /\ \A i \in DOMAIN (E \o Tail(z)) :
              (E \o Tail(z))[i] = IF i < Len(E) + 1 THEN (E \o z)[i] ELSE (E \o z)[i + 1]
         /\ \A i \in DOMAIN (E \o z) : i < Len(E) + 1 => i \in DOMAIN E /\ (E \o z)[i] = E[i]
<1>1. /\ Tail(z) \in Seq(X) /\ Head(z) = z[1] /\ z[1] \in X /\ Len(z) \in Nat \ {0} /\ Len(Tail(z)) = Len(z) - 1
      /\ \A i \in 1 .. Len(Tail(z)) : Tail(z)[i] = z[i + 1]
  OBVIOUS
<1> DEFINE t == Tail(z)
           x == z[1]
           y == Append(E, x)
<1>2. t \in Seq(X) /\ x \in X /\ Len(t) = Len(z) - 1 /\ \A i \in 1 .. Len(t) : t[i] = z[i + 1]
  BY <1>1
<1> HIDE DEF t, x
<1>3. y \in Seq(X) /\ Len(y) = Len(E) + 1 /\ y[Len(E) + 1] = x /\ \A i \in 1 .. Len(E) : y[i] = E[i]
  BY <1>2
<1> HIDE DEF y
<1>4. /\ y \o t \in Seq(X) /\ Len(y \o t) = Len(y) + Len(t)
      /\ \A i \in 1 .. Len(y) + Len(t) : (y \o t)[i] = IF i <= Len(y) THEN y[i] ELSE t[i - Len(y)]
  BY <1>2, <1>3, ConcatProperties
<1>5. /\ E \o z \in Seq(X) /\ Len(E \o z) = Len(E) + Len(z)
      /\ \A i \in 1 .. Len(E) + Len(z) : (E \o z)[i] = IF i <= Len(E) THEN E[i] ELSE z[i - Len(E)]
  BY ConcatProperties
<1>6. /\ E \o t \in Seq(X) /\ Len(E \o t) = Len(E) + Len(t)
      /\ \A i \in 1 .. Len(E) + Len(t) : (E \o t)[i] = IF i <= Len(E) THEN E[i] ELSE t[i - Len(E)]
  BY <1>2, ConcatProperties
<1>7. Len(E) \in Nat
  OBVIOUS
<1> DEFINE ez == E \o z
           et == E \o t
           yt == y \o t
           n == Len(E)
           k == Len(z)
<1> HIDE DEF ez, et, yt, n, k
<1>8. n \in Nat /\ k \in Nat \ {0} /\ Len(ez) = n + k /\ Len(et) = n + (k - 1) /\ Len(yt) = n + k
  BY <1>1, <1>2, <1>3, <1>4, <1>5, <1>6, <1>7 DEF n, k, ez, et, yt
<1>9. \A i \in 1 .. n + k : yt[i] = ez[i]
  <2>1. Len(y) = n + 1 /\ Len(t) = k - 1 /\ x = z[1] /\ y[n + 1] = x
    BY <1>2, <1>3 DEF n, k, x
  <2>2. \A i \in 1 .. n + k : yt[i] = IF i <= n + 1 THEN y[i] ELSE t[i - (n + 1)]
    BY <1>4, <1>8, <2>1 DEF yt
  <2>3. \A i \in 1 .. n + k : ez[i] = IF i <= n THEN E[i] ELSE z[i - n]
    BY <1>5 DEF ez, n, k
  <2>4. (\A i \in 1 .. n : y[i] = E[i]) /\ \A i \in 1 .. k - 1 : t[i] = z[i + 1]
    BY <1>2, <1>3, <2>1 DEF n
  <2>5. ASSUME NEW i \in 1 .. n + k PROVE yt[i] = ez[i]
    <3>1. CASE i <= n
      BY <1>8, <2>2, <2>3, <2>4, <3>1
    <3>2. CASE i = n + 1
      BY <1>8, <2>1, <2>2, <2>3, <3>2
    <3>3. CASE i > n + 1
      <4> DEFINE j == i - (n + 1)
      <4>1. j \in 1 .. k - 1 /\ j + 1 = i - n /\ ~(i <= n + 1) /\ ~(i <= n)
        BY <1>8, <3>3
      <4>2. yt[i] = t[j]
        BY <2>2, <4>1
      <4>3. ez[i] = z[j + 1]
        BY <2>3, <4>1
      <4> HIDE DEF j
      <4> QED BY <2>4, <4>1, <4>2, <4>3
    <3> QED BY <1>8, <3>1, <3>2, <3>3
  <2> QED BY <2>5
<1>10. yt = ez
  BY <1>4, <1>5, <1>8, <1>9, SeqEqual DEF ez, yt
<1>11. \A i \in 1 .. n + (k - 1) : et[i] = IF i < n + 1 THEN ez[i] ELSE ez[i + 1]
  BY <1>1, <1>2, <1>5, <1>6, <1>8 DEF n, k, ez, et
<1>12. n + 1 \in 1 .. n + k /\ ez[n + 1] = x /\ \A i \in 1 .. n + k : i < n + 1 => i \in 1 .. n /\ ez[i] = E[i]
  BY <1>5, <1>8 DEF n, k, ez, x
<1>13. DOMAIN ez = 1 .. n + k /\ DOMAIN et = 1 .. n + (k - 1) /\ DOMAIN E = 1 .. n
  BY <1>5, <1>6, <1>8 DEF n, ez, et
<1>14. <<z[1]>> \o Tail(z) = z /\ <<>> \o z = z
  OBVIOUS
<1>15. Len(ez) = Len(et) + 1
  BY <1>8
<1> QED BY <1>1, <1>5, <1>6, <1>10, <1>11, <1>12, <1>13, <1>14, <1>15 DEF n, ez, et, yt, y, t, x

LEMMA SkipCarries ==
  ASSUME NEW a \in LoopRecord, NEW z \in Seq(InputRecord), z # <<>>, DOMAIN a.task = {},
         \A i \in DOMAIN a.lookup.events : a.lookup.events[i].flow # z[1].flow,
         NEW outs, NEW H, Carries(a, Queue(a, z), outs, H)
  PROVE  Carries(a, Queue(a, Tail(z)), outs, H)
<1> DEFINE E == a.lookup.events
           q == E \o z
           w == E \o Tail(z)
           m == Len(E) + 1
<1>1. E \in Seq(InputRecord)
  BY QueueTyped
<1>2. Carries(a, q, outs, H) /\ \A i \in DOMAIN E : E[i].flow # z[1].flow
  BY DEF Queue
<1> HIDE DEF E
<1>3. /\ q \in Seq(InputRecord) /\ w \in Seq(InputRecord) /\ Len(q) = Len(w) + 1 /\ m \in DOMAIN q /\ q[m] = z[1]
      /\ \A i \in DOMAIN w : w[i] = IF i < m THEN q[i] ELSE q[i + 1]
      /\ \A i \in DOMAIN q : i < m => i \in DOMAIN E /\ q[i] = E[i]
  BY <1>1, QueueShift
<1> HIDE DEF q, w, m
<1>4. ASSUME NEW h \in TcpFlows PROVE Settled(a, w, h) /\ Streams(a, w, outs, h)
  <2>1. Settled(a, q, h)
    BY <1>2 DEF Carries
  <2>2. q[m].flow = h => \A i \in DOMAIN q : i < m => q[i].flow # h
    BY <1>2, <1>3
  <2>3. Opening(a.sock[h], q, h) => Opening(a.sock[h], w, h)
    BY <1>3, <2>2, OpeningDrop
  <2> QED BY <2>1, <2>3 DEF Settled, Streams, Served
<1>5. Carries(a, w, outs, H)
  BY <1>2, <1>4 DEF Carries
<1> QED BY <1>5 DEF w, E, Queue

LEMMA DeferredCarries ==
  ASSUME NEW L, NEW P, NEW r \in Ordered(L, P), r.lookup.id # 0, NEW z \in Seq(InputRecord), z # <<>>,
         NEW outs, NEW H, Carries(r, Queue(r, z), outs, H)
  PROVE  LET a == Deferred(r, z[1]) IN Carries(a, Queue(a, Tail(z)), outs, H)
<1> DEFINE e == z[1]
           f == e.flow
           d == DropDeferred(r, f)
           u == Untrack(d, f)
           a == Deferred(r, e)
           E == r.lookup.events
<1>1. e \in InputRecord /\ f \in TcpFlows /\ r \in LoopRecord
  <2>1. e \in InputRecord
    OBVIOUS
  <2> QED BY <2>1 DEF InputRecord, Ordered
<1>2. /\ d \in LoopRecord /\ Carries(d, Queue(d, z), outs, H) /\ Sheds(d, r)
  BY <1>1, DropCarries
<1>3. d \in Ordered(L, P) /\ \A i \in DOMAIN d.lookup.events : d.lookup.events[i].flow # f
  BY <1>1, DropDeferredOrdered
<1>4. DOMAIN d.task = {}
  <2>1. d.task = r.task
    BY <1>1, DropDeferredReturns DEF Ordered, LookupInOrder
  <2> QED BY <2>1 DEF Ordered, TasksInOrder
<1>5. Carries(d, Queue(d, Tail(z)), outs, H)
  <2> HIDE DEF d
  <2> QED BY <1>2, <1>3, <1>4, SkipCarries
<1>6. u \in LoopRecord /\ Sheds(u, d) /\ u.lookup = d.lookup
  BY <1>1, <1>2, HelpersShed, UntrackReturns
<1> HIDE DEF d
<1>7. Carries(u, Queue(u, Tail(z)), outs, H)
  BY <1>5, <1>6, ShedsCarries DEF Sheds
<1>8. CASE e.kind = "closed"
  <2>1. a = u
    BY <1>8 DEF Deferred, d
  <2> QED BY <1>7, <2>1
<1>9. CASE e.kind # "closed" /\ Len(r.lookup.events) - 1 >= ChannelCap
  <2>1. a = [u EXCEPT !.ok = FALSE]
    BY <1>9 DEF Deferred, d
  <2> HIDE DEF u
  <2>2. Sheds(a, u) /\ a.lookup = u.lookup
    BY <1>1, <1>6, <2>1, HelpersShed DEF LoopRecord
  <2> HIDE DEF a
  <2>3. Carries(a, Queue(a, Tail(z)), outs, H)
    BY <1>7, <2>2, ShedsCarries DEF Sheds
  <2> QED BY <2>3 DEF a
<1>10. CASE e.kind # "closed" /\ ~(Len(r.lookup.events) - 1 >= ChannelCap)
  <2> DEFINE b == [r EXCEPT !.lookup.events = Append(@, e)]
  <2>1. a = Track(b, f)
    BY <1>10 DEF Deferred
  <2>2. /\ b.sock = r.sock /\ b.task = r.task /\ b.pending = r.pending /\ b.gens = r.gens
        /\ b.lookup.events = Append(E, e)
    BY <1>1 DEF LoopRecord, LookupRecord
  <2>3. /\ a.sock = r.sock /\ a.task = r.task /\ a.pending = r.pending /\ a.gens = r.gens
        /\ a.lookup.events = Append(E, e)
    <3>1. b \in LoopRecord
      <4>1. e \in DeferredRecord
        BY <1>1, <1>10 DEF InputRecord, DeferredRecord
      <4>2. r.lookup \in LookupRecord
        BY <1>1 DEF LoopRecord
      <4>3. r.lookup.events \in Seq(DeferredRecord)
        BY <4>2 DEF LookupRecord
      <4> HIDE DEF e
      <4>4. Append(r.lookup.events, e) \in Seq(DeferredRecord)
        BY <4>1, <4>3
      <4>5. [r.lookup EXCEPT !.events = Append(r.lookup.events, e)] \in LookupRecord
        BY <4>2, <4>4 DEF LookupRecord
      <4> DEFINE l == [r.lookup EXCEPT !.events = Append(r.lookup.events, e)]
      <4>6. b = [r EXCEPT !.lookup = l]
        BY <1>1 DEF LoopRecord
      <4> HIDE DEF l, b
      <4>7. l \in LookupRecord
        BY <4>5 DEF l
      <4> QED BY <1>1, <4>6, <4>7 DEF LoopRecord
    <3> HIDE DEF b
    <3> QED BY <1>1, <2>1, <2>2, <3>1, TrackReturns
  <2> HIDE DEF a
  <2>4. Sheds(a, r)
    BY <2>3, SameSheds
  <2>5. Carries(a, E \o z, outs, H)
    BY <2>4, FewerCarries DEF Queue, Sheds
  <2>6. E \in Seq(InputRecord)
    BY <1>1, QueueTyped
  <2>7. Queue(a, Tail(z)) = E \o z
    <3> HIDE DEF E
    <3>1. Append(E, e) \o Tail(z) = E \o z
      BY <2>6, QueueShift
    <3> QED BY <2>3, <3>1 DEF Queue
  <2>8. Carries(a, Queue(a, Tail(z)), outs, H)
    BY <2>5, <2>7
  <2> QED BY <2>8 DEF a
<1> QED BY <1>8, <1>9, <1>10

LEMMA InputCarries ==
  ASSUME NEW L, NEW P, NEW r \in Ordered(L, P), NEW z \in Seq(InputRecord), z # <<>>,
         NEW outs \in Seq(OutputRecord), NEW H, Carries(r, Queue(r, z), outs, H)
  PROVE  LET a == HandleProxyInput(r, z[1]) IN Carries(a, Queue(a, Tail(z)), outs, H)
<1> DEFINE e == z[1]
           a == HandleProxyInput(r, e)
<1>1. e \in InputRecord /\ e.flow \in TcpFlows /\ r \in LoopRecord
  <2>1. e \in InputRecord
    OBVIOUS
  <2> QED BY <2>1 DEF InputRecord, Ordered
<1>2. CASE r.lookup.id # 0
  <2>1. a = Deferred(r, e)
    BY <1>2 DEF HandleProxyInput
  <2> QED BY <1>2, <2>1, DeferredCarries
<1>3. ASSUME r.lookup.id = 0
      PROVE  r.lookup.events = <<>> /\ Queue(r, z) = z /\ Carries(r, z, outs, H)
  <2>1. r.lookup.events = <<>>
    BY <1>3 DEF Ordered, LookupInOrder, NoLookup
  <2>2. Queue(r, z) = z
    BY <1>1, <2>1, QueueTyped
  <2> QED BY <2>1, <2>2
<1>4. CASE r.lookup.id = 0 /\ ~(e.kind = "opened" /\ r.resolver /\ ~r.cached)
  <2>1. a = Ready(r, e)
    BY <1>4 DEF HandleProxyInput
  <2>2. Carries(a, Tail(z), outs, H)
    BY <1>1, <1>3, <1>4, <2>1, ReadyCarries
  <2>3. a.lookup = r.lookup
    <3> DEFINE f == e.flow
    <3>1. e.kind \in {"opened", "data", "half", "closed"} /\ e.n \in Nat
      BY <1>1 DEF InputRecord
    <3>2. CASE e.kind # "closed"
      <4>1. e \in DeferredRecord
        BY <1>1, <3>2 DEF InputRecord, DeferredRecord
      <4>2. r \in Ordered(L \cup {f}, P) /\ f \in L \cup {f}
        BY OrderedGrows
      <4>3. e.kind = "opened" => r.cached \/ ~r.resolver
        BY <1>4
      <4> DEFINE M == L \cup {f}
      <4> HIDE DEF M
      <4>4. r \in Ordered(M, P) /\ e.flow \in M
        BY <4>2 DEF M
      <4>5. Ready(r, e).lookup = r.lookup
        BY <1>4, <4>1, <4>3, <4>4, ReadyOrdered
      <4> QED BY <2>1, <4>5
    <3>3. CASE e.kind = "closed"
      <4>1. Ready(r, e) = Untrack(AbortTask(r, f), f)
        BY <3>3 DEF Ready
      <4> QED BY <1>1, <2>1, <4>1, ReleaseSheds
    <3> QED BY <3>2, <3>3
  <2>4. Queue(a, Tail(z)) = Tail(z)
    <3>1. a.lookup.events = <<>>
      BY <1>3, <1>4, <2>3
    <3>2. Tail(z) \in Seq(InputRecord)
      OBVIOUS
    <3> HIDE DEF a
    <3>3. <<>> \o Tail(z) = Tail(z)
      BY <3>2
    <3> QED BY <3>1, <3>3 DEF Queue
  <2> QED BY <2>2, <2>4
<1>5. CASE r.lookup.id = 0 /\ e.kind = "opened" /\ r.resolver /\ ~r.cached
  <2> DEFINE t == Track(r, e.flow)
  <2>1. a = StartLookup(r, e)
    BY <1>5 DEF HandleProxyInput
  <2>2. t \in LoopRecord /\ t.sock = r.sock /\ t.task = r.task /\ t.pending = r.pending /\ t.gens = r.gens
    BY <1>1, TrackReturns
  <2> HIDE DEF t
  <2>3. /\ a.sock = t.sock /\ a.task = t.task /\ a.pending = t.pending /\ a.gens = t.gens
        /\ a.lookup.events = <<e>>
    BY <2>1, <2>2 DEF StartLookup, LoopRecord, t
  <2> HIDE DEF a
  <2>4. Sheds(a, r)
    BY <2>2, <2>3, SameSheds
  <2>5. Carries(a, z, outs, H)
    BY <1>3, <1>5, <2>4, FewerCarries DEF Sheds
  <2>6. Queue(a, Tail(z)) = z
    <3>1. <<e>> \o Tail(z) = z
      OBVIOUS
    <3> QED BY <2>3, <3>1 DEF Queue
  <2>7. Carries(a, Queue(a, Tail(z)), outs, H)
    BY <2>5, <2>6
  <2> QED BY <2>7 DEF a
<1> QED BY <1>2, <1>4, <1>5

-----------------------------------------------------------------------------
(* The folds of the loop: the closes, the flush, the reaping and expiry.   *)
LEMMA CloseAllCarries ==
  ASSUME NEW L, NEW P, NEW r \in Ordered(L, P), NEW S \in SUBSET TcpFlows, NEW z \in Seq(InputRecord),
         NEW outs, NEW H, Carries(r, Queue(r, z), outs, H)
  PROVE  LET a == FoldSet(CloseFlow, r, S) IN
         /\ a \in Ordered(L, P) /\ Carries(a, Queue(a, z), outs, H) /\ Sheds(a, r)
         /\ DOMAIN a.task \cap S = {}
<1> DEFINE G == {y \in Ordered(L, P) : Carries(y, Queue(y, z), outs, H) /\ Sheds(y, r)}
           Q == [t \in SUBSET S |-> {y \in G : DOMAIN y.task \cap t = {}}]
           a == FoldSet(CloseFlow, r, S)
<1>1. IsFiniteSet(S)
  BY FS_Subset, TunTcpAssumption
<1>2. r \in G
  BY SameSheds
<1>3. ASSUME NEW f \in S, NEW y \in G
      PROVE  /\ CloseFlow(f, y) \in G /\ f \notin DOMAIN CloseFlow(f, y).task
             /\ DOMAIN CloseFlow(f, y).task \subseteq DOMAIN y.task
  <2> DEFINE c == CloseFlow(f, y)
  <2>1. f \in TcpFlows /\ y \in Ordered(L, P) /\ Carries(y, Queue(y, z), outs, H) /\ Sheds(y, r)
    BY <1>3
  <2>2. Carries(c, Queue(c, z), outs, H) /\ Sheds(c, y) /\ f \notin DOMAIN c.task
    BY <2>1, CloseFlowCarries
  <2>3. c \in Ordered(L, P)
    BY <2>1, CloseFlowOrdered
  <2> HIDE DEF c
  <2>4. Sheds(c, r)
    BY <2>1, <2>2, ShedsTwice
  <2>5. DOMAIN c.task \subseteq TcpFlows
    BY <2>3 DEF Ordered, LoopRecord, TaskMap
  <2>6. DOMAIN c.task \subseteq DOMAIN y.task
    BY <2>2, <2>5 DEF Sheds, Fewer, SameFlow
  <2> QED BY <2>2, <2>3, <2>4, <2>6 DEF c
<1>4. r \in Q[{}]
  BY <1>2
<1>5. ASSUME NEW t \in SUBSET S, NEW f \in S \ t, NEW y \in Q[t] PROVE CloseFlow(f, y) \in Q[t \cup {f}]
  <2>1. y \in G /\ DOMAIN y.task \cap t = {}
    <3> HIDE DEF G
    <3> QED BY <1>5
  <2>2. /\ CloseFlow(f, y) \in G /\ f \notin DOMAIN CloseFlow(f, y).task
        /\ DOMAIN CloseFlow(f, y).task \subseteq DOMAIN y.task
    BY <1>3, <1>5, <2>1
  <2> DEFINE c == CloseFlow(f, y)
  <2> HIDE DEF G, c
  <2>3. c \in G /\ DOMAIN c.task \cap (t \cup {f}) = {}
    BY <2>1, <2>2 DEF c
  <2>4. t \cup {f} \in SUBSET S
    BY <1>5
  <2>5. c \in Q[t \cup {f}]
    BY <2>3, <2>4
  <2> QED BY <2>5 DEF c
<1>6. a \in Q[S]
  <2>1. \A f \in S : \A y \in G : CloseFlow(f, y) \in G
    BY <1>3
  <2>2. \A t \in SUBSET S : \A f \in S \ t : \A y \in Q[t] : CloseFlow(f, y) \in Q[t \cup {f}]
    BY <1>5
  <2> HIDE DEF G, Q
  <2> QED BY <1>1, <1>2, <1>4, <2>1, <2>2, CloseFollows
<1> HIDE DEF a
<1>7. a \in G /\ DOMAIN a.task \cap S = {}
  <2> HIDE DEF G
  <2> QED BY <1>6
<1>8. /\ a \in Ordered(L, P) /\ Carries(a, Queue(a, z), outs, H) /\ Sheds(a, r)
      /\ DOMAIN a.task \cap S = {}
  BY <1>7
<1> QED BY <1>8 DEF a

LEMMA FlushAllCarries ==
  ASSUME NEW L, NEW P, NEW r \in Ordered(L, P), NEW z \in Seq(InputRecord),
         NEW outs, NEW H, Carries(r, Queue(r, z), outs, H)
  PROVE  LET a == FoldSet(FlushFlow, r, TcpFlows) IN
         /\ Carries(a, Queue(a, z), outs, H) /\ \A h \in TcpFlows : Drained(a, h)
<1> DEFINE G == {y \in Ordered(L, P) : Carries(y, Queue(y, z), outs, H)}
           Q == [t \in SUBSET TcpFlows |-> {y \in G : \A h \in t : Drained(y, h)}]
           a == FoldSet(FlushFlow, r, TcpFlows)
<1>1. r \in G /\ r \in Q[{}]
  OBVIOUS
<1>2. ASSUME NEW f \in TcpFlows, NEW y \in G
      PROVE  /\ FlushFlow(f, y) \in G /\ Drained(FlushFlow(f, y), f)
             /\ \A h \in TcpFlows : Drained(y, h) => Drained(FlushFlow(f, y), h)
  <2> DEFINE c == FlushFlow(f, y)
  <2>1. y \in Ordered(L, P) /\ y \in LoopRecord /\ Carries(y, Queue(y, z), outs, H)
    BY <1>2 DEF Ordered
  <2>2. /\ Fewer(c, y) /\ c.lookup = y.lookup /\ Drained(c, f)
        /\ \A h \in TcpFlows : Drained(y, h) => Drained(c, h)
    BY <2>1, FlushFewer
  <2>3. c \in Ordered(L, P)
    BY <2>1, FlushOrdered
  <2> HIDE DEF c
  <2>4. Carries(c, Queue(c, z), outs, H)
    BY <2>1, <2>2, ShedsCarries
  <2> QED BY <2>2, <2>3, <2>4 DEF c
<1>3. ASSUME NEW t \in SUBSET TcpFlows, NEW f \in TcpFlows \ t, NEW y \in Q[t]
      PROVE  FlushFlow(f, y) \in Q[t \cup {f}]
  <2>1. y \in G /\ \A h \in t : Drained(y, h)
    <3> HIDE DEF G
    <3> QED BY <1>3
  <2> DEFINE c == FlushFlow(f, y)
  <2>2. c \in G /\ Drained(c, f) /\ \A h \in TcpFlows : Drained(y, h) => Drained(c, h)
    BY <1>2, <1>3, <2>1
  <2> HIDE DEF G, c
  <2>3. \A h \in t \cup {f} : Drained(c, h)
    BY <1>3, <2>1, <2>2
  <2>4. t \cup {f} \in SUBSET TcpFlows
    BY <1>3
  <2>5. c \in Q[t \cup {f}]
    BY <2>2, <2>3, <2>4
  <2> QED BY <2>5 DEF c
<1>4. a \in Q[TcpFlows]
  <2>1. \A f \in TcpFlows : \A y \in G : FlushFlow(f, y) \in G
    BY <1>2
  <2>2. \A t \in SUBSET TcpFlows : \A f \in TcpFlows \ t : \A y \in Q[t] : FlushFlow(f, y) \in Q[t \cup {f}]
    BY <1>3
  <2> HIDE DEF G, Q
  <2> QED BY <1>1, <2>1, <2>2, FlushFollows, TunTcpAssumption
<1> HIDE DEF a
<1>5. a \in G /\ \A h \in TcpFlows : Drained(a, h)
  <2> HIDE DEF G
  <2> QED BY <1>4
<1>6. Carries(a, Queue(a, z), outs, H) /\ \A h \in TcpFlows : Drained(a, h)
  BY <1>5
<1> QED BY <1>6 DEF a

LEMMA CloseAndFlushCarries ==
  ASSUME NEW L, NEW P, NEW r \in Ordered(L, P), NEW z \in Seq(InputRecord),
         NEW outs, NEW H, Carries(r, Queue(r, z), outs, H)
  PROVE  LET a == CloseAndFlush(r) IN
         /\ Carries(a, Queue(a, z), outs, H) /\ \A h \in TcpFlows : Drained(a, h)
<1> DEFINE S == r.tracked \cap r.requested
           c == FoldSet(CloseFlow, r, S)
           a == FoldSet(FlushFlow, c, TcpFlows)
<1>1. S \in SUBSET TcpFlows
  BY DEF Ordered, LoopRecord
<1> HIDE DEF S
<1>2. c \in Ordered(L, P) /\ Carries(c, Queue(c, z), outs, H)
  BY <1>1, CloseAllCarries
<1> HIDE DEF c
<1>3. Carries(a, Queue(a, z), outs, H) /\ \A h \in TcpFlows : Drained(a, h)
  BY <1>2, FlushAllCarries
<1>4. CloseAndFlush(r) = a
  BY DEF CloseAndFlush, c, S
<1> QED BY <1>3, <1>4

LEMMA ReapAllCarries ==
  ASSUME NEW L, NEW P, NEW r \in Ordered(L, P), NEW S \in SUBSET TcpFlows, NEW z \in Seq(InputRecord),
         NEW outs, NEW H, Carries(r, Queue(r, z), outs, H)
  PROVE  LET a == FoldSet(ReapFlow, r, S)
             b == FoldSet(ExpireFlow, r, S) IN
         Carries(a, Queue(a, z), outs, H) /\ Carries(b, Queue(b, z), outs, H)
<1> DEFINE G == {y \in Ordered(L, P) : Carries(y, Queue(y, z), outs, H)}
           a == FoldSet(ReapFlow, r, S)
           b == FoldSet(ExpireFlow, r, S)
<1>1. IsFiniteSet(S)
  BY FS_Subset, TunTcpAssumption
<1>2. r \in G
  OBVIOUS
<1>3. ASSUME NEW f \in S, NEW y \in G PROVE ReapFlow(f, y) \in G
  <2> DEFINE c == ReapFlow(f, y)
  <2>1. f \in TcpFlows /\ y \in Ordered(L, P) /\ y \in LoopRecord /\ Carries(y, Queue(y, z), outs, H)
    BY <1>3 DEF Ordered
  <2>2. Sheds(c, y) /\ c.lookup = y.lookup
    BY <2>1, ReapSheds
  <2>3. c \in Ordered(L, P)
    BY <2>1, ReapOrdered
  <2> HIDE DEF c
  <2>4. Carries(c, Queue(c, z), outs, H)
    BY <2>1, <2>2, ShedsCarries DEF Sheds
  <2> QED BY <2>3, <2>4 DEF c
<1>4. ASSUME NEW f \in S, NEW y \in G PROVE ExpireFlow(f, y) \in G
  <2> DEFINE c == ExpireFlow(f, y)
  <2>1. f \in TcpFlows /\ y \in Ordered(L, P) /\ Carries(y, Queue(y, z), outs, H)
    BY <1>4
  <2>2. Carries(c, Queue(c, z), outs, H)
    BY <2>1, ExpireCarries
  <2>3. c \in Ordered(L, P)
    BY <2>1, ExpireOrdered
  <2> HIDE DEF c
  <2> QED BY <2>2, <2>3 DEF c
<1>5. a \in G
  <2>1. \A f \in S : \A y \in G : ReapFlow(f, y) \in G
    BY <1>3
  <2> HIDE DEF G
  <2> QED BY <1>1, <1>2, <2>1, ReapStays
<1>6. b \in G
  <2>1. \A f \in S : \A y \in G : ExpireFlow(f, y) \in G
    BY <1>4
  <2> HIDE DEF G
  <2> QED BY <1>1, <1>2, <2>1, ExpireStays
<1> HIDE DEF a, b
<1>7. Carries(a, Queue(a, z), outs, H) /\ Carries(b, Queue(b, z), outs, H)
  BY <1>5, <1>6
<1> QED BY <1>7 DEF a, b

(* complete_process_lookup: the deferred events are the front of the       *)
(* queue, and each one replayed leaves the rest of it.                     *)
LEMMA SuffixStep ==
  ASSUME NEW X, NEW w \in Seq(X), NEW k \in Nat, k < Len(w)
  PROVE  LET s == SubSeq(w, k + 1, Len(w)) IN
         s \in Seq(X) /\ s # <<>> /\ s[1] = w[k + 1] /\ Tail(s) = SubSeq(w, (k + 1) + 1, Len(w))
<1> DEFINE n == Len(w)
           s == SubSeq(w, k + 1, n)
           t == SubSeq(w, (k + 1) + 1, n)
<1>1. n \in Nat /\ k + 1 \in 1 .. n /\ k + 1 <= n
  OBVIOUS
<1>2. s \in Seq(X) /\ Len(s) = n - k /\ \A i \in 1 .. n - k : s[i] = w[k + i]
  OBVIOUS
<1>3. t \in Seq(X) /\ Len(t) = n - (k + 1) /\ \A i \in 1 .. n - (k + 1) : t[i] = w[(k + 1) + i]
  OBVIOUS
<1> HIDE DEF n, s, t
<1>4. s # <<>> /\ s[1] = w[k + 1]
  <2>1. 1 \in 1 .. n - k /\ Len(s) > 0
    BY <1>1, <1>2
  <2>2. s[1] = w[k + 1]
    BY <1>2, <2>1
  <2> QED BY <1>2, <2>1, <2>2
<1>5. Tail(s) \in Seq(X) /\ Len(Tail(s)) = Len(s) - 1 /\ \A i \in 1 .. Len(s) - 1 : Tail(s)[i] = s[i + 1]
  BY <1>2, <1>4
<1>6. Len(Tail(s)) = Len(t) /\ Len(t) = n - (k + 1) /\ n - (k + 1) \in Nat
  BY <1>1, <1>2, <1>3, <1>5
<1>7. ASSUME NEW i \in 1 .. Len(t) PROVE Tail(s)[i] = t[i]
  <2>1. i \in 1 .. n - (k + 1) /\ i \in 1 .. Len(s) - 1 /\ i + 1 \in 1 .. n - k /\ k + (i + 1) = (k + 1) + i
    BY <1>1, <1>2, <1>6
  <2> QED BY <1>2, <1>3, <1>5, <2>1
<1>8. Tail(s) = t
  BY <1>3, <1>5, <1>6, <1>7, SeqEqual
<1> QED BY <1>2, <1>4, <1>8 DEF n, s, t

LEMMA SuffixEnds ==
  ASSUME NEW X, NEW E \in Seq(X), NEW z \in Seq(X)
  PROVE  LET w == E \o z IN
         /\ w \in Seq(X) /\ SubSeq(w, 0 + 1, Len(w)) = w /\ SubSeq(w, Len(E) + 1, Len(w)) = z
         /\ \A k \in 0 .. Len(E) - 1 : k \in Nat /\ k < Len(w) /\ w[k + 1] = E[k + 1]
<1> DEFINE w == E \o z
           n == Len(E)
           s == SubSeq(w, n + 1, Len(w))
<1>1. /\ w \in Seq(X) /\ Len(w) = n + Len(z) /\ n \in Nat /\ Len(z) \in Nat
      /\ \A i \in 1 .. n + Len(z) : w[i] = IF i <= n THEN E[i] ELSE z[i - n]
  BY ConcatProperties
<1> HIDE DEF w
<1>2. SubSeq(w, 0 + 1, Len(w)) = w
  BY <1>1
<1>3. s \in Seq(X) /\ Len(s) = Len(z) /\ \A i \in 1 .. Len(z) : s[i] = w[n + i]
  BY <1>1
<1> HIDE DEF s, n
<1>4. ASSUME NEW i \in 1 .. Len(z) PROVE s[i] = z[i]
  <2>1. n + i \in 1 .. n + Len(z) /\ ~(n + i <= n) /\ (n + i) - n = i
    BY <1>1
  <2> QED BY <1>1, <1>3, <2>1
<1>5. s = z
  BY <1>3, <1>4, SeqEqual
<1>6. \A k \in 0 .. n - 1 : k \in Nat /\ k < Len(w) /\ w[k + 1] = E[k + 1]
  BY <1>1
<1> QED BY <1>1, <1>2, <1>5, <1>6 DEF w, n, s

LEMMA LooseTail ==
  ASSUME NEW a, NEW q \in Seq(InputRecord), q # <<>>, NEW outs, Carries(a, q, outs, {})
  PROVE  Carries(a, Tail(q), outs, {})
<1>1. ASSUME NEW h \in TcpFlows PROVE Settled(a, Tail(q), h)
  <2>1. Settled(a, q, h)
    BY DEF Carries
  <2>2. Opening(a.sock[h], q, h) => Opening(a.sock[h], Tail(q), h)
    BY OpeningTail
  <2> QED BY <2>1, <2>2 DEF Settled
<1> QED BY <1>1 DEF Carries

Kept(x) == IF x.ok THEN TcpFlows ELSE {}

LEMMA ReplayCarries ==
  ASSUME NEW L, NEW P, NEW r \in Ordered(L, P), r.lookup = NoLookup, r.cached,
         NEW q \in Seq(DeferredRecord), \A i \in DOMAIN q : q[i].flow \in L,
         NEW z \in Seq(InputRecord), NEW outs \in Seq(OutputRecord),
         Carries(r, q \o z, outs, Kept(r)), \A h \in TcpFlows : Drained(r, h)
  PROVE  LET a == FoldLeft(ReplayEvent, r, q) IN
         /\ a \in Ordered(L, P) /\ a.lookup = NoLookup
         /\ Carries(a, z, outs, Kept(a)) /\ \A h \in TcpFlows : Drained(a, h)
<1> DEFINE E == {e \in DeferredRecord : e.flow \in L}
           G == {x \in Ordered(L, P) : x.lookup = NoLookup /\ (x.ok => x.cached)}
           w == q \o z
           Q == [k \in 0 .. Len(q) |-> {x \in G : /\ Carries(x, SubSeq(w, k + 1, Len(w)), outs, Kept(x))
                                                  /\ \A h \in TcpFlows : Drained(x, h)}]
           a == FoldLeft(ReplayEvent, r, q)
<1>1. q \in Seq(E) /\ q \in Seq(InputRecord)
  <2>1. DeferredRecord \subseteq InputRecord
    BY DEF DeferredRecord, InputRecord
  <2>2. q \in Seq(E)
    BY SeqDef
  <2>3. q \in Seq(InputRecord)
    BY <2>1
  <2> QED BY <2>2, <2>3
<1>2. NoLookup.id = 0
  BY DEF NoLookup
<1>3. ASSUME NEW e \in E, NEW x \in G PROVE ReplayEvent(x, e) \in G
  <2>1. x \in Ordered(L, P) /\ x.lookup.id = 0 /\ x.lookup = NoLookup /\ (x.ok => x.cached)
    BY <1>2, <1>3
  <2>2. CASE x.ok
    <3>1. /\ Ready(x, e) \in Ordered(L, P) /\ Ready(x, e).lookup = x.lookup
          /\ Ready(x, e).ok => Ready(x, e).cached = x.cached
      BY <1>3, <2>1, <2>2, ReadyOrdered
    <3> QED BY <2>1, <2>2, <3>1 DEF ReplayEvent
  <2>3. CASE ~x.ok
    BY <1>3, <2>3 DEF ReplayEvent
  <2> QED BY <2>2, <2>3
<1>4. /\ w \in Seq(InputRecord) /\ SubSeq(w, 0 + 1, Len(w)) = w /\ SubSeq(w, Len(q) + 1, Len(w)) = z
      /\ \A k \in 0 .. Len(q) - 1 : k \in Nat /\ k < Len(w) /\ w[k + 1] = q[k + 1]
  BY <1>1, SuffixEnds
<1>5. Len(q) \in Nat /\ 0 \in 0 .. Len(q) /\ Len(q) \in 0 .. Len(q)
  OBVIOUS
<1>6. r \in G /\ Carries(r, w, outs, Kept(r))
  OBVIOUS
<1>7. r \in Q[0]
  <2> HIDE DEF G, w
  <2> QED BY <1>4, <1>5, <1>6
<1>8. ASSUME NEW k \in 0 .. Len(q) - 1, NEW x \in G, x \in Q[k] PROVE ReplayEvent(x, q[k + 1]) \in Q[k + 1]
  <2> DEFINE s == SubSeq(w, k + 1, Len(w))
             e == q[k + 1]
             c == ReplayEvent(x, e)
  <2>1. k \in 0 .. Len(q) /\ k + 1 \in 0 .. Len(q) /\ k \in Nat /\ k < Len(w) /\ w[k + 1] = e
    BY <1>4, <1>5
  <2>2. Carries(x, s, outs, Kept(x)) /\ \A h \in TcpFlows : Drained(x, h)
    <3> HIDE DEF G, w
    <3> QED BY <1>8, <2>1
  <2>3. e \in E
    BY <1>1, <1>5
  <2>4. c \in G
    <3> HIDE DEF G, E, e
    <3> QED BY <1>3, <1>8, <2>3
  <2> HIDE DEF w
  <2>5. s \in Seq(InputRecord) /\ s # <<>> /\ s[1] = e /\ Tail(s) = SubSeq(w, (k + 1) + 1, Len(w))
    BY <1>4, <2>1, SuffixStep
  <2> HIDE DEF s
  <2>6. Carries(c, Tail(s), outs, Kept(c)) /\ \A h \in TcpFlows : Drained(c, h)
    <3>1. CASE x.ok
      <4>1. c = Ready(x, s[1]) /\ x \in LoopRecord /\ Kept(x) = TcpFlows
        BY <1>8, <2>5, <3>1 DEF ReplayEvent, Ordered, Kept
      <4> HIDE DEF c, e, G
      <4>2. Carries(c, Tail(s), outs, TcpFlows) /\ NoMore(c, x)
        BY <2>2, <2>5, <4>1, ReadyCarries
      <4>3. \A h \in TcpFlows : Drained(c, h)
        BY <2>2, <4>2, NoMoreDrained
      <4>4. Carries(c, Tail(s), outs, Kept(c))
        BY <4>2 DEF Carries, Kept
      <4> QED BY <4>3, <4>4
    <3>2. CASE ~x.ok
      <4>1. c = x /\ Kept(x) = {}
        BY <3>2 DEF ReplayEvent, Kept
      <4> HIDE DEF c, e, G
      <4>2. Carries(x, Tail(s), outs, {})
        BY <2>2, <2>5, <4>1, LooseTail
      <4> QED BY <2>2, <4>1, <4>2
    <3> QED BY <3>1, <3>2
  <2> HIDE DEF G, c
  <2>7. c \in Q[k + 1]
    BY <2>1, <2>4, <2>5, <2>6
  <2> QED BY <2>7 DEF c
<1>9. a \in Q[Len(q)]
  <2>1. \A e \in E : \A x \in G : ReplayEvent(x, e) \in G
    BY <1>3
  <2>2. \A k \in 0 .. Len(q) - 1 : \A x \in G : x \in Q[k] => ReplayEvent(x, q[k + 1]) \in Q[k + 1]
    BY <1>8
  <2> HIDE DEF E, G, Q
  <2> QED BY <1>1, <1>6, <1>7, <2>1, <2>2, ReplayGoes
<1> HIDE DEF a
<1>10. a \in G /\ Carries(a, z, outs, Kept(a)) /\ \A h \in TcpFlows : Drained(a, h)
  <2> HIDE DEF G, w
  <2> QED BY <1>4, <1>5, <1>9
<1>11. /\ a \in Ordered(L, P) /\ a.lookup = NoLookup
       /\ Carries(a, z, outs, Kept(a)) /\ \A h \in TcpFlows : Drained(a, h)
  BY <1>10
<1> QED BY <1>11 DEF a

LEMMA ResolvedCarries ==
  ASSUME NEW L, NEW P, NEW r \in Ordered(L, P), NEW z \in Seq(InputRecord), NEW outs \in Seq(OutputRecord),
         Carries(r, Queue(r, z), outs, TcpFlows), \A h \in TcpFlows : Drained(r, h), NEW o
  PROVE  LET a == ProcessResolved(r, o) IN
         Carries(a, Queue(a, z), outs, TcpFlows) /\ \A h \in TcpFlows : Drained(a, h)
<1> DEFINE b == [r EXCEPT !.lookup = NoLookup, !.cached = TRUE]
           q == r.lookup.events
           end == FoldLeft(ReplayEvent, b, q)
           S == {q[i].flow : i \in DOMAIN q} \cup end.tracked
           c == FoldSet(CloseFlow, end, S)
           d == [c EXCEPT !.ok = TRUE]
           a == Replay(b, q)
<1>1. /\ r \in LoopRecord /\ q \in Seq(DeferredRecord) /\ TasksInOrder(r) /\ LookupInOrder(r, L)
  BY DEF Ordered, LoopRecord, LookupRecord
<1>2. NoLookup \in LookupRecord /\ NoLookup.id = 0 /\ NoLookup.events = <<>>
  BY DEF NoLookup, LookupRecord
<1>3. /\ b \in LoopRecord /\ b.lookup = NoLookup /\ b.cached
      /\ b.tracked = r.tracked /\ b.task = r.task /\ b.sock = r.sock
      /\ b.pending = r.pending /\ b.closes = r.closes /\ b.gens = r.gens
  BY <1>1, <1>2 DEF LoopRecord
<1> HIDE DEF b
<1>4. b \in Ordered(L, P)
  BY <1>1, <1>2, <1>3 DEF Ordered, TasksInOrder, ClosesWait, LookupInOrder, Socketed
<1>5. Carries(b, q \o z, outs, Kept(b)) /\ \A h \in TcpFlows : Drained(b, h)
  <2>1. Sheds(b, r)
    BY <1>3, SameSheds
  <2>2. Carries(b, q \o z, outs, TcpFlows)
    BY <2>1, FewerCarries DEF Queue, Sheds
  <2>3. Carries(b, q \o z, outs, Kept(b))
    BY <2>2 DEF Carries, Kept
  <2> QED BY <2>1, <2>3, NoMoreDrained DEF Sheds
<1>6. \A i \in DOMAIN q : q[i].flow \in L
  BY <1>1 DEF LookupInOrder
<1>7. ASSUME NEW y, y.lookup = NoLookup PROVE Queue(y, z) = z
  <2>1. y.lookup.events = <<>>
    BY <1>2, <1>7
  <2> QED BY <2>1 DEF Queue
<1>8. /\ end \in Ordered(L, P) /\ end.lookup = NoLookup
      /\ Carries(end, z, outs, Kept(end)) /\ \A h \in TcpFlows : Drained(end, h)
  <2> HIDE DEF q
  <2> QED BY <1>1, <1>3, <1>4, <1>5, <1>6, ReplayCarries
<1> HIDE DEF end
<1>9. a = IF end.ok THEN end ELSE d
  BY DEF Replay, end
<1>10. ASSUME end.ok PROVE Carries(a, Queue(a, z), outs, TcpFlows) /\ \A h \in TcpFlows : Drained(a, h)
  <2>1. a = end /\ Kept(end) = TcpFlows /\ Queue(end, z) = z
    BY <1>7, <1>8, <1>9, <1>10 DEF Kept
  <2>2. Carries(a, Queue(a, z), outs, TcpFlows) /\ \A h \in TcpFlows : Drained(a, h)
    BY <1>8, <2>1
  <2> QED BY <2>2
<1>11. ASSUME ~end.ok PROVE Carries(a, Queue(a, z), outs, TcpFlows) /\ \A h \in TcpFlows : Drained(a, h)
  <2>1. S \in SUBSET TcpFlows /\ DOMAIN end.task \subseteq S
    <3>1. end.tracked \subseteq TcpFlows /\ DOMAIN end.task \subseteq end.tracked
      BY <1>8 DEF Ordered, LoopRecord, TasksInOrder
    <3>2. \A i \in DOMAIN q : q[i] \in DeferredRecord
      BY <1>1
    <3>3. \A e \in DeferredRecord : e.flow \in TcpFlows
      BY DEF DeferredRecord
    <3> HIDE DEF q
    <3> QED BY <3>1, <3>2, <3>3
  <2> HIDE DEF S, q
  <2>2. Carries(end, Queue(end, z), outs, {})
    BY <1>7, <1>8, <1>11 DEF Kept
  <2>3. /\ c \in Ordered(L, P) /\ Carries(c, Queue(c, z), outs, {}) /\ Sheds(c, end)
        /\ DOMAIN c.task \cap S = {}
    BY <1>8, <2>1, <2>2, CloseAllCarries
  <2> HIDE DEF c
  <2>4. c \in LoopRecord /\ DOMAIN c.task \subseteq TcpFlows
    BY <2>3 DEF Ordered, LoopRecord, TaskMap
  <2>5. DOMAIN c.task = {}
    <3>1. DOMAIN c.task \subseteq DOMAIN end.task
      BY <2>3, <2>4 DEF Sheds, Fewer, SameFlow
    <3> QED BY <2>1, <2>3, <3>1
  <2>6. Carries(c, Queue(c, z), outs, TcpFlows)
    BY <2>3, <2>5 DEF Carries, Streams, Served
  <2>7. Sheds(d, c) /\ d.lookup = c.lookup
    <3>1. d.sock = c.sock /\ d.pending = c.pending /\ d.task = c.task /\ d.gens = c.gens /\ d.lookup = c.lookup
      BY <2>4 DEF LoopRecord
    <3> HIDE DEF d
    <3> QED BY <3>1, SameSheds
  <2> HIDE DEF d
  <2>8. Carries(d, Queue(d, z), outs, TcpFlows)
    BY <2>6, <2>7, ShedsCarries DEF Sheds
  <2>9. \A h \in TcpFlows : Drained(d, h)
    <3>1. Sheds(d, end)
      BY <2>3, <2>7, ShedsTwice
    <3> QED BY <1>8, <3>1, NoMoreDrained DEF Sheds
  <2>10. Carries(a, Queue(a, z), outs, TcpFlows) /\ \A h \in TcpFlows : Drained(a, h)
    BY <1>9, <1>11, <2>8, <2>9
  <2> QED BY <2>10
<1>12. Carries(a, Queue(a, z), outs, TcpFlows) /\ \A h \in TcpFlows : Drained(a, h)
  BY <1>10, <1>11
<1>13. ProcessResolved(r, o) = IF r.lookup.id # o.gen THEN r ELSE a
  BY DEF ProcessResolved, b
<1> HIDE DEF a
<1> QED BY <1>12, <1>13

-----------------------------------------------------------------------------
(* What is left of earlier tasks of the key stays before what the task     *)
(* read when an output is taken, when the task adds one, and when the      *)
(* first goes to the end of the stream.                                    *)
LEMMA LeftoversTail ==
  ASSUME NEW o \in Seq(OutputRecord), o # <<>>, NEW h, NEW g, NEW s, LeftoversFirst(s, o, h, g)
  PROVE  LeftoversFirst(s, Tail(o), h, g)
<1> DEFINE t == Tail(o)
<1>1. \A i \in DOMAIN t : i + 1 \in DOMAIN o /\ t[i] = o[i + 1] /\ i \in Nat
  BY QueueTail
<1> HIDE DEF t
<1>2. \A i, j \in DOMAIN t : i < j => i + 1 < j + 1
  BY <1>1
<1>3. LeftoversFirst(s, t, h, g)
  BY <1>1, <1>2 DEF LeftoversFirst
<1> QED BY <1>3 DEF t

LEMMA LeftoversAppend ==
  ASSUME NEW o \in Seq(OutputRecord), NEW h, NEW g \in Nat, NEW s, LeftoversFirst(s, o, h, g),
         NEW x \in OutputRecord, DataOf(x, h) => x.gen = g
  PROVE  LeftoversFirst(s, Append(o, x), h, g)
<1> DEFINE t == Append(o, x)
           m == Len(o) + 1
<1>1. /\ DOMAIN t = DOMAIN o \cup {m} /\ t[m] = x /\ m \in Nat
      /\ \A i \in DOMAIN o : t[i] = o[i] /\ i < m /\ i \in Nat
  BY QueueAppend
<1> HIDE DEF t, m
<1>2. ASSUME NEW j \in DOMAIN t, DataOf(t[j], h)
      PROVE  /\ t[j].gen <= g
             /\ \A i \in DOMAIN s : s[i][1] = g => t[j].gen = g
             /\ \A i \in DOMAIN t : i < j /\ Chunk(t[i], h, g) => t[j].gen = g
  <2>1. CASE j = m
    BY <1>1, <1>2, <2>1
  <2>2. CASE j # m
    <3>1. j \in DOMAIN o /\ t[j] = o[j] /\ \A i \in DOMAIN t : i < j => i \in DOMAIN o /\ t[i] = o[i]
      BY <1>1, <2>2
    <3> QED BY <1>2, <3>1 DEF LeftoversFirst
  <2> QED BY <2>1, <2>2
<1>3. LeftoversFirst(s, t, h, g)
  BY <1>2 DEF LeftoversFirst
<1> QED BY <1>3 DEF t

LEMMA LeftoversMove ==
  ASSUME NEW o \in Seq(OutputRecord), o # <<>>, NEW h, NEW g, DataOf(Head(o), h),
         NEW s \in Seq(Unit), NEW p \in Seq(Unit), \A i \in DOMAIN p : p[i][1] = Head(o).gen,
         LeftoversFirst(s, o, h, g)
  PROVE  LeftoversFirst(s \o p, Tail(o), h, g)
<1> DEFINE t == Tail(o)
           u == s \o p
           m == Len(s)
           a == Head(o).gen
<1>1. /\ \A i \in DOMAIN t : i + 1 \in DOMAIN o /\ t[i] = o[i + 1] /\ i \in Nat
      /\ 1 \in DOMAIN o /\ o[1] = Head(o) /\ \A i \in DOMAIN t : 1 < i + 1
  BY QueueTail
<1>2. /\ \A i \in DOMAIN u : i \in Nat /\ (i <= m => i \in DOMAIN s /\ u[i] = s[i])
                           /\ (~(i <= m) => i - m \in DOMAIN p /\ u[i] = p[i - m])
      /\ m \in Nat
  OBVIOUS
<1>3. a <= g /\ \A i \in DOMAIN s : s[i][1] = g => a = g
  BY <1>1 DEF LeftoversFirst
<1>4. DataOf(o[1], h) /\ (a = g => Chunk(o[1], h, g))
  BY <1>1 DEF DataOf, Chunk
<1>5. \A i \in DOMAIN u : (i <= m /\ i \in DOMAIN s /\ u[i][1] = s[i][1]) \/ (~(i <= m) /\ u[i][1] = a)
  <2> HIDE DEF u, m
  <2> QED BY <1>2
<1> HIDE DEF t, u, m, a
<1>6. \A i \in DOMAIN u : u[i][1] <= g
  BY <1>3, <1>5 DEF LeftoversFirst
<1>7. ASSUME NEW i \in DOMAIN u, NEW j \in DOMAIN u, i < j, u[i][1] = g PROVE u[j][1] = g
  <2>1. CASE j <= m
    <3>1. i <= m /\ i \in DOMAIN s /\ j \in DOMAIN s /\ s[i][1] = g /\ u[j][1] = s[j][1]
      BY <1>2, <1>5, <1>7, <2>1
    <3> QED BY <1>7, <3>1 DEF LeftoversFirst
  <2>2. CASE ~(j <= m)
    BY <1>3, <1>5, <1>7, <2>2
  <2> QED BY <2>1, <2>2
<1>8. (\E i \in DOMAIN u : u[i][1] = g) => a = g
  BY <1>3, <1>5
<1>9. ASSUME NEW j \in DOMAIN t, DataOf(t[j], h)
      PROVE  /\ t[j].gen <= g
             /\ \A i \in DOMAIN u : u[i][1] = g => t[j].gen = g
             /\ \A i \in DOMAIN t : i < j /\ Chunk(t[i], h, g) => t[j].gen = g
  <2>1. j + 1 \in DOMAIN o /\ DataOf(o[j + 1], h) /\ t[j] = o[j + 1] /\ 1 < j + 1
    BY <1>1, <1>9
  <2>2. t[j].gen <= g
    BY <2>1 DEF LeftoversFirst
  <2>3. a = g => t[j].gen = g
    BY <1>1, <1>4, <2>1 DEF LeftoversFirst
  <2>4. \A i \in DOMAIN t : i < j => i + 1 < j + 1
    BY <1>1, <1>9
  <2>5. \A i \in DOMAIN t : i < j /\ Chunk(t[i], h, g) => t[j].gen = g
    BY <1>1, <2>1, <2>4 DEF LeftoversFirst
  <2> QED BY <1>8, <2>2, <2>3, <2>5
<1>10. LeftoversFirst(u, t, h, g)
  BY <1>6, <1>7, <1>9 DEF LeftoversFirst
<1> QED BY <1>10 DEF u, t

(* The channel of the outputs: what is not data leaves the streams alone.  *)
LEMMA DownloadMoves ==
  ASSUME NEW o \in Seq(OutputRecord), NEW h, NEW t, t.gen \in Nat, NEW s, Download(t, s, o, h)
  PROVE  /\ o # <<>> /\ ~Chunk(Head(o), h, t.gen) => Download(t, s, Tail(o), h)
         /\ \A x \in OutputRecord : ~DataOf(x, h) => Download(t, s, Append(o, x), h)
<1>1. PICK b \in Nat : /\ Runs(UnitsIn(s, t.gen), 1, 0, b)
                       /\ Runs(ChunksIn(o, h, t.gen), ChunkLen, b, t.emitted)
  BY DEF Download
<1> DEFINE g == t.gen
           c == t.emitted
<1>2. Runs(ChunksIn(o, h, g), ChunkLen, b, c) /\ Runs(UnitsIn(s, g), 1, 0, b)
  BY <1>1
<1>3. g \in Nat /\ LeftoversFirst(s, o, h, g)
  BY DEF Download
<1> HIDE DEF g, c
<1>4. o # <<>> /\ ~Chunk(Head(o), h, g) => Runs(ChunksIn(Tail(o), h, g), ChunkLen, b, c)
  BY <1>2, ChunksMove
<1>5. \A x \in OutputRecord : ~Chunk(x, h, g) => Runs(ChunksIn(Append(o, x), h, g), ChunkLen, b, c)
  BY <1>2, ChunksMove
<1>6. o # <<>> => LeftoversFirst(s, Tail(o), h, g)
  BY <1>3, LeftoversTail
<1>7. \A x \in OutputRecord : ~DataOf(x, h) => LeftoversFirst(s, Append(o, x), h, g)
  BY <1>3, LeftoversAppend
<1>8. \A x : ~DataOf(x, h) => ~Chunk(x, h, g)
  BY DEF DataOf, Chunk
<1> QED BY <1>2, <1>4, <1>5, <1>6, <1>7, <1>8 DEF Download, g, c

LEMMA ShapedMoves ==
  ASSUME NEW o \in Seq(OutputRecord), NEW n, Shaped(o, n)
  PROVE  /\ o # <<>> => Shaped(Tail(o), n)
         /\ \A x \in OutputRecord :
              (x.kind = "data" => /\ x.gen <= n /\ From(x) \in Nat /\ x.payload = Units(x.gen, From(x), ChunkLen))
                => Shaped(Append(o, x), n)
<1>1. ASSUME o # <<>> PROVE Shaped(Tail(o), n)
  <2>1. \A i \in DOMAIN Tail(o) : i + 1 \in DOMAIN o /\ Tail(o)[i] = o[i + 1]
    BY <1>1, QueueTail
  <2> DEFINE t == Tail(o)
  <2> HIDE DEF t
  <2>2. \A i \in DOMAIN t : i + 1 \in DOMAIN o /\ t[i] = o[i + 1]
    BY <2>1 DEF t
  <2>3. Shaped(t, n)
    BY <2>2 DEF Shaped
  <2> QED BY <2>3 DEF t
<1>2. ASSUME NEW x \in OutputRecord,
             x.kind = "data" => /\ x.gen <= n /\ From(x) \in Nat /\ x.payload = Units(x.gen, From(x), ChunkLen)
      PROVE  Shaped(Append(o, x), n)
  <2> DEFINE t == Append(o, x)
             m == Len(o) + 1
  <2>1. DOMAIN t = DOMAIN o \cup {m} /\ t[m] = x /\ \A i \in DOMAIN o : t[i] = o[i]
    BY QueueAppend
  <2> HIDE DEF t, m
  <2>2. Shaped(t, n)
    <3>1. ASSUME NEW i \in DOMAIN t PROVE (i \in DOMAIN o /\ t[i] = o[i]) \/ t[i] = x
      BY <2>1
    <3> QED BY <1>2, <3>1 DEF Shaped
  <2> QED BY <2>2 DEF t
<1> QED BY <1>1, <1>2

Numbered(r) == \A h \in DOMAIN r.task : r.task[h].gen \in Nat

LEMMA LoopNumbered == ASSUME NEW r \in LoopRecord PROVE Numbered(r)
BY DEF Numbered, LoopRecord, TaskMap, TaskRecord

LEMMA OutsMove ==
  ASSUME NEW a, Numbered(a), NEW q, NEW o \in Seq(OutputRecord), NEW H, Carries(a, q, o, H)
  PROVE  /\ o # <<>> /\ Head(o).kind # "data" => Carries(a, q, Tail(o), H)
         /\ \A x \in OutputRecord : x.kind # "data" => Carries(a, q, Append(o, x), H)
<1>1. ASSUME o # <<>>, Head(o).kind # "data" PROVE Carries(a, q, Tail(o), H)
  <2>1. Shaped(Tail(o), a.gens)
    BY <1>1, ShapedMoves DEF Carries
  <2>2. ASSUME NEW h \in TcpFlows, h \in H PROVE Streams(a, q, Tail(o), h)
    <3>1. Streams(a, q, o, h)
      BY <2>2 DEF Carries
    <3>2. ~Chunk(Head(o), h, a.task[h].gen)
      BY <1>1 DEF Chunk
    <3>3. h \in DOMAIN a.task /\ Download(a.task[h], Stream(a, h), o, h)
            => Download(a.task[h], Stream(a, h), Tail(o), h)
      BY <1>1, <3>2, DownloadMoves DEF Numbered
    <3> QED BY <3>1, <3>3 DEF Streams, Served
  <2> QED BY <2>1, <2>2 DEF Carries
<1>2. ASSUME NEW x \in OutputRecord, x.kind # "data" PROVE Carries(a, q, Append(o, x), H)
  <2>1. Shaped(Append(o, x), a.gens)
    BY <1>2, ShapedMoves DEF Carries
  <2>2. ASSUME NEW h \in TcpFlows, h \in H PROVE Streams(a, q, Append(o, x), h)
    <3>1. Streams(a, q, o, h)
      BY <2>2 DEF Carries
    <3>2. ~DataOf(x, h)
      BY <1>2 DEF DataOf
    <3>3. h \in DOMAIN a.task /\ Download(a.task[h], Stream(a, h), o, h)
            => Download(a.task[h], Stream(a, h), Append(o, x), h)
      BY <3>2, DownloadMoves DEF Numbered
    <3> QED BY <3>1, <3>3 DEF Streams, Served
  <2> QED BY <2>1, <2>2 DEF Carries
<1> QED BY <1>1, <1>2

(* handle_proxy_output, data: nothing is written past what is pending, so  *)
(* the payload goes to the end of the stream.                              *)
LEMMA DataReturns ==
  ASSUME NEW r \in LoopRecord, NEW o \in OutputRecord, Drained(r, o.flow)
  PROVE  LET a == TcpData(r, o)
             f == o.flow IN
         /\ a.task = r.task /\ a.gens = r.gens /\ a.lookup = r.lookup
         /\ \A h \in TcpFlows : h # f => a.sock[h] = r.sock[h] /\ a.pending[h] = r.pending[h]
         /\ a.sock[f].st = r.sock[f].st /\ a.sock[f].gen = r.sock[f].gen
         /\ a.sock[f].sent = r.sock[f].sent /\ a.sock[f].fin = r.sock[f].fin
         /\ Stream(a, f) = Stream(r, f) \o o.payload
         /\ ~Blocked(r, o) => Drained(a, f)
<1> DEFINE f == o.flow
           p == o.payload
           n == IF Writable(r, f) THEN Fits(r, f, p) ELSE 0
           w == IF Writable(r, f) THEN WriteTcp(r, f, p) ELSE r
           x == SubSeq(p, 1, n)
           rest == SubSeq(p, n + 1, Len(p))
           pend == r.pending[f]
           got == r.sock[f].got
           a == TcpData(r, o)
<1>1. f \in TcpFlows /\ p \in Seq(Unit)
  BY DEF OutputRecord
<1>2. pend \in Seq(Unit) /\ got \in Seq(Unit) /\ r.pending \in [TcpFlows -> Seq(Unit)]
  BY <1>1 DEF LoopRecord, SocketRecord
<1>3. /\ w \in LoopRecord /\ w.pending = r.pending /\ w.task = r.task /\ w.gens = r.gens /\ w.lookup = r.lookup
      /\ \A h \in TcpFlows : h # f => w.sock[h] = r.sock[h]
      /\ w.sock[f].st = r.sock[f].st /\ w.sock[f].gen = r.sock[f].gen
      /\ w.sock[f].sent = r.sock[f].sent /\ w.sock[f].fin = r.sock[f].fin
  BY <1>1, WriteReturns, SMTT(40) DEF SameBesideSockets
<1>4. Writable(r, f) =>
        /\ n \in 0 .. Len(p) /\ w.sock[f].got = got \o x /\ w.sock[f].tx = r.sock[f].tx + n
        /\ r.sock[f].tx \in 0 .. TxCap /\ TxCap \in Nat
        /\ r.sock[f].tx = TxCap => n = 0
  <2>1. ASSUME Writable(r, f)
        PROVE  /\ n \in 0 .. Len(p) /\ w.sock[f].got = got \o x /\ w.sock[f].tx = r.sock[f].tx + n
               /\ r.sock[f].tx \in 0 .. TxCap /\ TxCap \in Nat
    <3>1. n = Fits(r, f, p) /\ w = WriteTcp(r, f, p)
      BY <2>1
    <3> HIDE DEF n, w, f, p
    <3> QED BY <1>1, <3>1, WriteReturns
  <2>2. ASSUME Writable(r, f), r.sock[f].tx = TxCap PROVE n = 0
    <3>1. TxCap \in Nat /\ Len(p) \in Nat
      BY <1>1, TunTcpAssumption
    <3> QED BY <2>2, <3>1 DEF Fits
  <2> QED BY <2>1, <2>2
<1>5. a = [w EXCEPT !.pending[f] = @ \o rest]
  BY DEF TcpData
<1>6. ~Writable(r, f) => n = 0 /\ w = r
  OBVIOUS
<1>7. ~Blocked(r, o) => Writable(r, f) /\ n = Len(p)
  <2>1. SUFFICES ASSUME ~Blocked(r, o) PROVE Writable(r, f) /\ n = Len(p)
    OBVIOUS
  <2>2. Writable(r, f) /\ ~(Fits(r, f, p) < Len(p))
    BY <2>1 DEF Blocked
  <2>3. n = Fits(r, f, p) /\ n \in 0 .. Len(p) /\ Len(p) \in Nat
    BY <1>1, <1>4, <2>2, SMTT(40)
  <2> QED BY <2>2, <2>3
<1> HIDE DEF w, a, n
<1>8. n \in 0 .. Len(p)
  BY <1>1, <1>4, <1>6
<1>9. rest \in Seq(Unit) /\ x \in Seq(Unit)
  <2> HIDE DEF p
  <2> QED BY <1>1, <1>8
<1>10. /\ a.task = w.task /\ a.gens = w.gens /\ a.lookup = w.lookup /\ a.sock = w.sock
       /\ \A h \in TcpFlows : h # f => a.pending[h] = w.pending[h]
       /\ a.pending[f] = pend \o rest
  <2>1. w.pending \in [TcpFlows -> Seq(Unit)]
    BY <1>2, <1>3
  <2> DEFINE y == pend \o rest
  <2> HIDE DEF rest, f
  <2>2. a = [w EXCEPT !.pending[f] = y]
    BY <1>3, <1>5
  <2> HIDE DEF y
  <2>3. a.pending = [w.pending EXCEPT ![f] = y]
    BY <1>3, <2>2 DEF LoopRecord
  <2>4. a.pending[f] = y /\ \A h \in TcpFlows : h # f => a.pending[h] = w.pending[h]
    BY <1>1, <2>1, <2>3
  <2> QED BY <1>3, <2>2, <2>4 DEF LoopRecord, y
<1>11. /\ x \o rest = p /\ (got \o x) \o rest = got \o p
       /\ n = Len(p) => rest = <<>>
       /\ n = 0 => x = <<>> /\ rest = p
  <2> HIDE DEF p, got
  <2> QED BY <1>1, <1>2, <1>8, CutSeq
<1> HIDE DEF x, rest, pend, got, p
<1>12. CASE n = 0
  <2>1. w.sock[f].got = got
    <3>1. CASE Writable(r, f)
      <4>1. w.sock[f].got = got \o <<>>
        BY <1>4, <1>11, <1>12, <3>1
      <4> QED BY <1>2, <4>1, ConcatEmptySeq
    <3>2. CASE ~Writable(r, f)
      BY <1>6, <3>2 DEF got
    <3> QED BY <3>1, <3>2
  <2>2. a.pending[f] = pend \o p
    BY <1>10, <1>11, <1>12
  <2>3. Stream(a, f) = got \o (pend \o p)
    BY <1>10, <2>1, <2>2 DEF Stream
  <2>4. got \o (pend \o p) = (got \o pend) \o p
    BY <1>1, <1>2, ConcatAssociative, SMTT(40)
  <2>5. Stream(a, f) = Stream(r, f) \o p
    BY <2>3, <2>4 DEF Stream, got, pend
  <2>6. ~Blocked(r, o) => Drained(a, f)
    <3>1. SUFFICES ASSUME ~Blocked(r, o), a.pending[f] # <<>> PROVE a.sock[f].tx = TxCap
      BY DEF Drained
    <3>2. Writable(r, f) /\ rest = <<>>
      BY <1>7, <1>11, <3>1
    <3>3. a.pending[f] = pend
      BY <1>2, <1>10, <3>2, ConcatEmptySeq
    <3>4. r.sock[f].tx = TxCap
      BY <3>1, <3>2, <3>3 DEF Drained, pend
    <3> QED BY <1>4, <1>10, <1>12, <3>2, <3>4
  <2> QED BY <1>3, <1>10, <2>5, <2>6 DEF a, p
<1>13. CASE n # 0
  <2>1. Writable(r, f)
    BY <1>6, <1>13
  <2>2. pend = <<>>
    BY <1>4, <1>13, <2>1 DEF Drained, pend
  <2>3. a.pending[f] = rest
    BY <1>9, <1>10, <2>2, ConcatEmptySeq
  <2>4. Stream(a, f) = got \o p
    BY <1>4, <1>10, <1>11, <2>1, <2>3 DEF Stream
  <2>5. Stream(r, f) = got
    <3>1. Stream(r, f) = got \o <<>>
      BY <2>2 DEF Stream, got, pend
    <3> QED BY <1>2, <3>1, ConcatEmptySeq
  <2>6. ~Blocked(r, o) => Drained(a, f)
    BY <1>7, <1>11, <2>3 DEF Drained
  <2> QED BY <1>3, <1>10, <2>4, <2>5, <2>6 DEF a, p
<1> QED BY <1>12, <1>13

LEMMA DataCarries ==
  ASSUME NEW r \in LoopRecord, NEW q, NEW outs \in Seq(OutputRecord), outs # <<>>, Head(outs).kind = "data",
         NEW H, Carries(r, q, outs, H), \A h \in TcpFlows : Drained(r, h)
  PROVE  LET a == TcpData(r, Head(outs)) IN
         /\ Carries(a, q, Tail(outs), H) /\ a.lookup = r.lookup
         /\ ~Blocked(r, Head(outs)) => \A h \in TcpFlows : Drained(a, h)
<1> DEFINE o == Head(outs)
           f == o.flow
           p == o.payload
           a == TcpData(r, o)
           s == Stream(r, f)
<1>1. o \in OutputRecord /\ o = outs[1] /\ 1 \in DOMAIN outs
  BY QueueTail
<1>2. f \in TcpFlows /\ p \in Seq(Unit) /\ o.gen \in Nat
  BY <1>1 DEF OutputRecord
<1>3. /\ a.task = r.task /\ a.gens = r.gens /\ a.lookup = r.lookup
      /\ \A h \in TcpFlows : h # f => a.sock[h] = r.sock[h] /\ a.pending[h] = r.pending[h]
      /\ a.sock[f].st = r.sock[f].st /\ a.sock[f].gen = r.sock[f].gen
      /\ a.sock[f].sent = r.sock[f].sent /\ a.sock[f].fin = r.sock[f].fin
      /\ Stream(a, f) = s \o p
      /\ ~Blocked(r, o) => Drained(a, f)
  BY <1>1, <1>2, DataReturns
<1>4. o.gen <= r.gens /\ From(o) \in Nat /\ p = Units(o.gen, From(o), ChunkLen) /\ Shaped(Tail(outs), a.gens)
  <2>1. Shaped(outs, r.gens)
    BY DEF Carries
  <2>2. o.gen <= r.gens /\ From(o) \in Nat /\ p = Units(o.gen, From(o), ChunkLen)
    BY <1>1, <2>1 DEF Shaped
  <2>3. Shaped(Tail(outs), r.gens)
    BY <2>1, ShapedMoves
  <2> QED BY <1>3, <2>2, <2>3
<1> HIDE DEF a, o, f
<1>5. \A h \in TcpFlows : h # f => Stream(a, h) = Stream(r, h)
  BY <1>3 DEF Stream
<1>6. s \in Seq(Unit)
  BY <1>2 DEF Stream, LoopRecord, SocketRecord
<1>7. \A i \in DOMAIN p : p[i][1] = o.gen
  <2> DEFINE g == o.gen
             m == From(o)
  <2>1. ChunkLen \in Nat /\ g \in Nat /\ m \in Nat /\ p = Units(g, m, ChunkLen)
    BY <1>2, <1>4, TunTcpAssumption
  <2> HIDE DEF g, m, p
  <2>2. \A i \in DOMAIN Units(g, m, ChunkLen) : Units(g, m, ChunkLen)[i][1] = g
    BY <2>1, UnitsAre
  <2>3. \A i \in DOMAIN p : p[i][1] = g
    BY <2>1, <2>2
  <2> QED BY <2>3 DEF g, p
<1>8. ASSUME NEW h \in TcpFlows PROVE Settled(a, q, h)
  <2>1. Settled(r, q, h)
    BY DEF Carries
  <2>2. CASE h # f
    BY <1>3, <1>5, <2>1, <2>2 DEF Settled, Dated
  <2>3. CASE h = f
    <3>1. Dated(r, f)
      BY <2>1, <2>3 DEF Settled
    <3>2. \A i \in DOMAIN s : s[i][1] <= r.gens
      BY <3>1 DEF Dated
    <3>3. ASSUME NEW i \in DOMAIN (s \o p) PROVE (s \o p)[i][1] <= r.gens
      <4> HIDE DEF s, p
      <4>1. CASE i <= Len(s)
        <5>1. i \in DOMAIN s /\ (s \o p)[i] = s[i]
          BY <1>2, <1>6, <3>3, <4>1
        <5> QED BY <3>2, <5>1
      <4>2. CASE ~(i <= Len(s))
        <5>1. i - Len(s) \in DOMAIN p /\ (s \o p)[i] = p[i - Len(s)]
          BY <1>2, <1>6, <3>3, <4>2
        <5> QED BY <1>4, <1>7, <5>1
      <4> QED BY <4>1, <4>2
    <3>4. Dated(a, f)
      BY <1>3, <3>1, <3>3 DEF Dated
    <3>5. Opening(r.sock[f], q, f) => Opening(a.sock[f], q, f)
      BY <1>3 DEF Opening
    <3> QED BY <1>3, <2>1, <2>3, <3>4, <3>5 DEF Settled
  <2> QED BY <2>2, <2>3
<1>9. ASSUME NEW h \in TcpFlows, h \in H PROVE Streams(a, q, Tail(outs), h)
  <2>1. SUFFICES ASSUME Served(a, h)
                 PROVE  /\ Download(a.task[h], Stream(a, h), Tail(outs), h)
                        /\ Upload(a.task[h], a.sock[h].sent, a.sock[h].fin, q, h)
    BY DEF Streams
  <2>2. /\ a.task[h] = r.task[h] /\ a.sock[h].sent = r.sock[h].sent /\ a.sock[h].fin = r.sock[h].fin
        /\ Served(r, h)
    BY <1>3, <2>1 DEF Served
  <2>3. /\ Download(r.task[h], Stream(r, h), outs, h)
        /\ Upload(r.task[h], r.sock[h].sent, r.sock[h].fin, q, h)
    BY <1>9, <2>2 DEF Carries, Streams
  <2> DEFINE t == r.task[h]
             g == t.gen
  <2>4. Download(t, Stream(r, h), outs, h) /\ g \in Nat
    BY <2>2, <2>3 DEF Served, LoopRecord, TaskMap, TaskRecord
  <2> HIDE DEF t
  <2>5. CASE h # f
    <3>1. ~Chunk(o, h, g)
      BY <2>5 DEF Chunk, f
    <3>2. Download(t, Stream(r, h), Tail(outs), h)
      BY <2>4, <3>1, DownloadMoves DEF o
    <3> QED BY <1>5, <2>2, <2>3, <2>5, <3>2 DEF t
  <2>6. CASE h = f
    <3>1. PICK b \in Nat : /\ Runs(UnitsIn(s, g), 1, 0, b)
                           /\ Runs(ChunksIn(outs, f, g), ChunkLen, b, t.emitted)
      BY <2>4, <2>6 DEF Download
    <3>4. LeftoversFirst(s, outs, f, g)
      BY <2>4, <2>6 DEF Download
    <3> HIDE DEF g, s
    <3>5. LeftoversFirst(s \o p, Tail(outs), f, g)
      <4>1. DataOf(Head(outs), f) /\ \A i \in DOMAIN p : p[i][1] = Head(outs).gen
        BY <1>7 DEF DataOf, o, f
      <4> HIDE DEF p
      <4> QED BY <1>2, <1>6, <3>4, <4>1, LeftoversMove
    <3>2. CASE o.gen = g
      <4>1. Chunk(o, f, g)
        BY <3>2 DEF Chunk, f, o
      <4>2. From(o) = b /\ Runs(ChunksIn(Tail(outs), f, g), ChunkLen, b + ChunkLen, t.emitted)
        BY <3>1, <4>1, ChunksMove DEF o
      <4>3. g \in Nat /\ ChunkLen \in Nat /\ p = Units(g, b, ChunkLen)
        BY <1>2, <1>4, <3>2, <4>2, TunTcpAssumption
      <4>4. Runs(UnitsIn(p, g), 1, b, b + ChunkLen)
        <5> HIDE DEF p
        <5> QED BY <4>3, UnitsAre
      <4>5. Runs(UnitsIn(s \o p, g), 1, 0, b + ChunkLen)
        <5> HIDE DEF p
        <5> QED BY <1>2, <1>6, <3>1, <4>4, UnitsJoin
      <4>6. b + ChunkLen \in Nat
        BY <4>3
      <4>7. Download(t, s \o p, Tail(outs), f)
        BY <3>5, <4>2, <4>5, <4>6 DEF Download, g
      <4> QED BY <1>3, <2>2, <2>3, <2>6, <4>7 DEF t
    <3>3. CASE o.gen # g
      <4>1. ~Chunk(o, f, g)
        BY <3>3 DEF Chunk
      <4>2. Runs(ChunksIn(Tail(outs), f, g), ChunkLen, b, t.emitted)
        BY <3>1, <4>1, ChunksMove DEF o
      <4> DEFINE v == UnitsIn(p, g)
      <4>3. DOMAIN v = {}
        <5> HIDE DEF p
        <5> QED BY <1>7, <3>3 DEF UnitsIn
      <4>4. Runs(v, 1, b, b)
        <5> HIDE DEF v
        <5> QED BY <4>3, RunsEmpty
      <4>5. Runs(UnitsIn(s \o p, g), 1, 0, b)
        <5> HIDE DEF p
        <5> QED BY <1>2, <1>6, <3>1, <4>4, UnitsJoin
      <4>6. Download(t, s \o p, Tail(outs), f)
        BY <3>5, <4>2, <4>5 DEF Download, g
      <4> QED BY <1>3, <2>2, <2>3, <2>6, <4>6 DEF t
    <3> QED BY <3>2, <3>3
  <2> QED BY <2>5, <2>6
<1>10. Carries(a, q, Tail(outs), H)
  BY <1>4, <1>8, <1>9 DEF Carries
<1>11. ~Blocked(r, o) => \A h \in TcpFlows : Drained(a, h)
  BY <1>3 DEF Drained, Writable
<1> QED BY <1>3, <1>10, <1>11 DEF a, o

-----------------------------------------------------------------------------
(* A step of a proxy task changes its own record, and may add an output.   *)
LEMMA TaskCarries ==
  ASSUME NEW r, NEW a, NEW f \in TcpFlows, f \in DOMAIN r.task, a.sock = r.sock, a.pending = r.pending,
         a.gens = r.gens, DOMAIN a.task = DOMAIN r.task, \A h \in DOMAIN r.task : h # f => a.task[h] = r.task[h],
         a.task[f].gen = r.task[f].gen,
         NEW q, NEW outs, NEW more, NEW H, Carries(r, q, outs, H), Shaped(more, r.gens),
         \A h \in TcpFlows : h # f /\ Streams(r, q, outs, h) => Streams(r, q, more, h),
         Download(r.task[f], Stream(r, f), outs, f) => Download(a.task[f], Stream(r, f), more, f),
         Upload(r.task[f], r.sock[f].sent, r.sock[f].fin, q, f)
           => Upload(a.task[f], r.sock[f].sent, r.sock[f].fin, q, f)
  PROVE  Carries(a, q, more, H)
<1>1. \A h \in TcpFlows : Stream(a, h) = Stream(r, h)
  BY DEF Stream
<1>2. \A h \in DOMAIN r.task : a.task[h].gen = r.task[h].gen
  OBVIOUS
<1>3. ASSUME NEW h \in TcpFlows PROVE Settled(a, q, h)
  BY <1>1, <1>2 DEF Carries, Settled, Dated
<1>4. ASSUME NEW h \in TcpFlows, h \in H PROVE Streams(a, q, more, h)
  <2>1. Streams(r, q, outs, h)
    BY <1>4 DEF Carries
  <2>2. CASE h # f
    BY <1>1, <2>1, <2>2 DEF Streams, Served
  <2>3. CASE h = f
    BY <1>1, <2>1, <2>3 DEF Streams, Served
  <2> QED BY <2>2, <2>3
<1> QED BY <1>3, <1>4 DEF Carries

(* A packet of the client changes its socket and adds an event.            *)
LEMMA SocketCarries ==
  ASSUME NEW r, NEW a, NEW f \in TcpFlows, a.task = r.task, a.pending = r.pending, a.gens = r.gens,
         \A h \in TcpFlows : h # f => a.sock[h] = r.sock[h],
         NEW q \in Seq(InputRecord), NEW e \in InputRecord, e.flow = f, NEW outs, NEW H, Carries(r, q, outs, H),
         Settled(a, Append(q, e), f), Streams(r, q, outs, f) => Streams(a, Append(q, e), outs, f)
  PROVE  Carries(a, Append(q, e), outs, H)
<1>1. \A h \in TcpFlows : h # f => Stream(a, h) = Stream(r, h)
  BY DEF Stream
<1>2. ASSUME NEW h \in TcpFlows, h # f PROVE Settled(a, Append(q, e), h)
  <2>1. Settled(r, q, h)
    BY DEF Carries
  <2>2. Opening(r.sock[h], q, h) => Opening(r.sock[h], Append(q, e), h)
    BY <1>2, OpeningMore
  <2> QED BY <1>1, <1>2, <2>1, <2>2 DEF Settled, Dated
<1>3. ASSUME NEW h \in TcpFlows, h # f, Streams(r, q, outs, h) PROVE Streams(a, Append(q, e), outs, h)
  <2>1. SUFFICES ASSUME Served(a, h)
                 PROVE  /\ Download(a.task[h], Stream(a, h), outs, h)
                        /\ Upload(a.task[h], a.sock[h].sent, a.sock[h].fin, Append(q, e), h)
    BY DEF Streams
  <2>2. /\ Download(r.task[h], Stream(r, h), outs, h)
        /\ Upload(r.task[h], r.sock[h].sent, r.sock[h].fin, q, h)
    BY <1>3, <2>1 DEF Streams, Served
  <2>3. Upload(r.task[h], r.sock[h].sent, r.sock[h].fin, Append(q, e), h)
    BY <1>3, <2>2, UploadMore
  <2> QED BY <1>1, <1>3, <2>2, <2>3
<1> QED BY <1>2, <1>3 DEF Carries

-----------------------------------------------------------------------------
(* The invariant of the streams.  Between the flush and the first output   *)
(* that does not fit, a socket that can be written holds all the loop has, *)
(* or is full.  Nothing is left once the loop is over.                     *)
StreamInv ==
  IF phase = "over" THEN DOMAIN tun.task = {}
  ELSE /\ Carries(tun, Queue(tun, inputs), outputs, TcpFlows)
       /\ phase = "drain" => \A h \in TcpFlows : Drained(tun, h)

LEMMA LoopTyped ==
  ASSUME TunTcpInv
  PROVE  /\ tun \in LoopRecord /\ inputs \in Seq(InputRecord) /\ outputs \in Seq(OutputRecord)
         /\ tun \in Ordered(Live, Socketed(tun)) /\ Queue(tun, inputs) \in Seq(InputRecord)
<1>1. /\ tun \in LoopRecord /\ inputs \in Seq(InputRecord) /\ outputs \in Seq(OutputRecord)
      /\ tun \in Ordered(Live, Socketed(tun))
  BY DEF TunTcpInv, TunTcpShape
<1> QED BY <1>1, QueueTyped

LEMMA SocketStep ==
  ASSUME TunTcpInv, StreamInv, phase = "poll", NEW f \in TcpFlows, NEW s \in SocketRecord,
         NEW e \in InputRecord, e.flow = f, tun' = [tun EXCEPT !.sock[f] = s],
         inputs' = Append(inputs, e), UNCHANGED <<outputs, phase>>,
         s.gen <= tun.gens, s.st = "none" => s.gen = 0, s.got = <<>> \/ s.got = tun.sock[f].got,
         s.st # "none" => Opening(s, Append(Queue(tun, inputs), e), f),
         f \in DOMAIN tun.task /\ s.gen = tun.task[f].gen =>
           /\ s.got = tun.sock[f].got /\ s.gen = tun.sock[f].gen
           /\ Upload(tun.task[f], tun.sock[f].sent, tun.sock[f].fin, Queue(tun, inputs), f)
                => Upload(tun.task[f], s.sent, s.fin, Append(Queue(tun, inputs), e), f)
  PROVE  StreamInv'
<1> DEFINE a == tun'
           q == Queue(tun, inputs)
           E == tun.lookup.events
<1>1. /\ tun \in LoopRecord /\ inputs \in Seq(InputRecord) /\ q \in Seq(InputRecord) /\ E \in Seq(InputRecord)
  BY LoopTyped, QueueTyped
<1>2. /\ a.task = tun.task /\ a.pending = tun.pending /\ a.gens = tun.gens /\ a.lookup = tun.lookup
      /\ a.sock = [tun.sock EXCEPT ![f] = s]
  BY <1>1 DEF LoopRecord
<1>3. tun.sock \in [TcpFlows -> SocketRecord] /\ tun.pending \in [TcpFlows -> Seq(Unit)] /\ tun.gens \in Nat
  BY <1>1 DEF LoopRecord
<1>4. a.sock[f] = s /\ \A h \in TcpFlows : h # f => a.sock[h] = tun.sock[h]
  BY <1>2, <1>3
<1>5. Carries(tun, q, outputs, TcpFlows)
  BY DEF StreamInv
<1>6. Queue(a, inputs') = Append(q, e)
  <2>1. Queue(a, inputs') = E \o Append(inputs, e)
    BY <1>2 DEF Queue
  <2>2. q = E \o inputs
    BY DEF Queue
  <2>3. E \o Append(inputs, e) = Append(E \o inputs, e)
    <3> HIDE DEF E
    <3>1. Append(inputs, e) = inputs \o <<e>> /\ Append(E \o inputs, e) = (E \o inputs) \o <<e>>
      BY <1>1, AppendIsConcat, ConcatProperties
    <3>2. <<e>> \in Seq(InputRecord)
      OBVIOUS
    <3> QED BY <1>1, <3>1, <3>2, ConcatAssociative
  <2> QED BY <2>1, <2>2, <2>3
<1> HIDE DEF a, q, E
<1>7. Settled(tun, q, f)
  BY <1>5 DEF Carries
<1>8. \A i \in DOMAIN Stream(a, f) : Stream(a, f)[i][1] <= tun.gens
  <2>1. \A i \in DOMAIN Stream(tun, f) : Stream(tun, f)[i][1] <= tun.gens
    BY <1>7 DEF Settled, Dated
  <2>2. CASE s.got = tun.sock[f].got
    <3>1. Stream(a, f) = Stream(tun, f)
      BY <1>2, <1>4, <2>2 DEF Stream
    <3> QED BY <2>1, <3>1
  <2>3. CASE s.got = <<>>
    <3> DEFINE u == tun.pending[f]
               g == tun.sock[f].got
    <3>1. u \in Seq(Unit) /\ g \in Seq(Unit)
      BY <1>3 DEF SocketRecord
    <3>2. Stream(a, f) = <<>> \o u /\ Stream(tun, f) = g \o u
      BY <1>2, <1>4, <2>3 DEF Stream
    <3> HIDE DEF u, g
    <3>3. <<>> \o u = u
      BY <3>1
    <3>4. ASSUME NEW i \in DOMAIN u PROVE u[i][1] <= tun.gens
      <4>1. i + Len(g) \in DOMAIN (g \o u) /\ (g \o u)[i + Len(g)] = u[i]
        BY <3>1, <3>4
      <4> QED BY <2>1, <3>2, <4>1
    <3> QED BY <3>2, <3>3, <3>4
  <2> QED BY <2>2, <2>3
<1>9. Settled(a, Append(q, e), f)
  <2>1. Dated(a, f)
    BY <1>2, <1>4, <1>7, <1>8 DEF Settled, Dated
  <2> QED BY <1>4, <2>1 DEF Settled, q
<1>10. Streams(tun, q, outputs, f) => Streams(a, Append(q, e), outputs, f)
  <2>1. SUFFICES ASSUME Streams(tun, q, outputs, f), Served(a, f)
                 PROVE  /\ Download(a.task[f], Stream(a, f), outputs, f)
                        /\ Upload(a.task[f], a.sock[f].sent, a.sock[f].fin, Append(q, e), f)
    BY DEF Streams
  <2>2. f \in DOMAIN tun.task /\ s.gen = tun.task[f].gen
    BY <1>2, <1>4, <2>1 DEF Served
  <2>3. Served(tun, f) /\ Stream(a, f) = Stream(tun, f)
    BY <1>2, <1>4, <2>2 DEF Served, Stream
  <2> QED BY <1>2, <1>4, <2>1, <2>2, <2>3 DEF Streams, q
<1>11. Carries(a, Append(q, e), outputs, TcpFlows)
  BY <1>1, <1>2, <1>4, <1>5, <1>9, <1>10, SocketCarries
<1>12. Carries(a, Queue(a, inputs'), outputs', TcpFlows)
  BY <1>6, <1>11
<1> QED BY <1>12 DEF StreamInv, a

(* The client sends a chunk or its half-close.                             *)
LEMMA SendSteps ==
  ASSUME TunTcpInv, StreamInv, NEW f \in TcpFlows, ClientSends(f) \/ ClientFins(f)
  PROVE  StreamInv'
<1> DEFINE k == tun.sock[f]
           q == Queue(tun, inputs)
           n == IF k.fin # tun'.sock[f].fin THEN k.sent ELSE k.sent + 1
<1>1. tun \in LoopRecord /\ q \in Seq(InputRecord) /\ inputs \in Seq(InputRecord)
  BY LoopTyped
<1>2. k \in SocketRecord /\ k.sent \in Nat /\ k.gen \in Nat
  BY <1>1 DEF LoopRecord, SocketRecord
<1>3. ~k.fin /\ k.st # "none" /\ phase = "poll" /\ UNCHANGED <<outputs, phase>>
  BY DEF ClientSends, ClientFins
<1>4. Carries(tun, q, outputs, TcpFlows)
  BY <1>3 DEF StreamInv
<1>5. k.gen <= tun.gens /\ Opening(k, q, f)
  BY <1>3, <1>4 DEF Carries, Settled, Dated
<1>6. ASSUME NEW s \in SocketRecord, NEW e \in InputRecord, e.flow = f, Sends(e, f, k.sent, s.sent, s.fin),
             tun' = [tun EXCEPT !.sock[f] = s], inputs' = Append(inputs, e),
             s.gen = k.gen, s.got = k.got, s.st = k.st
      PROVE  StreamInv'
  <2>1. Opening(s, Append(q, e), f)
    BY <1>1, <1>2, <1>3, <1>5, <1>6, OpeningGrows
  <2>2. Upload(tun.task[f], k.sent, k.fin, q, f) => Upload(tun.task[f], s.sent, s.fin, Append(q, e), f)
    <3> DEFINE t == tun.task[f]
               m == k.sent
               fin == k.fin
    <3> HIDE DEF t, m, fin, q
    <3>1. m \in Nat /\ ~fin /\ Sends(e, f, m, s.sent, s.fin)
      BY <1>2, <1>3, <1>6 DEF m, fin
    <3>2. Upload(t, m, fin, q, f) => Upload(t, s.sent, s.fin, Append(q, e), f)
      BY <1>1, <1>6, <3>1, UploadMore
    <3> QED BY <3>2 DEF t, m, fin
  <2> QED BY <1>3, <1>5, <1>6, <2>1, <2>2, SocketStep
<1>7. CASE ClientSends(f)
  <2> DEFINE s == [k EXCEPT !.sent = k.sent + 1]
             e == Event("data", f, k.sent + 1)
  <2>1. e \in InputRecord /\ e.flow = f /\ e.kind = "data" /\ e.n = k.sent + 1
    BY <1>2 DEF Event, InputRecord
  <2>2. /\ s \in SocketRecord /\ s.sent = k.sent + 1 /\ s.fin = k.fin /\ s.gen = k.gen /\ s.got = k.got
        /\ s.st = k.st /\ s.fin = FALSE
    BY <1>2, <1>3 DEF SocketRecord
  <2>3. tun' = [tun EXCEPT !.sock[f] = s] /\ inputs' = Append(inputs, e)
    BY <1>7 DEF ClientSends, Report
  <2> HIDE DEF s, e, k
  <2>4. Sends(e, f, k.sent, s.sent, s.fin)
    BY <2>1, <2>2 DEF Sends
  <2> QED BY <1>6, <2>1, <2>2, <2>3, <2>4
<1>8. CASE ClientFins(f)
  <2> DEFINE s == [k EXCEPT !.fin = TRUE]
             e == Event("half", f, 0)
  <2>1. e \in InputRecord /\ e.flow = f /\ e.kind = "half"
    BY DEF Event, InputRecord
  <2>2. /\ s \in SocketRecord /\ s.sent = k.sent /\ s.fin = TRUE /\ s.gen = k.gen /\ s.got = k.got
        /\ s.st = k.st
    BY <1>2 DEF SocketRecord
  <2>3. tun' = [tun EXCEPT !.sock[f] = s] /\ inputs' = Append(inputs, e)
    BY <1>8 DEF ClientFins, Report
  <2> HIDE DEF s, e, k
  <2>4. Sends(e, f, k.sent, s.sent, s.fin)
    BY <2>1, <2>2 DEF Sends
  <2> QED BY <1>6, <2>1, <2>2, <2>3, <2>4
<1> QED BY <1>7, <1>8

(* A socket appears or goes.                                               *)
LEMMA SocketEnds ==
  ASSUME TunTcpInv, StreamInv, NEW f \in TcpFlows, ClientConnects(f) \/ SocketCloses(f)
  PROVE  StreamInv'
<1> DEFINE q == Queue(tun, inputs)
           E == tun.lookup.events
<1>1. /\ tun \in LoopRecord /\ q \in Seq(InputRecord) /\ inputs \in Seq(InputRecord) /\ E \in Seq(InputRecord)
      /\ tun \in Ordered(Live, Socketed(tun))
  BY LoopTyped, QueueTyped
<1>2. phase = "poll" /\ UNCHANGED <<outputs, phase>>
  BY DEF ClientConnects, SocketCloses
<1>3. Carries(tun, q, outputs, TcpFlows)
  BY <1>2 DEF StreamInv
<1>4. f \in DOMAIN tun.task => tun.task[f].gen # 0 /\ 0 < tun.task[f].gen
  BY <1>3 DEF Carries, Settled, Dated
<1>5. 0 <= tun.gens
  BY <1>1 DEF LoopRecord
<1>6. CASE SocketCloses(f)
  <2> DEFINE s == NoSocket
             e == Event("closed", f, 0)
  <2>1. e \in InputRecord /\ e.flow = f
    BY DEF Event, InputRecord
  <2>2. s \in SocketRecord /\ s.st = "none" /\ s.gen = 0 /\ s.got = <<>>
    BY TunTcpAssumption DEF NoSocket, SocketRecord
  <2>3. tun' = [tun EXCEPT !.sock[f] = s] /\ inputs' = Append(inputs, e)
    BY <1>6 DEF SocketCloses, Report
  <2> HIDE DEF s, e
  <2> QED BY <1>2, <1>4, <1>5, <2>1, <2>2, <2>3, SocketStep
<1>7. CASE ClientConnects(f)
  <2> DEFINE s == [NoSocket EXCEPT !.st = "open"]
             e == Event("opened", f, 0)
             w == Append(q, e)
             m == Len(q) + 1
  <2>1. e \in InputRecord /\ e.flow = f /\ e.kind = "opened"
    BY DEF Event, InputRecord
  <2>2. s \in SocketRecord /\ s.st = "open" /\ s.gen = 0 /\ s.got = <<>> /\ s.sent = 0 /\ s.fin = FALSE
    <3>1. NoSocket \in SocketRecord
      BY TunTcpAssumption DEF NoSocket, SocketRecord
    <3>2. NoSocket.gen = 0 /\ NoSocket.got = <<>> /\ NoSocket.sent = 0 /\ NoSocket.fin = FALSE
      BY DEF NoSocket
    <3>3. /\ s \in SocketRecord /\ s.st = "open" /\ s.gen = NoSocket.gen /\ s.got = NoSocket.got
          /\ s.sent = NoSocket.sent /\ s.fin = NoSocket.fin
      BY <3>1 DEF SocketRecord
    <3> HIDE DEF s
    <3> QED BY <3>2, <3>3
  <2>3. tun' = [tun EXCEPT !.sock[f] = s] /\ inputs' = Append(inputs, e)
    BY <1>7 DEF ClientConnects, Report
  <2>4. f \notin Live
    BY <1>7 DEF ClientConnects, Live
  <2>5. /\ f \notin DOMAIN tun.task /\ \A i \in DOMAIN E : E[i].flow # f
        /\ \A i \in DOMAIN inputs : inputs[i].flow # f
    BY <1>1, <1>7, <2>4 DEF Ordered, TasksInOrder, LookupInOrder, ClientConnects
  <2>6. \A i \in DOMAIN q : q[i].flow # f
    <3>1. q = E \o inputs
      BY DEF Queue
    <3> HIDE DEF E, q
    <3>2. ASSUME NEW i \in DOMAIN (E \o inputs) PROVE (E \o inputs)[i].flow # f
      <4>1. CASE i <= Len(E)
        <5>1. i \in DOMAIN E /\ (E \o inputs)[i] = E[i]
          BY <1>1, <3>2, <4>1
        <5> QED BY <2>5, <5>1
      <4>2. CASE ~(i <= Len(E))
        <5>1. i - Len(E) \in DOMAIN inputs /\ (E \o inputs)[i] = inputs[i - Len(E)]
          BY <1>1, <3>2, <4>2
        <5> QED BY <2>5, <5>1
      <4> QED BY <4>1, <4>2
    <3> QED BY <3>1, <3>2
  <2> HIDE DEF s, e, q
  <2>7. DOMAIN w = DOMAIN q \cup {m} /\ w[m] = e /\ \A i \in DOMAIN q : w[i] = q[i] /\ i < m /\ i \in Nat
    BY <1>1, <2>1, QueueAppend
  <2>8. m \in Nat
    BY <1>1
  <2> HIDE DEF w, m
  <2>9. \A i \in DOMAIN w : w[i].flow = f => i = m
    BY <2>6, <2>7
  <2>10. \A j \in DOMAIN w : j < m => w[j].flow # f
    BY <2>6, <2>7, <2>8
  <2>11. Runs(FeedsIn(w, f, 0), 1, 0, 0)
    <3> DEFINE v == FeedsIn(w, f, 0)
    <3>1. DOMAIN v = {}
      BY <2>1, <2>7, <2>9 DEF FeedsIn, Feeds
    <3> HIDE DEF v
    <3>2. Runs(v, 1, 0, 0)
      BY <3>1, RunsEmpty
    <3> QED BY <3>2 DEF v
  <2>12. Opening(s, w, f)
    BY <2>2, <2>9, <2>10, <2>11 DEF Opening, Total
  <2>13. Opening(s, Append(Queue(tun, inputs), e), f)
    BY <2>12 DEF w, q
  <2> QED BY <1>2, <1>5, <2>1, <2>2, <2>3, <2>5, <2>13, SocketStep
<1> QED BY <1>6, <1>7

(* Acknowledged bytes leave the transmit buffer.                           *)
LEMMA AckSteps ==
  ASSUME TunTcpInv, StreamInv, NEW f \in TcpFlows, ClientAcks(f)
  PROVE  StreamInv'
<1> DEFINE a == tun'
<1>1. tun \in LoopRecord
  BY LoopTyped
<1>2. phase = "poll" /\ UNCHANGED <<inputs, outputs, phase>> /\ a = [tun EXCEPT !.sock[f].tx = 0]
  BY DEF ClientAcks
<1>3. /\ a.task = tun.task /\ a.pending = tun.pending /\ a.gens = tun.gens /\ a.lookup = tun.lookup
      /\ a.sock = [tun.sock EXCEPT ![f].tx = 0]
  BY <1>1, <1>2 DEF LoopRecord
<1>4. tun.sock \in [TcpFlows -> SocketRecord]
  BY <1>1 DEF LoopRecord
<1>5. \A h \in TcpFlows : h # f => a.sock[h] = tun.sock[h]
  BY <1>3, <1>4
<1>6. /\ a.sock[f].got = tun.sock[f].got /\ a.sock[f].sent = tun.sock[f].sent /\ a.sock[f].fin = tun.sock[f].fin
      /\ a.sock[f].gen = tun.sock[f].gen /\ a.sock[f].st = tun.sock[f].st
  BY <1>3, <1>4 DEF SocketRecord
<1> HIDE DEF a
<1>7. \A h \in TcpFlows : Stream(a, h) = Stream(tun, h)
  BY <1>3, <1>5, <1>6 DEF Stream
<1>8. Fewer(a, tun)
  <2>1. ASSUME NEW h \in TcpFlows PROVE SameFlow(a, tun, h)
    <3>1. /\ a.sock[h].sent = tun.sock[h].sent /\ a.sock[h].fin = tun.sock[h].fin
          /\ a.sock[h].gen = tun.sock[h].gen /\ a.sock[h].st = tun.sock[h].st
      BY <1>5, <1>6
    <3>2. Trails(Stream(a, h), Stream(tun, h))
      BY <1>7 DEF Trails
    <3> QED BY <1>3, <1>7, <3>1, <3>2 DEF SameFlow
  <2> QED BY <1>3, <2>1 DEF Fewer
<1>9. Carries(tun, Queue(tun, inputs), outputs, TcpFlows)
  BY <1>2 DEF StreamInv
<1>10. Carries(a, Queue(a, inputs), outputs, TcpFlows)
  BY <1>3, <1>8, <1>9, ShedsCarries
<1>11. Carries(a, Queue(a, inputs'), outputs', TcpFlows)
  BY <1>2, <1>10
<1> QED BY <1>2, <1>11 DEF StreamInv, a

LEMMA DispatchCarries ==
  ASSUME TunTcpInv, StreamInv, DispatchInput
  PROVE  StreamInv'
<1> DEFINE e == Head(inputs)
           r == HandleProxyInput(tun, e)
           k == [r EXCEPT !.ok = TRUE]
           a == AbortTcp(k, e.flow)
<1>1. /\ tun \in LoopRecord /\ inputs \in Seq(InputRecord) /\ outputs \in Seq(OutputRecord)
      /\ tun \in Ordered(Live, Socketed(tun))
  BY LoopTyped
<1>2. /\ phase = "inputs" /\ inputs # <<>> /\ inputs' = Tail(inputs) /\ UNCHANGED <<outputs, phase>>
      /\ tun' = IF r.ok THEN r ELSE a
  BY DEF DispatchInput
<1>3. Carries(tun, Queue(tun, inputs), outputs, TcpFlows)
  BY <1>2 DEF StreamInv
<1>4. e = inputs[1] /\ e \in InputRecord /\ e.flow \in TcpFlows
  <2>1. e = inputs[1] /\ e \in InputRecord
    BY <1>1, <1>2, QueueTail
  <2> QED BY <2>1 DEF InputRecord
<1>5. Carries(r, Queue(r, Tail(inputs)), outputs, TcpFlows)
  <2>1. Carries(HandleProxyInput(tun, inputs[1]), Queue(HandleProxyInput(tun, inputs[1]), Tail(inputs)),
                outputs, TcpFlows)
    BY <1>1, <1>2, <1>3, InputCarries
  <2> QED BY <1>4, <2>1
<1>6. r \in LoopRecord
  <2> DEFINE L == Live \cup {e.flow}
             P == Socketed(tun)
  <2>1. Live \subseteq L /\ e.flow \in L
    OBVIOUS
  <2> HIDE DEF L, P
  <2>2. tun \in Ordered(L, P)
    BY <1>1, <2>1, OrderedGrows DEF P
  <2>3. CASE e.kind = "closed"
    BY <1>4, <2>2, <2>3, ClosedLeaves DEF Ordered
  <2>4. CASE e.kind # "closed"
    <3>1. e \in DeferredRecord
      BY <1>4, <2>4 DEF InputRecord, DeferredRecord
    <3> QED BY <2>1, <2>2, <3>1, InputOrdered DEF Ordered
  <2> QED BY <2>3, <2>4
<1> HIDE DEF r
<1>7. k \in LoopRecord /\ Sheds(k, r) /\ k.lookup = r.lookup
  BY <1>4, <1>6, HelpersShed DEF LoopRecord
<1> HIDE DEF k
<1>8. Sheds(a, k) /\ a.lookup = k.lookup
  BY <1>4, <1>7, SocketSheds, CloseTcpReturns DEF SameBesideSockets
<1> HIDE DEF a
<1>9. Carries(k, Queue(k, Tail(inputs)), outputs, TcpFlows)
  BY <1>5, <1>7, ShedsCarries DEF Sheds
<1>10. Carries(a, Queue(a, Tail(inputs)), outputs, TcpFlows)
  BY <1>8, <1>9, ShedsCarries DEF Sheds
<1>11. Carries(tun', Queue(tun', inputs'), outputs', TcpFlows)
  BY <1>2, <1>5, <1>10
<1> QED BY <1>2, <1>11 DEF StreamInv

LEMMA SweepCarries ==
  ASSUME TunTcpInv, StreamInv, InputsEnd \/ Reap \/ \E E \in SUBSET tun.nat : Maintain(E)
  PROVE  StreamInv'
<1> DEFINE L == Live
           P == Socketed(tun)
<1>1. /\ tun \in LoopRecord /\ inputs \in Seq(InputRecord) /\ outputs \in Seq(OutputRecord)
      /\ tun \in Ordered(L, P)
  BY LoopTyped
<1>2. phase \in {"inputs", "reap", "maintain"} /\ UNCHANGED <<inputs, outputs>>
  BY DEF InputsEnd, Reap, Maintain
<1>3. Carries(tun, Queue(tun, inputs), outputs, TcpFlows)
  BY <1>2 DEF StreamInv
<1> HIDE DEF L, P
<1>4. CASE InputsEnd
  <2>1. tun' = CloseAndFlush(tun) /\ phase' = "drain"
    BY <1>4 DEF InputsEnd
  <2>2. Carries(tun', Queue(tun', inputs), outputs, TcpFlows) /\ \A h \in TcpFlows : Drained(tun', h)
    BY <1>1, <1>3, <2>1, CloseAndFlushCarries
  <2>3. Carries(tun', Queue(tun', inputs'), outputs', TcpFlows)
    BY <1>2, <2>2
  <2>4. \A h \in TcpFlows : Drained(tun, h)'
    BY <2>2 DEF Drained, Writable
  <2> QED BY <2>1, <2>3, <2>4 DEF StreamInv
<1>5. CASE Reap
  <2> DEFINE S == {f \in DOMAIN tun.task : tun.task[f].pc = "finished"}
  <2>1. tun' = FoldSet(ReapFlow, tun, S) /\ phase' = "maintain"
    BY <1>5 DEF Reap
  <2>2. S \in SUBSET TcpFlows
    BY <1>1 DEF LoopRecord, TaskMap
  <2> HIDE DEF S
  <2>3. Carries(tun', Queue(tun', inputs), outputs, TcpFlows)
    BY <1>1, <1>3, <2>1, <2>2, ReapAllCarries
  <2>4. Carries(tun', Queue(tun', inputs'), outputs', TcpFlows)
    BY <1>2, <2>3
  <2> QED BY <2>1, <2>4 DEF StreamInv
<1>6. ASSUME NEW E \in SUBSET tun.nat, Maintain(E) PROVE StreamInv'
  <2> DEFINE r == [tun EXCEPT !.nat = @ \ E]
  <2>1. tun' = FoldSet(ExpireFlow, r, E) /\ phase' = "poll"
    BY <1>6 DEF Maintain
  <2>2. E \in SUBSET TcpFlows
    BY <1>1 DEF LoopRecord
  <2>3. /\ r \in LoopRecord /\ r.sock = tun.sock /\ r.tracked = tun.tracked /\ r.cached = tun.cached
        /\ r.resolver = tun.resolver /\ r.lookup = tun.lookup /\ r.task = tun.task /\ r.gens = tun.gens
        /\ r.pending = tun.pending /\ r.closes = tun.closes
    BY <1>1 DEF LoopRecord
  <2> HIDE DEF r
  <2>4. r \in Ordered(L, P)
    BY <1>1, <2>3 DEF Ordered, TasksInOrder, ClosesWait, LookupInOrder, Socketed
  <2>5. Sheds(r, tun)
    BY <2>3, SameSheds
  <2>6. Carries(r, Queue(r, inputs), outputs, TcpFlows)
    BY <1>3, <2>3, <2>5, ShedsCarries DEF Sheds
  <2>7. Carries(tun', Queue(tun', inputs), outputs, TcpFlows)
    BY <1>1, <2>1, <2>2, <2>4, <2>6, ReapAllCarries
  <2>8. Carries(tun', Queue(tun', inputs'), outputs', TcpFlows)
    BY <1>2, <2>7
  <2> QED BY <2>1, <2>8 DEF StreamInv
<1> QED BY <1>4, <1>5, <1>6

LEMMA OutputCarries ==
  ASSUME TunTcpInv, StreamInv, HandleOutput
  PROVE  StreamInv'
<1> DEFINE o == Head(outputs)
           q == Queue(tun, inputs)
           L == Live
           P == Socketed(tun)
<1>1. /\ tun \in LoopRecord /\ inputs \in Seq(InputRecord) /\ outputs \in Seq(OutputRecord)
      /\ tun \in Ordered(L, P)
  BY LoopTyped
<1>2. phase = "drain" /\ outputs # <<>> /\ outputs' = Tail(outputs) /\ UNCHANGED inputs
  BY DEF HandleOutput
<1>3. Carries(tun, q, outputs, TcpFlows) /\ \A h \in TcpFlows : Drained(tun, h)
  BY <1>2 DEF StreamInv
<1>4. o \in OutputRecord
  BY <1>1, <1>2, QueueTail
<1>5. o.kind \in {"data", "closed", "resolved"} /\ o.flow \in TcpFlows
  BY <1>4 DEF OutputRecord
<1>6. Tail(outputs) \in Seq(OutputRecord)
  BY <1>1, <1>2, QueueTail
<1>7. o.kind # "data" => Carries(tun, q, Tail(outputs), TcpFlows)
  <2>1. Numbered(tun)
    BY LoopTyped, LoopNumbered
  <2> HIDE DEF q
  <2> QED BY <1>1, <1>2, <1>3, <2>1, OutsMove
<1> HIDE DEF L, P
<1>8. CASE o.kind = "data"
  <2>1. tun' = TcpData(tun, o) /\ phase' = IF Blocked(tun, o) THEN "reap" ELSE "drain"
    BY <1>8 DEF HandleOutput
  <2>2. /\ Carries(tun', q, Tail(outputs), TcpFlows) /\ tun'.lookup = tun.lookup
        /\ ~Blocked(tun, o) => \A h \in TcpFlows : Drained(tun', h)
    BY <1>1, <1>2, <1>3, <1>8, <2>1, DataCarries
  <2>3. Carries(tun', Queue(tun', inputs'), outputs', TcpFlows)
    BY <1>2, <2>2 DEF Queue
  <2>4. ~Blocked(tun, o) => \A h \in TcpFlows : Drained(tun, h)'
    BY <2>2 DEF Drained, Writable
  <2> QED BY <2>1, <2>3, <2>4 DEF StreamInv
<1>9. ASSUME phase' = "drain", Carries(tun', Queue(tun', inputs), Tail(outputs), TcpFlows),
             \A h \in TcpFlows : Drained(tun', h)
      PROVE  StreamInv'
  <2>1. Carries(tun', Queue(tun', inputs'), outputs', TcpFlows)
    BY <1>2, <1>9
  <2>2. \A h \in TcpFlows : Drained(tun, h)'
    BY <1>9 DEF Drained, Writable
  <2> QED BY <1>9, <2>1, <2>2 DEF StreamInv
<1>10. CASE o.kind = "closed"
  <2>1. tun' = TcpClosed(tun, o) /\ phase' = "drain"
    BY <1>10 DEF HandleOutput
  <2>2. tun' = ReapFlow(o.flow, tun)
    BY <2>1 DEF TcpClosed, ReapFlow
  <2>3. Sheds(tun', tun) /\ tun'.lookup = tun.lookup
    BY <1>1, <1>5, <2>2, ReapSheds
  <2>4. Carries(tun', Queue(tun', inputs), Tail(outputs), TcpFlows)
    BY <1>7, <1>10, <2>3, ShedsCarries DEF Sheds
  <2>5. \A h \in TcpFlows : Drained(tun', h)
    BY <1>3, <2>3, NoMoreDrained DEF Sheds
  <2> QED BY <1>9, <2>1, <2>4, <2>5
<1>11. CASE o.kind = "resolved"
  <2>1. tun' = ProcessResolved(tun, o) /\ phase' = "drain"
    BY <1>11 DEF HandleOutput
  <2>2. Carries(tun', Queue(tun', inputs), Tail(outputs), TcpFlows) /\ \A h \in TcpFlows : Drained(tun', h)
    BY <1>1, <1>3, <1>6, <1>7, <1>11, <2>1, ResolvedCarries
  <2> QED BY <1>9, <2>1, <2>2
<1> QED BY <1>5, <1>8, <1>10, <1>11

(* What a proxy task does.                                                 *)
LEMMA RecordStep ==
  ASSUME TunTcpInv, StreamInv, phase' = phase, UNCHANGED inputs, NEW f \in TcpFlows, f \in DOMAIN tun.task,
         NEW k \in TaskRecord, k.gen = tun.task[f].gen, tun' = [tun EXCEPT !.task[f] = k],
         Shaped(outputs, tun.gens) => Shaped(outputs', tun.gens),
         \A h \in TcpFlows : h # f /\ Streams(tun, Queue(tun, inputs), outputs, h)
                               => Streams(tun, Queue(tun, inputs), outputs', h),
         Download(tun.task[f], Stream(tun, f), outputs, f) => Download(k, Stream(tun, f), outputs', f),
         Upload(tun.task[f], tun.sock[f].sent, tun.sock[f].fin, Queue(tun, inputs), f)
           => Upload(k, tun.sock[f].sent, tun.sock[f].fin, Queue(tun, inputs), f)
  PROVE  StreamInv'
<1> DEFINE a == tun'
           q == Queue(tun, inputs)
           o == outputs'
<1>1. tun \in LoopRecord /\ tun.task \in TaskMap
  BY LoopTyped DEF LoopRecord
<1>2. /\ a.sock = tun.sock /\ a.pending = tun.pending /\ a.gens = tun.gens /\ a.lookup = tun.lookup
      /\ a.task = [tun.task EXCEPT ![f] = k]
  BY <1>1 DEF LoopRecord
<1>3. DOMAIN a.task = DOMAIN tun.task /\ a.task[f] = k /\ \A h \in DOMAIN tun.task : h # f => a.task[h] = tun.task[h]
  BY <1>1, <1>2 DEF TaskMap
<1>4. phase # "over"
  BY DEF StreamInv
<1>5. Carries(tun, q, outputs, TcpFlows) /\ (phase = "drain" => \A h \in TcpFlows : Drained(tun, h))
  BY <1>4 DEF StreamInv
<1>6. Shaped(o, tun.gens)
  BY <1>5 DEF Carries
<1> HIDE DEF a, q, o
<1>7. Carries(a, q, o, TcpFlows)
  <2>1. \A h \in TcpFlows : h # f /\ Streams(tun, q, outputs, h) => Streams(tun, q, o, h)
    BY DEF q, o
  <2>2. Download(tun.task[f], Stream(tun, f), outputs, f) => Download(a.task[f], Stream(tun, f), o, f)
    BY <1>3 DEF o
  <2>3. Upload(tun.task[f], tun.sock[f].sent, tun.sock[f].fin, q, f)
          => Upload(a.task[f], tun.sock[f].sent, tun.sock[f].fin, q, f)
    BY <1>3 DEF q
  <2>4. a.task[f].gen = tun.task[f].gen
    BY <1>3
  <2> QED BY <1>2, <1>3, <1>5, <1>6, <2>1, <2>2, <2>3, <2>4, TaskCarries
<1>8. Carries(tun', Queue(tun', inputs'), outputs', TcpFlows)
  BY <1>2, <1>7 DEF Queue, a, q, o
<1>9. \A h \in TcpFlows : Drained(tun, h) => Drained(tun, h)'
  BY <1>2 DEF Drained, Writable, a
<1> QED BY <1>4, <1>5, <1>8, <1>9 DEF StreamInv

LEMMA TaskPasses ==
  ASSUME TunTcpInv, StreamInv, NEW f \in TcpFlows,
         \/ \E pc \in {"relaying", "ending"} : ConnectEnds(f, pc)
         \/ RemoteEnds(f) \/ EmitClosed(f) \/ EmitTimesOut(f)
  PROVE  StreamInv'
<1> DEFINE t == tun.task[f]
           q == Queue(tun, inputs)
<1>1. tun \in LoopRecord /\ outputs \in Seq(OutputRecord) /\ tun.task \in TaskMap
  BY LoopTyped DEF LoopRecord
<1>2. f \in DOMAIN tun.task /\ UNCHANGED <<inputs, phase>>
  BY DEF ConnectEnds, RemoteEnds, EmitClosed, EmitTimesOut, Running
<1>3. t \in TaskRecord
  BY <1>1, <1>2 DEF TaskMap
<1>4. PICK pc \in {"relaying", "ending", "finished"} : tun' = [tun EXCEPT !.task[f].pc = pc]
  BY DEF ConnectEnds, RemoteEnds, EmitClosed, EmitTimesOut, TaskGoes
<1> DEFINE k == [t EXCEPT !.pc = pc]
<1>5. /\ k \in TaskRecord /\ k.gen = t.gen /\ k.emitted = t.emitted /\ k.forwarded = t.forwarded
      /\ k.cmds = t.cmds /\ k.writeClosed = t.writeClosed
  BY <1>3 DEF TaskRecord
<1>6. tun' = [tun EXCEPT !.task[f] = k]
  BY <1>1, <1>2, <1>4 DEF LoopRecord, TaskMap
<1>7. \/ outputs' = outputs
      \/ \E x \in OutputRecord : x.kind # "data" /\ outputs' = Append(outputs, x)
  <2>1. CASE EmitClosed(f)
    <3> DEFINE x == [kind |-> "closed", flow |-> f, gen |-> t.gen, payload |-> <<>>]
    <3>1. t.gen \in Nat
      BY <1>3 DEF TaskRecord
    <3>2. x \in OutputRecord /\ x.kind # "data"
      BY <3>1 DEF OutputRecord
    <3>3. outputs' = Append(outputs, x)
      BY <2>1 DEF EmitClosed, Emit
    <3> QED BY <3>2, <3>3
  <2>2. CASE ~EmitClosed(f)
    BY <2>2 DEF ConnectEnds, RemoteEnds, EmitTimesOut
  <2> QED BY <2>1, <2>2
<1> HIDE DEF k, t, q
<1>8. Shaped(outputs, tun.gens) => Shaped(outputs', tun.gens)
  BY <1>1, <1>7, ShapedMoves
<1>9. \A h, s, j : j.gen \in Nat /\ Download(j, s, outputs, h) => Download(j, s, outputs', h)
  <2>1. ASSUME NEW h, NEW s, NEW j, j.gen \in Nat, Download(j, s, outputs, h) PROVE Download(j, s, outputs', h)
    <3>1. CASE outputs' = outputs
      BY <2>1, <3>1
    <3>2. ASSUME NEW x \in OutputRecord, x.kind # "data", outputs' = Append(outputs, x)
          PROVE  Download(j, s, outputs', h)
      <4>1. ~DataOf(x, h)
        BY <3>2 DEF DataOf
      <4>2. Download(j, s, Append(outputs, x), h)
        BY <1>1, <2>1, <3>2, <4>1, DownloadMoves
      <4> QED BY <3>2, <4>2
    <3> QED BY <1>7, <3>1, <3>2
  <2> QED BY <2>1
<1>10. \A h \in TcpFlows : Streams(tun, q, outputs, h) => Streams(tun, q, outputs', h)
  <2>1. \A h \in DOMAIN tun.task : tun.task[h].gen \in Nat
    BY <1>1 DEF TaskMap, TaskRecord
  <2> QED BY <1>9, <2>1 DEF Streams, Served
<1>11. Download(t, Stream(tun, f), outputs, f) => Download(k, Stream(tun, f), outputs', f)
  <2>1. Download(t, Stream(tun, f), outputs', f) => Download(k, Stream(tun, f), outputs', f)
    BY <1>5 DEF Download
  <2>2. t.gen \in Nat
    BY <1>3 DEF TaskRecord
  <2> QED BY <1>9, <2>1, <2>2
<1>12. Upload(t, tun.sock[f].sent, tun.sock[f].fin, q, f) => Upload(k, tun.sock[f].sent, tun.sock[f].fin, q, f)
  BY <1>5 DEF Upload, Written
<1> QED BY <1>2, <1>5, <1>6, <1>8, <1>10, <1>11, <1>12, RecordStep DEF t, q

LEMMA ReadSteps ==
  ASSUME TunTcpInv, StreamInv, NEW f \in TcpFlows, ReadRemote(f)
  PROVE  StreamInv'
<1> DEFINE t == tun.task[f]
           q == Queue(tun, inputs)
           k == [t EXCEPT !.emitted = t.emitted + ChunkLen]
           u == Units(t.gen, t.emitted, ChunkLen)
           x == [kind |-> "data", flow |-> f, gen |-> t.gen, payload |-> u]
<1>1. tun \in LoopRecord /\ outputs \in Seq(OutputRecord) /\ tun.task \in TaskMap
  BY LoopTyped DEF LoopRecord
<1>2. f \in DOMAIN tun.task /\ UNCHANGED <<inputs, phase>>
  BY DEF ReadRemote, Running
<1>3. t \in TaskRecord
  BY <1>1, <1>2 DEF TaskMap
<1>4. t.gen \in Nat /\ t.emitted \in Nat /\ ChunkLen \in Nat /\ ChunkLen > 0
  BY <1>3, TunTcpAssumption DEF TaskRecord
<1>5. /\ k \in TaskRecord /\ k.gen = t.gen /\ k.emitted = t.emitted + ChunkLen /\ k.forwarded = t.forwarded
      /\ k.cmds = t.cmds /\ k.writeClosed = t.writeClosed
  <2> DEFINE n == t.emitted + ChunkLen
  <2>1. n \in Nat
    BY <1>4
  <2> HIDE DEF n, t
  <2>2. k = [t EXCEPT !.emitted = n]
    BY DEF n
  <2> HIDE DEF k
  <2>3. /\ k \in TaskRecord /\ k.gen = t.gen /\ k.emitted = n /\ k.forwarded = t.forwarded
        /\ k.cmds = t.cmds /\ k.writeClosed = t.writeClosed
    BY <1>3, <2>1, <2>2 DEF TaskRecord
  <2> QED BY <2>3 DEF n
<1>6. tun' = [tun EXCEPT !.task[f] = k] /\ outputs' = Append(outputs, x)
  <2>1. tun' = [tun EXCEPT !.task[f].emitted = @ + ChunkLen] /\ outputs' = Append(outputs, x)
    BY DEF ReadRemote, Emit
  <2> QED BY <1>1, <1>2, <2>1 DEF LoopRecord, TaskMap
<1> HIDE DEF t
<1>7. u \in Seq(Unit) /\ Len(u) = ChunkLen /\ u[1] = <<t.gen, t.emitted + 1>>
  <2>1. u \in Seq(Unit) /\ Len(u) = ChunkLen
    BY <1>4, UnitsAre
  <2>2. u[1] = <<t.gen, t.emitted + 1>>
    BY <1>4 DEF Units
  <2> QED BY <2>1, <2>2
<1>8. x \in OutputRecord /\ x.kind = "data" /\ x.flow = f /\ x.gen = t.gen /\ x.payload = u /\ From(x) = t.emitted
  <2> HIDE DEF u
  <2>1. x \in OutputRecord /\ x.kind = "data" /\ x.flow = f /\ x.gen = t.gen /\ x.payload = u
    BY <1>4, <1>7 DEF OutputRecord
  <2>2. u[1][2] = t.emitted + 1
    BY <1>7
  <2>3. From(x) = (t.emitted + 1) - 1
    BY <2>1, <2>2 DEF From
  <2> QED BY <1>4, <2>1, <2>3
<1>9. phase # "over"
  BY <1>2 DEF StreamInv
<1>10. Carries(tun, q, outputs, TcpFlows)
  BY <1>9 DEF StreamInv
<1>11. t.gen <= tun.gens
  BY <1>2, <1>10 DEF Carries, Settled, Dated, t
<1> HIDE DEF x, k, q
<1>12. Shaped(outputs, tun.gens) => Shaped(outputs', tun.gens)
  BY <1>1, <1>4, <1>6, <1>8, <1>11, ShapedMoves
<1>13. ASSUME NEW h \in TcpFlows, h # f, Streams(tun, q, outputs, h) PROVE Streams(tun, q, outputs', h)
  <2>1. ~DataOf(x, h) /\ (h \in DOMAIN tun.task => tun.task[h].gen \in Nat)
    BY <1>1, <1>8, <1>13 DEF DataOf, TaskMap, TaskRecord
  <2>2. h \in DOMAIN tun.task /\ Download(tun.task[h], Stream(tun, h), outputs, h)
          => Download(tun.task[h], Stream(tun, h), outputs', h)
    BY <1>1, <1>6, <1>8, <2>1, DownloadMoves
  <2> QED BY <1>13, <2>2 DEF Streams, Served
<1>14. Download(t, Stream(tun, f), outputs, f) => Download(k, Stream(tun, f), outputs', f)
  <2> DEFINE s == Stream(tun, f)
  <2> HIDE DEF s
  <2>1. SUFFICES ASSUME Download(t, s, outputs, f) PROVE Download(k, s, outputs', f)
    BY DEF s
  <2>2. PICK b \in Nat : /\ Runs(UnitsIn(s, t.gen), 1, 0, b)
                         /\ Runs(ChunksIn(outputs, f, t.gen), ChunkLen, b, t.emitted)
    BY <2>1 DEF Download
  <2>3. Chunk(x, f, t.gen)
    BY <1>8 DEF Chunk
  <2>4. Runs(ChunksIn(Append(outputs, x), f, t.gen), ChunkLen, b, t.emitted + ChunkLen)
    BY <1>1, <1>8, <2>2, <2>3, ChunksMove
  <2>5. LeftoversFirst(s, Append(outputs, x), f, t.gen)
    <3>1. LeftoversFirst(s, outputs, f, t.gen)
      BY <2>1 DEF Download
    <3> QED BY <1>1, <1>4, <1>8, <3>1, LeftoversAppend
  <2> QED BY <1>5, <1>6, <2>2, <2>4, <2>5 DEF Download
<1>15. Upload(t, tun.sock[f].sent, tun.sock[f].fin, q, f) => Upload(k, tun.sock[f].sent, tun.sock[f].fin, q, f)
  BY <1>5 DEF Upload, Written
<1> QED BY <1>2, <1>5, <1>6, <1>12, <1>13, <1>14, <1>15, RecordStep DEF t, q

LEMMA TakeUpload ==
  ASSUME NEW t \in TaskRecord, t.cmds # <<>>, NEW n \in Nat, NEW fin, NEW q, NEW h, Upload(t, n, fin, q, h),
         NEW c, c = Head(t.cmds), NEW k, k.cmds = Tail(t.cmds), k.writeClosed = (t.writeClosed \/ c = 0),
         k.forwarded = IF c # 0 /\ ~t.writeClosed THEN Append(t.forwarded, c) ELSE t.forwarded
  PROVE  Upload(k, n, fin, q, h)
<1> DEFINE fwd == t.forwarded
           l == Len(fwd)
           wr == Written(t)
<1>1. fwd \in Seq(Nat) /\ t.cmds \in Seq(Nat) /\ t.writeClosed \in BOOLEAN /\ l \in Nat
  BY DEF TaskRecord
<1>2. PICK b \in Nat : Runs(CommandsIn(t.cmds, n), 1, wr, b) /\ Runs(FeedsIn(q, h, n), 1, b, Total(n, fin))
  BY DEF Upload
<1>3. /\ \A i \in DOMAIN fwd : fwd[i] = i
      /\ t.writeClosed => fin /\ l = n
  BY DEF Upload
<1>4. c \in Nat
  BY <1>1
<1> HIDE DEF wr
<1>5. (IF c = 0 THEN n ELSE Mark(c, n)) = wr /\ Runs(CommandsIn(Tail(t.cmds), n), 1, wr + 1, b)
  BY <1>1, <1>2, CommandsMove
<1>6. ~t.writeClosed /\ wr = l
  <2>1. wr <= n
    BY <1>4, <1>5 DEF Mark
  <2>2. CASE t.writeClosed
    <3>1. wr = n + 1
      BY <1>3, <2>2 DEF wr, Written
    <3> QED BY <2>1, <3>1
  <2>3. CASE ~t.writeClosed
    BY <2>3 DEF wr, Written
  <2> QED BY <1>1, <2>2, <2>3
<1>7. wr + 1 <= b /\ b <= Total(n, fin)
  BY <1>2, <1>5 DEF Runs
<1> HIDE DEF fwd, l
<1>8. CASE c = 0
  <2>1. k.writeClosed = TRUE /\ k.forwarded = fwd
    BY <1>8 DEF fwd
  <2>2. l = n /\ n \in Nat
    BY <1>5, <1>6, <1>8
  <2>3. fin
    BY <1>6, <1>7, <2>2 DEF Total
  <2>4. Written(k) = wr + 1
    BY <1>6, <2>1 DEF Written, l
  <2> QED BY <1>2, <1>3, <1>5, <2>1, <2>2, <2>3, <2>4 DEF Upload, l
<1>9. CASE c # 0
  <2>1. c = l + 1
    BY <1>1, <1>4, <1>5, <1>6, <1>9 DEF Mark
  <2>2. k.writeClosed = FALSE /\ k.forwarded = Append(fwd, c)
    BY <1>1, <1>6, <1>9 DEF fwd
  <2> DEFINE a == Append(fwd, c)
  <2>3. a \in Seq(Nat) /\ Len(a) = l + 1 /\ a[l + 1] = c /\ \A i \in 1 .. l : a[i] = fwd[i]
    BY <1>1, <1>4, AppendProperties DEF l
  <2> HIDE DEF a
  <2>4. \A i \in DOMAIN a : a[i] = i
    <3>1. DOMAIN a = 1 .. l + 1 /\ DOMAIN fwd = 1 .. l
      BY <1>1, <2>3 DEF l
    <3>2. ASSUME NEW i \in 1 .. l + 1 PROVE a[i] = i
      <4>1. CASE i = l + 1
        BY <2>1, <2>3, <4>1
      <4>2. CASE i # l + 1
        <5>1. i \in 1 .. l
          BY <1>1, <4>2
        <5> QED BY <1>3, <2>3, <3>1, <5>1
      <4> QED BY <4>1, <4>2
    <3> QED BY <3>1, <3>2
  <2>5. k.forwarded = a
    BY <2>2 DEF a
  <2>6. Written(k) = wr + 1
    BY <1>6, <2>2, <2>3, <2>5 DEF Written
  <2>7. Len(a) \in 0 .. n
    BY <1>1, <1>4, <1>5, <1>6, <1>9, <2>3 DEF Mark
  <2> QED BY <1>2, <1>5, <2>2, <2>4, <2>5, <2>6, <2>7 DEF Upload
<1> QED BY <1>8, <1>9

LEMMA TakeSteps ==
  ASSUME TunTcpInv, StreamInv, NEW f \in TcpFlows, TakeCommand(f)
  PROVE  StreamInv'
<1> DEFINE t == tun.task[f]
           q == Queue(tun, inputs)
           c == Head(t.cmds)
           wc == t.writeClosed \/ c = 0
           fwd == IF c # 0 /\ ~t.writeClosed THEN Append(t.forwarded, c) ELSE t.forwarded
           k == [t EXCEPT !.cmds = Tail(@), !.writeClosed = @ \/ c = 0,
                          !.forwarded = IF c # 0 /\ ~t.writeClosed THEN Append(@, c) ELSE @]
<1>1. tun \in LoopRecord /\ tun.task \in TaskMap
  BY LoopTyped DEF LoopRecord
<1>2. /\ f \in DOMAIN tun.task /\ UNCHANGED <<inputs, outputs, phase>> /\ t.cmds # <<>>
      /\ tun' = [tun EXCEPT !.task[f] = k]
  BY DEF TakeCommand, Running
<1>3. t \in TaskRecord
  BY <1>1, <1>2 DEF TaskMap
<1>4. t.cmds \in Seq(Nat) /\ t.forwarded \in Seq(Nat) /\ t.writeClosed \in BOOLEAN
  BY <1>3 DEF TaskRecord
<1> HIDE DEF t
<1>5. c \in Nat /\ Tail(t.cmds) \in Seq(Nat)
  BY <1>2, <1>4, QueueTail
<1> HIDE DEF c
<1>6. fwd \in Seq(Nat) /\ wc \in BOOLEAN
  BY <1>4, <1>5
<1>7. k = [t EXCEPT !.cmds = Tail(t.cmds), !.writeClosed = wc, !.forwarded = fwd]
  BY <1>3 DEF TaskRecord
<1> DEFINE m == Tail(t.cmds)
<1> HIDE DEF fwd, wc, k, m
<1>8. k = [t EXCEPT !.cmds = m, !.writeClosed = wc, !.forwarded = fwd] /\ m \in Seq(Nat)
  BY <1>5, <1>7 DEF m
<1>9. /\ k \in TaskRecord /\ k.gen = t.gen /\ k.emitted = t.emitted /\ k.cmds = m
      /\ k.writeClosed = wc /\ k.forwarded = fwd
  BY <1>3, <1>6, <1>8 DEF TaskRecord
<1>10. tun.sock[f].sent \in Nat
  BY <1>1 DEF LoopRecord, SocketRecord
<1> HIDE DEF q
<1>11. Upload(t, tun.sock[f].sent, tun.sock[f].fin, q, f) => Upload(k, tun.sock[f].sent, tun.sock[f].fin, q, f)
  <2> DEFINE n == tun.sock[f].sent
             fin == tun.sock[f].fin
  <2> HIDE DEF n, fin
  <2>1. k.cmds = Tail(t.cmds) /\ k.writeClosed = (t.writeClosed \/ c = 0) /\ c = Head(t.cmds)
    BY <1>9 DEF m, wc, c
  <2>2. k.forwarded = IF c # 0 /\ ~t.writeClosed THEN Append(t.forwarded, c) ELSE t.forwarded
    BY <1>9 DEF fwd
  <2>3. n \in Nat
    BY <1>10 DEF n
  <2>4. Upload(t, n, fin, q, f) => Upload(k, n, fin, q, f)
    BY <1>2, <1>3, <2>1, <2>2, <2>3, TakeUpload
  <2> QED BY <2>4 DEF n, fin
<1>12. Download(t, Stream(tun, f), outputs, f) => Download(k, Stream(tun, f), outputs', f)
  BY <1>2, <1>9 DEF Download
<1>13. \A h \in TcpFlows : Streams(tun, q, outputs, h) => Streams(tun, q, outputs', h)
  BY <1>2
<1>14. Shaped(outputs, tun.gens) => Shaped(outputs', tun.gens)
  BY <1>2
<1> QED BY <1>2, <1>9, <1>11, <1>12, <1>13, <1>14, RecordStep DEF t, q

LEMMA RestSteps ==
  ASSUME TunTcpInv, StreamInv,
         PollEnds \/ DrainEnds \/ LookupEnds \/ StopTun \/ \E f \in TcpFlows : RequestTcpClose(f)
  PROVE  StreamInv'
<1> DEFINE q == Queue(tun, inputs)
<1>1. /\ tun \in LoopRecord /\ inputs \in Seq(InputRecord) /\ outputs \in Seq(OutputRecord)
      /\ tun \in Ordered(Live, Socketed(tun))
  BY LoopTyped
<1>2. CASE PollEnds \/ DrainEnds
  <2>1. UNCHANGED <<tun, inputs, outputs>> /\ phase \in {"poll", "drain"} /\ phase' \in {"inputs", "reap"}
    BY <1>2 DEF PollEnds, DrainEnds
  <2>2. Carries(tun, q, outputs, TcpFlows)
    BY <2>1 DEF StreamInv
  <2>3. Carries(tun', Queue(tun', inputs'), outputs', TcpFlows)
    BY <2>1, <2>2
  <2> QED BY <2>1, <2>3 DEF StreamInv
<1>3. CASE StopTun
  <2>1. tun' = Close(tun) /\ phase' = "over"
    BY <1>3 DEF StopTun
  <2>2. tun'.task = EmptyMap
    BY <1>1, <2>1 DEF Close, LoopRecord
  <2>3. DOMAIN tun'.task = {}
    BY <2>2 DEF EmptyMap
  <2> QED BY <2>1, <2>3 DEF StreamInv
<1>4. ASSUME UNCHANGED phase, tun'.sock = tun.sock, tun'.pending = tun.pending, tun'.task = tun.task,
             tun'.gens = tun.gens, Queue(tun', inputs') = q,
             \/ outputs' = outputs
             \/ \E x \in OutputRecord : x.kind # "data" /\ outputs' = Append(outputs, x)
      PROVE  StreamInv'
  <2> DEFINE a == tun'
  <2>1. CASE phase = "over"
    BY <1>4, <2>1 DEF StreamInv
  <2>2. CASE phase # "over"
    <3>1. Carries(tun, q, outputs, TcpFlows) /\ (phase = "drain" => \A h \in TcpFlows : Drained(tun, h))
      BY <2>2 DEF StreamInv
    <3>2. Sheds(a, tun)
      <4> HIDE DEF a
      <4>1. a.sock = tun.sock /\ a.pending = tun.pending /\ a.task = tun.task /\ a.gens = tun.gens
        BY <1>4 DEF a
      <4> QED BY <4>1, SameSheds
    <3> HIDE DEF a, q
    <3>3. Carries(a, q, outputs, TcpFlows)
      BY <3>1, <3>2, FewerCarries DEF Sheds
    <3>4. Carries(a, q, outputs', TcpFlows)
      <4>1. Numbered(tun)
        BY LoopTyped, LoopNumbered
      <4>2. Numbered(a)
        BY <1>4, <4>1 DEF a, Numbered
      <4> QED BY <1>1, <1>4, <3>3, <4>2, OutsMove
    <3>5. Carries(tun', Queue(tun', inputs'), outputs', TcpFlows)
      BY <1>4, <3>4 DEF a
    <3>6. phase = "drain" => \A h \in TcpFlows : Drained(a, h)
      BY <3>1, <3>2, NoMoreDrained DEF Sheds
    <3>7. phase = "drain" => \A h \in TcpFlows : Drained(tun, h)'
      BY <3>6 DEF Drained, Writable, a
    <3> QED BY <1>4, <2>2, <3>5, <3>7 DEF StreamInv
  <2> QED BY <2>1, <2>2
<1>5. ASSUME NEW f \in TcpFlows, RequestTcpClose(f) PROVE StreamInv'
  <2>1. UNCHANGED <<inputs, outputs, phase>> /\ tun' = [tun EXCEPT !.requested = @ \cup {f}]
    BY <1>5 DEF RequestTcpClose
  <2>2. /\ tun'.sock = tun.sock /\ tun'.pending = tun.pending /\ tun'.task = tun.task
        /\ tun'.gens = tun.gens /\ tun'.lookup = tun.lookup
    BY <1>1, <2>1 DEF LoopRecord
  <2>3. Queue(tun', inputs') = q
    BY <2>1, <2>2 DEF Queue
  <2> QED BY <1>4, <2>1, <2>2, <2>3
<1>6. CASE LookupEnds
  <2> DEFINE e == Head(tun.lookup.events)
             x == [kind |-> "resolved", flow |-> e.flow, gen |-> tun.lookup.id, payload |-> <<>>]
  <2>1. /\ UNCHANGED <<inputs, phase>> /\ tun' = [tun EXCEPT !.lookup.sent = TRUE] /\ tun.lookup.id # 0
        /\ outputs' = Append(outputs, x)
    BY <1>6 DEF LookupEnds, Emit
  <2>2. tun.lookup \in LookupRecord /\ tun.lookup.events # <<>>
    BY <1>1, <2>1 DEF Ordered, LookupInOrder, LoopRecord
  <2>3. tun.lookup.id \in Nat /\ tun.lookup.events \in Seq(DeferredRecord)
    BY <2>2 DEF LookupRecord
  <2>4. e \in DeferredRecord
    BY <2>2, <2>3, QueueTail
  <2>5. e.flow \in TcpFlows
    BY <2>4 DEF DeferredRecord
  <2> HIDE DEF e
  <2>6. x \in OutputRecord /\ x.kind # "data"
    BY <2>3, <2>5 DEF OutputRecord
  <2> HIDE DEF x
  <2>7. /\ tun'.sock = tun.sock /\ tun'.pending = tun.pending /\ tun'.task = tun.task
        /\ tun'.gens = tun.gens /\ tun'.lookup.events = tun.lookup.events
    BY <1>1, <2>1, <2>2 DEF LoopRecord, LookupRecord
  <2>8. Queue(tun', inputs') = q
    BY <2>1, <2>7 DEF Queue
  <2> QED BY <1>4, <2>1, <2>6, <2>7, <2>8
<1> QED BY <1>2, <1>3, <1>5, <1>6

LEMMA StreamInit == TunTcpInit => StreamInv
<1>1. SUFFICES ASSUME TunTcpInit PROVE StreamInv
  OBVIOUS
<1>2. /\ inputs = <<>> /\ outputs = <<>> /\ phase = "poll"
      /\ tun.task = EmptyMap /\ tun.lookup = NoLookup /\ tun.gens = 0
      /\ tun.sock = [f \in TcpFlows |-> NoSocket] /\ tun.pending = [f \in TcpFlows |-> <<>>]
  BY <1>1 DEF TunTcpInit
<1>3. DOMAIN tun.task = {}
  BY <1>2 DEF EmptyMap
<1>4. Shaped(outputs, tun.gens)
  BY <1>2 DEF Shaped
<1>5. ASSUME NEW h \in TcpFlows PROVE Settled(tun, Queue(tun, inputs), h) /\ Streams(tun, Queue(tun, inputs), outputs, h)
  <2>1. tun.sock[h].st = "none" /\ tun.sock[h].gen = 0 /\ tun.sock[h].got = <<>> /\ tun.pending[h] = <<>>
    BY <1>2 DEF NoSocket
  <2>2. Stream(tun, h) = <<>>
    <3>1. Stream(tun, h) = <<>> \o <<>>
      BY <2>1 DEF Stream
    <3> QED BY <3>1
  <2>3. DOMAIN Stream(tun, h) = {}
    BY <2>2
  <2>4. Dated(tun, h)
    BY <1>2, <1>3, <2>1, <2>3 DEF Dated
  <2> QED BY <1>3, <2>1, <2>4 DEF Settled, Streams, Served
<1>6. Carries(tun, Queue(tun, inputs), outputs, TcpFlows)
  BY <1>4, <1>5 DEF Carries
<1> QED BY <1>2, <1>6 DEF StreamInv

LEMMA StreamStep == TunTcpInv /\ StreamInv /\ [TunTcpNext]_tunTcpVars => StreamInv'
<1> SUFFICES ASSUME TunTcpInv, StreamInv, [TunTcpNext]_tunTcpVars PROVE StreamInv'
  OBVIOUS
<1>1. CASE UNCHANGED tunTcpVars
  <2>1. UNCHANGED <<tun, inputs, outputs, phase>>
    BY <1>1 DEF tunTcpVars
  <2>2. CASE phase = "over"
    BY <2>1, <2>2 DEF StreamInv
  <2>3. CASE phase # "over"
    <3>1. Carries(tun, Queue(tun, inputs), outputs, TcpFlows) /\ (phase = "drain" => \A h \in TcpFlows : Drained(tun, h))
      BY <2>3 DEF StreamInv
    <3>2. Carries(tun', Queue(tun', inputs'), outputs', TcpFlows)
      BY <2>1, <3>1
    <3>3. \A h \in TcpFlows : Drained(tun, h) => Drained(tun, h)'
      BY <2>1 DEF Drained, Writable
    <3> QED BY <2>1, <2>3, <3>1, <3>2, <3>3 DEF StreamInv
  <2> QED BY <2>2, <2>3
<1>2. CASE \E f \in TcpFlows : ClientConnects(f) \/ SocketCloses(f)
  BY <1>2, SocketEnds
<1>3. CASE \E f \in TcpFlows : ClientSends(f) \/ ClientFins(f)
  BY <1>3, SendSteps
<1>4. CASE \E f \in TcpFlows : ClientAcks(f)
  BY <1>4, AckSteps
<1>5. CASE PollEnds \/ DrainEnds \/ LookupEnds \/ StopTun \/ \E f \in TcpFlows : RequestTcpClose(f)
  BY <1>5, RestSteps
<1>6. CASE \E f \in TcpFlows : \/ \E pc \in {"relaying", "ending"} : ConnectEnds(f, pc)
                               \/ RemoteEnds(f) \/ EmitClosed(f) \/ EmitTimesOut(f)
  BY <1>6, TaskPasses
<1>7. CASE \E f \in TcpFlows : ReadRemote(f)
  BY <1>7, ReadSteps
<1>8. CASE \E f \in TcpFlows : TakeCommand(f)
  BY <1>8, TakeSteps
<1>9. CASE DispatchInput
  BY <1>9, DispatchCarries
<1>10. CASE InputsEnd \/ Reap \/ \E E \in SUBSET tun.nat : Maintain(E)
  BY <1>10, SweepCarries
<1>11. CASE HandleOutput
  BY <1>11, OutputCarries
<1> QED BY <1>1, <1>2, <1>3, <1>4, <1>5, <1>6, <1>7, <1>8, <1>9, <1>10, <1>11 DEF TunTcpNext

LEMMA StreamInvHolds == TunTcpSpec => []StreamInv
<1>1. TunTcpSpec => []TunTcpInv
  BY TunTcpInvHolds
<1> QED BY <1>1, StreamInit, StreamStep, PTL DEF TunTcpSpec

-----------------------------------------------------------------------------
(* A piece of a word, and what the invariant says of the sequences.        *)
LEMMA PiecesJoin ==
  ASSUME NEW W, NEW a \in Nat, NEW b \in Nat, NEW c \in Nat, a <= b, b <= c
  PROVE  Piece(W, a, b) \o Piece(W, b, c) = Piece(W, a, c)
<1> DEFINE X == {W[x] : x \in Nat}
<1>1. \A x \in Nat : W[x] \in X
  OBVIOUS
<1> HIDE DEF X
<1>2. ASSUME NEW m \in Nat, NEW n \in Nat, m <= n
      PROVE  /\ Piece(W, m, n) \in Seq(X) /\ Len(Piece(W, m, n)) = n - m
             /\ \A j \in 1 .. n - m : Piece(W, m, n)[j] = W[m + j]
  <2>1. n - m \in Nat /\ \A j \in 1 .. n - m : W[m + j] \in X
    BY <1>1, <1>2
  <2>2. Piece(W, m, n) \in [1 .. n - m -> X] /\ \A j \in 1 .. n - m : Piece(W, m, n)[j] = W[m + j]
    BY <2>1 DEF Piece
  <2> DEFINE p == Piece(W, m, n)
             k == n - m
  <2> HIDE DEF p, k
  <2>3. p \in [1 .. k -> X] /\ k \in Nat
    BY <2>1, <2>2 DEF p, k
  <2>4. p \in Seq(X) /\ Len(p) = k
    BY <2>3
  <2> QED BY <2>2, <2>4 DEF p, k
<1> DEFINE p == Piece(W, a, b)
           q == Piece(W, b, c)
           r == Piece(W, a, c)
<1>3. /\ p \in Seq(X) /\ Len(p) = b - a /\ \A j \in 1 .. b - a : p[j] = W[a + j]
  BY <1>2
<1>4. /\ q \in Seq(X) /\ Len(q) = c - b /\ \A j \in 1 .. c - b : q[j] = W[b + j]
  BY <1>2
<1>5. /\ r \in Seq(X) /\ Len(r) = c - a /\ \A j \in 1 .. c - a : r[j] = W[a + j]
  BY <1>2
<1> HIDE DEF p, q, r
<1>6. /\ p \o q \in Seq(X) /\ Len(p \o q) = Len(p) + Len(q)
      /\ \A i \in 1 .. Len(p) + Len(q) : (p \o q)[i] = IF i <= Len(p) THEN p[i] ELSE q[i - Len(p)]
  BY <1>3, <1>4, ConcatProperties
<1>7. Len(p \o q) = Len(r) /\ Len(p) + Len(q) = c - a /\ c - a \in Nat
  BY <1>3, <1>4, <1>5, <1>6
<1>8. ASSUME NEW i \in 1 .. c - a PROVE (p \o q)[i] = r[i]
  <2>1. CASE i <= b - a
    <3>1. (p \o q)[i] = p[i] /\ i \in 1 .. b - a
      BY <1>3, <1>6, <1>7, <2>1
    <3> QED BY <1>3, <1>5, <3>1
  <2>2. CASE ~(i <= b - a)
    <3> DEFINE k == i - (b - a)
    <3>1. k \in 1 .. c - b /\ b + k = a + i
      BY <2>2
    <3>2. (p \o q)[i] = q[k]
      BY <1>3, <1>6, <1>7, <2>2
    <3> HIDE DEF k
    <3> QED BY <1>4, <1>5, <3>1, <3>2
  <2> QED BY <2>1, <2>2
<1>9. p \o q = r
  BY <1>5, <1>6, <1>7, <1>8, SeqEqual
<1> QED BY <1>9 DEF p, q, r

LEMMA OnePiece ==
  ASSUME NEW W, NEW n \in Nat
  PROVE  Piece(W, n, n + 1) = <<W[n + 1]>>
<1>1. (n + 1) - n = 1 /\ \A j \in 1 .. 1 : j = 1
  OBVIOUS
<1> QED BY <1>1 DEF Piece

(* The units of generation g.                                              *)
Word(g) == [n \in Nat |-> <<g, n>>]

(* The units of a stream in a sequence that holds those after a up to b.   *)
LEMMA OwnIs ==
  ASSUME NEW s \in Seq(Unit), NEW g \in Nat, NEW a, NEW b, Runs(UnitsIn(s, g), 1, a, b)
  PROVE  Own(g, s) = Piece(Word(g), a, b)
<1> DEFINE W == [n \in Nat |-> <<g, n>>]
           v == UnitsIn(s, g)
           ss == [i \in DOMAIN s |-> IF s[i][1] = g THEN <<s[i]>> ELSE <<>>]
<1>1. W \in [Nat -> Unit]
  BY DEF Unit
<1>2. DOMAIN s = 1 .. Len(s) /\ Len(s) \in Nat /\ \A i \in DOMAIN s : s[i] \in Unit
  OBVIOUS
<1>3. \A u \in Unit : u[1] \in Nat /\ u[2] \in Nat /\ u = <<u[1], u[2]>>
  BY DEF Unit
<1>4. ss \in Seq(Seq(Unit))
  <2>1. \A i \in DOMAIN s : (IF s[i][1] = g THEN <<s[i]>> ELSE <<>>) \in Seq(Unit)
    BY <1>2
  <2>2. ss \in [1 .. Len(s) -> Seq(Unit)]
    BY <1>2, <2>1
  <2> HIDE DEF ss
  <2> QED BY <1>2, <2>2
<1>5. DOMAIN v \subseteq DOMAIN s /\ \A i \in DOMAIN v : s[i][1] = g /\ v[i] = s[i][2] - 1
  BY DEF UnitsIn
<1>6. \A i \in DOMAIN v : v[i] \in Nat
  BY DEF Runs
<1>7. DOMAIN ss = DOMAIN s
  OBVIOUS
<1>8. ASSUME NEW i \in DOMAIN v PROVE ss[i] = Piece(W, v[i], v[i] + 1)
  <2>1. i \in DOMAIN s /\ s[i][1] = g /\ v[i] + 1 = s[i][2] /\ v[i] + 1 \in Nat /\ s[i] = <<g, s[i][2]>>
    BY <1>2, <1>3, <1>5, <1>6, <1>8
  <2>2. ss[i] = <<s[i]>>
    BY <2>1
  <2>3. W[v[i] + 1] = s[i]
    BY <2>1
  <2>4. v[i] \in Nat
    BY <1>6, <1>8
  <2> DEFINE x == s[i]
             n == v[i]
  <2> HIDE DEF x, n, W
  <2>5. W[n + 1] = x /\ n \in Nat
    BY <2>3, <2>4 DEF x, n
  <2>6. Piece(W, n, n + 1) = <<x>>
    BY <2>5, OnePiece
  <2> QED BY <2>2, <2>6 DEF x, n
<1>9. \A i \in DOMAIN ss : i \notin DOMAIN v => ss[i] = <<>>
  BY DEF UnitsIn
<1>10. Own(g, s) = FlattenSeq(ss)
  BY DEF Own
<1> HIDE DEF W, v, ss
<1>11. DOMAIN v \subseteq DOMAIN ss /\ Runs(v, 1, a, b)
  BY <1>5, <1>7 DEF v
<1>12. FlattenSeq(ss) = Piece(W, a, b)
  <2> DEFINE l == 1
  <2>1. l \in Nat \ {0} /\ Runs(v, l, a, b)
    BY <1>11
  <2>2. \A i \in DOMAIN v : ss[i] = Piece(W, v[i], v[i] + l)
    BY <1>8
  <2> HIDE DEF l
  <2> QED BY <1>1, <1>4, <1>9, <1>11, <2>1, <2>2, FlattenRuns
<1> QED BY <1>10, <1>12 DEF W, Word

(* The bytes of a stream in the outputs.                                   *)
LEMMA QueuedIs ==
  ASSUME NEW f, NEW g \in Nat, NEW a, NEW b, NEW m, outputs \in Seq(OutputRecord), Shaped(outputs, m),
         Runs(ChunksIn(outputs, f, g), ChunkLen, a, b)
  PROVE  Queued(f, g) = Piece(Word(g), a, b)
<1> DEFINE W == [n \in Nat |-> <<g, n>>]
           v == ChunksIn(outputs, f, g)
           ss == [i \in DOMAIN outputs |-> IF Chunk(outputs[i], f, g) THEN outputs[i].payload ELSE <<>>]
<1>1. W \in [Nat -> Unit]
  BY DEF Unit
<1>2. /\ DOMAIN outputs = 1 .. Len(outputs) /\ Len(outputs) \in Nat
      /\ \A i \in DOMAIN outputs : outputs[i] \in OutputRecord
  OBVIOUS
<1>3. \A o \in OutputRecord : o.payload \in Seq(Unit)
  BY DEF OutputRecord
<1>4. ss \in Seq(Seq(Unit))
  <2>1. \A i \in DOMAIN outputs :
          (IF Chunk(outputs[i], f, g) THEN outputs[i].payload ELSE <<>>) \in Seq(Unit)
    BY <1>2, <1>3
  <2>2. ss \in [1 .. Len(outputs) -> Seq(Unit)]
    BY <1>2, <2>1
  <2> HIDE DEF ss
  <2> QED BY <1>2, <2>2
<1>5. /\ DOMAIN v \subseteq DOMAIN outputs
      /\ \A i \in DOMAIN v : Chunk(outputs[i], f, g) /\ v[i] = From(outputs[i])
  BY DEF ChunksIn
<1>6. \A i \in DOMAIN v : v[i] \in Nat
  BY DEF Runs
<1>7. DOMAIN ss = DOMAIN outputs
  OBVIOUS
<1>8. ASSUME NEW i \in DOMAIN v PROVE ss[i] = Piece(W, v[i], v[i] + ChunkLen)
  <2>1. i \in DOMAIN outputs /\ Chunk(outputs[i], f, g) /\ v[i] = From(outputs[i]) /\ v[i] \in Nat
    BY <1>5, <1>6, <1>8
  <2>2. ss[i] = outputs[i].payload
    BY <2>1
  <2>3. outputs[i].payload = Units(g, v[i], ChunkLen)
    BY <2>1 DEF Shaped, Chunk
  <2> DEFINE n == v[i]
  <2> HIDE DEF n
  <2>4. n \in Nat
    BY <2>1 DEF n
  <2>5. (n + ChunkLen) - n = ChunkLen /\ \A j \in 1 .. ChunkLen : n + j \in Nat
    BY <2>4, TunTcpAssumption
  <2>6. \A j \in 1 .. ChunkLen : W[n + j] = <<g, n + j>>
    BY <2>5
  <2>7. Piece(W, n, n + ChunkLen) = Units(g, n, ChunkLen)
    <3> HIDE DEF W
    <3> QED BY <2>5, <2>6 DEF Piece, Units
  <2> QED BY <2>2, <2>3, <2>7 DEF n
<1>9. \A i \in DOMAIN ss : i \notin DOMAIN v => ss[i] = <<>>
  BY DEF ChunksIn
<1>10. Queued(f, g) = FlattenSeq(ss)
  BY DEF Queued
<1> HIDE DEF W, v, ss
<1>11. DOMAIN v \subseteq DOMAIN ss /\ Runs(v, ChunkLen, a, b)
  BY <1>5, <1>7 DEF v
<1>12. FlattenSeq(ss) = Piece(W, a, b)
  <2>1. ChunkLen \in Nat \ {0}
    BY TunTcpAssumption
  <2> QED BY <1>1, <1>4, <1>8, <1>9, <1>11, <2>1, FlattenRuns
<1> QED BY <1>10, <1>12 DEF W, Word

-----------------------------------------------------------------------------
(* The numbers up to m of a stream.                                        *)
Low(x, m) == IF x <= m THEN x ELSE m

LEMMA RunsBelow ==
  ASSUME NEW v, NEW w, NEW a, NEW b, NEW m \in Nat, Runs(v, 1, a, b),
         \A i : i \in DOMAIN w <=> i \in DOMAIN v /\ v[i] < m,
         \A i \in DOMAIN w : w[i] = v[i]
  PROVE  Runs(w, 1, Low(a, m), Low(b, m))
<1> DEFINE c == Low(a, m)
           d == Low(b, m)
<1>1. a \in Nat /\ b \in Nat /\ a <= b
  BY DEF Runs
<1>2. c \in Nat /\ d \in Nat /\ c <= d
  BY <1>1 DEF Low
<1>3. ASSUME NEW i \in DOMAIN w PROVE w[i] \in Nat /\ c <= w[i] /\ w[i] + 1 <= d
  <2>1. v[i] \in Nat /\ a <= v[i] /\ v[i] + 1 <= b /\ v[i] < m /\ w[i] = v[i]
    BY <1>3 DEF Runs
  <2> QED BY <1>1, <2>1 DEF Low
<1>4. ASSUME NEW n \in c + 1 .. d PROVE \E i \in DOMAIN w : w[i] < n /\ n <= w[i] + 1
  <2>1. n \in a + 1 .. b /\ n <= m /\ n \in Nat
    BY <1>1, <1>4 DEF Low
  <2>2. PICK i \in DOMAIN v : v[i] < n /\ n <= v[i] + 1
    BY <2>1 DEF Runs
  <2>3. v[i] \in Nat
    BY <2>2 DEF Runs
  <2>4. v[i] < m
    BY <2>1, <2>2, <2>3
  <2> QED BY <2>2, <2>4
<1>5. \A i, j \in DOMAIN w : i < j => w[i] + 1 <= w[j]
  BY DEF Runs
<1> HIDE DEF c, d
<1>6. Runs(w, 1, c, d)
  BY <1>2, <1>3, <1>4, <1>5 DEF Runs
<1> QED BY <1>6 DEF c, d

(* The numbers themselves, as a word.                                      *)
Count == [n \in Nat |-> n]

LEMMA FlattenCount ==
  ASSUME NEW ss \in Seq(Seq(Nat)), NEW v, NEW a, NEW b, Runs(v, 1, a, b), DOMAIN v \subseteq DOMAIN ss,
         \A i \in DOMAIN v : ss[i] = <<v[i] + 1>>,
         \A i \in DOMAIN ss : i \notin DOMAIN v => ss[i] = <<>>
  PROVE  FlattenSeq(ss) = Piece(Count, a, b)
<1> DEFINE l == 1
           W == Count
           X == Nat
<1>1. W \in [Nat -> X] /\ ss \in Seq(Seq(X)) /\ l \in Nat \ {0} /\ Runs(v, l, a, b)
  BY DEF Count
<1>2. ASSUME NEW i \in DOMAIN v PROVE ss[i] = Piece(W, v[i], v[i] + l)
  <2> DEFINE x == v[i]
  <2>1. x \in Nat /\ ss[i] = <<x + 1>>
    BY <1>2 DEF Runs
  <2> HIDE DEF x
  <2>2. Count[x + 1] = x + 1
    BY <2>1 DEF Count
  <2>3. Piece(Count, x, x + 1) = <<x + 1>>
    BY <2>1, <2>2, OnePiece
  <2> QED BY <2>1, <2>3 DEF x
<1> HIDE DEF l, W, X
<1>3. FlattenSeq(ss) = Piece(W, a, b)
  BY <1>1, <1>2, FlattenRuns, SMTT(40)
<1> QED BY <1>3 DEF W

(* What is put together from the chunks, left out the end of the stream.   *)
LEMMA ChunksJoin ==
  ASSUME NEW v, NEW a, NEW b, NEW n \in Nat, Runs(v, 1, a, b), NEW ss \in Seq(Seq(Nat)),
         DOMAIN v \subseteq DOMAIN ss,
         \A i \in DOMAIN v : v[i] < n => ss[i] = <<v[i] + 1>>,
         \A i \in DOMAIN v : ~(v[i] < n) => ss[i] = <<>>,
         \A i \in DOMAIN ss : i \notin DOMAIN v => ss[i] = <<>>
  PROVE  FlattenSeq(ss) = Piece(Count, Low(a, n), Low(b, n))
<1> DEFINE w == [i \in {j \in DOMAIN v : v[j] < n} |-> v[i]]
           c == Low(a, n)
           d == Low(b, n)
<1>1. (\A i : i \in DOMAIN w <=> i \in DOMAIN v /\ v[i] < n) /\ \A i \in DOMAIN w : w[i] = v[i]
  OBVIOUS
<1>2. Runs(w, 1, c, d)
  <2> HIDE DEF w
  <2> QED BY <1>1, RunsBelow
<1> HIDE DEF w, c, d
<1>3. \A i \in DOMAIN w : ss[i] = <<w[i] + 1>>
  BY <1>1
<1>4. DOMAIN w \subseteq DOMAIN ss /\ \A i \in DOMAIN ss : i \notin DOMAIN w => ss[i] = <<>>
  BY <1>1
<1>5. FlattenSeq(ss) = Piece(Count, c, d)
  BY <1>2, <1>3, <1>4, FlattenCount
<1> QED BY <1>5 DEF c, d

LEMMA ChunksAre ==
  ASSUME NEW c \in Seq(Nat), NEW n \in Nat, NEW a, NEW b, Runs(CommandsIn(c, n), 1, a, b)
  PROVE  Chunks(c) = Piece(Count, Low(a, n), Low(b, n))
<1> DEFINE v == CommandsIn(c, n)
           ss == [i \in DOMAIN c |-> IF c[i] # 0 THEN <<c[i]>> ELSE <<>>]
<1>1. DOMAIN c = 1 .. Len(c) /\ Len(c) \in Nat /\ \A i \in DOMAIN c : c[i] \in Nat
  OBVIOUS
<1>2. ss \in Seq(Seq(Nat))
  <2>1. \A i \in DOMAIN c : (IF c[i] # 0 THEN <<c[i]>> ELSE <<>>) \in Seq(Nat)
    BY <1>1
  <2>2. ss \in [1 .. Len(c) -> Seq(Nat)]
    BY <1>1, <2>1
  <2> DEFINE k == Len(c)
  <2> HIDE DEF ss, k
  <2>3. k \in Nat /\ ss \in [1 .. k -> Seq(Nat)]
    BY <1>1, <2>2 DEF k
  <2> QED BY <2>3
<1>3. DOMAIN v = DOMAIN c /\ \A i \in DOMAIN c : v[i] = IF c[i] = 0 THEN n ELSE Mark(c[i], n)
  BY DEF CommandsIn
<1>4. \A i \in DOMAIN v : v[i] \in Nat
  BY DEF Runs
<1>5. DOMAIN ss = DOMAIN c /\ \A i \in DOMAIN c : ss[i] = IF c[i] # 0 THEN <<c[i]>> ELSE <<>>
  OBVIOUS
<1>6. Chunks(c) = FlattenSeq(ss)
  BY DEF Chunks
<1>7. Runs(v, 1, a, b)
  OBVIOUS
<1> HIDE DEF v, ss
<1>8. ASSUME NEW i \in DOMAIN v
      PROVE  (v[i] < n => ss[i] = <<v[i] + 1>>) /\ (~(v[i] < n) => ss[i] = <<>>)
  <2> DEFINE x == v[i]
             y == c[i]
  <2>1. x \in Nat /\ y \in Nat /\ x = (IF y = 0 THEN n ELSE Mark(y, n)) /\ i \in DOMAIN c
    BY <1>1, <1>3, <1>4, <1>8
  <2>2. ss[i] = IF y # 0 THEN <<y>> ELSE <<>>
    BY <1>5, <2>1
  <2> HIDE DEF x, y
  <2>3. CASE y = 0
    <3>1. ~(x < n) /\ ss[i] = <<>>
      BY <2>1, <2>2, <2>3
    <3> QED BY <3>1 DEF x
  <2>4. CASE y # 0
    <3>1. x < n /\ x + 1 = y /\ ss[i] = <<y>>
      BY <2>1, <2>2, <2>4 DEF Mark
    <3> QED BY <3>1 DEF x
  <2> QED BY <2>3, <2>4
<1>9. FlattenSeq(ss) = Piece(Count, Low(a, n), Low(b, n))
  BY <1>2, <1>3, <1>5, <1>7, <1>8, ChunksJoin
<1> QED BY <1>6, <1>9

LEMMA UndispatchedIs ==
  ASSUME NEW h, NEW n \in Nat, NEW a, NEW b, inputs \in Seq(InputRecord), Runs(FeedsIn(inputs, h, n), 1, a, b)
  PROVE  Undispatched(h) = Piece(Count, Low(a, n), Low(b, n))
<1> DEFINE v == FeedsIn(inputs, h, n)
           ss == [i \in DOMAIN inputs |->
                    IF inputs[i].kind = "data" /\ inputs[i].flow = h THEN <<inputs[i].n>> ELSE <<>>]
<1>1. /\ DOMAIN inputs = 1 .. Len(inputs) /\ Len(inputs) \in Nat
      /\ \A i \in DOMAIN inputs : inputs[i] \in InputRecord
  OBVIOUS
<1>2. \A e \in InputRecord : e.n \in Nat
  BY DEF InputRecord
<1>3. ss \in Seq(Seq(Nat))
  <2>1. \A i \in DOMAIN inputs :
          (IF inputs[i].kind = "data" /\ inputs[i].flow = h THEN <<inputs[i].n>> ELSE <<>>) \in Seq(Nat)
    BY <1>1, <1>2
  <2>2. ss \in [1 .. Len(inputs) -> Seq(Nat)]
    BY <1>1, <2>1
  <2> HIDE DEF ss
  <2> QED BY <1>1, <2>2
<1>4. /\ \A i : i \in DOMAIN v <=> i \in DOMAIN inputs /\ Feeds(inputs[i], h)
      /\ \A i \in DOMAIN v : v[i] = IF inputs[i].kind = "half" THEN n ELSE Mark(inputs[i].n, n)
  BY DEF FeedsIn
<1>5. \A i \in DOMAIN v : v[i] \in Nat
  BY DEF Runs
<1>6. /\ DOMAIN ss = DOMAIN inputs
      /\ \A i \in DOMAIN inputs :
           ss[i] = IF inputs[i].kind = "data" /\ inputs[i].flow = h THEN <<inputs[i].n>> ELSE <<>>
  OBVIOUS
<1>7. Undispatched(h) = FlattenSeq(ss)
  BY DEF Undispatched
<1>8. Runs(v, 1, a, b)
  OBVIOUS
<1> HIDE DEF v, ss
<1>9. ASSUME NEW i \in DOMAIN v
      PROVE  (v[i] < n => ss[i] = <<v[i] + 1>>) /\ (~(v[i] < n) => ss[i] = <<>>)
  <2> DEFINE x == v[i]
             y == inputs[i].n
             k == inputs[i].kind
  <2>1. /\ x \in Nat /\ y \in Nat /\ x = (IF k = "half" THEN n ELSE Mark(y, n)) /\ i \in DOMAIN inputs
        /\ inputs[i].flow = h /\ k \in {"data", "half"}
    BY <1>1, <1>2, <1>4, <1>5, <1>9 DEF Feeds
  <2>2. ss[i] = IF k = "data" THEN <<y>> ELSE <<>>
    BY <1>6, <2>1
  <2> HIDE DEF x, y, k
  <2>3. CASE k = "half"
    <3>1. ~(x < n) /\ ss[i] = <<>>
      BY <2>1, <2>2, <2>3
    <3> QED BY <3>1 DEF x
  <2>4. CASE k = "data"
    <3>1. x < n /\ x + 1 = y /\ ss[i] = <<y>>
      BY <2>1, <2>2, <2>4 DEF Mark
    <3> QED BY <3>1 DEF x
  <2> QED BY <2>1, <2>3, <2>4
<1>10. \A i \in DOMAIN ss : i \notin DOMAIN v => ss[i] = <<>>
  BY <1>4, <1>6 DEF Feeds
<1>11. DOMAIN v \subseteq DOMAIN ss
  BY <1>4, <1>6
<1>12. FlattenSeq(ss) = Piece(Count, Low(a, n), Low(b, n))
  BY <1>3, <1>8, <1>9, <1>10, <1>11, ChunksJoin
<1> QED BY <1>7, <1>12

(* What the invariant says of the sequences of one flow.                   *)
LEMMA DownloadIntact ==
  ASSUME NEW t, t.gen \in Nat, t.emitted \in Nat, NEW p \in Seq(Unit), NEW q \in Seq(Unit), NEW h, NEW m,
         outputs \in Seq(OutputRecord), Shaped(outputs, m), Download(t, p \o q, outputs, h)
  PROVE  Own(t.gen, p) \o Own(t.gen, q) \o Queued(h, t.gen) = Units(t.gen, 0, t.emitted)
<1> DEFINE g == t.gen
           e == t.emitted
           W == Word(g)
           z == 0
<1>1. g \in Nat /\ e \in Nat /\ z \in Nat
  OBVIOUS
<1>2. PICK b \in Nat : Runs(UnitsIn(p \o q, g), 1, 0, b) /\ Runs(ChunksIn(outputs, h, g), ChunkLen, b, e)
  BY DEF Download
<1>3. PICK c \in Nat : Runs(UnitsIn(p, g), 1, 0, c) /\ Runs(UnitsIn(q, g), 1, c, b)
  <2> HIDE DEF g
  <2> QED BY <1>2, UnitsCut
<1>4. z <= c /\ c <= b /\ z <= b /\ b <= e
  BY <1>2, <1>3 DEF Runs
<1>5. Own(g, p) = Piece(W, z, c) /\ Own(g, q) = Piece(W, c, b) /\ Queued(h, g) = Piece(W, b, e)
  <2> HIDE DEF g, e
  <2>1. Own(g, p) = Piece(W, z, c)
    BY <1>1, <1>3, OwnIs
  <2>2. Own(g, q) = Piece(W, c, b)
    BY <1>1, <1>3, OwnIs
  <2>3. Queued(h, g) = Piece(W, b, e)
    BY <1>1, <1>2, QueuedIs
  <2> QED BY <2>1, <2>2, <2>3
<1>6. Piece(W, z, e) = Units(g, 0, e)
  <2>1. e - 0 = e /\ \A j \in 1 .. e : 0 + j \in Nat
    BY <1>1
  <2>2. \A j \in 1 .. e : W[0 + j] = <<g, 0 + j>>
    BY <2>1 DEF Word
  <2> HIDE DEF W, g, e
  <2> QED BY <2>1, <2>2 DEF Piece, Units
<1> HIDE DEF W, g, e, z
<1>7. Piece(W, z, c) \o Piece(W, c, b) = Piece(W, z, b)
  BY <1>1, <1>4, PiecesJoin, ZenonT(40)
<1>8. Piece(W, z, b) \o Piece(W, b, e) = Piece(W, z, e)
  BY <1>1, <1>4, PiecesJoin, ZenonT(40)
<1> QED BY <1>5, <1>6, <1>7, <1>8 DEF g, e

LEMMA UploadIntactOf ==
  ASSUME NEW t \in TaskRecord, NEW n \in Nat, NEW fin \in BOOLEAN, NEW h, inputs \in Seq(InputRecord),
         Upload(t, n, fin, inputs, h)
  PROVE  t.forwarded \o Chunks(t.cmds) \o Undispatched(h) = [i \in 1 .. n |-> i]
<1> DEFINE fwd == t.forwarded
           l == Len(fwd)
           wr == Written(t)
           top == Total(n, fin)
<1>1. fwd \in Seq(Nat) /\ t.cmds \in Seq(Nat) /\ t.writeClosed \in BOOLEAN /\ l \in Nat
  BY DEF TaskRecord
<1>2. PICK b \in Nat : Runs(CommandsIn(t.cmds, n), 1, wr, b) /\ Runs(FeedsIn(inputs, h, n), 1, b, top)
  BY DEF Upload
<1>3. (\A i \in DOMAIN fwd : fwd[i] = i) /\ l <= n /\ (t.writeClosed => l = n)
  BY DEF Upload
<1>4. Low(wr, n) = l
  <2>1. CASE t.writeClosed
    BY <1>1, <1>3, <2>1 DEF Written, Low
  <2>2. CASE ~t.writeClosed
    BY <1>1, <1>3, <2>2 DEF Written, Low
  <2> QED BY <2>1, <2>2
<1>5. Low(top, n) = n
  BY DEF Total, Low
<1>6. wr \in Nat /\ wr <= b
  BY <1>2 DEF Runs
<1> DEFINE d == Low(b, n)
<1>7. d \in Nat /\ l <= d /\ d <= n
  BY <1>1, <1>4, <1>6 DEF Low
<1>8. Chunks(t.cmds) = Piece(Count, l, d)
  <2> HIDE DEF wr
  <2>1. Chunks(t.cmds) = Piece(Count, Low(wr, n), Low(b, n))
    BY <1>1, <1>2, ChunksAre
  <2> QED BY <1>4, <2>1
<1>9. Undispatched(h) = Piece(Count, d, n)
  <2> HIDE DEF top
  <2>1. Undispatched(h) = Piece(Count, Low(b, n), Low(top, n))
    BY <1>2, UndispatchedIs
  <2> QED BY <1>5, <2>1
<1>10. fwd = Piece(Count, 0, l)
  <2>1. Piece(Count, 0, l) = [j \in 1 .. l |-> j]
    <3>1. l - 0 = l /\ \A j \in 1 .. l : Count[0 + j] = j
      BY <1>1 DEF Count
    <3> HIDE DEF l
    <3> QED BY <3>1 DEF Piece
  <2>2. fwd = [j \in 1 .. l |-> fwd[j]] /\ DOMAIN fwd = 1 .. l
    BY <1>1
  <2>3. \A j \in 1 .. l : fwd[j] = j
    BY <1>3, <2>2
  <2> HIDE DEF fwd, l
  <2> QED BY <2>1, <2>2, <2>3
<1>11. Piece(Count, 0, n) = [i \in 1 .. n |-> i]
  <2>1. n - 0 = n /\ \A j \in 1 .. n : Count[0 + j] = j
    BY DEF Count
  <2> QED BY <2>1 DEF Piece
<1> HIDE DEF fwd, l, d
<1>12. /\ Piece(Count, 0, l) \o Piece(Count, l, d) = Piece(Count, 0, d)
       /\ Piece(Count, 0, d) \o Piece(Count, d, n) = Piece(Count, 0, n)
  <2> DEFINE z == 0
  <2>1. z \in Nat /\ z <= l /\ z <= d
    BY <1>1, <1>7
  <2> HIDE DEF z
  <2>2. Piece(Count, z, l) \o Piece(Count, l, d) = Piece(Count, z, d)
    BY <1>1, <1>7, <2>1, PiecesJoin
  <2>3. Piece(Count, z, d) \o Piece(Count, d, n) = Piece(Count, z, n)
    BY <1>1, <1>7, <2>1, PiecesJoin
  <2> QED BY <2>2, <2>3 DEF z
<1> QED BY <1>8, <1>9, <1>10, <1>11, <1>12 DEF fwd

(* Both directions of a proxied TCP flow keep their order and lose nothing *)
(* while its task and its client socket last; what aborted tasks of the    *)
(* same key left in the channel comes before all the task read.            *)
THEOREM StreamsStayIntact == TunTcpSpec => []StreamsIntact
<1>1. ASSUME TunTcpInv, StreamInv PROVE StreamsIntact
  <2>1. ASSUME NEW f \in DOMAIN tun.task, tun.sock[f].gen = tun.task[f].gen
        PROVE  /\ Own(tun.task[f].gen, tun.sock[f].got) \o Own(tun.task[f].gen, tun.pending[f])
                    \o Queued(f, tun.task[f].gen) = Units(tun.task[f].gen, 0, tun.task[f].emitted)
               /\ LeftoversFirst(tun.sock[f].got \o tun.pending[f], outputs, f, tun.task[f].gen)
               /\ tun.task[f].forwarded \o Chunks(tun.task[f].cmds) \o Undispatched(f)
                    = [i \in 1..tun.sock[f].sent |-> i]
    <3>1. /\ tun \in LoopRecord /\ inputs \in Seq(InputRecord) /\ outputs \in Seq(OutputRecord)
          /\ TasksInOrder(tun) /\ LookupInOrder(tun, Live)
      BY <1>1, LoopTyped DEF Ordered
    <3>2. Carries(tun, Queue(tun, inputs), outputs, TcpFlows)
      BY <1>1, <2>1 DEF StreamInv
    <3>3. f \in TcpFlows /\ tun.task[f] \in TaskRecord
      BY <2>1, <3>1 DEF LoopRecord, TaskMap
    <3>4. tun.sock[f] \in SocketRecord /\ tun.pending[f] \in Seq(Unit)
      BY <3>1, <3>3 DEF LoopRecord
    <3>5. tun.sock[f].got \in Seq(Unit) /\ tun.sock[f].sent \in Nat /\ tun.sock[f].fin \in BOOLEAN
      BY <3>4 DEF SocketRecord
    <3>6. tun.task[f].gen \in Nat /\ tun.task[f].emitted \in Nat
      BY <3>3 DEF TaskRecord
    <3>7. Queue(tun, inputs) = inputs
      <4>1. tun.lookup.events = <<>>
        BY <2>1, <3>1 DEF TasksInOrder, LookupInOrder, NoLookup
      <4> QED BY <3>1, <4>1 DEF Queue
    <3>8. /\ Shaped(outputs, tun.gens) /\ Download(tun.task[f], Stream(tun, f), outputs, f)
          /\ Upload(tun.task[f], tun.sock[f].sent, tun.sock[f].fin, inputs, f)
      BY <2>1, <3>2, <3>3, <3>7 DEF Carries, Streams, Served
    <3> DEFINE t == tun.task[f]
               got == tun.sock[f].got
               wait == tun.pending[f]
               n == tun.sock[f].sent
               fin == tun.sock[f].fin
    <3>9. Download(t, got \o wait, outputs, f)
      BY <3>8 DEF Stream
    <3> HIDE DEF t, got, wait, n, fin
    <3>10. Own(t.gen, got) \o Own(t.gen, wait) \o Queued(f, t.gen) = Units(t.gen, 0, t.emitted)
      <4>1. t.gen \in Nat /\ t.emitted \in Nat /\ got \in Seq(Unit) /\ wait \in Seq(Unit)
        BY <3>4, <3>5, <3>6 DEF t, got, wait
      <4> QED BY <3>1, <3>8, <3>9, <4>1, DownloadIntact
    <3>11. t.forwarded \o Chunks(t.cmds) \o Undispatched(f) = [i \in 1 .. n |-> i]
      <4>1. t \in TaskRecord /\ n \in Nat /\ fin \in BOOLEAN /\ Upload(t, n, fin, inputs, f)
        BY <3>3, <3>5, <3>8 DEF t, n, fin
      <4> QED BY <3>1, <4>1, UploadIntactOf, ZenonT(40)
    <3>12. LeftoversFirst(got \o wait, outputs, f, t.gen)
      BY <3>9 DEF Download
    <3> QED BY <3>10, <3>11, <3>12 DEF t, got, wait, n
  <2>2. StreamIntact
    BY <2>1 DEF StreamIntact
  <2>3. UploadIntact
    BY <2>1 DEF UploadIntact
  <2> QED BY <2>2, <2>3 DEF StreamsIntact
<1> QED BY <1>1, TunTcpInvHolds, StreamInvHolds, PTL
=============================================================================
