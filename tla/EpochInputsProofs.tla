------------------------- MODULE EpochInputsProofs -------------------------
(***************************************************************************)
(* The properties of EpochInputs, for any number of wallets and token      *)
(* accounts, any balances, prices and minimums, and a claim tree of any    *)
(* size.  Sums and the three recursive functions of the tree are handled   *)
(* by the inductions of SumTheorems.                                       *)
(***************************************************************************)
EXTENDS EpochInputs, SumTheorems

-----------------------------------------------------------------------------
(* The recursive functions of the claim tree are what their equations say. *)

LayersUpTo(leaves, m, f) ==
    f = [k \in 0..m |-> IF k = 0 THEN leaves ELSE Layer(f[k - 1])]

\* The layers of a claim tree are what their recursion says.
LEMMA LayersEquation ==
    ASSUME NEW leaves, Len(leaves) \in Nat
    PROVE  LayersUpTo(leaves, Len(leaves), Layers(leaves))
<1> DEFINE N == {m \in Nat : \E f : LayersUpTo(leaves, m, f)}
<1>1. 0 \in N
  <2> DEFINE f == [k \in 0..0 |-> leaves]
  <2>1. LayersUpTo(leaves, 0, f)
    BY DEF LayersUpTo
  <2> HIDE DEF f
  <2> QED BY <2>1
<1>2. ASSUME NEW m \in Nat, m \in N PROVE m + 1 \in N
  <2>1. PICK f : LayersUpTo(leaves, m, f)
    BY <1>2
  <2> DEFINE g == [k \in 0..(m + 1) |-> IF k = 0 THEN leaves ELSE Layer(f[k - 1])]
  <2>2. \A k \in 0..m : g[k] = f[k]
    BY <2>1 DEF LayersUpTo
  <2>3. \A k \in 0..(m + 1) : k # 0 => k - 1 \in 0..m /\ f[k - 1] = g[k - 1]
    <3> HIDE DEF g
    <3> QED BY <2>2
  <2>4. LayersUpTo(leaves, m + 1, g)
    BY <2>3 DEF LayersUpTo
  <2> HIDE DEF g
  <2> QED BY <2>4
<1>3. Len(leaves) \in N
  <2> HIDE DEF N
  <2> QED BY <1>1, <1>2, NumbersInduction
<1>4. Layers(leaves) = CHOOSE f : LayersUpTo(leaves, Len(leaves), f)
  BY DEF Layers, LayersUpTo
<1> QED BY <1>3, <1>4

ClimbUpTo(leaves, i, m, f) ==
    f = [k \in 0..m |->
            IF k = 0 THEN [at |-> i, proof |-> <<>>]
            ELSE [at |-> (f[k - 1].at + 1) \div 2,
                  proof |-> f[k - 1].proof \o Sibling(Layers(leaves)[k - 1], f[k - 1].at)]]

\* So are the places and siblings on the way up from a leaf.
LEMMA ClimbEquation ==
    ASSUME NEW leaves, Len(leaves) \in Nat, NEW i
    PROVE  ClimbUpTo(leaves, i, Len(leaves), Climb(leaves, i))
<1> DEFINE start == [at |-> i, proof |-> <<>>]
           step(k, p) == [at |-> (p.at + 1) \div 2,
                          proof |-> p.proof \o Sibling(Layers(leaves)[k], p.at)]
           N == {m \in Nat : \E f : ClimbUpTo(leaves, i, m, f)}
<1>0. \A m, f : ClimbUpTo(leaves, i, m, f) <=>
                f = [k \in 0..m |-> IF k = 0 THEN start ELSE step(k - 1, f[k - 1])]
  BY DEF ClimbUpTo
<1> HIDE DEF start, step
<1>1. 0 \in N
  <2> DEFINE f == [k \in 0..0 |-> start]
  <2>1. f = [k \in 0..0 |-> IF k = 0 THEN start ELSE step(k - 1, f[k - 1])]
    OBVIOUS
  <2> HIDE DEF f
  <2> QED BY <1>0, <2>1
<1>2. ASSUME NEW m \in Nat, m \in N PROVE m + 1 \in N
  <2>1. PICK f : ClimbUpTo(leaves, i, m, f)
    BY <1>2
  <2> DEFINE g == [k \in 0..(m + 1) |-> IF k = 0 THEN start ELSE step(k - 1, f[k - 1])]
  <2>2. f = [k \in 0..m |-> IF k = 0 THEN start ELSE step(k - 1, f[k - 1])]
    BY <1>0, <2>1
  <2>3. \A k \in 0..m : g[k] = f[k]
    BY <2>2
  <2>4. \A k \in 0..(m + 1) : k # 0 => k - 1 \in 0..m /\ f[k - 1] = g[k - 1]
    BY <2>3
  <2>5. g = [k \in 0..(m + 1) |-> IF k = 0 THEN start ELSE step(k - 1, g[k - 1])]
    BY <2>4
  <2>6. ClimbUpTo(leaves, i, m + 1, g)
    <3> HIDE DEF g
    <3> QED BY <1>0, <2>5
  <2> HIDE DEF g
  <2> QED BY <2>6
<1>3. Len(leaves) \in N
  <2> HIDE DEF N
  <2> QED BY <1>1, <1>2, NumbersInduction
<1>4. Climb(leaves, i) = CHOOSE f : ClimbUpTo(leaves, i, Len(leaves), f)
  BY DEF Climb, ClimbUpTo
<1> QED BY <1>3, <1>4

HashUpTo(entry, proof, m, f) ==
    f = [k \in 0..m |-> IF k = 0 THEN Leaf(entry) ELSE Hash(f[k - 1], proof[k])]

\* And the hashes that a verifier computes from an entry and a proof.
LEMMA HashEquation ==
    ASSUME NEW entry, NEW proof, Len(proof) \in Nat
    PROVE  HashUpTo(entry, proof, Len(proof), HashUp(entry, proof))
<1> DEFINE N == {m \in Nat : \E f : HashUpTo(entry, proof, m, f)}
<1>1. 0 \in N
  <2> DEFINE f == [k \in 0..0 |-> Leaf(entry)]
  <2>1. HashUpTo(entry, proof, 0, f)
    BY DEF HashUpTo
  <2> HIDE DEF f
  <2> QED BY <2>1
<1>2. ASSUME NEW m \in Nat, m \in N PROVE m + 1 \in N
  <2>1. PICK f : HashUpTo(entry, proof, m, f)
    BY <1>2
  <2> DEFINE g == [k \in 0..(m + 1) |-> IF k = 0 THEN Leaf(entry) ELSE Hash(f[k - 1], proof[k])]
  <2>2. \A k \in 0..m : g[k] = f[k]
    BY <2>1 DEF HashUpTo
  <2>3. \A k \in 0..(m + 1) : k # 0 => k - 1 \in 0..m /\ f[k - 1] = g[k - 1]
    <3> HIDE DEF g
    <3> QED BY <2>2
  <2>4. HashUpTo(entry, proof, m + 1, g)
    BY <2>3 DEF HashUpTo
  <2> HIDE DEF g
  <2> QED BY <2>4
<1>3. Len(proof) \in N
  <2> HIDE DEF N
  <2> QED BY <1>1, <1>2, NumbersInduction
<1>4. HashUp(entry, proof) = CHOOSE f : HashUpTo(entry, proof, Len(proof), f)
  BY DEF HashUp, HashUpTo
<1> QED BY <1>3, <1>4

-----------------------------------------------------------------------------
(* The claim tree. *)

\* Half of a number, rounded up.
LEMMA Halves ==
    ASSUME NEW a \in Nat
    PROVE  /\ (a + 1) \div 2 \in Nat
           /\ a % 2 = 1 => 2 * ((a + 1) \div 2) = a + 1
           /\ a % 2 # 1 => 2 * ((a + 1) \div 2) = a
           /\ a % 2 = 1 \/ a % 2 = 0
BY SMT

\* A layer has half the nodes of the one below, rounded up.
LEMMA LayerShape ==
    ASSUME NEW s, Len(s) \in Nat
    PROVE  /\ (Len(s) + 1) \div 2 \in Nat
           /\ DOMAIN Layer(s) = 1..((Len(s) + 1) \div 2)
           /\ Len(Layer(s)) = (Len(s) + 1) \div 2
<1>1. (Len(s) + 1) \div 2 \in Nat
  BY Halves
<1>2. DOMAIN Layer(s) = 1..((Len(s) + 1) \div 2)
  BY DEF Layer
<1>3. Layer(s) \in Seq({Layer(s)[j] : j \in 1..((Len(s) + 1) \div 2)})
  BY <1>1 DEF Layer
<1> QED BY <1>1, <1>2, <1>3

\* Every layer is a sequence, shorter than the one below it until it is one node.
LEMMA LayersShape ==
    ASSUME NEW leaves, Len(leaves) \in Nat \ {0}, DOMAIN leaves = 1..Len(leaves)
    PROVE  /\ Layers(leaves)[0] = leaves
           /\ \A k \in 0..(Len(leaves) - 1) : Layers(leaves)[k + 1] = Layer(Layers(leaves)[k])
           /\ \A k \in 0..Len(leaves) :
                 /\ Len(Layers(leaves)[k]) \in Nat \ {0}
                 /\ DOMAIN Layers(leaves)[k] = 1..Len(Layers(leaves)[k])
                 /\ Len(Layers(leaves)[k]) + k <= Len(leaves) \/ Len(Layers(leaves)[k]) = 1
<1> DEFINE n == Len(leaves)
           L == Layers(leaves)
           N == {k \in 0..n : /\ Len(L[k]) \in Nat \ {0} /\ DOMAIN L[k] = 1..Len(L[k])
                              /\ Len(L[k]) + k <= n \/ Len(L[k]) = 1}
<1>0. n \in Nat \ {0} /\ L[0] = leaves /\ \A k \in 0..n : k # 0 => L[k] = Layer(L[k - 1])
  <2>1. L = [k \in 0..n |-> IF k = 0 THEN leaves ELSE Layer(L[k - 1])]
    BY LayersEquation DEF LayersUpTo
  <2> HIDE DEF L
  <2> QED BY <2>1
<1>1. \A k \in 0..(n - 1) : L[k + 1] = Layer(L[k])
  <2> HIDE DEF n, L
  <2> SUFFICES ASSUME NEW k \in 0..(n - 1) PROVE L[k + 1] = Layer(L[k])
    OBVIOUS
  <2>1. k + 1 \in 0..n /\ k + 1 # 0 /\ (k + 1) - 1 = k
    BY <1>0
  <2> QED BY <1>0, <2>1
<1>2. 0 \in N
  BY <1>0
<1>3. ASSUME NEW k \in 0..(n - 1), k \in N PROVE k + 1 \in N
  <2> HIDE DEF n, L
  <2> DEFINE l == Len(L[k])
             h == (l + 1) \div 2
  <2>1. L[k + 1] = Layer(L[k]) /\ l \in Nat \ {0} /\ (l + k <= n \/ l = 1)
    BY <1>1, <1>3
  <2>2. h \in Nat /\ DOMAIN L[k + 1] = 1..h /\ Len(L[k + 1]) = h
    BY <2>1, LayerShape
  <2>3. 2 * h = l + 1 \/ 2 * h = l
    BY <2>1, Halves
  <2> HIDE DEF l, h
  <2>4. h # 0 /\ (h + (k + 1) <= n \/ h = 1)
    BY <1>0, <2>1, <2>2, <2>3
  <2>5. k + 1 \in 0..n
    BY <1>0
  <2> QED BY <2>2, <2>4, <2>5
<1>4. 0..n \subseteq N
  <2> HIDE DEF N, n
  <2> QED BY <1>0, <1>2, <1>3, UpToInduction
<1> QED BY <1>0, <1>1, <1>4

\* One sibling more in a proof is one hash more.
LEMMA HashOneMore ==
    ASSUME NEW T, NEW entry, NEW p \in Seq(T), NEW x \in T
    PROVE  /\ Len(p \o <<x>>) = Len(p) + 1
           /\ HashUp(entry, p \o <<x>>)[Len(p) + 1] = Hash(HashUp(entry, p)[Len(p)], x)
<1> DEFINE m == Len(p)
           q == p \o <<x>>
           f == HashUp(entry, p)
           g == HashUp(entry, q)
           N == {k \in 0..m : g[k] = f[k]}
<1>1. m \in Nat /\ Len(q) = m + 1 /\ q[m + 1] = x /\ \A k \in 1..m : q[k] = p[k]
  OBVIOUS
<1>2. f = [k \in 0..m |-> IF k = 0 THEN Leaf(entry) ELSE Hash(f[k - 1], p[k])]
  BY <1>1, HashEquation DEF HashUpTo
<1>3. g = [k \in 0..(m + 1) |-> IF k = 0 THEN Leaf(entry) ELSE Hash(g[k - 1], q[k])]
  <2>1. Len(q) \in Nat
    BY <1>1
  <2> HIDE DEF m, q
  <2>2. HashUpTo(entry, q, Len(q), g)
    BY <2>1, HashEquation
  <2> HIDE DEF g
  <2> QED BY <1>1, <2>2 DEF HashUpTo
<1> HIDE DEF m, q, f, g
<1>4. 0 \in N
  BY <1>1, <1>2, <1>3
<1>5. ASSUME NEW k \in 0..(m - 1), k \in N PROVE k + 1 \in N
  <2>1. k + 1 \in 0..m /\ k + 1 \in 0..(m + 1) /\ k + 1 # 0 /\ (k + 1) - 1 = k /\ k + 1 \in 1..m
    BY <1>1
  <2>2. f[k + 1] = Hash(f[k], p[k + 1]) /\ g[k + 1] = Hash(g[k], q[k + 1])
    BY <1>2, <1>3, <2>1
  <2> QED BY <1>1, <1>5, <2>1, <2>2
<1>6. g[m] = f[m]
  <2> HIDE DEF N
  <2>1. 0..m \subseteq N
    BY <1>1, <1>4, <1>5, UpToInduction
  <2>2. m \in 0..m
    BY <1>1
  <2> QED BY <2>1, <2>2 DEF N
<1>7. g[m + 1] = Hash(g[m], x)
  <2>1. m + 1 \in 0..(m + 1) /\ m + 1 # 0 /\ (m + 1) - 1 = m
    BY <1>1
  <2> QED BY <1>1, <1>3, <2>1
<1> QED BY <1>1, <1>6, <1>7 DEF m, q, f, g

\* A node and its sibling make the node above them, and a node without a sibling
\* is the node above it.
LEMMA OneUp ==
    ASSUME NEW s, Len(s) \in Nat, DOMAIN s = 1..Len(s), NEW a \in 1..Len(s)
    PROVE  /\ (a + 1) \div 2 \in 1..Len(Layer(s))
           /\ \/ \E x \in {s[j] : j \in DOMAIN s} :
                    Sibling(s, a) = <<x>> /\ Layer(s)[(a + 1) \div 2] = Hash(s[a], x)
              \/ Sibling(s, a) = <<>> /\ Layer(s)[(a + 1) \div 2] = s[a]
<1> DEFINE b == (a + 1) \div 2
           l == Len(s)
<1>1. /\ b \in Nat /\ a \in Nat /\ l \in Nat /\ a >= 1 /\ a <= l
      /\ a % 2 = 1 => 2 * b = a + 1
      /\ a % 2 # 1 => 2 * b = a
  BY Halves
<1>2. (l + 1) \div 2 \in Nat /\ (2 * ((l + 1) \div 2) = l + 1 \/ 2 * ((l + 1) \div 2) = l)
  BY Halves
<1>3. Len(Layer(s)) = (l + 1) \div 2 /\ DOMAIN s = 1..l
  BY LayerShape
<1>4. \A i \in 1..((l + 1) \div 2) :
         Layer(s)[i] = IF 2 * i <= l THEN Hash(s[2 * i - 1], s[2 * i]) ELSE s[2 * i - 1]
  BY DEF Layer
<1> HIDE DEF b, l
<1>5. b \in 1..((l + 1) \div 2)
  BY <1>1, <1>2
<1>6. CASE a % 2 = 1 /\ a < l
  <2>1. a + 1 \in DOMAIN s /\ 2 * b = a + 1 /\ 2 * b <= l /\ 2 * b - 1 = a
    BY <1>1, <1>3, <1>6
  <2>2. Sibling(s, a) = <<s[a + 1]>>
    BY <1>6, <2>1 DEF Sibling
  <2>3. Layer(s)[b] = Hash(s[a], s[a + 1])
    BY <1>4, <1>5, <2>1
  <2> QED BY <1>3, <1>5, <2>1, <2>2, <2>3 DEF b
<1>7. CASE a % 2 = 1 /\ a = l
  <2>1. a + 1 \notin DOMAIN s /\ ~(2 * b <= l) /\ 2 * b - 1 = a
    BY <1>1, <1>3, <1>7
  <2>2. Sibling(s, a) = <<>>
    BY <1>7, <2>1 DEF Sibling
  <2>3. Layer(s)[b] = s[a]
    BY <1>4, <1>5, <2>1
  <2> QED BY <1>3, <1>5, <2>2, <2>3 DEF b
<1>8. CASE a % 2 # 1
  <2>1. a - 1 \in DOMAIN s /\ 2 * b <= l /\ 2 * b = a
    BY <1>1, <1>3, <1>8
  <2>2. Sibling(s, a) = <<s[a - 1]>>
    BY <1>8, <2>1 DEF Sibling
  <2>3. Layer(s)[b] = Hash(s[a - 1], s[a])
    BY <1>4, <1>5, <2>1
  <2>4. Hash(s[a - 1], s[a]) = Hash(s[a], s[a - 1])
    <3>1. {s[a - 1], s[a]} = {s[a], s[a - 1]}
      OBVIOUS
    <3> QED BY <3>1 DEF Hash
  <2> QED BY <1>3, <1>5, <2>1, <2>2, <2>3, <2>4 DEF b
<1> QED BY <1>1, <1>6, <1>7, <1>8

\* Of a tree of any size, every leaf verifies: hashed with the siblings it has on the
\* way up, where an odd node at the end of a layer has none, it gives the root.
THEOREM ProofsVerify ==
    ASSUME NEW leaves, Len(leaves) \in Nat \ {0}, DOMAIN leaves = 1..Len(leaves),
           NEW i \in 1..Len(leaves), NEW entry, leaves[i] = Leaf(entry)
    PROVE  Verify(entry, Proof(leaves, i), Root(leaves))
<1> DEFINE n == Len(leaves)
           L == Layers(leaves)
           C == Climb(leaves, i)
           T == UNION {{L[k][j] : j \in DOMAIN L[k]} : k \in 0..n}
           Up(k) == /\ C[k].at \in 1..Len(L[k]) /\ C[k].proof \in Seq(T)
                    /\ HashUp(entry, C[k].proof)[Len(C[k].proof)] = L[k][C[k].at]
           N == {k \in 0..n : Up(k)}
<1>1. /\ n \in Nat \ {0} /\ i \in 1..n /\ L[0] = leaves
      /\ \A k \in 0..(n - 1) : L[k + 1] = Layer(L[k])
      /\ \A k \in 0..n : /\ Len(L[k]) \in Nat \ {0} /\ DOMAIN L[k] = 1..Len(L[k])
                         /\ Len(L[k]) + k <= n \/ Len(L[k]) = 1
  BY LayersShape
<1>2. /\ C[0].at = i /\ C[0].proof = <<>>
      /\ \A k \in 0..(n - 1) :
            /\ C[k + 1].at = (C[k].at + 1) \div 2
            /\ C[k + 1].proof = C[k].proof \o Sibling(L[k], C[k].at)
  <2> DEFINE start == [at |-> i, proof |-> <<>>]
             step(k) == [at |-> (C[k].at + 1) \div 2,
                         proof |-> C[k].proof \o Sibling(L[k], C[k].at)]
  <2>1. ClimbUpTo(leaves, i, n, C)
    BY ClimbEquation
  <2> HIDE DEF C
  <2>2. C = [k \in 0..n |-> IF k = 0 THEN start ELSE step(k - 1)]
    BY <2>1 DEF ClimbUpTo
  <2> HIDE DEF start, step, L, n
  <2>3. C[0] = start
    BY <1>1, <2>2
  <2>4. ASSUME NEW k \in 0..(n - 1) PROVE C[k + 1] = step(k)
    <3>1. k + 1 \in 0..n /\ k + 1 # 0 /\ (k + 1) - 1 = k
      BY <1>1
    <3> QED BY <2>2, <3>1
  <2>5. /\ start.at = i /\ start.proof = <<>>
        /\ \A k : /\ step(k).at = (C[k].at + 1) \div 2
                  /\ step(k).proof = C[k].proof \o Sibling(L[k], C[k].at)
    BY DEF start, step
  <2> QED BY <2>3, <2>4, <2>5
<1>3. leaves[i] = Leaf(entry)
  OBVIOUS
<1> HIDE DEF n, L, C
<1>4. 0 \in N
  <2>1. HashUp(entry, <<>>)[0] = Leaf(entry)
    <3>1. Len(<<>>) = 0
      OBVIOUS
    <3>2. HashUpTo(entry, <<>>, 0, HashUp(entry, <<>>))
      BY <3>1, HashEquation
    <3> QED BY <3>2 DEF HashUpTo
  <2>2. C[0].at = i /\ C[0].proof = <<>> /\ Len(<<>>) = 0
    BY <1>2
  <2>3. Len(L[0]) = n
    BY <1>1 DEF n
  <2> HIDE DEF T
  <2>4. <<>> \in Seq(T)
    OBVIOUS
  <2>5. Up(0)
    BY <1>1, <1>3, <2>1, <2>2, <2>3, <2>4
  <2> HIDE DEF Up
  <2> QED BY <1>1, <2>5
<1>5. ASSUME NEW k \in 0..(n - 1), k \in N PROVE k + 1 \in N
  <2> DEFINE s == L[k]
             a == C[k].at
             p == C[k].proof
             b == (a + 1) \div 2
  <2>1. k \in 0..n /\ k + 1 \in 0..n /\ k + 1 # 0 /\ (k + 1) - 1 = k
    BY <1>1
  <2>2. L[k + 1] = Layer(s) /\ Len(s) \in Nat /\ DOMAIN s = 1..Len(s)
    BY <1>1, <2>1
  <2>3. a \in 1..Len(s) /\ p \in Seq(T) /\ HashUp(entry, p)[Len(p)] = s[a]
    BY <1>5
  <2>4. C[k + 1].at = b /\ C[k + 1].proof = p \o Sibling(s, a)
    BY <1>2
  <2>5. {s[j] : j \in DOMAIN s} \subseteq T
    BY <2>1
  <2> HIDE DEF s, a, p, b, T
  <2>6. /\ b \in 1..Len(L[k + 1])
        /\ \/ \E x \in {s[j] : j \in DOMAIN s} :
                 Sibling(s, a) = <<x>> /\ L[k + 1][b] = Hash(s[a], x)
           \/ Sibling(s, a) = <<>> /\ L[k + 1][b] = s[a]
    <3>1. /\ b \in 1..Len(Layer(s))
          /\ \/ \E x \in {s[j] : j \in DOMAIN s} :
                    Sibling(s, a) = <<x>> /\ Layer(s)[b] = Hash(s[a], x)
             \/ Sibling(s, a) = <<>> /\ Layer(s)[b] = s[a]
      BY <2>2, <2>3, OneUp DEF b
    <3> QED BY <2>2, <3>1
  <2>7. CASE Sibling(s, a) = <<>> /\ L[k + 1][b] = s[a]
    <3>1. p \o <<>> = p
      BY <2>3
    <3> QED BY <2>1, <2>3, <2>4, <2>6, <2>7, <3>1
  <2>8. ASSUME NEW x \in {s[j] : j \in DOMAIN s}, Sibling(s, a) = <<x>>,
               L[k + 1][b] = Hash(s[a], x)
        PROVE  k + 1 \in N
    <3>1. x \in T
      BY <2>5, <2>8
    <3>2. /\ Len(p \o <<x>>) = Len(p) + 1
          /\ HashUp(entry, p \o <<x>>)[Len(p) + 1] = Hash(HashUp(entry, p)[Len(p)], x)
      BY <2>3, <3>1, HashOneMore
    <3>3. p \o <<x>> \in Seq(T)
      BY <2>3, <3>1
    <3>4. Up(k + 1)
      BY <2>3, <2>4, <2>6, <2>8, <3>2, <3>3
    <3> HIDE DEF Up
    <3> QED BY <2>1, <3>4
  <2> QED BY <2>6, <2>7, <2>8
<1>6. n \in 0..n /\ Up(n)
  <2> HIDE DEF N, Up
  <2>1. 0..n \subseteq N
    BY <1>1, <1>4, <1>5, UpToInduction
  <2>2. n \in 0..n
    BY <1>1
  <2> QED BY <2>1, <2>2 DEF N
<1>7. Len(L[n]) = 1 /\ C[n].at = 1
  BY <1>1, <1>6
<1> QED BY <1>6, <1>7 DEF Verify, Proof, Root, n, L, C

\* A node of a layer comes from the one below: it is one of its nodes, or hashes two.
LEMMA OneDown ==
    ASSUME NEW s, Len(s) \in Nat, DOMAIN s = 1..Len(s), NEW j \in DOMAIN Layer(s)
    PROVE  \/ \E a \in DOMAIN s : Layer(s)[j] = s[a]
           \/ \E a, b \in DOMAIN s : Layer(s)[j] = Hash(s[a], s[b])
<1> DEFINE l == Len(s)
           h == (l + 1) \div 2
<1>1. h \in Nat /\ (2 * h = l + 1 \/ 2 * h = l) /\ l \in Nat
  BY Halves
<1>2. j \in 1..h /\ DOMAIN s = 1..l
  BY LayerShape
<1>3. Layer(s)[j] = IF 2 * j <= l THEN Hash(s[2 * j - 1], s[2 * j]) ELSE s[2 * j - 1]
  BY DEF Layer
<1> HIDE DEF l, h
<1>4. 2 * j - 1 \in 1..l /\ (2 * j <= l => 2 * j \in 1..l)
  BY <1>1, <1>2
<1> QED BY <1>2, <1>3, <1>4

\* Where a node of the tree hashes two, both are nodes of the tree, and a leaf of the
\* tree is one of its leaves: no hash is a leaf, and no two hash the same.
NodeOf(leaves, x) ==
    \E k \in 0..Len(leaves) : \E j \in DOMAIN Layers(leaves)[k] : x = Layers(leaves)[k][j]

\* A hash tells its pair, up to its order, and is no leaf; a leaf tells its entry.
LEMMA HashesDiffer ==
    /\ \A a, b, c, d : Hash(a, b) = Hash(c, d) => c = a \/ c = b
    /\ \A a, b, e : Hash(a, b) # Leaf(e)
    /\ \A e, f : Leaf(e) = Leaf(f) => e = f
<1>1. \A a, b, e : /\ Hash(a, b).pair = {a, b} /\ Hash(a, b).leaf = <<>>
                   /\ Leaf(e).leaf = <<e>>
  BY DEF Hash, Leaf
<1>2. \A e, f : <<e>> # <<>> /\ (<<e>> = <<f>> => e = f)
  OBVIOUS
<1>3. \A a, b, c, d : {a, b} = {c, d} => c = a \/ c = b
  <2> SUFFICES ASSUME NEW a, NEW b, NEW c, NEW d, {a, b} = {c, d} PROVE c = a \/ c = b
    OBVIOUS
  <2>1. c \in {c, d}
    OBVIOUS
  <2>2. c \in {a, b}
    BY <2>1
  <2> QED BY <2>2
<1>4. ASSUME NEW a, NEW b, NEW c, NEW d, Hash(a, b) = Hash(c, d) PROVE c = a \/ c = b
  <2>1. Hash(a, b).pair = {a, b} /\ Hash(c, d).pair = {c, d}
    BY <1>1
  <2>2. {a, b} = {c, d}
    BY <1>4, <2>1
  <2> QED BY <1>3, <2>2
<1>5. ASSUME NEW a, NEW b, NEW e, Hash(a, b) = Leaf(e) PROVE FALSE
  <2>1. Hash(a, b).leaf = <<>> /\ Leaf(e).leaf = <<e>>
    BY <1>1
  <2> QED BY <1>2, <1>5, <2>1
<1>6. ASSUME NEW e, NEW f, Leaf(e) = Leaf(f) PROVE e = f
  <2>1. Leaf(e).leaf = <<e>> /\ Leaf(f).leaf = <<f>>
    BY <1>1
  <2> QED BY <1>2, <1>6, <2>1
<1> QED BY <1>4, <1>5, <1>6

\* A part of a node is a node, and a node that is a leaf is an entry's.
LEMMA NodesAreHashes ==
    ASSUME NEW leaves, Len(leaves) \in Nat \ {0}, DOMAIN leaves = 1..Len(leaves),
           NEW entries, \A i \in 1..Len(leaves) : leaves[i] = Leaf(entries[i])
    PROVE  /\ \A a, b : NodeOf(leaves, Hash(a, b)) => NodeOf(leaves, a)
           /\ \A e : NodeOf(leaves, Leaf(e)) => \E i \in 1..Len(leaves) : e = entries[i]
<1> DEFINE n == Len(leaves)
           L == Layers(leaves)
           Good(k) == \A j \in DOMAIN L[k] :
                        /\ \A a, b : L[k][j] = Hash(a, b) => NodeOf(leaves, a)
                        /\ \A e : L[k][j] = Leaf(e) => \E i \in 1..n : e = entries[i]
           N == {k \in 0..n : Good(k)}
<1>1. /\ n \in Nat \ {0} /\ L[0] = leaves /\ DOMAIN leaves = 1..n
      /\ \A k \in 0..(n - 1) : L[k + 1] = Layer(L[k])
      /\ \A k \in 0..n : Len(L[k]) \in Nat \ {0} /\ DOMAIN L[k] = 1..Len(L[k])
  BY LayersShape
<1>2. \A k \in 0..n : \A j \in DOMAIN L[k] : NodeOf(leaves, L[k][j])
  BY DEF NodeOf
<1>3. \A i \in 1..n : leaves[i] = Leaf(entries[i])
  OBVIOUS
<1>4. \A x : NodeOf(leaves, x) => \E k \in 0..n : \E j \in DOMAIN L[k] : x = L[k][j]
  BY DEF NodeOf
<1> HIDE DEF n, L
<1>5. 0 \in N
  <2>1. Good(0)
    BY <1>1, <1>3, HashesDiffer
  <2> HIDE DEF Good
  <2> QED BY <1>1, <2>1
<1>6. ASSUME NEW k \in 0..(n - 1), k \in N PROVE k + 1 \in N
  <2> DEFINE s == L[k]
  <2>1. /\ k \in 0..n /\ k + 1 \in 0..n /\ L[k + 1] = Layer(s)
        /\ Len(s) \in Nat /\ DOMAIN s = 1..Len(s)
    BY <1>1
  <2>2. Good(k)
    BY <1>6
  <2>3. \A a \in DOMAIN s : NodeOf(leaves, s[a])
    BY <1>2, <2>1
  <2>4. ASSUME NEW j \in DOMAIN L[k + 1]
        PROVE  /\ \A a, b : L[k + 1][j] = Hash(a, b) => NodeOf(leaves, a)
               /\ \A e : L[k + 1][j] = Leaf(e) => \E i \in 1..n : e = entries[i]
    <3> HIDE DEF s
    <3>1. \/ \E a \in DOMAIN s : L[k + 1][j] = s[a]
          \/ \E a, b \in DOMAIN s : L[k + 1][j] = Hash(s[a], s[b])
      <4> DEFINE t == L[k + 1]
      <4>1. t = Layer(s) /\ j \in DOMAIN t
        BY <2>1, <2>4
      <4> HIDE DEF t
      <4>2. \/ \E a \in DOMAIN s : t[j] = s[a]
            \/ \E a, b \in DOMAIN s : t[j] = Hash(s[a], s[b])
        BY <2>1, <4>1, OneDown
      <4> QED BY <4>2 DEF t
    <3>2. CASE \E a \in DOMAIN s : L[k + 1][j] = s[a]
      BY <2>2, <3>2 DEF s
    <3>3. CASE \E a, b \in DOMAIN s : L[k + 1][j] = Hash(s[a], s[b])
      BY <2>3, <3>3, HashesDiffer
    <3> QED BY <3>1, <3>2, <3>3
  <2>5. Good(k + 1)
    BY <2>4
  <2> HIDE DEF Good
  <2> QED BY <2>1, <2>5
<1>7. \A k \in 0..n : Good(k)
  <2> HIDE DEF N, Good
  <2>1. 0..n \subseteq N
    BY <1>1, <1>5, <1>6, UpToInduction
  <2> QED BY <2>1 DEF N
<1>8. ASSUME NEW a, NEW b, NodeOf(leaves, Hash(a, b)) PROVE NodeOf(leaves, a)
  BY <1>4, <1>7, <1>8
<1>9. ASSUME NEW e, NodeOf(leaves, Leaf(e)) PROVE \E i \in 1..n : e = entries[i]
  BY <1>4, <1>7, <1>9
<1> QED BY <1>8, <1>9 DEF n

\* Of a tree of any size, only what it lists verifies: whatever list of hashes is given
\* as a proof, an entry that hashes up to the root with it is one of the entries.
THEOREM OnlyListedVerify ==
    ASSUME NEW leaves, Len(leaves) \in Nat \ {0}, DOMAIN leaves = 1..Len(leaves),
           NEW entries, \A i \in 1..Len(leaves) : leaves[i] = Leaf(entries[i]),
           NEW entry, NEW proof, Len(proof) \in Nat, Verify(entry, proof, Root(leaves))
    PROVE  \E i \in 1..Len(leaves) : entry = entries[i]
<1> DEFINE H == HashUp(entry, proof)
           m == Len(proof)
           N == {k \in 0..m : NodeOf(leaves, H[m - k])}
<1>1. H = [k \in 0..m |-> IF k = 0 THEN Leaf(entry) ELSE Hash(H[k - 1], proof[k])]
  BY HashEquation DEF HashUpTo
<1>2. NodeOf(leaves, H[m])
  <2>1. H[m] = Layers(leaves)[Len(leaves)][1]
    BY DEF Verify, Root
  <2>2. Len(leaves) \in 0..Len(leaves) /\ 1 \in DOMAIN Layers(leaves)[Len(leaves)]
    <3>1. Len(leaves) \in 0..Len(leaves)
      OBVIOUS
    <3>2. /\ Len(Layers(leaves)[Len(leaves)]) \in Nat \ {0}
          /\ DOMAIN Layers(leaves)[Len(leaves)] = 1..Len(Layers(leaves)[Len(leaves)])
      BY <3>1, LayersShape
    <3> QED BY <3>1, <3>2
  <2> QED BY <2>1, <2>2 DEF NodeOf
<1>3. m \in Nat
  OBVIOUS
<1> HIDE DEF H, m
<1>4. 0 \in N
  <2>1. m - 0 = m /\ 0 \in 0..m
    BY <1>3
  <2> QED BY <1>2, <2>1
<1>5. ASSUME NEW k \in 0..(m - 1), k \in N PROVE k + 1 \in N
  <2>1. /\ m - k \in 0..m /\ m - k # 0 /\ (m - k) - 1 = m - (k + 1) /\ k + 1 \in 0..m
    BY <1>3
  <2>2. H[m - k] = Hash(H[m - (k + 1)], proof[m - k])
    BY <1>1, <2>1
  <2> QED BY <1>5, <2>1, <2>2, NodesAreHashes
<1>6. NodeOf(leaves, H[0])
  <2> HIDE DEF N
  <2>1. 0..m \subseteq N
    BY <1>3, <1>4, <1>5, UpToInduction
  <2>2. m \in 0..m /\ m - m = 0
    BY <1>3
  <2> QED BY <2>1, <2>2 DEF N
<1>7. H[0] = Leaf(entry)
  BY <1>1, <1>3
<1> QED BY <1>6, <1>7, NodesAreHashes

-----------------------------------------------------------------------------
(* Products and quotients. *)

\* Division rounds down.
LEMMA DivBounds ==
    ASSUME NEW a \in Nat, NEW b \in Nat \ {0}
    PROVE  /\ a \div b \in Nat
           /\ b * (a \div b) <= a
           /\ a < b * ((a \div b) + 1)
<1>1. a \div b \in Nat /\ a % b \in 0..(b - 1) /\ a = b * (a \div b) + (a % b)
  BY SMT
<1> DEFINE q == a \div b
<1>2. b * (q + 1) = b * q + b /\ b * q \in Nat
  BY <1>1
<1> QED BY <1>1, <1>2

\* Products grow with a factor.
LEMMA TimesLess ==
    ASSUME NEW c \in Nat, NEW a \in Nat, NEW b \in Nat, a <= b
    PROVE  c * a <= c * b /\ c * a \in Nat /\ c * b \in Nat
<1>1. b - a \in Nat /\ b = a + (b - a)
  OBVIOUS
<1>2. \A d \in Nat : c * (a + d) = c * a + c * d /\ c * d \in Nat /\ c * a \in Nat
  OBVIOUS
<1>3. c * b = c * a + c * (b - a) /\ c * (b - a) \in Nat /\ c * a \in Nat
  BY <1>1, <1>2
<1> QED BY <1>3

\* A common factor cancels in an inequality.
LEMMA TimesCancel ==
    ASSUME NEW c \in Nat \ {0}, NEW a \in Nat, NEW b \in Nat, c * a < c * b
    PROVE  a < b
<1>1. SUFFICES ASSUME b <= a PROVE FALSE
  OBVIOUS
<1>2. c * b <= c * a /\ c * b \in Nat /\ c * a \in Nat
  BY <1>1, TimesLess
<1> QED BY <1>2

\* Quotients grow with the dividend.
LEMMA DivLess ==
    ASSUME NEW c \in Nat \ {0}, NEW a \in Nat, NEW b \in Nat, a <= b
    PROVE  a \div c <= b \div c
<1> DEFINE q == a \div c
           r == b \div c
<1>1. /\ q \in Nat /\ c * q <= a
      /\ r \in Nat /\ b < c * (r + 1)
  BY DivBounds
<1> HIDE DEF q, r
<1>2. c * q \in Nat /\ c * (r + 1) \in Nat
  BY <1>1, TimesLess
<1>3. q < r + 1
  BY <1>1, <1>2, TimesCancel
<1> QED BY <1>1, <1>3 DEF q, r

\* If the shares times what they are shares of are about the pool times all of it, the
\* shares are about the whole of the pool.
LEMMA PoolArithmetic ==
    ASSUME NEW P \in Nat, NEW s \in Nat \ {0}, NEW T \in Nat \ {0}, NEW t \in Nat,
           NEW n \in Nat \ {0},
           (s * T) * t <= P * T, P * T + n <= (s * T) * (t + n)
    PROVE  t <= P \div s /\ P \div s < t + n
<1> DEFINE q == P \div s
<1>1. q \in Nat /\ s * q <= P /\ P < s * (q + 1)
  BY DivBounds
<1>2. t + n \in Nat /\ q + 1 \in Nat
  BY <1>1
<1>3. s * t \in Nat /\ s * (t + n) \in Nat /\ s * q \in Nat /\ s * (q + 1) \in Nat
  BY <1>1, <1>2, TimesLess
<1>4. (s * T) * t = T * (s * t) /\ (s * T) * (t + n) = T * (s * (t + n)) /\ P * T = T * P
  <2>1. \A x, y, z \in Int : (x * y) * z = y * (x * z) /\ x * y = y * x
    OBVIOUS
  <2> QED BY <1>2, <2>1
<1> HIDE DEF q
<1>5. T * P \in Nat /\ T * (s * t) \in Nat /\ T * (s * (t + n)) \in Nat
  BY <1>3, TimesLess
<1>6. s * t <= P
  <2>1. SUFFICES ASSUME P < s * t PROVE FALSE
    BY <1>3
  <2>2. P + 1 \in Nat /\ P + 1 <= s * t
    BY <1>3, <2>1
  <2>3. T * (P + 1) <= T * (s * t) /\ T * (P + 1) \in Nat
    BY <1>3, <2>2, TimesLess
  <2>4. T * (P + 1) = T * P + T
    OBVIOUS
  <2> QED BY <1>4, <1>5, <2>3, <2>4
<1>7. P < s * (t + n)
  <2>1. T * P < T * (s * (t + n))
    BY <1>4, <1>5
  <2> QED BY <1>3, <2>1, TimesCancel
<1>8. t < q + 1
  <2>1. s * t < s * (q + 1)
    BY <1>1, <1>3, <1>6
  <2> QED BY <1>2, <2>1, TimesCancel
<1>9. q < t + n
  <2>1. s * q < s * (t + n)
    BY <1>1, <1>3, <1>7
  <2> QED BY <1>1, <1>2, <2>1, TimesCancel
<1> QED BY <1>1, <1>8, <1>9 DEF q

-----------------------------------------------------------------------------
(* What Compute makes of what was read. *)

Paid(h, p, m) == {w \in Wallets : Scores(h, p, m.price)[w] > 0 /\ EpochUsdPool(m) > 0}
Total(h, p, m) == SumFunction(Scores(h, p, m.price))

\* One claim for each wallet that is paid, of its share, with a proof that verifies.
GoodEpoch(e, h, p, m) ==
    /\ IsFiniteSet(e.claims)
    /\ \A c \in e.claims :
          /\ c.entry.wallet \in Paid(h, p, m)
          /\ c.entry.lamports =
                Lamports(Scores(h, p, m.price)[c.entry.wallet], Total(h, p, m), m)
          /\ Verify(c.entry, c.proof, e.root)
    /\ \A c, d \in e.claims :
          c.entry.index = d.entry.index \/ c.entry.wallet = d.entry.wallet => c = d
    /\ \A w \in Paid(h, p, m) : \E c \in e.claims : c.entry.wallet = w
    /\ e.total = SumFunctionOnSet([c \in e.claims |-> c.entry.lamports], e.claims)

\* Scores, prices and pools are numbers.
LEMMA ScoresType ==
    ASSUME NEW h \in [Wallets -> Nat], NEW p \in [Wallets -> Nat], NEW m \in Markets
    PROVE  /\ Scores(h, p, m.price) \in [Wallets -> Nat]
           /\ EpochUsdPool(m) \in Nat /\ m.sol \in Nat \ {0} /\ m.price \in Nat
           /\ IsFiniteSet(Wallets)
           /\ Total(h, p, m) \in Nat
           /\ Total(h, p, m) = SumFunctionOnSet(Scores(h, p, m.price), Wallets)
           /\ Paid(h, p, m) \in SUBSET Wallets /\ IsFiniteSet(Paid(h, p, m))
           /\ \A w \in Paid(h, p, m) : Scores(h, p, m.price)[w] > 0 /\ EpochUsdPool(m) > 0
<1>1. m.price \in Nat /\ m.cap \in Nat /\ m.sol \in Nat \ {0} /\ Rate \in Nat /\ IsFiniteSet(Wallets)
  BY EpochAssumption DEF Markets
<1>2. \A a, b \in Nat : a * b \in Nat
  OBVIOUS
<1>3. EpochUsdPool(m) \in Nat
  BY <1>1, <1>2 DEF EpochUsdPool
<1>4. \A w \in Wallets : Score(h[w], p[w] * m.price) \in Nat
  <2>1. \A w \in Wallets : h[w] \in Nat /\ p[w] * m.price \in Nat
    BY <1>1, <1>2
  <2>2. \A a, b \in Nat : Score(a, b) \in Nat
    BY <1>2 DEF Score
  <2> QED BY <2>1, <2>2
<1>5. Scores(h, p, m.price) \in [Wallets -> Nat]
  BY <1>4 DEF Scores
<1>6. Total(h, p, m) = SumFunctionOnSet(Scores(h, p, m.price), Wallets)
  BY <1>5 DEF Total, SumFunction
<1>7. Total(h, p, m) \in Nat
  BY <1>1, <1>5, <1>6, SumType
<1>8. Paid(h, p, m) \in SUBSET Wallets /\ IsFiniteSet(Paid(h, p, m))
  BY <1>1, FS_Subset DEF Paid
<1>9. \A w \in Paid(h, p, m) : Scores(h, p, m.price)[w] > 0 /\ EpochUsdPool(m) > 0
  BY DEF Paid
<1> QED BY <1>1, <1>3, <1>5, <1>6, <1>7, <1>8, <1>9

\* A share is what Lamports says, rounded down.
LEMMA ShareType ==
    ASSUME NEW h \in [Wallets -> Nat], NEW p \in [Wallets -> Nat], NEW m \in Markets,
           NEW w \in Paid(h, p, m)
    PROVE  /\ Total(h, p, m) \in Nat \ {0}
           /\ m.sol * Total(h, p, m) \in Nat \ {0}
           /\ EpochUsdPool(m) * Scores(h, p, m.price)[w] \in Nat
           /\ Lamports(Scores(h, p, m.price)[w], Total(h, p, m), m) \in Nat
<1> DEFINE x == Scores(h, p, m.price)
           T == Total(h, p, m)
           P == EpochUsdPool(m)
           s == m.sol
<1>1. /\ x \in [Wallets -> Nat] /\ P \in Nat /\ s \in Nat \ {0} /\ IsFiniteSet(Wallets)
      /\ T \in Nat /\ T = SumFunctionOnSet(x, Wallets) /\ w \in Wallets /\ x[w] > 0
  BY ScoresType
<1>2. Lamports(x[w], T, m) = (P * x[w]) \div (s * T)
  BY DEF Lamports
<1> HIDE DEF x, T, P, s
<1>3. T # 0
  <2>1. IsFiniteSet(Wallets \ {w}) /\ \A v \in Wallets : x[v] \in Nat
    BY <1>1, FS_Subset
  <2>2. T = x[w] + SumFunctionOnSet(x, Wallets \ {w})
    BY <1>1, <2>1, SumWithout
  <2>3. SumFunctionOnSet(x, Wallets \ {w}) \in Nat
    BY <2>1, SumType
  <2> QED BY <1>1, <2>1, <2>2, <2>3
<1>4. P * x[w] \in Nat /\ s * T \in Nat
  <2>1. \A a, b \in Nat : a * b \in Nat
    OBVIOUS
  <2>2. P \in Nat /\ x[w] \in Nat /\ s \in Nat /\ T \in Nat
    BY <1>1
  <2> QED BY <2>1, <2>2
<1>5. s * T # 0
  <2>1. \A a, b \in Nat \ {0} : a * b # 0
    OBVIOUS
  <2>2. s \in Nat \ {0} /\ T \in Nat \ {0}
    BY <1>1, <1>3
  <2> QED BY <2>1, <2>2
<1>6. (P * x[w]) \div (s * T) \in Nat
  <2> DEFINE a == P * x[w]
             b == s * T
  <2>1. a \in Nat /\ b \in Nat \ {0}
    BY <1>4, <1>5
  <2> HIDE DEF a, b
  <2>2. a \div b \in Nat
    BY <2>1, DivBounds
  <2> QED BY <2>2 DEF a, b
<1> QED BY <1>1, <1>2, <1>3, <1>4, <1>5, <1>6 DEF x, T, P, s

\* The claimable entries make such an epoch.
LEMMA EpochIsGood ==
    ASSUME NEW h \in [Wallets -> Nat], NEW p \in [Wallets -> Nat], NEW m \in Markets,
           NEW entries \in Claimable(h, p, m)
    PROVE  GoodEpoch(EpochOf(entries), h, p, m)
<1> DEFINE paid == Paid(h, p, m)
           n == Cardinality(paid)
           share(w) == Lamports(Scores(h, p, m.price)[w], Total(h, p, m), m)
           leaves == [i \in DOMAIN entries |-> Leaf(entries[i])]
           claim == [i \in 1..n |-> [entry |-> entries[i], proof |-> Proof(leaves, i)]]
           e == EpochOf(entries)
<1>1. IsFiniteSet(paid) /\ n \in Nat /\ IsFiniteSet(1..n)
  <2>1. IsFiniteSet(paid)
    BY ScoresType
  <2>2. n \in Nat
    BY <2>1, FS_CardinalityType
  <2> HIDE DEF n
  <2> QED BY <2>1, <2>2, FS_Interval
<1>2. PICK order \in Bijection(1..n, paid) :
         entries = [i \in DOMAIN order |->
                      [index |-> i - 1, wallet |-> order[i], lamports |-> share(order[i])]]
  BY DEF Claimable, Paid, Total
<1>3. /\ order \in [1..n -> paid]
      /\ \A i, j \in 1..n : order[i] = order[j] => i = j
      /\ \A w \in paid : \E i \in 1..n : order[i] = w
  BY DEF Bijection, Injection, Surjection, IsInjective
<1> HIDE DEF share
<1>4. /\ DOMAIN entries = 1..n
      /\ \A i \in 1..n : /\ entries[i].index = i - 1 /\ entries[i].wallet = order[i]
                         /\ entries[i].lamports = share(order[i])
  BY <1>2, <1>3
<1>5. \A w \in paid : share(w) \in Nat
  BY ShareType DEF share
<1>6. /\ e.claims = {claim[i] : i \in 1..n}
      /\ e.total = SumFunctionOnSet([i \in 1..n |-> entries[i].lamports], 1..n)
      /\ n # 0 => e.root = Root(leaves)
  <2>1. n # 0 => entries # <<>>
    BY <1>1, <1>4
  <2>2. e.claims = {[entry |-> entries[i], proof |-> Proof(leaves, i)] : i \in 1..n}
    BY <1>4 DEF EpochOf
  <2>3. e.root = IF entries = <<>> THEN None ELSE Root(leaves)
    BY DEF EpochOf
  <2>4. e.total = SumFunctionOnSet([i \in 1..n |-> entries[i].lamports], 1..n)
    BY <1>4 DEF EpochOf, SumFunction
  <2> QED BY <2>1, <2>2, <2>3, <2>4
<1>7. \A i \in 1..n : Verify(entries[i], Proof(leaves, i), Root(leaves))
  <2> SUFFICES ASSUME NEW i \in 1..n PROVE Verify(entries[i], Proof(leaves, i), Root(leaves))
    OBVIOUS
  <2>1. DOMAIN leaves = 1..n /\ leaves[i] = Leaf(entries[i]) /\ n \in Nat \ {0}
    BY <1>1, <1>4
  <2>2. leaves = [j \in 1..n |-> leaves[j]]
    BY <1>4
  <2> HIDE DEF leaves, n
  <2>3. Len(leaves) = n
    <3> DEFINE T == {leaves[j] : j \in 1..n}
    <3>1. \A j \in 1..n : leaves[j] \in T
      OBVIOUS
    <3> HIDE DEF T
    <3>2. leaves \in [1..n -> T]
      BY <2>2, <3>1
    <3>3. leaves \in Seq(T)
      BY <2>1, <3>2
    <3> QED BY <2>1, <3>3
  <2> QED BY <2>1, <2>3, ProofsVerify
<1> HIDE DEF e, leaves, paid, n
<1>8. /\ DOMAIN claim = 1..n
      /\ \A i \in 1..n : claim[i].entry = entries[i] /\ claim[i].proof = Proof(leaves, i)
  OBVIOUS
<1> HIDE DEF claim
<1>9. \A i, j \in 1..n : claim[i] = claim[j] => i = j
  <2> SUFFICES ASSUME NEW i \in 1..n, NEW j \in 1..n, claim[i] = claim[j] PROVE i = j
    OBVIOUS
  <2>1. entries[i] = entries[j]
    BY <1>8
  <2>2. i - 1 = j - 1
    BY <1>4, <2>1
  <2> QED BY <1>1, <2>2
<1> DEFINE f == [c \in e.claims |-> c.entry.lamports]
           g == [i \in 1..n |-> entries[i].lamports]
<1>10. IsFiniteSet(e.claims) /\ SumFunctionOnSet(f, e.claims) = SumFunctionOnSet(g, 1..n)
  <2>1. \A i \in 1..n : g[i] \in Nat /\ g[i] = f[claim[i]]
    <3> SUFFICES ASSUME NEW i \in 1..n PROVE g[i] \in Nat /\ g[i] = f[claim[i]]
      OBVIOUS
    <3>1. claim[i] \in e.claims
      BY <1>6
    <3>2. entries[i].lamports \in Nat
      BY <1>3, <1>4, <1>5
    <3>3. f[claim[i]] = entries[i].lamports
      BY <1>8, <3>1
    <3> QED BY <3>2, <3>3
  <2> HIDE DEF f, g
  <2>2. Renames(claim, 1..n, e.claims)
    BY <1>6, <1>9 DEF Renames
  <2> DEFINE S == 1..n
  <2>3. /\ IsFiniteSet(S) /\ Renames(claim, S, e.claims)
        /\ \A x \in S : g[x] \in Nat /\ g[x] = f[claim[x]]
    BY <1>1, <2>1, <2>2
  <2> HIDE DEF S
  <2>4. IsFiniteSet(e.claims) /\ SumFunctionOnSet(f, e.claims) = SumFunctionOnSet(g, S)
    BY <2>3, SumRenamed
  <2> QED BY <2>4 DEF S
<1>11. ASSUME NEW c \in e.claims
       PROVE  /\ c.entry.wallet \in paid /\ c.entry.lamports = share(c.entry.wallet)
              /\ Verify(c.entry, c.proof, e.root)
  <2>1. PICK i \in 1..n : c = claim[i]
    BY <1>6
  <2>2. n # 0
    BY <1>1, <2>1
  <2> QED BY <1>3, <1>4, <1>6, <1>7, <1>8, <2>1, <2>2
<1>12. ASSUME NEW c \in e.claims, NEW d \in e.claims,
              c.entry.index = d.entry.index \/ c.entry.wallet = d.entry.wallet
       PROVE  c = d
  <2>1. PICK i \in 1..n, j \in 1..n : c = claim[i] /\ d = claim[j]
    BY <1>6
  <2>2. i - 1 = j - 1 => i = j
    BY <1>1
  <2> QED BY <1>3, <1>4, <1>8, <1>12, <2>1, <2>2
<1>13. \A w \in paid : \E c \in e.claims : c.entry.wallet = w
  BY <1>3, <1>4, <1>6, <1>8
<1>14. e.total = SumFunctionOnSet(f, e.claims)
  BY <1>6, <1>10
<1> QED BY <1>10, <1>11, <1>12, <1>13, <1>14 DEF GoodEpoch, e, paid, share
-----------------------------------------------------------------------------
(* What an epoch promises. *)

\* Its claims are worth what they say, and their total is a number.
LEMMA GoodTypes ==
    ASSUME NEW h \in [Wallets -> Nat], NEW p \in [Wallets -> Nat], NEW m \in Markets,
           NEW e, GoodEpoch(e, h, p, m)
    PROVE  /\ IsFiniteSet(e.claims) /\ Cardinality(e.claims) \in Nat
           /\ e.claims # {} => Cardinality(e.claims) # 0
           /\ \A c \in e.claims : c.entry.lamports \in Nat
           /\ e.total \in Nat
           /\ e.total = SumFunctionOnSet([c \in e.claims |-> c.entry.lamports], e.claims)
<1>1. IsFiniteSet(e.claims) /\ \A c \in e.claims : c.entry.wallet \in Paid(h, p, m)
  BY DEF GoodEpoch
<1>2. \A c \in e.claims : c.entry.lamports \in Nat
  BY <1>1, ShareType DEF GoodEpoch
<1> DEFINE f == [c \in e.claims |-> c.entry.lamports]
<1>3. e.total = SumFunctionOnSet(f, e.claims)
  BY DEF GoodEpoch
<1>4. \A c \in e.claims : f[c] \in Nat
  BY <1>2
<1>5. Cardinality(e.claims) \in Nat /\ (e.claims # {} => Cardinality(e.claims) # 0)
  BY <1>1, FS_CardinalityType, FS_EmptySet
<1> HIDE DEF f
<1>6. SumFunctionOnSet(f, e.claims) \in Nat
  BY <1>1, <1>4, SumType
<1> QED BY <1>1, <1>2, <1>3, <1>5, <1>6 DEF f

\* The scores of the claims add up to those of all wallets.
LEMMA ScoresOfClaims ==
    ASSUME NEW h \in [Wallets -> Nat], NEW p \in [Wallets -> Nat], NEW m \in Markets,
           NEW e, GoodEpoch(e, h, p, m), e.claims # {},
           NEW sc, \A c \in e.claims : sc[c] = Scores(h, p, m.price)[c.entry.wallet]
    PROVE  SumFunctionOnSet(sc, e.claims) = Total(h, p, m)
<1> DEFINE x == Scores(h, p, m.price)
           paid == Paid(h, p, m)
           wallet == [c \in e.claims |-> c.entry.wallet]
<1>1. /\ IsFiniteSet(e.claims) /\ \A c \in e.claims : wallet[c] \in paid
      /\ \A w \in paid : \E c \in e.claims : w = wallet[c]
      /\ \A c, d \in e.claims : wallet[c] = wallet[d] => c = d
  BY DEF GoodEpoch
<1>2. /\ x \in [Wallets -> Nat] /\ IsFiniteSet(Wallets) /\ paid \in SUBSET Wallets
      /\ Total(h, p, m) = SumFunctionOnSet(x, Wallets)
  BY ScoresType
<1>3. \A w \in Wallets \ paid : x[w] = 0
  <2>1. EpochUsdPool(m) > 0
    BY <1>1 DEF Paid
  <2>2. \A w \in Wallets \ paid : ~(x[w] > 0)
    BY <2>1 DEF Paid
  <2> QED BY <1>2, <2>2
<1>4. Renames(wallet, e.claims, paid)
  BY <1>1 DEF Renames
<1>5. SumFunctionOnSet(x, paid) = SumFunctionOnSet(sc, e.claims)
  <2>1. \A c \in e.claims : sc[c] = x[wallet[c]]
    OBVIOUS
  <2> HIDE DEF x, paid, wallet
  <2>2. \A c \in e.claims : sc[c] \in Nat /\ sc[c] = x[wallet[c]]
    BY <1>1, <1>2, <2>1
  <2> QED BY <1>1, <1>4, <2>2, SumRenamed
<1> HIDE DEF x, paid, wallet
<1>6. SumFunctionOnSet(x, Wallets) = SumFunctionOnSet(x, paid)
  BY <1>2, <1>3, SumOfNonzero
<1> QED BY <1>2, <1>5, <1>6

\* The claims are within the pool, and short of it by less than a lamport each: each
\* share is rounded down, and the shares of the pool are the whole of it.
LEMMA PoolIsKept ==
    ASSUME NEW h \in [Wallets -> Nat], NEW p \in [Wallets -> Nat], NEW m \in Markets,
           NEW e, GoodEpoch(e, h, p, m), e.claims # {}
    PROVE  /\ e.total <= EpochSolPool(m)
           /\ EpochSolPool(m) < e.total + Cardinality(e.claims)
<1> DEFINE C == e.claims
           T == Total(h, p, m)
           P == EpochUsdPool(m)
           s == m.sol
           K == s * T
           n == Cardinality(C)
           sc == [c \in C |-> Scores(h, p, m.price)[c.entry.wallet]]
           l == [c \in C |-> c.entry.lamports]
           a == [c \in C |-> P * sc[c]]
           kl == [c \in C |-> K * l[c]]
           one == [c \in C |-> 1]
           a1 == [c \in C |-> a[c] + one[c]]
           l1 == [c \in C |-> l[c] + one[c]]
           kl1 == [c \in C |-> K * l1[c]]
<1>1. /\ IsFiniteSet(C) /\ n \in Nat \ {0} /\ e.total \in Nat /\ e.total = SumFunctionOnSet(l, C)
      /\ \A c \in C : l[c] \in Nat
  BY GoodTypes
<1>2. /\ P \in Nat /\ s \in Nat \ {0}
  BY ScoresType
<1>3. \A c \in C : c.entry.wallet \in Paid(h, p, m)
  BY DEF GoodEpoch
<1>4. T \in Nat \ {0} /\ K \in Nat \ {0}
  BY <1>3, ShareType
<1>5. \A c \in C : sc[c] \in Nat /\ P * sc[c] \in Nat
  <2>1. \A c \in C : Scores(h, p, m.price)[c.entry.wallet] \in Nat
    BY <1>3, ScoresType
  <2>2. \A c \in C : sc[c] \in Nat
    BY <2>1
  <2> HIDE DEF sc, P
  <2> QED BY <1>2, <2>2, TimesLess
<1>6. \A c \in C : l[c] = (P * sc[c]) \div K
  BY DEF GoodEpoch, Lamports
<1>7. SumFunctionOnSet(sc, C) = T
  BY ScoresOfClaims
<1>8. EpochSolPool(m) = P \div s
  BY DEF EpochSolPool
<1> HIDE DEF C, T, P, s, n, sc, l
<1>9. \A c \in C : a[c] = P * sc[c] /\ kl[c] = K * l[c] /\ one[c] = 1
                   /\ a1[c] = a[c] + one[c] /\ l1[c] = l[c] + one[c] /\ kl1[c] = K * l1[c]
  OBVIOUS
<1> HIDE DEF a, kl, one, a1, l1, kl1, K
<1>10. \A c \in C : /\ a[c] \in Nat /\ kl[c] \in Nat /\ kl[c] <= a[c]
                    /\ a1[c] \in Nat /\ l1[c] \in Nat /\ kl1[c] \in Nat /\ a1[c] <= kl1[c]
  <2> SUFFICES ASSUME NEW c \in C
               PROVE  /\ a[c] \in Nat /\ kl[c] \in Nat /\ kl[c] <= a[c]
                      /\ a1[c] \in Nat /\ l1[c] \in Nat /\ kl1[c] \in Nat /\ a1[c] <= kl1[c]
    OBVIOUS
  <2>1. /\ a[c] \in Nat /\ l[c] \in Nat /\ l[c] = a[c] \div K /\ K \in Nat \ {0}
        /\ kl[c] = K * l[c] /\ a1[c] = a[c] + 1 /\ l1[c] = l[c] + 1 /\ kl1[c] = K * l1[c]
    BY <1>1, <1>4, <1>5, <1>6, <1>9
  <2>2. K * l[c] <= a[c] /\ a[c] < K * (l[c] + 1)
    BY <2>1, DivBounds
  <2>3. l[c] + 1 \in Nat
    BY <2>1
  <2>4. K * l[c] \in Nat /\ K * (l[c] + 1) \in Nat
    BY <2>1, <2>3, TimesLess
  <2> QED BY <2>1, <2>2, <2>3, <2>4
<1>11. SumFunctionOnSet(a, C) = P * T
  <2>1. \A c \in C : sc[c] \in Nat /\ a[c] = P * sc[c]
    BY <1>5, <1>9
  <2> QED BY <1>1, <1>2, <1>7, <2>1, SumScaled
<1>12. SumFunctionOnSet(kl, C) = K * e.total
  <2>1. \A c \in C : l[c] \in Nat /\ kl[c] = K * l[c]
    BY <1>1, <1>9
  <2> QED BY <1>1, <1>4, <2>1, SumScaled
<1>13. SumFunctionOnSet(one, C) = n
  BY <1>1, <1>9, SumOfOnes DEF n
<1>14. SumFunctionOnSet(a1, C) = P * T + n
  <2>1. \A c \in C : a[c] \in Nat /\ one[c] \in Nat /\ a1[c] = a[c] + one[c]
    BY <1>9, <1>10
  <2> QED BY <1>1, <1>11, <1>13, <2>1, SumPlus
<1>15. SumFunctionOnSet(l1, C) = e.total + n
  <2>1. \A c \in C : l[c] \in Nat /\ one[c] \in Nat /\ l1[c] = l[c] + one[c]
    BY <1>1, <1>9
  <2> QED BY <1>1, <1>13, <2>1, SumPlus
<1>16. SumFunctionOnSet(kl1, C) = K * (e.total + n)
  <2>1. \A c \in C : l1[c] \in Nat /\ kl1[c] = K * l1[c]
    BY <1>9, <1>10
  <2> QED BY <1>1, <1>4, <1>15, <2>1, SumScaled
<1>17. K * e.total <= P * T /\ P * T + n <= K * (e.total + n)
  <2>1. SumFunctionOnSet(kl, C) <= SumFunctionOnSet(a, C)
    BY <1>1, <1>10, SumLeq
  <2>2. SumFunctionOnSet(a1, C) <= SumFunctionOnSet(kl1, C)
    BY <1>1, <1>10, SumLeq
  <2> QED BY <1>11, <1>12, <1>14, <1>16, <2>1, <2>2
<1>18. e.total <= P \div s /\ P \div s < e.total + n
  <2>1. (s * T) * e.total <= P * T /\ P * T + n <= (s * T) * (e.total + n)
    BY <1>17 DEF K
  <2> QED BY <1>1, <1>2, <1>4, <2>1, PoolArithmetic
<1> QED BY <1>8, <1>18 DEF C, n
-----------------------------------------------------------------------------
(* The invariant of an epoch. *)

\* The program's own view of who qualified: who met both minimums in what it read.
ReadQualified == {w \in Wallets : /\ holdings[w] >= MinYieldfy
                                  /\ positions[w] * market.price >= MinVaultUsd}

\* Until the prices are sampled nothing has been read.
NothingRead ==
    pc \in {"off", "sample"} => market = None /\ holdings = None /\ positions = None

\* From then on there is a market, and `both` knows who qualifies now.
SampledSince ==
    pc \in {"read", "computed", "published"} =>
        market \in Markets /\ Qualified(yieldfy, principal, market.price) \subseteq both

\* A read is what the chain holds while nothing has moved, or while, of an epoch in
\* which nothing moved between the reads, it is the only one; once both are made, who
\* qualifies by them did so when the second was made.
HoldingsAreCurrent == \A w \in Wallets : holdings[w] = Held(yieldfy, w)
ReadsAreTrue ==
    /\ moves = 0 => /\ holdings # None => HoldingsAreCurrent
                    /\ positions # None => positions = principal
    /\ ~skewed => /\ holdings # None /\ positions = None => HoldingsAreCurrent
                  /\ positions # None /\ holdings = None => positions = principal
                  /\ holdings # None /\ positions # None => ReadQualified \subseteq both

EpochComputed ==
    pc \in {"computed", "published"} =>
        holdings # None /\ positions # None /\ GoodEpoch(epoch, holdings, positions, market)

\* What a claim left of the distributor: its caps as they were, and funds for the rest.
DistributorKept ==
    pc = "published" =>
        /\ epoch.claims # {} /\ epoch.total # 0
        /\ claimed \subseteq epoch.claims
        /\ distributor.root = epoch.root
        /\ distributor.maxTotalClaim = epoch.total
        /\ distributor.maxNumNodes = Cardinality(epoch.claims)
        /\ distributor.funds \in Nat
        /\ distributor.funds + SumFunctionOnSet([c \in epoch.claims |-> c.entry.lamports], claimed)
             = epoch.total

EpochInv ==
    /\ TypeOK /\ NothingRead /\ SampledSince /\ ReadsAreTrue /\ EpochComputed /\ DistributorKept

\* As long as what was paid is part of it, every claim left can be paid: the caps are
\* those of the whole, and the funds are what is left of it.
LEMMA RestIsPayable ==
    ASSUME NEW h \in [Wallets -> Nat], NEW p \in [Wallets -> Nat], NEW m \in Markets,
           GoodEpoch(epoch, h, p, m), DistributorKept, pc = "published",
           NEW c \in epoch.claims \ claimed
    PROVE  /\ Payable(c)
           /\ SumFunctionOnSet([d \in epoch.claims |-> d.entry.lamports], claimed \cup {c})
                = SumFunctionOnSet([d \in epoch.claims |-> d.entry.lamports], claimed)
                    + c.entry.lamports
<1> DEFINE C == epoch.claims
           f == [d \in C |-> d.entry.lamports]
           g == [d \in claimed |-> d.entry.lamports]
<1>1. /\ IsFiniteSet(C) /\ epoch.total \in Nat /\ epoch.total = SumFunctionOnSet(f, C)
      /\ \A d \in C : d.entry.lamports \in Nat
  BY GoodTypes
<1>2. /\ claimed \subseteq C /\ distributor.root = epoch.root
      /\ distributor.maxTotalClaim = epoch.total /\ distributor.maxNumNodes = Cardinality(C)
      /\ distributor.funds \in Nat
      /\ distributor.funds + SumFunctionOnSet(f, claimed) = epoch.total
  BY DEF DistributorKept
<1>3. /\ \A d \in claimed : g[d] = f[d] /\ f[d] \in Nat
      /\ \A d \in C : f[d] \in Nat
      /\ f[c] = c.entry.lamports
  BY <1>1, <1>2
<1>4. c.entry.index \notin ClaimStatuses
  BY <1>2 DEF ClaimStatuses, GoodEpoch
<1>5. Verify(c.entry, c.proof, distributor.root)
  BY <1>2 DEF GoodEpoch
<1>6. SumFunction(g) = SumFunctionOnSet(g, claimed)
  BY DEF SumFunction
<1> HIDE DEF C, f, g
<1>7. IsFiniteSet(claimed) /\ claimed \cup {c} \in SUBSET C /\ c \notin claimed /\ c \in C
  BY <1>1, <1>2, FS_Subset DEF C
<1>8. SumFunctionOnSet(g, claimed) = SumFunctionOnSet(f, claimed)
  BY <1>3, <1>7, SumSame
<1>9. SumFunctionOnSet(f, claimed \cup {c}) = SumFunctionOnSet(f, claimed) + f[c]
  BY <1>3, <1>7, SumWith
<1>10. SumFunctionOnSet(f, claimed \cup {c}) <= SumFunctionOnSet(f, C)
  BY <1>1, <1>3, <1>7, SumOfPart
<1>11. SumFunctionOnSet(f, claimed) \in Nat /\ f[c] \in Nat
  BY <1>3, <1>7, SumType
<1>12. Cardinality(claimed) < Cardinality(C)
  <2>1. Cardinality(claimed) <= Cardinality(C) /\ Cardinality(claimed) # Cardinality(C)
    BY <1>1, <1>2, <1>7, FS_Subset
  <2>2. Cardinality(claimed) \in Nat /\ Cardinality(C) \in Nat
    BY <1>1, <1>7, FS_CardinalityType
  <2> QED BY <2>1, <2>2
<1>13. /\ SumFunction(g) + c.entry.lamports <= distributor.maxTotalClaim
       /\ c.entry.lamports <= distributor.funds
  BY <1>1, <1>2, <1>3, <1>6, <1>8, <1>9, <1>10, <1>11
<1> QED BY <1>2, <1>3, <1>4, <1>5, <1>9, <1>12, <1>13 DEF Payable, f, g, C

\* Who is paid met both minimums in what was read.
LEMMA PaidQualified ==
    ASSUME NEW h \in [Wallets -> Nat], NEW p \in [Wallets -> Nat], NEW m \in Markets,
           NEW w \in Paid(h, p, m)
    PROVE  h[w] >= MinYieldfy /\ p[w] * m.price >= MinVaultUsd
<1>1. /\ h[w] \in Nat /\ p[w] \in Nat /\ m.price \in Nat /\ Scores(h, p, m.price)[w] > 0
      /\ w \in Wallets
  BY ScoresType
<1>2. p[w] * m.price \in Nat
  BY <1>1, TimesLess
<1>3. Score(h[w], p[w] * m.price) > 0
  BY <1>1 DEF Scores
<1> DEFINE u == p[w] * m.price
<1> HIDE DEF u
<1>4. ~(h[w] < MinYieldfy) /\ ~(u < MinVaultUsd)
  BY <1>3 DEF Score, u
<1> QED BY <1>1, <1>2, <1>4, EpochAssumption DEF u

\* More on both sides is a score that is at least as high.
LEMMA ScoreLess ==
    ASSUME NEW a \in Nat, NEW b \in Nat, NEW c \in Nat, NEW d \in Nat, a <= c, b <= d
    PROVE  Score(a, b) <= Score(c, d) /\ Score(a, b) \in Nat /\ Score(c, d) \in Nat
<1>1. a * b <= a * d /\ a * b \in Nat /\ a * d \in Nat
  BY TimesLess
<1>2. d * a <= d * c /\ d * c \in Nat
  BY TimesLess
<1>3. d * a = a * d /\ d * c = c * d
  OBVIOUS
<1>4. a * b <= c * d /\ c * d \in Nat
  BY <1>1, <1>2, <1>3
<1>5. MinYieldfy \in Nat /\ MinVaultUsd \in Nat
  BY EpochAssumption
<1> DEFINE x == a * b
           y == c * d
<1>6. x \in Nat /\ y \in Nat /\ x <= y
  BY <1>1, <1>4
<1>7. /\ Score(a, b) = IF a < MinYieldfy \/ b < MinVaultUsd THEN 0 ELSE x
      /\ Score(c, d) = IF c < MinYieldfy \/ d < MinVaultUsd THEN 0 ELSE y
  BY DEF Score
<1> HIDE DEF x, y
<1> QED BY <1>5, <1>6, <1>7

\* What a wallet gets of an epoch: its share, if it is paid.
LEMMA AmountIs ==
    ASSUME NEW h \in [Wallets -> Nat], NEW p \in [Wallets -> Nat], NEW m \in Markets,
           GoodEpoch(epoch, h, p, m), NEW w \in Wallets
    PROVE  Amount(w) = IF w \in Paid(h, p, m)
                       THEN Lamports(Scores(h, p, m.price)[w], Total(h, p, m), m) ELSE 0
<1> DEFINE f == [c \in Claims |-> c.entry.lamports]
           W == {c \in Claims : c.entry.wallet = w}
<1>1. Amount(w) = SumFunctionOnSet(f, W)
  BY DEF Amount
<1>2. CASE w \notin Paid(h, p, m)
  <2>1. W = {}
    BY <1>2 DEF GoodEpoch, Claims
  <2> QED BY <1>1, <1>2, <2>1, SumOfNone
<1>3. CASE w \in Paid(h, p, m)
  <2>1. PICK c \in Claims : c.entry.wallet = w
    BY <1>3 DEF GoodEpoch, Claims
  <2>2. W = {} \cup {c} /\ c \notin {}
    BY <2>1 DEF GoodEpoch, Claims
  <2>3. f[c] = Lamports(Scores(h, p, m.price)[w], Total(h, p, m), m)
    BY <2>1 DEF GoodEpoch, Claims
  <2>4. f[c] \in Nat
    BY <1>3, <2>3, ShareType
  <2> HIDE DEF f, W
  <2>5. IsFiniteSet({}) /\ \A x \in {} : f[x] \in Nat
    BY FS_EmptySet
  <2>6. SumFunctionOnSet(f, {} \cup {c}) = SumFunctionOnSet(f, {}) + f[c]
    BY <2>2, <2>4, <2>5, SumWith
  <2>7. SumFunctionOnSet(f, {}) = 0
    BY SumOfNone
  <2> QED BY <1>1, <1>3, <2>2, <2>3, <2>4, <2>6, <2>7
<1> QED BY <1>2, <1>3

\* Who had more on both sides gets no less.
LEMMA SharesLess ==
    ASSUME NEW h \in [Wallets -> Nat], NEW p \in [Wallets -> Nat], NEW m \in Markets,
           GoodEpoch(epoch, h, p, m), NEW v \in Wallets, NEW w \in Wallets,
           h[v] <= h[w], p[v] <= p[w]
    PROVE  Amount(v) <= Amount(w)
<1> DEFINE x == Scores(h, p, m.price)
           T == Total(h, p, m)
           P == EpochUsdPool(m)
<1>1. /\ x \in [Wallets -> Nat] /\ P \in Nat /\ m.price \in Nat
  BY ScoresType
<1>2. x[v] <= x[w]
  <2>1. m.price * p[v] <= m.price * p[w] /\ m.price * p[v] \in Nat /\ m.price * p[w] \in Nat
    BY <1>1, TimesLess
  <2>2. m.price * p[v] = p[v] * m.price /\ m.price * p[w] = p[w] * m.price
    BY <1>1
  <2>3. Score(h[v], p[v] * m.price) <= Score(h[w], p[w] * m.price)
    BY <2>1, <2>2, ScoreLess
  <2> QED BY <2>3 DEF Scores
<1>3. \A u \in Wallets : u \in Paid(h, p, m) => /\ Amount(u) = (P * x[u]) \div (m.sol * T)
                                                /\ Amount(u) \in Nat
                                                /\ P * x[u] \in Nat /\ m.sol * T \in Nat \ {0}
  BY AmountIs, ShareType DEF Lamports
<1>4. \A u \in Wallets : u \notin Paid(h, p, m) => Amount(u) = 0
  BY AmountIs
<1>5. v \in Paid(h, p, m) => w \in Paid(h, p, m)
  <2>1. v \in Paid(h, p, m) => x[v] > 0 /\ P > 0
    BY ScoresType
  <2>2. x[w] > 0 /\ P > 0 => w \in Paid(h, p, m)
    BY DEF Paid
  <2> HIDE DEF x, P
  <2> QED BY <1>1, <1>2, <2>1, <2>2
<1> HIDE DEF x, T, P
<1>6. CASE v \in Paid(h, p, m)
  <2>1. P * x[v] <= P * x[w]
    BY <1>1, <1>2, TimesLess
  <2> DEFINE a == P * x[v]
             b == P * x[w]
             k == m.sol * T
  <2>2. /\ a \in Nat /\ b \in Nat /\ k \in Nat \ {0} /\ a <= b
        /\ Amount(v) = a \div k /\ Amount(w) = b \div k
    BY <1>3, <1>5, <1>6, <2>1
  <2> HIDE DEF a, b, k
  <2> QED BY <2>2, DivLess
<1>7. CASE v \notin Paid(h, p, m)
  BY <1>3, <1>4, <1>7
<1> QED BY <1>6, <1>7

-----------------------------------------------------------------------------
(* It is kept. *)

\* What a wallet holds is the sum over its token accounts.
LEMMA HeldType ==
    ASSUME NEW y \in [Accounts -> 0..MaxHeld], NEW w \in Wallets
    PROVE  Held(y, w) \in Nat /\ HeldBy(y, w) = Held(y, w)
<1> DEFINE A == {a \in Accounts : OwnerOf[a] = w}
<1>1. IsFiniteSet(A)
  BY EpochAssumption, FS_Subset
<1>2. \A a \in A : y[a] \in Nat
  BY EpochAssumption
<1>3. Held(y, w) = SumFunctionOnSet(y, A) /\ HeldBy(y, w) = SumFunctionOnSet(y, A)
  BY DEF Held, HeldBy
<1> HIDE DEF A
<1>4. SumFunctionOnSet(y, A) \in Nat
  BY <1>1, <1>2, SumType
<1> QED BY <1>3, <1>4

\* What has been computed was computed from two reads and the prices.
LEMMA ReadTypes ==
    ASSUME EpochInv, holdings # None, positions # None, pc \in {"read", "computed", "published"}
    PROVE  /\ holdings \in [Wallets -> Nat] /\ positions \in [Wallets -> Nat]
           /\ market \in Markets /\ market # None
<1>1. MaxVault \in Nat /\ None \notin Markets
  BY EpochAssumption
<1>2. 0..MaxVault \subseteq Nat
  BY <1>1
<1>3. holdings \in [Wallets -> Nat] /\ positions \in [Wallets -> 0..MaxVault]
  BY DEF EpochInv, TypeOK
<1>4. positions \in [Wallets -> Nat]
  BY <1>2, <1>3
<1> QED BY <1>1, <1>3, <1>4 DEF EpochInv, SampledSince

\* Nothing has been read yet.
LEMMA EpochInit == ASSUME Init PROVE EpochInv
<1>1. TypeOK
  <2>1. 0 \in 0..MaxMoves
    BY EpochAssumption
  <2> QED BY <2>1 DEF Init, TypeOK
<1>2. NothingRead /\ SampledSince /\ ReadsAreTrue /\ EpochComputed /\ DistributorKept
  BY DEF Init, NothingRead, SampledSince, ReadsAreTrue, EpochComputed, DistributorKept
<1> QED BY <1>1, <1>2 DEF EpochInv

\* What holders do spoils no read but one of an epoch whose reads it came between.
LEMMA MoveKeeps == ASSUME EpochInv, Move PROVE EpochInv'
<1>1. /\ pc \in {"sample", "read"} /\ pc' = pc /\ moves \in Nat /\ moves' = moves + 1
      /\ moves < MaxMoves /\ MaxMoves \in Nat
      /\ market' = market /\ holdings' = holdings /\ positions' = positions
      /\ epoch' = epoch /\ distributor' = distributor /\ claimed' = claimed
  BY EpochAssumption DEF EpochInv, TypeOK, Move, reads
<1>2. /\ yieldfy' \in [Accounts -> 0..MaxHeld] /\ principal' \in [Wallets -> 0..MaxVault]
  BY DEF EpochInv, TypeOK, Move
<1>3. /\ skewed' \in BOOLEAN
      /\ ~skewed' => ~skewed
      /\ ~skewed' => (holdings = None /\ positions = None) \/ (holdings # None /\ positions # None)
  BY DEF EpochInv, TypeOK, Move
<1>4. /\ both \subseteq both' /\ both' \subseteq Wallets
      /\ market # None => Qualified(yieldfy', principal', market.price) \subseteq both'
  BY DEF EpochInv, TypeOK, Move, Qualified
<1>5. TypeOK'
  BY <1>1, <1>2, <1>3, <1>4 DEF EpochInv, TypeOK
<1>6. NothingRead'
  BY <1>1 DEF EpochInv, NothingRead
<1>7. SampledSince'
  BY <1>1, <1>4, EpochAssumption DEF EpochInv, SampledSince
<1>8. ReadsAreTrue'
  <2>1. ReadQualified' = ReadQualified
    BY <1>1 DEF ReadQualified
  <2>2. moves' # 0
    BY <1>1
  <2> QED BY <1>1, <1>3, <1>4, <2>1, <2>2 DEF EpochInv, ReadsAreTrue
<1>9. EpochComputed' /\ DistributorKept'
  BY <1>1 DEF EpochComputed, DistributorKept
<1> QED BY <1>5, <1>6, <1>7, <1>8, <1>9 DEF EpochInv

\* A run starts.
LEMMA RunEpochKeeps == ASSUME EpochInv, RunEpoch PROVE EpochInv'
<1>1. /\ pc = "off" /\ pc' = "sample" /\ yieldfy' = yieldfy /\ principal' = principal
      /\ moves' = moves /\ market' = market /\ holdings' = holdings /\ positions' = positions
      /\ epoch' = epoch /\ distributor' = distributor /\ claimed' = claimed
      /\ skewed' = skewed /\ both' = both
  BY DEF RunEpoch, chain, reads
<1>2. TypeOK'
  BY <1>1 DEF EpochInv, TypeOK
<1>3. NothingRead' /\ SampledSince' /\ EpochComputed' /\ DistributorKept'
  BY <1>1 DEF EpochInv, NothingRead, SampledSince, EpochComputed, DistributorKept
<1>4. ReadsAreTrue'
  BY <1>1 DEF EpochInv, NothingRead, ReadsAreTrue
<1> QED BY <1>2, <1>3, <1>4 DEF EpochInv

\* The prices are sampled, and the reads start.
LEMMA SampleMarketKeeps == ASSUME EpochInv, SampleMarket PROVE EpochInv'
<1>1. /\ pc = "sample" /\ pc' = "read" /\ yieldfy' = yieldfy /\ principal' = principal
      /\ moves' = moves /\ holdings' = holdings /\ positions' = positions
      /\ epoch' = epoch /\ distributor' = distributor /\ claimed' = claimed
      /\ skewed' = skewed /\ market' \in Markets
      /\ both' = Qualified(yieldfy, principal, market'.price)
  BY DEF SampleMarket, chain
<1>2. holdings = None /\ positions = None
  BY <1>1 DEF EpochInv, NothingRead
<1>3. both' \subseteq Wallets
  BY <1>1 DEF Qualified
<1>4. TypeOK'
  BY <1>1, <1>3 DEF EpochInv, TypeOK
<1>5. SampledSince'
  BY <1>1 DEF SampledSince
<1>6. NothingRead' /\ EpochComputed' /\ DistributorKept'
  BY <1>1 DEF NothingRead, EpochComputed, DistributorKept
<1>7. ReadsAreTrue'
  BY <1>1, <1>2 DEF ReadsAreTrue
<1> QED BY <1>4, <1>5, <1>6, <1>7 DEF EpochInv

\* The second read finds who qualifies now; with the first, which nothing has spoilt,
\* it says who does.
LEMMA FetchTokenHoldingsKeeps == ASSUME EpochInv, FetchTokenHoldings PROVE EpochInv'
<1>1. /\ pc = "read" /\ pc' = "read" /\ yieldfy' = yieldfy /\ principal' = principal
      /\ moves' = moves /\ holdings = None /\ positions' = positions
      /\ epoch' = epoch /\ distributor' = distributor /\ claimed' = claimed
      /\ skewed' = skewed /\ market' = market /\ both' = both
      /\ holdings' = [w \in Wallets |-> HeldBy(yieldfy, w)]
  BY DEF FetchTokenHoldings, chain
<1>2. \A w \in Wallets : holdings'[w] = Held(yieldfy, w) /\ holdings'[w] \in Nat
  BY <1>1, HeldType DEF EpochInv, TypeOK
<1>3. holdings' \in [Wallets -> Nat]
  BY <1>1, <1>2
<1>4. TypeOK'
  BY <1>1, <1>3 DEF EpochInv, TypeOK
<1>5. SampledSince'
  BY <1>1 DEF EpochInv, SampledSince
<1>6. NothingRead' /\ EpochComputed' /\ DistributorKept'
  BY <1>1 DEF NothingRead, EpochComputed, DistributorKept
<1>7. HoldingsAreCurrent'
  BY <1>1, <1>2 DEF HoldingsAreCurrent
<1>8. ASSUME ~skewed, positions # None PROVE ReadQualified' \subseteq both
  <2>1. positions = principal
    BY <1>1, <1>8 DEF EpochInv, ReadsAreTrue
  <2>2. ReadQualified' = Qualified(yieldfy, principal, market.price)
    BY <1>1, <1>2, <2>1 DEF ReadQualified, Qualified
  <2> QED BY <1>1, <2>2 DEF EpochInv, SampledSince
<1>9. ReadsAreTrue'
  BY <1>1, <1>7, <1>8 DEF EpochInv, ReadsAreTrue
<1> QED BY <1>4, <1>5, <1>6, <1>9 DEF EpochInv

\* The positions arrive, first or second.
LEMMA FetchVaultPositionsKeeps == ASSUME EpochInv, FetchVaultPositions PROVE EpochInv'
<1>1. /\ pc = "read" /\ pc' = "read" /\ yieldfy' = yieldfy /\ principal' = principal
      /\ moves' = moves /\ positions = None /\ holdings' = holdings
      /\ epoch' = epoch /\ distributor' = distributor /\ claimed' = claimed
      /\ skewed' = skewed /\ market' = market /\ both' = both
      /\ positions' = principal
  BY DEF FetchVaultPositions, chain
<1>2. TypeOK'
  BY <1>1 DEF EpochInv, TypeOK
<1>3. SampledSince'
  BY <1>1 DEF EpochInv, SampledSince
<1>4. NothingRead' /\ EpochComputed' /\ DistributorKept'
  BY <1>1 DEF NothingRead, EpochComputed, DistributorKept
<1>5. HoldingsAreCurrent' <=> HoldingsAreCurrent
  BY <1>1 DEF HoldingsAreCurrent
<1>6. ASSUME ~skewed, holdings # None PROVE ReadQualified' \subseteq both
  <2>1. HoldingsAreCurrent
    BY <1>1, <1>6 DEF EpochInv, ReadsAreTrue
  <2>2. ReadQualified' = Qualified(yieldfy, principal, market.price)
    BY <1>1, <2>1 DEF ReadQualified, Qualified, HoldingsAreCurrent
  <2> QED BY <1>1, <2>2 DEF EpochInv, SampledSince
<1>7. ReadsAreTrue'
  BY <1>1, <1>5, <1>6 DEF EpochInv, ReadsAreTrue
<1> QED BY <1>2, <1>3, <1>4, <1>7 DEF EpochInv

\* A read or a price fails, and the run with it.
LEMMA RunFailsKeeps == ASSUME EpochInv, RunFails PROVE EpochInv'
<1>1. /\ pc \in {"sample", "read"} /\ pc' = "off" /\ yieldfy' = yieldfy /\ principal' = principal
      /\ moves' = moves /\ positions' = None /\ holdings' = None
      /\ epoch' = epoch /\ distributor' = distributor /\ claimed' = claimed
      /\ skewed' = FALSE /\ market' = None /\ both' = {}
  BY DEF RunFails, chain
<1>2. TypeOK'
  BY <1>1 DEF EpochInv, TypeOK
<1>3. NothingRead' /\ SampledSince' /\ ReadsAreTrue' /\ EpochComputed' /\ DistributorKept'
  BY <1>1 DEF NothingRead, SampledSince, ReadsAreTrue, EpochComputed, DistributorKept
<1> QED BY <1>2, <1>3 DEF EpochInv

\* Scores, shares, floors and the tree are computed of what was read.
LEMMA ComputeKeeps == ASSUME EpochInv, Compute PROVE EpochInv'
<1>1. /\ pc = "read" /\ pc' = "computed" /\ yieldfy' = yieldfy /\ principal' = principal
      /\ moves' = moves /\ positions' = positions /\ holdings' = holdings
      /\ distributor' = distributor /\ claimed' = claimed
      /\ skewed' = skewed /\ market' = market /\ both' = both
      /\ holdings # None /\ positions # None
  BY DEF Compute, chain, reads
<1>2. PICK entries \in Claimable(holdings, positions, market) : epoch' = EpochOf(entries)
  BY DEF Compute
<1>3. GoodEpoch(epoch', holdings, positions, market)
  BY <1>1, <1>2, ReadTypes, EpochIsGood
<1>4. TypeOK'
  BY <1>1 DEF EpochInv, TypeOK
<1>5. NothingRead' /\ SampledSince' /\ DistributorKept'
  BY <1>1 DEF EpochInv, NothingRead, SampledSince, DistributorKept
<1>6. EpochComputed'
  BY <1>1, <1>3 DEF EpochComputed, GoodEpoch
<1>7. ReadQualified' = ReadQualified /\ (HoldingsAreCurrent' <=> HoldingsAreCurrent)
  BY <1>1 DEF ReadQualified, HoldingsAreCurrent
<1>8. ReadsAreTrue'
  BY <1>1, <1>7 DEF EpochInv, ReadsAreTrue
<1> QED BY <1>4, <1>5, <1>6, <1>8 DEF EpochInv

\* The distributor is funded with the total of the claims.
LEMMA PublishKeeps == ASSUME EpochInv, Publish PROVE EpochInv'
<1>1. /\ pc = "computed" /\ pc' = "published" /\ yieldfy' = yieldfy /\ principal' = principal
      /\ moves' = moves /\ positions' = positions /\ holdings' = holdings
      /\ epoch' = epoch /\ claimed' = claimed
      /\ skewed' = skewed /\ market' = market /\ both' = both
      /\ epoch.total # 0 /\ epoch.claims # {}
      /\ distributor' = [root |-> epoch.root, maxTotalClaim |-> epoch.total,
                         maxNumNodes |-> Cardinality(epoch.claims), funds |-> epoch.total]
  BY DEF Publish, chain, reads, NewDistributor, NumNodes
<1>2. /\ GoodEpoch(epoch, holdings, positions, market)
      /\ holdings \in [Wallets -> Nat] /\ positions \in [Wallets -> Nat] /\ market \in Markets
      /\ claimed = {}
  BY <1>1, ReadTypes DEF EpochInv, EpochComputed, TypeOK
<1>3. epoch.total \in Nat /\ Cardinality(epoch.claims) \in Nat \ {0}
  BY <1>1, <1>2, GoodTypes
<1>4. /\ distributor'.root = epoch.root /\ distributor'.maxTotalClaim = epoch.total
      /\ distributor'.maxNumNodes = Cardinality(epoch.claims) /\ distributor'.funds = epoch.total
  BY <1>1
<1>5. TypeOK'
  <2>1. distributor'.funds \in 0..epoch.total /\ distributor'.maxNumNodes > 0
    BY <1>3, <1>4
  <2> QED BY <1>1, <2>1 DEF EpochInv, TypeOK
<1>6. NothingRead' /\ SampledSince'
  BY <1>1 DEF EpochInv, NothingRead, SampledSince
<1>7. EpochComputed'
  BY <1>1 DEF EpochInv, EpochComputed, GoodEpoch
<1>8. DistributorKept'
  <2> DEFINE f == [c \in epoch.claims |-> c.entry.lamports]
  <2> HIDE DEF f
  <2>1. SumFunctionOnSet(f, claimed) = 0
    BY <1>2, SumOfNone
  <2>2. distributor'.funds + SumFunctionOnSet(f, claimed) = epoch.total
    BY <1>3, <1>4, <2>1
  <2> QED BY <1>1, <1>2, <1>3, <1>4, <2>2 DEF DistributorKept, f
<1>9. ReadQualified' = ReadQualified /\ (HoldingsAreCurrent' <=> HoldingsAreCurrent)
  BY <1>1 DEF ReadQualified, HoldingsAreCurrent
<1>10. ReadsAreTrue'
  BY <1>1, <1>9 DEF EpochInv, ReadsAreTrue
<1> QED BY <1>5, <1>6, <1>7, <1>8, <1>10 DEF EpochInv

\* A claim is paid from the distributor and marked.
LEMMA ClaimKeeps ==
    ASSUME EpochInv, pc = "published", NEW c \in epoch.claims, Claim(c) PROVE EpochInv'
<1> DEFINE f == [d \in epoch.claims |-> d.entry.lamports]
           now == SumFunctionOnSet(f, claimed)
           then == SumFunctionOnSet(f, claimed \cup {c})
<1>1. /\ pc' = "published" /\ yieldfy' = yieldfy /\ principal' = principal
      /\ moves' = moves /\ positions' = positions /\ holdings' = holdings
      /\ epoch' = epoch /\ claimed' = claimed \cup {c}
      /\ skewed' = skewed /\ market' = market /\ both' = both
      /\ distributor' = [distributor EXCEPT !.funds = @ - c.entry.lamports]
      /\ Payable(c)
  BY DEF Claim, chain, reads
<1>2. /\ GoodEpoch(epoch, holdings, positions, market)
      /\ holdings \in [Wallets -> Nat] /\ positions \in [Wallets -> Nat] /\ market \in Markets
  BY ReadTypes DEF EpochInv, EpochComputed
<1>3. c \in epoch.claims \ claimed
  BY <1>1 DEF Payable, ClaimStatuses
<1>4. then = now + c.entry.lamports
  BY <1>2, <1>3, RestIsPayable DEF EpochInv
<1>5. DistributorKept
  BY DEF EpochInv
<1>6. /\ epoch.total \in Nat /\ c.entry.lamports \in Nat /\ IsFiniteSet(epoch.claims)
      /\ \A d \in epoch.claims : f[d] \in Nat
  BY <1>2, GoodTypes
<1>7. now \in Nat
  <2>1. IsFiniteSet(claimed) /\ \A d \in claimed : f[d] \in Nat
    BY <1>5, <1>6, FS_Subset DEF DistributorKept
  <2> HIDE DEF f
  <2> QED BY <2>1, SumType
<1>8. /\ distributor.funds \in Nat /\ distributor.funds + now = epoch.total
      /\ c.entry.lamports <= distributor.funds
  BY <1>1, <1>5 DEF DistributorKept, Payable
<1>9. /\ distributor'.root = distributor.root
      /\ distributor'.maxTotalClaim = distributor.maxTotalClaim
      /\ distributor'.maxNumNodes = distributor.maxNumNodes
  BY <1>1
<1>10. distributor'.funds = distributor.funds - c.entry.lamports
  BY <1>1, <1>5 DEF DistributorKept
<1> HIDE DEF f, now, then
<1>11. /\ distributor'.funds \in Nat /\ distributor'.funds + then = epoch.total
       /\ distributor'.funds \in 0..epoch.total
  BY <1>4, <1>6, <1>7, <1>8, <1>10
<1>12. TypeOK'
  BY <1>1, <1>9, <1>11 DEF EpochInv, TypeOK
<1>13. NothingRead' /\ SampledSince'
  BY <1>1 DEF EpochInv, NothingRead, SampledSince
<1>14. EpochComputed'
  BY <1>1 DEF EpochInv, EpochComputed, GoodEpoch
<1>15. DistributorKept'
  BY <1>1, <1>5, <1>9, <1>11 DEF DistributorKept, f, then
<1>16. ReadQualified' = ReadQualified /\ (HoldingsAreCurrent' <=> HoldingsAreCurrent)
  BY <1>1 DEF ReadQualified, HoldingsAreCurrent
<1>17. ReadsAreTrue'
  BY <1>1, <1>16 DEF EpochInv, ReadsAreTrue
<1> QED BY <1>12, <1>13, <1>14, <1>15, <1>17 DEF EpochInv

\* Nothing happens.
LEMMA NothingKeeps == ASSUME EpochInv, UNCHANGED vars PROVE EpochInv'
BY DEF vars, chain, reads, EpochInv, TypeOK, NothingRead, SampledSince, ReadsAreTrue,
       EpochComputed, DistributorKept, ReadQualified, HoldingsAreCurrent, GoodEpoch

\* The epoch's invariant, over every run of the indexer, whatever the holders do.
THEOREM EpochInvariance == Spec => []EpochInv
<1>1. Init => EpochInv
  BY EpochInit
<1>2. EpochInv /\ [Next]_vars => EpochInv'
  <2> SUFFICES ASSUME EpochInv, [Next]_vars PROVE EpochInv'
    OBVIOUS
  <2>1. CASE Move
    BY <2>1, MoveKeeps
  <2>2. CASE RunEpoch
    BY <2>2, RunEpochKeeps
  <2>3. CASE SampleMarket
    BY <2>3, SampleMarketKeeps
  <2>4. CASE FetchTokenHoldings
    BY <2>4, FetchTokenHoldingsKeeps
  <2>5. CASE FetchVaultPositions
    BY <2>5, FetchVaultPositionsKeeps
  <2>6. CASE RunFails
    BY <2>6, RunFailsKeeps
  <2>7. CASE Compute
    BY <2>7, ComputeKeeps
  <2>8. CASE Publish
    BY <2>8, PublishKeeps
  <2>9. ASSUME pc = "published", NEW c \in epoch.claims, Claim(c) PROVE EpochInv'
    BY <2>9, ClaimKeeps
  <2>10. CASE UNCHANGED vars
    BY <2>10, NothingKeeps
  <2> QED BY <2>1, <2>2, <2>3, <2>4, <2>5, <2>6, <2>7, <2>8, <2>9, <2>10 DEF Next
<1> QED BY <1>1, <1>2, PTL DEF Spec

-----------------------------------------------------------------------------
(* What follows from it. *)

\* Where there are claims there is an epoch, computed of both reads.
LEMMA NoClaimsYet ==
    ASSUME EpochInv, Claims # {}
    PROVE  /\ pc \in {"computed", "published"}
           /\ holdings \in [Wallets -> Nat] /\ positions \in [Wallets -> Nat] /\ market \in Markets
           /\ holdings # None /\ positions # None
           /\ GoodEpoch(epoch, holdings, positions, market)
<1>1. pc \in {"computed", "published"}
  BY DEF EpochInv, TypeOK, Claims, NoEpoch
<1> QED BY <1>1, ReadTypes DEF EpochInv, EpochComputed

\* The invariant implies what the run checks of every epoch,
LEMMA InvEpoch == ASSUME EpochInv PROVE EpochInvariant
<1>1. WithinPool
  BY NoClaimsYet, PoolIsKept DEF WithinPool, Claims
<1>2. EveryoneCanBePaid
  <2> SUFFICES ASSUME pc = "published", NEW c \in Claims \ claimed PROVE Payable(c)
    BY DEF EveryoneCanBePaid
  <2>1. GoodEpoch(epoch, holdings, positions, market) /\ DistributorKept
    BY DEF EpochInv, EpochComputed
  <2> QED BY <2>1, NoClaimsYet, RestIsPayable DEF Claims
<1>3. EarnedAtOnce
  <2> SUFFICES ASSUME ~skewed, NEW c \in Claims PROVE c.entry.wallet \in both
    BY DEF EarnedAtOnce
  <2>1. /\ c.entry.wallet \in Paid(holdings, positions, market)
        /\ holdings # None /\ positions # None
        /\ holdings \in [Wallets -> Nat] /\ positions \in [Wallets -> Nat] /\ market \in Markets
    BY NoClaimsYet DEF GoodEpoch, Claims
  <2>2. c.entry.wallet \in ReadQualified
    BY <2>1, PaidQualified, ScoresType DEF ReadQualified
  <2> QED BY <2>1, <2>2 DEF EpochInv, ReadsAreTrue
<1> QED BY <1>1, <1>2, <1>3 DEF EpochInv, EpochInvariant

\* and that having more earns no less.
LEMMA InvMoreEarnsMore == ASSUME EpochInv PROVE MoreEarnsMore
<1>1. \A c, d \in Claims : c.entry.wallet = d.entry.wallet => c = d
  BY NoClaimsYet DEF GoodEpoch, Claims
<1>2. ASSUME pc \in {"computed", "published"}, moves = 0, NEW v \in Wallets, NEW w \in Wallets,
             Held(yieldfy, v) <= Held(yieldfy, w), principal[v] <= principal[w]
      PROVE  Amount(v) <= Amount(w)
  <2>1. /\ holdings # None /\ positions # None
        /\ GoodEpoch(epoch, holdings, positions, market)
        /\ HoldingsAreCurrent /\ positions = principal
    BY <1>2 DEF EpochInv, EpochComputed, ReadsAreTrue
  <2>2. /\ holdings \in [Wallets -> Nat] /\ positions \in [Wallets -> Nat] /\ market \in Markets
    BY <1>2, <2>1, ReadTypes
  <2>3. holdings[v] <= holdings[w] /\ positions[v] <= positions[w]
    BY <1>2, <2>1 DEF HoldingsAreCurrent
  <2> QED BY <2>1, <2>2, <2>3, SharesLess
<1> QED BY <1>1, <1>2 DEF MoreEarnsMore

\* Of every epoch, with any number of wallets: the claims are within the pool and
\* short of it by less than a lamport each, all of them can be paid in any order, and,
\* if nothing moved between the reads, to who had earned them at one moment.
THEOREM EpochsAreSound == Spec => []EpochInvariant
BY EpochInvariance, InvEpoch, PTL

\* Of every epoch, no wallet has two entries, and if nobody moved, having at least as
\* much on both sides earns at least as much.
THEOREM SharesAreFair == Spec => []MoreEarnsMore
BY EpochInvariance, InvMoreEarnsMore, PTL

=============================================================================
