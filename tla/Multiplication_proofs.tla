----------------------- MODULE Multiplication_proofs -----------------------
(***************************************************************************)
(* The two ends of a multiplication stay correlated through the key        *)
(* generation and every fast refresh; over a correlated pair of states a   *)
(* transfer shares the product of choice bit and correlation, whatever the *)
(* hashes return; and a multiplication nothing arrived altered in is       *)
(* accepted at every check and shares the product of the two inputs.  Of   *)
(* what did arrive altered, an accepted run hides only the sender's gamma. *)
(* The proofs of the base OT are sound over every group of prime order.    *)
(***************************************************************************)
EXTENDS Multiplication, BinaryField_proofs, TLAPS

\* What is assumed of the hash, which is an operator over every input: no module can
\* ASSUME it, as TLC would have to evaluate it.
HashesAreNumbers == \A inputs : Hash(inputs) \in Nat

\* None and Aborted are no values of the variables: they stand for an Option that is None
\* and for a call that returned an error.
MarkersAreNoData ==
  /\ None # Aborted
  /\ \A g, m, o : /\ [public_gadget |-> g, masks |-> m, ote_sender |-> o] \notin {None, Aborted}
                  /\ [public_gadget |-> g, masks |-> m, ote_receiver |-> o] \notin {None, Aborted}
  /\ \A b, c, e, t, h : [b |-> b, choice_bits |-> c, extended_seeds |-> e, chi_tilde |-> t, chi_hat |-> h] # None
  /\ \A u, x, t : [u |-> u, verify_x |-> x, verify_t |-> t] # None
  /\ \A k, o : [kind |-> k] # None /\ [kind |-> k, output |-> o] # None

\* A mask leaves as many seeds as there were.
LEMMA MaskedDomains ==
  ASSUME NEW r, NEW mask, NEW me, NEW them
  PROVE  /\ DOMAIN MaskedReceiver(r, mask, me, them).seeds0 = DOMAIN r.seeds0
         /\ DOMAIN MaskedReceiver(r, mask, me, them).seeds1 = DOMAIN r.seeds1
BY DEF MaskedReceiver, WithRows

\* A pair of OT extension states that is correlated is so after both ends of a fast
\* refresh have masked theirs (refresh.rs 1071-1156), for every number of rows, every
\* mask and every hash: the sender flips a bit of its correlation exactly where the
\* receiver swaps the seeds, and the two append the same.
THEOREM MasksKeepTheCorrelation ==
  ASSUME NEW s, NEW r, NEW mask, NEW from, NEW to, Correlated(s, r),
         Row \subseteq DOMAIN r.seeds0, Row \subseteq DOMAIN r.seeds1
  PROVE  Correlated(MaskedSender(s, mask, from, to), MaskedReceiver(r, mask, to, from))
<1> DEFINE flipped == {i \in Row : BPrime(mask, i, from, to)}
           ms == MaskedSender(s, mask, from, to)
           mr == MaskedReceiver(r, mask, to, from)
<1>1. ms.correlation = SymDiff(s.correlation, flipped)
  BY DEF MaskedSender
<1>2. SUFFICES ASSUME NEW i \in Row
               PROVE  ms.seeds[i] = IF i \in ms.correlation THEN mr.seeds1[i] ELSE mr.seeds0[i]
  BY DEF Correlated, CorrelatedAt
<1>3. i \in ms.correlation <=> (i \in s.correlation <=> ~BPrime(mask, i, from, to))
  BY <1>1 DEF SymDiff
<1> DEFINE pad(b) == RPrime(b, mask, i, from, to)
<1>4. ms.seeds[i] = s.seeds[i] \o (IF i \in ms.correlation THEN pad(TRUE) ELSE pad(FALSE))
  BY DEF MaskedSender, RPrime
<1>5. mr.seeds0[i] = (IF BPrime(mask, i, from, to) THEN r.seeds1[i] ELSE r.seeds0[i]) \o pad(FALSE)
  BY DEF MaskedReceiver, WithRows
<1>6. mr.seeds1[i] = (IF BPrime(mask, i, from, to) THEN r.seeds0[i] ELSE r.seeds1[i]) \o pad(TRUE)
  BY DEF MaskedReceiver, WithRows
<1>7. s.seeds[i] = IF i \in s.correlation THEN r.seeds1[i] ELSE r.seeds0[i]
  BY DEF Correlated, CorrelatedAt
<1> HIDE DEF ms, mr, pad
<1> QED
  BY <1>3, <1>4, <1>5, <1>6, <1>7
-----------------------------------------------------------------------------
\* The rows the sender computes from a message of the receiver are the receiver's own,
\* and in the rows its correlation names with the choice bits added.
LEMMA RowsDifferByChoice ==
  ASSUME NEW s, NEW r, NEW sid, NEW x, NEW row_bits, Correlated(s, r), NEW i \in Row
  PROVE  SenderRows(s, sid, OTEMessage(r, sid, x, row_bits).u)[i] =
           IF i \in s.correlation THEN SymDiff(ReceiverRows(r, sid)[i], row_bits[i])
           ELSE ReceiverRows(r, sid)[i]
<1> DEFINE u == OTEMessage(r, sid, x, row_bits).u
           prg0 == Prg(sid, i, r.seeds0[i])
           prg1 == Prg(sid, i, r.seeds1[i])
<1>1. u[i] = SymDiff(SymDiff(prg0, prg1), row_bits[i])
  BY DEF OTEMessage, ReceiverRows
<1>2. ReceiverRows(r, sid)[i] = prg0
  BY DEF ReceiverRows
<1>3. SenderRows(s, sid, u)[i] =
        SymDiff(IF i \in s.correlation THEN u[i] ELSE {}, Prg(sid, i, s.seeds[i]))
  BY DEF SenderRows
<1>4. Prg(sid, i, s.seeds[i]) = IF i \in s.correlation THEN prg1 ELSE prg0
  BY DEF Correlated, CorrelatedAt
<1>5. \A a, b, c : SymDiff(SymDiff(SymDiff(a, b), c), b) = SymDiff(a, c)
  BY DEF SymDiff
<1>6. \A a : SymDiff({}, a) = a
  BY DEF SymDiff
<1> HIDE DEF u, prg0, prg1
<1>7. ASSUME i \in s.correlation
      PROVE  SenderRows(s, sid, u)[i] = SymDiff(ReceiverRows(r, sid)[i], row_bits[i])
  BY <1>1, <1>2, <1>3, <1>4, <1>5, <1>7
<1>8. ASSUME i \notin s.correlation
      PROVE  SenderRows(s, sid, u)[i] = ReceiverRows(r, sid)[i]
  BY <1>2, <1>3, <1>4, <1>6, <1>8
<1> QED BY <1>7, <1>8 DEF u

\* Adding is inverse to subtracting, modulo Q.
LEMMA ScalarsCancel ==
  ASSUME NEW a \in Scalar, NEW b \in Scalar, NEW c \in Scalar
  PROVE  /\ Add(a, Sub(0, a)) = 0
         /\ Add(a, Add(Add(Sub(b, a), c), Sub(0, b))) = c
<1>1. \A n \in 0..(2 * Q - 1) : n % Q = IF n < Q THEN n ELSE n - Q
  BY GroupAssumption
<1>2. \A m, n \in Scalar : /\ Add(m, n) = IF m + n < Q THEN m + n ELSE m + n - Q
                           /\ Add(m, n) \in Scalar
  BY <1>1, GroupAssumption DEF Add, Scalar
<1>3. \A m, n \in Scalar : /\ Sub(m, n) = IF m < n THEN m + Q - n ELSE m - n
                           /\ Sub(m, n) \in Scalar
  BY <1>1, GroupAssumption DEF Sub, Scalar
<1>4. 0 \in Scalar
  BY GroupAssumption DEF Scalar
<1> DEFINE d == Sub(b, a)
           e == Add(d, c)
           f == Sub(0, b)
           g == Add(e, f)
<1>5. d \in Scalar /\ d = IF b < a THEN b + Q - a ELSE b - a
  BY <1>3
<1>6. e \in Scalar /\ e = IF d + c < Q THEN d + c ELSE d + c - Q
  BY <1>2, <1>5
<1>7. f \in Scalar /\ f = IF 0 < b THEN 0 + Q - b ELSE 0 - b
  BY <1>3, <1>4
<1>8. g \in Scalar /\ g = IF e + f < Q THEN e + f ELSE e + f - Q
  BY <1>2, <1>6, <1>7
<1>9. Add(a, g) = IF a + g < Q THEN a + g ELSE a + g - Q
  BY <1>2, <1>8
<1> HIDE DEF d, e, f, g
<1>10. Add(a, g) = c
  BY <1>5, <1>6, <1>7, <1>8, <1>9, GroupAssumption DEF Scalar
<1>11. Add(a, Sub(0, a)) = 0
  <2>1. Sub(0, a) \in Scalar /\ Sub(0, a) = IF 0 < a THEN 0 + Q - a ELSE 0 - a
    BY <1>3, <1>4
  <2>2. Add(a, Sub(0, a)) = IF a + Sub(0, a) < Q THEN a + Sub(0, a) ELSE a + Sub(0, a) - Q
    BY <1>2, <2>1
  <2> QED BY <2>1, <2>2, GroupAssumption DEF Scalar
<1> QED BY <1>10, <1>11 DEF d, e, f, g

\* The two pads of a column add up to the correlation where the column is chosen, once the
\* rows of the two ends differ by the choice bits where the correlation has a one.
LEMMA PadsShareTheProduct ==
  ASSUME NEW s, s.correlation \subseteq Row, HashesAreNumbers,
         NEW sid, NEW iteration, NEW correlation \in Scalar, NEW j \in Column,
         NEW choice_bits \in SUBSET Column, NEW noise \in SUBSET Nat, NEW q, NEW t,
         \A i \in Row : q[i] = IF i \in s.correlation
                               THEN SymDiff(t[i], Extended(choice_bits, noise)) ELSE t[i]
  PROVE  Add(SenderPad(q, sid, j, iteration),
             ReceiverPad(t, sid, j, iteration, choice_bits, Tau(s, q, sid, j, iteration, correlation)))
           = IF j \in choice_bits THEN correlation ELSE 0
<1> DEFINE x == Extended(choice_bits, noise)
           mine == TransposedColumn(q, j)
           theirs == TransposedColumn(t, j)
           rand(column) == Randomize(sid, j, iteration, column)
           tau == Tau(s, q, sid, j, iteration, correlation)
<1>1. j \in x <=> j \in choice_bits
  BY FieldAssumption DEF Extended, Shift, Column, BATCH_SIZE
<1>2. \A i \in Row : q[i] = IF i \in s.correlation THEN SymDiff(t[i], x) ELSE t[i]
  OBVIOUS
<1>3. \A column : rand(column) \in Scalar
  BY GroupAssumption DEF HashesAreNumbers, Randomize, HashAsScalar, Scalar
<1>4. /\ SenderPad(q, sid, j, iteration) = rand(mine)
      /\ tau = Add(Sub(rand(SymDiff(mine, s.correlation)), rand(mine)), correlation)
      /\ ReceiverPad(t, sid, j, iteration, choice_bits, tau) =
           IF j \in choice_bits THEN Add(tau, Sub(0, rand(theirs))) ELSE Sub(0, rand(theirs))
  BY DEF SenderPad, Tau, ReceiverPad
<1> HIDE DEF x, tau
<1>5. ASSUME j \in choice_bits PROVE SymDiff(mine, s.correlation) = theirs
  BY <1>1, <1>2, <1>5 DEF TransposedColumn, SymDiff
<1>6. ASSUME j \notin choice_bits PROVE mine = theirs
  BY <1>1, <1>2, <1>6 DEF TransposedColumn, SymDiff
<1> HIDE DEF mine, theirs, rand
<1>7. Add(SenderPad(q, sid, j, iteration), ReceiverPad(t, sid, j, iteration, choice_bits, tau))
        = IF j \in choice_bits THEN correlation ELSE 0
  <2>1. CASE j \in choice_bits
    BY <2>1, <1>3, <1>4, <1>5, ScalarsCancel
  <2>2. CASE j \notin choice_bits
    BY <2>2, <1>3, <1>4, <1>6, ScalarsCancel
  <2> QED BY <2>1, <2>2
<1> QED BY <1>7 DEF tau

\* A transfer over a correlated pair of states (OTESender::run and
\* OTEReceiver::run_phase2, ot/extension.rs) leaves the two with scalars that add up to
\* the sender's correlation where the receiver chose it and to nothing elsewhere: for
\* every column, oracle with numbers for values, choice, and number of rows.
THEOREM TransferSharesTheProduct ==
  ASSUME NEW s, NEW r, Correlated(s, r), s.correlation \subseteq Row,
         HashesAreNumbers,
         NEW sid, NEW iteration, NEW correlation \in Scalar, NEW j \in Column,
         NEW choice_bits \in SUBSET Column, NEW noise \in SUBSET Nat
  PROVE  LET x == Extended(choice_bits, noise)
             t == ReceiverRows(r, sid)
             q == SenderRows(s, sid, OTEMessage(r, sid, x, [i \in Row |-> x]).u)
             tau == Tau(s, q, sid, j, iteration, correlation)
         IN  Add(SenderPad(q, sid, j, iteration),
                 ReceiverPad(t, sid, j, iteration, choice_bits, tau))
               = IF j \in choice_bits THEN correlation ELSE 0
<1> DEFINE x == Extended(choice_bits, noise)
           t == ReceiverRows(r, sid)
           q == SenderRows(s, sid, OTEMessage(r, sid, x, [i \in Row |-> x]).u)
<1>1. \A i \in Row : q[i] = IF i \in s.correlation THEN SymDiff(t[i], x) ELSE t[i]
  <2> TAKE i \in Row
  <2>1. [k \in Row |-> x][i] = x
    OBVIOUS
  <2> QED BY <2>1, RowsDifferByChoice
<1> HIDE DEF t, q
<1>2. Add(SenderPad(q, sid, j, iteration),
          ReceiverPad(t, sid, j, iteration, choice_bits, Tau(s, q, sid, j, iteration, correlation)))
        = IF j \in choice_bits THEN correlation ELSE 0
  BY <1>1, PadsShareTheProduct
<1> QED BY <1>2 DEF t, q
-----------------------------------------------------------------------------
(* The check of the extension.                                             *)

\* A block is cut out where it stands.
LEMMA BlockIs ==
  ASSUME NEW bits \in SUBSET Nat, NEW k \in Nat
  PROVE  Block(bits, k) = {x \in 0..(OT_SECURITY - 1) : x + k * OT_SECURITY \in bits}
<1> DEFINE d == OT_SECURITY
           n == k * d
<1>1. d \in Nat /\ d >= 1 /\ n \in Nat /\ n = d * k
  BY Degree
<1>2. \A y \in Nat : y \div d = k <=> n <= y /\ y < n + d
  BY <1>1, DivIs
<1>3. Block(bits, k) = {y - n : y \in {z \in bits : z \div d = k}}
  BY DEF Block
<1> HIDE DEF d, n
<1>4. ASSUME NEW x, x \in Block(bits, k) PROVE x \in 0..(d - 1) /\ x + n \in bits
  <2>1. PICK y \in bits : y \div d = k /\ x = y - n
    BY <1>3, <1>4
  <2>2. y \in Nat /\ n <= y /\ y < n + d
    BY <1>2, <2>1
  <2>3. x \in 0..(d - 1) /\ x + n = y
    BY <1>1, <2>1, <2>2
  <2> QED BY <2>1, <2>3
<1>5. ASSUME NEW x \in 0..(d - 1), x + n \in bits PROVE x \in Block(bits, k)
  <2>1. x + n \in Nat /\ n <= x + n /\ x + n < n + d /\ x = (x + n) - n
    BY <1>1
  <2>2. (x + n) \div d = k
    BY <1>2, <2>1
  <2> QED BY <1>3, <1>5, <2>1, <2>2
<1> QED BY <1>4, <1>5 DEF d, n

\* The check's sum is linear: the sum of a difference is the difference of the sums.
LEMMA WeightedSumLinear ==
  ASSUME NEW a \in SUBSET Nat, NEW b \in SUBSET Nat, NEW chi,
         chi[1] \in FieldElement, chi[2] \in FieldElement
  PROVE  WeightedSum(SymDiff(a, b), chi) = SymDiff(WeightedSum(a, chi), WeightedSum(b, chi))
<1> DEFINE c == SymDiff(a, b)
<1>1. c \in SUBSET Nat
  BY DEF SymDiff
<1>2. ASSUME NEW k \in {0, 1, 2}
      PROVE  /\ Block(c, k) = SymDiff(Block(a, k), Block(b, k))
             /\ Block(a, k) \in FieldElement /\ Block(b, k) \in FieldElement
             /\ Block(c, k) \in FieldElement
  <2>1. /\ Block(a, k) = {x \in 0..(OT_SECURITY - 1) : x + k * OT_SECURITY \in a}
        /\ Block(b, k) = {x \in 0..(OT_SECURITY - 1) : x + k * OT_SECURITY \in b}
        /\ Block(c, k) = {x \in 0..(OT_SECURITY - 1) : x + k * OT_SECURITY \in c}
    <3>1. k \in Nat
      OBVIOUS
    <3> HIDE DEF c
    <3> QED BY <1>1, <3>1, BlockIs
  <2> QED BY <2>1 DEF SymDiff, FieldElement
<1> HIDE DEF c
<1>3. ASSUME NEW k \in {0, 1, 2}, NEW e \in FieldElement
      PROVE  FieldMul(Block(c, k), e) = SymDiff(FieldMul(Block(a, k), e), FieldMul(Block(b, k), e))
  <2>1. /\ FieldMul(Block(c, k), e) = Product(Block(c, k), e)
        /\ FieldMul(Block(a, k), e) = Product(Block(a, k), e)
        /\ FieldMul(Block(b, k), e) = Product(Block(b, k), e)
    BY <1>2, FieldMulComputesTheProduct
  <2>2. Block(a, k) \in Bits /\ Block(b, k) \in Bits /\ e \in Bits
    BY <1>2, Degree
  <2> QED BY <1>2, <2>1, <2>2, ProductLinear
<1> DEFINE A(k) == FieldMul(Block(a, k - 1), chi[k])
           B(k) == FieldMul(Block(b, k - 1), chi[k])
           C(k) == FieldMul(Block(c, k - 1), chi[k])
<1>4. C(1) = SymDiff(A(1), B(1)) /\ C(2) = SymDiff(A(2), B(2))
  BY <1>3
<1>5. /\ WeightedSum(a, chi) = SymDiff(SymDiff(A(1), A(2)), Block(a, 2))
      /\ WeightedSum(b, chi) = SymDiff(SymDiff(B(1), B(2)), Block(b, 2))
      /\ WeightedSum(c, chi) = SymDiff(SymDiff(C(1), C(2)), Block(c, 2))
  BY DEF WeightedSum
<1>6. Block(c, 2) = SymDiff(Block(a, 2), Block(b, 2))
  BY <1>2
<1> HIDE DEF A, B, C
<1>7. \A p, q, r, s, t, u : SymDiff(SymDiff(SymDiff(p, q), SymDiff(r, s)), SymDiff(t, u)) =
        SymDiff(SymDiff(SymDiff(p, r), t), SymDiff(SymDiff(q, s), u))
  BY DEF SymDiff
<1>8. WeightedSum(c, chi) = SymDiff(WeightedSum(a, chi), WeightedSum(b, chi))
  BY <1>4, <1>5, <1>6, <1>7
<1> QED BY <1>8 DEF c

LEMMA ChallengeTypes ==
  ASSUME NEW sid, NEW u
  PROVE  Challenges(sid, u)[1] \in FieldElement /\ Challenges(sid, u)[2] \in FieldElement
<1>1. Challenges(sid, u)[1] = Chi(sid, 1, u) /\ Challenges(sid, u)[2] = Chi(sid, 2, u)
  BY DEF Challenges
<1>2. \A k : Chi(sid, k, u) \subseteq 0..(OT_SECURITY - 1)
  BY DEF Chi
<1> QED BY <1>1, <1>2 DEF FieldElement

\* What the check of the extension sees of a receiver that put other bits than x into its
\* rows (extension.rs 288-375): the weighted sums of the differences, in the rows where the
\* sender's correlation has a one, and nothing else.  In particular a receiver that used
\* one x passes, whatever the hashes return.
THEOREM CheckSeesWeightedDifferences ==
  ASSUME NEW s, NEW r, Correlated(s, r), s.correlation \subseteq Row,
         NEW sid, NEW x \in SUBSET Nat, NEW row_bits \in [Row -> SUBSET Nat]
  PROVE  LET data == OTEMessage(r, sid, x, row_bits)
             chi == Challenges(sid, data.u)
         IN  OTEConsistent(s, SenderRows(s, sid, data.u), data.verify_x, data.verify_t, chi) <=>
               \A i \in s.correlation : WeightedSum(SymDiff(row_bits[i], x), chi) = {}
<1> DEFINE data == OTEMessage(r, sid, x, row_bits)
           chi == Challenges(sid, data.u)
           q == SenderRows(s, sid, data.u)
           t == ReceiverRows(r, sid)
           sum(bits) == WeightedSum(bits, chi)
<1>1. chi[1] \in FieldElement /\ chi[2] \in FieldElement
  BY ChallengeTypes
<1>2. data.verify_x = sum(x) /\ \A i \in Row : data.verify_t[i] = sum(t[i])
  BY DEF OTEMessage
<1>3. \A i \in Row : q[i] = IF i \in s.correlation THEN SymDiff(t[i], row_bits[i]) ELSE t[i]
  BY RowsDifferByChoice
<1>4. \A i \in Row : t[i] \in SUBSET Nat /\ row_bits[i] \in SUBSET Nat
  BY DEF ReceiverRows, Prg
<1>5. OTEConsistent(s, q, data.verify_x, data.verify_t, chi) <=>
        \A i \in Row : sum(q[i]) = SymDiff(data.verify_t[i], IF i \in s.correlation THEN data.verify_x ELSE {})
  BY DEF OTEConsistent
<1> HIDE DEF chi
<1>6. \A a, b \in SUBSET Nat : sum(SymDiff(a, b)) = SymDiff(sum(a), sum(b))
  BY <1>1, WeightedSumLinear
<1> HIDE DEF sum, data, q, t
<1>7. ASSUME NEW i \in Row
      PROVE  (sum(q[i]) = SymDiff(data.verify_t[i], IF i \in s.correlation THEN data.verify_x ELSE {}))
               <=> (i \in s.correlation => sum(SymDiff(row_bits[i], x)) = {})
  <2>1. CASE i \notin s.correlation
    BY <1>2, <1>3, <2>1, XorLaws
  <2>2. CASE i \in s.correlation
    <3>1. sum(q[i]) = SymDiff(sum(t[i]), sum(row_bits[i]))
      BY <1>3, <1>4, <1>6, <2>2
    <3>2. sum(SymDiff(row_bits[i], x)) = SymDiff(sum(row_bits[i]), sum(x))
      BY <1>4, <1>6
    <3>3. \A a, b, c : SymDiff(a, b) = SymDiff(a, c) <=> SymDiff(b, c) = {}
      BY DEF SymDiff
    <3> QED BY <1>2, <2>2, <3>1, <3>2, <3>3
  <2> QED BY <2>1, <2>2
<1>8. OTEConsistent(s, q, data.verify_x, data.verify_t, chi) <=>
        \A i \in s.correlation : sum(SymDiff(row_bits[i], x)) = {}
  BY <1>5, <1>7
<1> QED BY <1>8 DEF sum, chi, data, q

-----------------------------------------------------------------------------
\* Scalars are closed under the operations on them.
LEMMA ScalarFacts ==
  /\ Q \in Nat /\ Q > 2 /\ 0 \in Scalar /\ 1 \in Scalar /\ Scalar \subseteq Nat
  /\ \A a, b \in Scalar : Add(a, b) \in Scalar /\ Sub(a, b) \in Scalar /\ Mul(a, b) \in Scalar
BY GroupAssumption DEF Scalar, Add, Sub, Mul

LEMMA AddFacts ==
  ASSUME NEW a \in Scalar, NEW b \in Scalar
  PROVE  /\ Add(a, b) = IF a + b < Q THEN a + b ELSE a + b - Q
         /\ Sub(a, b) = IF a < b THEN a + Q - b ELSE a - b
         /\ Add(Sub(a, b), b) = a /\ Sub(Add(a, b), b) = a
         /\ Add(a, b) = Add(b, a)
<1>1. \A n \in 0..(2 * Q - 1) : n % Q = IF n < Q THEN n ELSE n - Q
  BY GroupAssumption
<1>2. \A m, n \in Scalar : Add(m, n) = IF m + n < Q THEN m + n ELSE m + n - Q
  BY <1>1, GroupAssumption DEF Add, Scalar
<1>3. \A m, n \in Scalar : Sub(m, n) = IF m < n THEN m + Q - n ELSE m - n
  BY <1>1, GroupAssumption DEF Sub, Scalar
<1>4. Add(a, b) \in Scalar /\ Sub(a, b) \in Scalar
  BY ScalarFacts
<1>5. Add(Sub(a, b), b) = IF Sub(a, b) + b < Q THEN Sub(a, b) + b ELSE Sub(a, b) + b - Q
  BY <1>2, <1>4
<1>6. Sub(Add(a, b), b) = IF Add(a, b) < b THEN Add(a, b) + Q - b ELSE Add(a, b) - b
  BY <1>3, <1>4
<1> QED BY <1>2, <1>3, <1>5, <1>6, GroupAssumption DEF Scalar

LEMMA DrawnType ==
  ASSUME HashesAreNumbers, NEW t, NEW what, NEW i
  PROVE  /\ Drawn(t, what, i) \in Scalar
         /\ DrawnPoint(t, what, i) \in Scalar \ {0}
<1>1. Drawn(t, what, i) \in Scalar
  BY GroupAssumption DEF HashesAreNumbers, Drawn, HashAsScalar, Scalar
<1>2. Drawn(t, what, i) % (Q - 1) \in 0..(Q - 2)
  BY <1>1, GroupAssumption DEF Scalar
<1> QED BY <1>1, <1>2, GroupAssumption DEF DrawnPoint, Scalar

LEMMA BaseHType ==
  ASSUME HashesAreNumbers, NEW sid, NEW i, NEW seed
  PROVE  BaseH(sid, i, seed) \in Scalar \ {0}
<1> DEFINE h == Hash(<<RowSid(sid, i), seed>>)
<1>1. h \in Nat
  BY DEF HashesAreNumbers
<1> HIDE DEF h
<1>2. h % (Q - 1) \in 0..(Q - 2)
  BY <1>1, GroupAssumption
<1> QED BY <1>2, GroupAssumption DEF BaseH, Scalar, h

\* An honest message of the base OT encrypts its bit.
LEMMA HonestEncProof ==
  ASSUME NEW sid, NEW h \in Scalar, NEW r \in Scalar, NEW bit \in BOOLEAN, NEW coins
  PROVE  LET proof == EncProof(sid, h, r, bit, coins)
         IN  /\ proof.proof0.base_h = h /\ proof.proof1.base_h = h
             /\ PointV(proof) = (IF bit THEN Add(r, h) ELSE r)
             /\ PointV(proof) = Add(proof.proof1.point_u, h)
             /\ proof = [proof EXCEPT !.challenge0 = @]
<1> DEFINE proof == EncProof(sid, h, r, bit, coins)
<1>0. Mul(Generator, r) = r
  BY GroupAssumption DEF Mul, Generator, Scalar
<1>1. proof.proof0.base_h = h /\ proof.proof1.base_h = h
  BY DEF EncProof, CPProof, Simulated
<1>2. PointV(proof) = IF bit THEN Add(r, h) ELSE r
  BY <1>0 DEF EncProof, PointV, CPProof, Simulated
<1>3. proof.proof1.point_u = IF bit THEN r ELSE Sub(r, h)
  BY <1>0 DEF EncProof, CPProof, Simulated
<1>4. proof = [proof EXCEPT !.challenge0 = @]
  BY DEF EncProof
<1> QED BY <1>1, <1>2, <1>3, <1>4, AddFacts
\* Numbers that stand for one scalar.
Multiple(x) == \E k \in Int : x = k * Q
Same(a, b) == Multiple(a - b)

LEMMA MultipleSum ==
  ASSUME NEW x \in Int, NEW y \in Int, Multiple(x), Multiple(y), NEW c \in Int
  PROVE  Multiple(x + y) /\ Multiple(x - y) /\ Multiple(c * x)
<1>1. PICK k \in Int : x = k * Q
  BY DEF Multiple
<1>2. PICK m \in Int : y = m * Q
  BY DEF Multiple
<1>3. /\ x + y = (k + m) * Q /\ x - y = (k - m) * Q
      /\ k + m \in Int /\ k - m \in Int
  BY <1>1, <1>2, GroupAssumption
<1>4. c * x = (c * k) * Q /\ c * k \in Int
  BY <1>1, GroupAssumption
<1> QED BY <1>3, <1>4 DEF Multiple

LEMMA SmallMultiple ==
  ASSUME NEW x \in Int, Multiple(x), -Q < x, x < Q
  PROVE  x = 0
<1>1. PICK k \in Int : x = k * Q
  BY DEF Multiple
<1>2. ASSUME k >= 1 PROVE FALSE
  <2>1. k * Q >= Q
    BY <1>2, GroupAssumption
  <2> QED BY <2>1, <1>1, GroupAssumption
<1>3. ASSUME k <= -1 PROVE FALSE
  <2>1. k * Q <= -Q
    BY <1>3, GroupAssumption
  <2> QED BY <2>1, <1>1, GroupAssumption
<1>4. k = 0
  BY <1>2, <1>3
<1> QED BY <1>1, <1>4, GroupAssumption

LEMMA SameModulo ==
  ASSUME NEW a \in Int
  PROVE  a % Q \in Scalar /\ a % Q \in Int /\ Same(a % Q, a) /\ Same(a, a % Q) /\ Same(a, a)
<1> DEFINE q == a \div Q
           r == a % Q
<1>1. q \in Int /\ a = Q * q + r /\ r \in 0..(Q - 1)
  BY GroupAssumption
<1> HIDE DEF q, r
<1>2. r \in Int /\ -q \in Int
  BY <1>1, GroupAssumption
<1>3. a - r = q * Q /\ r - a = (-q) * Q /\ a - a = 0 * Q
  BY <1>1, <1>2, GroupAssumption
<1>4. Same(a, r) /\ Same(r, a) /\ Same(a, a)
  BY <1>1, <1>2, <1>3 DEF Same, Multiple
<1> QED BY <1>1, <1>2, <1>4 DEF Scalar, r

LEMMA SamePlus ==
  ASSUME NEW a \in Int, NEW b \in Int, NEW c \in Int, NEW d \in Int, Same(a, b), Same(c, d)
  PROVE  Same(a + c, b + d) /\ Same(a - c, b - d)
<1> DEFINE x == a - b
           y == c - d
<1>1. x \in Int /\ y \in Int /\ Multiple(x) /\ Multiple(y)
  BY DEF Same
<1>2. (a + c) - (b + d) = x + y /\ (a - c) - (b - d) = x - y
  OBVIOUS
<1> HIDE DEF x, y
<1> QED BY <1>1, <1>2, MultipleSum DEF Same

LEMMA SameTimes ==
  ASSUME NEW a \in Int, NEW b \in Int, NEW c \in Int, NEW d \in Int, Same(a, b), Same(c, d)
  PROVE  Same(a * c, b * d)
<1> DEFINE x == a - b
           y == c - d
<1>1. x \in Int /\ y \in Int /\ Multiple(x) /\ Multiple(y)
  BY DEF Same
<1>2. a * c - b * d = c * x + b * y
  OBVIOUS
<1> HIDE DEF x, y
<1>3. c * x \in Int /\ b * y \in Int /\ Multiple(c * x) /\ Multiple(b * y)
  BY <1>1, MultipleSum
<1> QED BY <1>2, <1>3, MultipleSum DEF Same

LEMMA SameScalars ==
  ASSUME NEW a \in Int, NEW b \in Int
  PROVE  a % Q = b % Q <=> Same(a, b)
<1> DEFINE u == a % Q
           v == b % Q
<1>1. /\ u \in Scalar /\ v \in Scalar /\ u \in Int /\ v \in Int
      /\ Multiple(u - a) /\ Multiple(a - u) /\ Multiple(v - b) /\ Multiple(b - v)
  BY SameModulo DEF Same
<1> HIDE DEF u, v
<1>2. ASSUME u = v PROVE Multiple(a - b)
  <2>1. a - b = (a - u) - (b - v)
    BY <1>1, <1>2
  <2> QED BY <1>1, <2>1, MultipleSum
<1>3. ASSUME Multiple(a - b) PROVE u = v
  <2>1. Multiple((u - a) + (a - b))
    BY <1>1, <1>3, MultipleSum
  <2>2. Multiple(((u - a) + (a - b)) - (v - b))
    BY <1>1, <2>1, MultipleSum
  <2>3. ((u - a) + (a - b)) - (v - b) = u - v
    BY <1>1
  <2>4. u - v = 0
    BY <1>1, <2>2, <2>3, SmallMultiple, GroupAssumption DEF Scalar
  <2> QED BY <1>1, <2>4
<1> QED BY <1>2, <1>3 DEF u, v, Same

LEMMA ProductWithNext ==
  ASSUME NEW s \in Scalar, NEW c \in Scalar
  PROVE  Mul(Add(s, 1), c) = Add(Mul(c, s), c)
<1> DEFINE n == s + 1
           m == n % Q
           p == c * s
           r == p % Q
<1>1. s \in Int /\ c \in Int /\ n \in Int /\ p \in Int
  BY GroupAssumption DEF Scalar
<1>2. n * c = p + c
  BY <1>1
<1> HIDE DEF n, p
<1>3. m \in Int /\ Same(m, n) /\ Same(c, c) /\ r \in Int /\ Same(p, r)
  BY <1>1, SameModulo
<1> HIDE DEF m, r
<1>4. Same(m * c, n * c) /\ Same(p + c, r + c)
  BY <1>1, <1>3, SameTimes, SamePlus
<1>5. (m * c) % Q = (n * c) % Q
  BY <1>1, <1>3, <1>4, SameScalars
<1>6. (p + c) % Q = (r + c) % Q
  BY <1>1, <1>3, <1>4, SameScalars
<1> QED BY <1>2, <1>5, <1>6 DEF Mul, Add, n, m, p, r

LEMMA ScalarsDiffer ==
  ASSUME NEW a \in Scalar, NEW b \in Scalar, NEW c \in Scalar, c # 0
  PROVE  Add(Sub(a, b), Add(b, c)) # a
<1>1. Sub(a, b) \in Scalar /\ Sub(a, b) = IF a < b THEN a + Q - b ELSE a - b
  BY AddFacts, ScalarFacts
<1>2. Add(b, c) \in Scalar /\ Add(b, c) = IF b + c < Q THEN b + c ELSE b + c - Q
  BY AddFacts, ScalarFacts
<1>3. Add(Sub(a, b), Add(b, c)) = IF Sub(a, b) + Add(b, c) < Q THEN Sub(a, b) + Add(b, c)
                                  ELSE Sub(a, b) + Add(b, c) - Q
  BY <1>1, <1>2, AddFacts
<1> QED BY <1>1, <1>2, <1>3, GroupAssumption DEF Scalar

-----------------------------------------------------------------------------
(* The ring of the scalars.                                                *)

LEMMA AddAssociates ==
  ASSUME NEW a \in Scalar, NEW b \in Scalar, NEW c \in Scalar
  PROVE  /\ Add(a, Add(b, c)) = Add(Add(a, b), c)
         /\ Add(a, Add(b, c)) = Add(b, Add(a, c))
         /\ Add(0, a) = a /\ Add(a, 0) = a
<1>1. \A x, y \in Scalar : Add(x, y) \in Scalar /\ Add(x, y) = IF x + y < Q THEN x + y ELSE x + y - Q
  BY AddFacts, ScalarFacts
<1>2. 0 \in Scalar /\ Q \in Nat
  BY ScalarFacts
<1> DEFINE ab == Add(a, b)
           bc == Add(b, c)
           ac == Add(a, c)
<1>3. /\ ab \in Scalar /\ ab = IF a + b < Q THEN a + b ELSE a + b - Q
      /\ bc \in Scalar /\ bc = IF b + c < Q THEN b + c ELSE b + c - Q
      /\ ac \in Scalar /\ ac = IF a + c < Q THEN a + c ELSE a + c - Q
  BY <1>1
<1> HIDE DEF ab, bc, ac
<1>4. /\ Add(a, bc) = IF a + bc < Q THEN a + bc ELSE a + bc - Q
      /\ Add(ab, c) = IF ab + c < Q THEN ab + c ELSE ab + c - Q
      /\ Add(b, ac) = IF b + ac < Q THEN b + ac ELSE b + ac - Q
  BY <1>1, <1>3
<1>5. Add(a, bc) = Add(ab, c) /\ Add(a, bc) = Add(b, ac)
  BY <1>2, <1>3, <1>4 DEF Scalar
<1>6. Add(0, a) = a /\ Add(a, 0) = a
  BY <1>1, <1>2 DEF Scalar
<1> QED BY <1>5, <1>6 DEF ab, bc, ac

LEMMA MulCommutes == ASSUME NEW a \in Scalar, NEW b \in Scalar PROVE Mul(a, b) = Mul(b, a)
<1>1. a * b = b * a
  BY ScalarFacts
<1> QED BY <1>1 DEF Mul

LEMMA MulFacts ==
  ASSUME NEW a \in Scalar, NEW b \in Scalar, NEW c \in Scalar
  PROVE  /\ Mul(a, Add(b, c)) = Add(Mul(a, b), Mul(a, c))
         /\ Mul(Mul(a, b), c) = Mul(a, Mul(b, c))
         /\ Mul(a, 0) = 0 /\ Mul(0, a) = 0 /\ Mul(1, a) = a
<1> DEFINE s == b + c
           p == a * b
           q == a * c
           m == b * c
           rs == s % Q
           rp == p % Q
           rq == q % Q
           rm == m % Q
<1>1. a \in Int /\ b \in Int /\ c \in Int /\ s \in Int /\ p \in Int /\ q \in Int /\ m \in Int
  BY ScalarFacts
<1>2. a * s = p + q /\ p * c = a * m
  BY <1>1
<1> HIDE DEF s, p, q, m
<1>3. /\ rs \in Int /\ Same(rs, s) /\ rp \in Int /\ Same(rp, p)
      /\ rq \in Int /\ Same(q, rq) /\ Same(p, rp) /\ rm \in Int /\ Same(rm, m) /\ Same(m, rm)
      /\ Same(a, a) /\ Same(c, c)
  BY <1>1, SameModulo
<1> HIDE DEF rs, rp, rq, rm
<1>4. /\ Same(a * rs, a * s) /\ Same(p + q, rp + rq)
      /\ Same(rp * c, p * c) /\ Same(a * m, a * rm)
  BY <1>1, <1>3, SamePlus, SameTimes
<1>5. /\ a * rs \in Int /\ a * s \in Int /\ p + q \in Int /\ rp + rq \in Int
      /\ rp * c \in Int /\ p * c \in Int /\ a * m \in Int /\ a * rm \in Int
  BY <1>1, <1>3
<1>6. (a * rs) % Q = (a * s) % Q /\ (p + q) % Q = (rp + rq) % Q
  BY <1>4, <1>5, SameScalars
<1>7. (rp * c) % Q = (p * c) % Q /\ (a * m) % Q = (a * rm) % Q
  BY <1>4, <1>5, SameScalars
<1>8. Mul(a, Add(b, c)) = (a * rs) % Q /\ Add(Mul(a, b), Mul(a, c)) = (rp + rq) % Q
  BY DEF Mul, Add, rs, rp, rq, s, p, q
<1>9. Mul(Mul(a, b), c) = (rp * c) % Q /\ Mul(a, Mul(b, c)) = (a * rm) % Q
  BY DEF Mul, rp, rm, p, m
<1>10. Mul(a, 0) = 0 /\ Mul(0, a) = 0 /\ Mul(1, a) = a
  <2>1. a * 0 = 0 /\ 0 * a = 0 /\ 1 * a = a
    BY <1>1
  <2>2. 0 % Q = 0 /\ a % Q = a
    BY GroupAssumption DEF Scalar
  <2> QED BY <2>1, <2>2 DEF Mul
<1> QED BY <1>2, <1>6, <1>7, <1>8, <1>9, <1>10

\* What is subtracted adds up again.
LEMMA SubIs ==
  ASSUME NEW a \in Scalar, NEW b \in Scalar, NEW c \in Scalar
  PROVE  /\ Sub(a, b) = c <=> a = Add(b, c)
         /\ Add(a, Sub(0, b)) = Sub(a, b)
<1>1. 0 \in Scalar /\ Q \in Nat
  BY ScalarFacts
<1>2. \A x, y \in Scalar : /\ Add(x, y) = IF x + y < Q THEN x + y ELSE x + y - Q
                           /\ Sub(x, y) = IF x < y THEN x + Q - y ELSE x - y
                           /\ Sub(x, y) \in Scalar
  BY AddFacts, ScalarFacts
<1>0. a \in Nat /\ a < Q /\ b \in Nat /\ b < Q /\ c \in Nat /\ c < Q
  BY <1>1 DEF Scalar
<1>9. /\ Add(b, c) = IF b + c < Q THEN b + c ELSE b + c - Q
      /\ Sub(a, b) = IF a < b THEN a + Q - b ELSE a - b
  BY <1>2
<1>3. Sub(a, b) = c <=> a = Add(b, c)
  BY <1>0, <1>1, <1>9
<1> DEFINE n == Sub(0, b)
<1>4. n \in Scalar /\ n = IF 0 < b THEN 0 + Q - b ELSE 0 - b
  BY <1>1, <1>2
<1> HIDE DEF n
<1>5. Add(a, n) = IF a + n < Q THEN a + n ELSE a + n - Q
  BY <1>2, <1>4
<1>6. Add(a, n) = Sub(a, b)
  BY <1>0, <1>1, <1>4, <1>5, <1>9
<1> QED BY <1>3, <1>6 DEF n

\* The sum of two shares, of two each, less two of the shares, is the other two.
LEMMA SharesLeave ==
  ASSUME NEW a \in Scalar, NEW a2 \in Scalar, NEW b \in Scalar, NEW b2 \in Scalar
  PROVE  Add(a, b) = Add(Add(Add(a, a2), Add(b, b2)), Sub(0, Add(a2, b2)))
<1> DEFINE x == Add(a, b)
           y == Add(a2, b2)
           z == Add(Add(a, a2), Add(b, b2))
<1>1. x \in Scalar /\ y \in Scalar /\ z \in Scalar
  BY ScalarFacts
<1>2. z = Add(y, x)
  <2>1. Add(b, b2) \in Scalar /\ Add(a2, Add(b, b2)) = Add(b, Add(a2, b2))
    BY AddAssociates, ScalarFacts
  <2>2. z = Add(a, Add(a2, Add(b, b2)))
    BY <2>1, AddAssociates
  <2>3. z = Add(a, Add(b, y))
    BY <2>1, <2>2
  <2>4. z = Add(x, y)
    BY <1>1, <2>3, AddAssociates
  <2> QED BY <1>1, <2>4, AddFacts
<1> HIDE DEF x, y, z
<1>3. Sub(z, y) = x
  BY <1>1, <1>2, SubIs
<1>4. Add(z, Sub(0, y)) = x
  BY <1>1, <1>3, SubIs
<1> QED BY <1>4 DEF x, y, z

\* The entries of verify_r that the two ends compute from their shares are the same.
LEMMA EntriesAgree ==
  ASSUME NEW c \in Scalar, NEW d \in Scalar, NEW a \in Scalar, NEW a2 \in Scalar,
         NEW b \in Scalar, NEW b2 \in Scalar
  PROVE  Add(Mul(c, a), Mul(d, b)) =
           Add(Add(Mul(c, Add(a, a2)), Mul(d, Add(b, b2))), Sub(0, Add(Mul(c, a2), Mul(d, b2))))
<1>1. Mul(c, Add(a, a2)) = Add(Mul(c, a), Mul(c, a2)) /\ Mul(d, Add(b, b2)) = Add(Mul(d, b), Mul(d, b2))
  BY MulFacts
<1>2. Mul(c, a) \in Scalar /\ Mul(c, a2) \in Scalar /\ Mul(d, b) \in Scalar /\ Mul(d, b2) \in Scalar
  BY ScalarFacts
<1> QED BY <1>1, <1>2, SharesLeave

-----------------------------------------------------------------------------
(* Sums of scalars.                                                        *)

Sums == INSTANCE FiniteFolds WITH Op <- Add, Base <- 0, Value <- Scalar
SumOver(f, S) == FoldFunctionOnSet(Add, 0, f, S)

LEMMA SumMonoid ==
  /\ Sums!Monoid /\ Sums!Associative /\ Add(0, 0) = 0
  /\ \A S : Sums!IsFiniteSet(S) <=> IsFiniteSet(S)
  /\ \A f, S : Sums!Fold(f, S) = SumOver(f, S)
  /\ \A f : SumOf(f) = SumOver(f, DOMAIN f)
<1>1. Sums!Monoid /\ Sums!Associative /\ Add(0, 0) = 0
  BY ScalarFacts, AddAssociates DEF Sums!Monoid, Sums!Associative
<1>2. \A S : Sums!IsFiniteSet(S) <=> IsFiniteSet(S)
  BY DEF Sums!IsFiniteSet, IsFiniteSet
<1>3. \A f, S : Sums!Fold(f, S) = SumOver(f, S)
  BY DEF SumOver, FoldFunctionOnSet, MapThenFoldSet,
         Sums!Fold, Sums!FoldFunctionOnSet, Sums!MapThenFoldSet
<1>4. \A f : SumOf(f) = SumOver(f, DOMAIN f)
  BY DEF SumOf, SumOver, FoldFunction
<1> QED BY <1>1, <1>2, <1>3, <1>4

LEMMA SumElement ==
  ASSUME NEW S, IsFiniteSet(S), NEW f, \A x \in S : f[x] \in Scalar
  PROVE  /\ SumOver(f, {}) = 0 /\ SumOver(f, S) \in Scalar
         /\ \A x \in S : SumOver(f, S) = Add(f[x], SumOver(f, S \ {x}))
<1>1. Sums!IsFiniteSet(S) /\ Sums!Monoid
  BY SumMonoid
<1>2. Sums!Fold(f, {}) = 0
  BY Sums!FoldEmpty
<1>3. Sums!Fold(f, S) \in Scalar
  BY <1>1, Sums!FoldType
<1>4. ASSUME NEW x \in S PROVE Sums!Fold(f, S) = Add(f[x], Sums!Fold(f, S \ {x}))
  BY <1>1, Sums!FoldElement
<1> QED BY <1>2, <1>3, <1>4, SumMonoid

LEMMA SumSame ==
  ASSUME NEW S, IsFiniteSet(S), NEW f, NEW g, \A x \in S : f[x] = g[x]
  PROVE  SumOver(f, S) = SumOver(g, S)
<1>1. Sums!IsFiniteSet(S)
  BY SumMonoid
<1>2. Sums!Fold(f, S) = Sums!Fold(g, S)
  BY <1>1, Sums!FoldSame
<1> QED BY <1>2, SumMonoid

LEMMA SumMerge ==
  ASSUME NEW S, IsFiniteSet(S), NEW f, NEW g, NEW h,
         \A x \in S : f[x] \in Scalar /\ g[x] \in Scalar /\ h[x] = Add(f[x], g[x])
  PROVE  SumOver(h, S) = Add(SumOver(f, S), SumOver(g, S))
<1>1. Sums!IsFiniteSet(S) /\ Sums!Monoid /\ Sums!Associative /\ Add(0, 0) = 0
  BY SumMonoid
<1>2. Sums!Fold(h, S) = Add(Sums!Fold(f, S), Sums!Fold(g, S))
  BY <1>1, Sums!FoldMerge
<1> QED BY <1>2, SumMonoid

\* One element more.
LEMMA SumGrows ==
  ASSUME NEW S, IsFiniteSet(S), NEW f, \A x \in S : f[x] \in Scalar,
         NEW s \in SUBSET S, NEW x \in S, x \notin s
  PROVE  SumOver(f, s) \in Scalar /\ SumOver(f, s \cup {x}) = Add(f[x], SumOver(f, s))
<1> DEFINE t == s \cup {x}
<1>1. IsFiniteSet(t) /\ IsFiniteSet(s) /\ \A y \in t : f[y] \in Scalar
  BY FS_Subset
<1>2. t \ {x} = s /\ x \in t
  OBVIOUS
<1>3. \A y \in s : f[y] \in Scalar
  OBVIOUS
<1> HIDE DEF t
<1>4. SumOver(f, t) = Add(f[x], SumOver(f, s))
  BY <1>1, <1>2, SumElement
<1>5. SumOver(f, s) \in Scalar
  BY <1>1, <1>3, SumElement
<1> QED BY <1>4, <1>5 DEF t

\* The sum of multiples of the elements that are chosen.
LEMMA SumOfChosen ==
  ASSUME NEW S, IsFiniteSet(S), NEW f, NEW h, NEW C \in SUBSET S, NEW p \in Scalar,
         \A x \in S : f[x] \in Scalar /\ h[x] = Mul(f[x], IF x \in C THEN p ELSE 0)
  PROVE  SumOver(h, S) = Mul(SumOver(f, C), p) /\ SumOver(f, C) \in Scalar
<1> DEFINE G == {s \in SUBSET S : SumOver(h, s) = Mul(SumOver(f, s \cap C), p)}
<1>0. \A x \in S : h[x] \in Scalar /\ f[x] \in Scalar
  <2> SUFFICES ASSUME NEW x \in S PROVE h[x] \in Scalar
    OBVIOUS
  <2>1. 0 \in Scalar /\ \A a \in Scalar, b \in Scalar : Mul(a, b) \in Scalar
    BY ScalarFacts
  <2> QED BY <2>1
<1>1. {} \in G
  <2>1. SumOver(h, {}) = 0 /\ SumOver(f, {}) = 0
    BY SumElement, FS_EmptySet
  <2>2. {} \cap C = {} /\ Mul(0, p) = 0
    BY MulFacts, ScalarFacts
  <2> QED BY <2>1, <2>2
<1>2. ASSUME NEW s \in SUBSET S, NEW x \in S, s \in G, x \notin s PROVE s \cup {x} \in G
  <2> DEFINE c == s \cap C
             F == SumOver(f, c)
  <2>1. SumOver(h, s \cup {x}) = Add(h[x], SumOver(h, s))
    BY <1>0, <1>2, SumGrows
  <2>2. SumOver(h, s) = Mul(F, p)
    BY <1>2
  <2>3. c \in SUBSET S /\ x \notin c
    BY <1>2
  <2> HIDE DEF c
  <2>4. F \in Scalar /\ SumOver(f, c \cup {x}) = Add(f[x], F)
    BY <1>0, <2>3, SumGrows
  <2> HIDE DEF F
  <2>5. SumOver(h, s \cup {x}) = Mul(SumOver(f, (s \cup {x}) \cap C), p)
    <3>1. CASE x \in C
      <4>1. (s \cup {x}) \cap C = c \cup {x}
        BY <3>1 DEF c
      <4>2. h[x] = Mul(f[x], p)
        BY <3>1
      <4>3. Mul(Add(f[x], F), p) = Add(Mul(f[x], p), Mul(F, p))
        <5>1. f[x] \in Scalar /\ Add(f[x], F) \in Scalar
          BY <1>0, <2>4, ScalarFacts
        <5>2. Mul(p, Add(f[x], F)) = Add(Mul(p, f[x]), Mul(p, F))
          BY <5>1, <2>4, MulFacts
        <5> QED BY <5>1, <5>2, <2>4, MulCommutes
      <4> QED BY <2>1, <2>2, <2>4, <4>1, <4>2, <4>3
    <3>2. CASE x \notin C
      <4>1. (s \cup {x}) \cap C = c
        BY <3>2 DEF c
      <4>2. h[x] = 0
        BY <1>0, <3>2, MulFacts, ScalarFacts
      <4>3. Mul(F, p) \in Scalar
        BY <2>4, ScalarFacts
      <4>4. Add(0, Mul(F, p)) = Mul(F, p)
        BY <4>3, AddAssociates
      <4> QED BY <2>1, <2>2, <4>1, <4>2, <4>4 DEF F
    <3> QED BY <3>1, <3>2
  <2>6. s \cup {x} \in SUBSET S
    BY <1>2
  <2> QED BY <2>5, <2>6
<1> HIDE DEF G
<1>3. S \in G
  BY <1>1, <1>2, SetInduct
<1>4. SumOver(h, S) = Mul(SumOver(f, S \cap C), p) /\ S \cap C = C
  BY <1>3 DEF G
<1>5. IsFiniteSet(C) /\ \A x \in C : f[x] \in Scalar
  BY <1>0, FS_Subset
<1> QED BY <1>4, <1>5, SumElement

-----------------------------------------------------------------------------
(* The correlation.                                                        *)

\* What the two drew: the sender of the proof found one (prove returns
\* ProofSearchExhausted otherwise), not all of its challenges are zero, and the points
\* that rows 0 and 1 of the base OT hash to are not the same.
LuckyDraws ==
  /\ DLog \in DLogProofs(SecretS, InitSid, [i \in 1..(2 * Pairs) |-> DrawnPoint(tape, 9, i)])
  /\ \E i \in 1..(2 * Pairs) : DLog.proofs[i].challenge % Q # 0
  /\ \A seed \in {OTSeed, Wrong(OTSeed)} : BaseH(InitSid, 0, seed) # BaseH(InitSid, 1, OTSeed)

\* What the base OT gives the two ends.
FirstSender ==
  [correlation |-> Correlation,
   seeds |-> [i \in Row |-> BaseHash(InitSid, i, Mul(SecretS, VecR[i]))]]
BaseBits(i) == IF i \in Correlation THEN Add(VecR[i], BaseH(InitSid, i, OTSeed)) ELSE VecR[i]
FirstReceiver ==
  [seeds0 |-> [i \in Row |-> BaseHash(InitSid, i, Mul(BaseBits(i), SecretS))],
   seeds1 |-> [i \in Row |->
     BaseHash(InitSid, i, Mul(Sub(BaseBits(i), BaseH(InitSid, i, OTSeed)), SecretS))]]

LEMMA TapeTypes ==
  ASSUME HashesAreNumbers
  PROVE  /\ SecretS \in Scalar \ {0}
         /\ VecR \in [Row -> Scalar \ {0}]
         /\ 0 \in Row /\ 1 \in Row
BY DrawnType, RunAssumption DEF SecretS, VecR, Row

LEMMA BaseOTCorrelates ==
  ASSUME HashesAreNumbers
  PROVE  Correlated(FirstSender, FirstReceiver)
<1> SUFFICES ASSUME NEW i \in Row
             PROVE  FirstSender.seeds[i] = IF i \in FirstSender.correlation
                      THEN FirstReceiver.seeds1[i] ELSE FirstReceiver.seeds0[i]
  BY DEF Correlated, CorrelatedAt
<1> DEFINE h == BaseH(InitSid, i, OTSeed)
           r == VecR[i]
<1>1. h \in Scalar /\ r \in Scalar /\ SecretS \in Scalar
  BY BaseHType, TapeTypes
<1>2. Mul(SecretS, r) = Mul(r, SecretS)
  <2> HIDE DEF r
  <2>1. SecretS * r = r * SecretS
    BY <1>1, ScalarFacts
  <2> QED BY <2>1 DEF Mul
<1>3. /\ FirstSender.seeds[i] = BaseHash(InitSid, i, Mul(SecretS, r))
      /\ FirstReceiver.seeds0[i] = BaseHash(InitSid, i, Mul(BaseBits(i), SecretS))
      /\ FirstReceiver.seeds1[i] = BaseHash(InitSid, i, Mul(Sub(BaseBits(i), h), SecretS))
      /\ FirstSender.correlation = Correlation
  BY DEF FirstSender, FirstReceiver
<1>4. BaseBits(i) = IF i \in Correlation THEN Add(r, h) ELSE r
  BY DEF BaseBits
<1>5. Sub(Add(r, h), h) = r
  BY <1>1, AddFacts
<1> HIDE DEF h, r
<1> QED BY <1>2, <1>3, <1>4, <1>5

\* A proof for another point would verify only if it answered no challenge.
LEMMA PointNotAltered ==
  ASSUME HashesAreNumbers, LuckyDraws, NEW proof \in {DLog} \cup DLogChanges,
         DLogVerifies(proof, InitSid)
  PROVE  proof.point = SecretS
<1> DEFINE rands == [i \in 1..(2 * Pairs) |-> DrawnPoint(tape, 9, i)]
           s == SecretS
<1>0. s \in Scalar /\ Pairs \in Nat
  BY TapeTypes, GroupAssumption
<1>1. PICK cs \in [1..(2 * Pairs) -> Challenge] :
        DLog = [point |-> s, rand_commitments |-> rands,
                proofs |-> [i \in 1..(2 * Pairs) |-> Schnorr(s, rands[i], cs[i])]]
  BY DEF LuckyDraws, DLogProofs
<1>2. DLog.point = s /\ DLog.rand_commitments = rands
      /\ \A i \in 1..(2 * Pairs) : DLog.proofs[i] = Schnorr(s, rands[i], cs[i])
  BY <1>1
<1> SUFFICES ASSUME proof = [DLog EXCEPT !.point = Wrong(@)] PROVE FALSE
  BY <1>1, <1>2 DEF DLogChanges
<1>3. proof.point = Add(s, 1) /\ proof.rand_commitments = rands /\ proof.proofs = DLog.proofs
  BY <1>1 DEF Wrong
<1>4. PICK i \in 1..(2 * Pairs) : DLog.proofs[i].challenge % Q # 0
  BY DEF LuckyDraws
<1>5. i \in DOMAIN rands /\ rands[i] \in Scalar
  BY DrawnType
<1> HIDE DEF rands
<1>6. SchnorrVerifies(DLog.proofs[i], Add(s, 1), rands[i])
  BY <1>3, <1>5 DEF DLogVerifies
<1> DEFINE c == cs[i] % Q
<1>7. cs[i] \in Nat
  BY <1>1, GroupAssumption
<1>8. c \in Scalar /\ c # 0
  <2>0. DLog.proofs[i] = Schnorr(s, rands[i], cs[i])
    BY <1>2, <1>4
  <2>1. DLog.proofs[i].challenge = cs[i]
    BY <2>0 DEF Schnorr
  <2> QED BY <1>4, <1>7, <2>1, SameModulo
<1>9. Add(Sub(rands[i], Mul(c, s)), Mul(Add(s, 1), c)) = rands[i]
  <2>1. DLog.proofs[i] = [challenge |-> cs[i], response |-> Sub(rands[i], Mul(c, s))]
    BY <1>2, <1>4 DEF Schnorr
  <2> QED BY <1>6, <2>1 DEF SchnorrVerifies
<1> HIDE DEF c, s
<1>10. Mul(Add(s, 1), c) = Add(Mul(c, s), c)
  BY <1>0, <1>8, ProductWithNext
<1> QED BY <1>0, <1>5, <1>8, <1>9, <1>10, ScalarsDiffer, ScalarFacts

\* Seeds that are those of ote in every row there are two for.
Agrees(o, ote) ==
  /\ DOMAIN o.seeds1 = DOMAIN o.seeds0
  /\ \A i \in Row \cap DOMAIN o.seeds0 :
       o.seeds0[i] = ote.seeds0[i] /\ o.seeds1[i] = ote.seeds1[i]

\* What init_phase2 of the two accepts gives what the other drew, in as many rows as
\* proofs arrived.
LEMMA SetUpGivesFirst ==
  ASSUME HashesAreNumbers, LuckyDraws
  PROVE  /\ \A proof \in {DLog} \cup DLogChanges : DLogVerifies(proof, InitSid) =>
              OTESenderInit(InitSid, Correlation, VecR, proof) = FirstSender
         /\ \A seed \in {OTSeed, Wrong(OTSeed)} : \A proofs \in {EncProofs} \cup EncProofChanges :
              (\A i \in DOMAIN proofs : BaseSenderAccepts(InitSid, i, seed, proofs[i])) =>
              Agrees(OTEReceiverInit(InitSid, SecretS, proofs), FirstReceiver)
<1>1. ASSUME NEW proof \in {DLog} \cup DLogChanges, DLogVerifies(proof, InitSid)
      PROVE  OTESenderInit(InitSid, Correlation, VecR, proof) = FirstSender
  BY <1>1, PointNotAltered DEF OTESenderInit, FirstSender, BaseReceiverPhase2
<1>2. ASSUME NEW seed \in {OTSeed, Wrong(OTSeed)}, NEW proofs \in {EncProofs} \cup EncProofChanges,
             \A i \in DOMAIN proofs : BaseSenderAccepts(InitSid, i, seed, proofs[i])
      PROVE  Agrees(OTEReceiverInit(InitSid, SecretS, proofs), FirstReceiver)
  <2> DEFINE coins(i) == [rand |-> DrawnPoint(tape, 4, i), challenge |-> Drawn(tape, 5, i),
                          response |-> Drawn(tape, 6, i)]
             H(i) == BaseH(InitSid, i, OTSeed)
             P(i) == EncProof(RowSid(InitSid, i), H(i), VecR[i], i \in Correlation, coins(i))
  <2>1. ASSUME NEW n, NEW i \in Row \cap (0..(n - 1)) PROVE EncProofList(n)[i] = P(i)
    BY DEF EncProofList, BaseReceiverPhase1, VecR
  <2>a. /\ DOMAIN EncProofs = Row /\ \A i \in Row : EncProofs[i] = P(i)
        /\ \A n : DOMAIN EncProofList(n) = 0..(n - 1)
    BY <2>1 DEF EncProofs, EncProofList, Row
  <2>2. \A i \in Row : H(i) \in Scalar /\ VecR[i] \in Scalar
    BY BaseHType, TapeTypes
  <2> HIDE DEF H, coins
  <2>3. \A i \in Row : /\ P(i).proof0.base_h = H(i) /\ P(i).proof1.base_h = H(i)
                       /\ PointV(P(i)) = IF i \in Correlation THEN Add(VecR[i], H(i)) ELSE VecR[i]
                       /\ PointV(P(i)) = Add(P(i).proof1.point_u, H(i))
    <3> TAKE i \in Row
    <3> DEFINE bit == i \in Correlation
               sid == RowSid(InitSid, i)
    <3>1. bit \in BOOLEAN
      OBVIOUS
    <3> HIDE DEF bit, sid
    <3> DEFINE proof == EncProof(sid, H(i), VecR[i], bit, coins(i))
    <3>2. /\ proof.proof0.base_h = H(i) /\ proof.proof1.base_h = H(i)
          /\ PointV(proof) = (IF bit THEN Add(VecR[i], H(i)) ELSE VecR[i])
          /\ PointV(proof) = Add(proof.proof1.point_u, H(i))
      BY <2>2, <3>1, HonestEncProof
    <3> QED BY <3>2 DEF bit, sid
  <2> HIDE DEF P
  <2>4. \A i \in Row : EncProofs[i] = P(i)
    BY <2>a
  <2>5. \A i \in Row : PointV(P(i)) = BaseBits(i) /\ H(i) = BaseH(InitSid, i, OTSeed)
    BY <2>3 DEF BaseBits, H
  <2> SUFFICES ASSUME NEW i \in Row \cap DOMAIN proofs
               PROVE  PointV(proofs[i]) = BaseBits(i) /\ proofs[i].proof0.base_h = H(i)
    <3>1. \A i \in Row : PointV(proofs[i]) = BaseBits(i) /\ proofs[i].proof0.base_h = H(i) =>
            BaseSenderPhase2(InitSid, i, SecretS, proofs[i]) =
              <<BaseHash(InitSid, i, Mul(BaseBits(i), SecretS)),
                BaseHash(InitSid, i, Mul(Sub(BaseBits(i), BaseH(InitSid, i, OTSeed)), SecretS))>>
      BY <2>5 DEF BaseSenderPhase2
    <3> DEFINE phase2(i) == BaseSenderPhase2(InitSid, i, SecretS, proofs[i])
               seed0(i) == BaseHash(InitSid, i, Mul(BaseBits(i), SecretS))
               seed1(i) == BaseHash(InitSid, i, Mul(Sub(BaseBits(i), BaseH(InitSid, i, OTSeed)), SecretS))
               o == OTEReceiverInit(InitSid, SecretS, proofs)
    <3>2. SUFFICES ASSUME \A i \in Row \cap DOMAIN proofs :
                            PointV(proofs[i]) = BaseBits(i) /\ proofs[i].proof0.base_h = H(i)
                   PROVE  Agrees(o, FirstReceiver)
      OBVIOUS
    <3>3. /\ DOMAIN o.seeds0 = DOMAIN proofs /\ DOMAIN o.seeds1 = DOMAIN proofs
          /\ \A i \in DOMAIN proofs : o.seeds0[i] = phase2(i)[1] /\ o.seeds1[i] = phase2(i)[2]
      BY DEF OTEReceiverInit
    <3>4. \A i \in Row \cap DOMAIN proofs : phase2(i) = <<seed0(i), seed1(i)>>
      BY <3>1, <3>2
    <3>5. \A i \in Row : FirstReceiver.seeds0[i] = seed0(i) /\ FirstReceiver.seeds1[i] = seed1(i)
      BY DEF FirstReceiver
    <3> HIDE DEF phase2, seed0, seed1, o
    <3>6. \A i \in Row \cap DOMAIN proofs : phase2(i)[1] = seed0(i) /\ phase2(i)[2] = seed1(i)
      BY <3>4
    <3> QED BY <3>3, <3>5, <3>6 DEF Agrees
  <2>6. CASE proofs = EncProofs
    BY <2>3, <2>4, <2>5, <2>6
  <2>7. CASE proofs = [EncProofs EXCEPT ![0] = EncProofs[1]]
    <3>1. proofs[0] = P(1) /\ 0 \in Row /\ 1 \in Row /\ DOMAIN proofs = Row
      BY <2>a, <2>7, TapeTypes
    <3>2. P(1).proof0.base_h = BaseH(InitSid, 0, seed)
      BY <1>2, <3>1 DEF BaseSenderAccepts
    <3>3. CASE i = 0
      BY <2>3, <2>5, <3>1, <3>2, <3>3 DEF LuckyDraws
    <3>4. CASE i # 0
      BY <2>a, <2>3, <2>5, <2>7, <3>4
    <3> QED BY <3>3, <3>4
  <2>8. CASE proofs = [EncProofs EXCEPT ![0].challenge0 = Wrong(@)]
    <3>1. CASE i # 0
      <4>1. proofs[i] = EncProofs[i]
        BY <2>a, <2>8, <3>1
      <4> QED BY <2>3, <2>4, <2>5, <4>1
    <3>2. CASE i = 0
      <4>1. proofs[i] = [EncProofs[i] EXCEPT !.challenge0 = Wrong(EncProofs[i].challenge0)]
        BY <2>a, <2>8, <3>2
      <4>2. proofs[i] = [P(i) EXCEPT !.challenge0 = Wrong(P(i).challenge0)]
        BY <2>4, <4>1
      <4>3. proofs[i].proof0 = P(i).proof0
        BY <4>2 DEF P, EncProof
      <4> QED BY <2>3, <2>5, <4>3 DEF PointV
    <3> QED BY <3>1, <3>2
  <2>9. CASE proofs = [EncProofs EXCEPT ![0].proof0.point_u = Wrong(@)]
    <3>1. /\ proofs[0].proof0.point_u = Wrong(P(0).proof0.point_u)
          /\ proofs[0].proof1 = P(0).proof1 /\ 0 \in Row /\ DOMAIN proofs = Row
      <4>1. 0 \in Row
        BY TapeTypes
      <4>2. proofs[0] = [EncProofs[0] EXCEPT !.proof0.point_u = Wrong(EncProofs[0].proof0.point_u)]
        BY <2>a, <2>9, <4>1
      <4>3. EncProofs[0] = P(0)
        BY <2>4, <4>1
      <4>4. ASSUME NEW w
            PROVE  LET altered_proof == [P(0) EXCEPT !.proof0.point_u = w]
                   IN  altered_proof.proof0.point_u = w /\ altered_proof.proof1 = P(0).proof1
        BY DEF P, EncProof, CPProof, Simulated
      <4> QED BY <2>a, <2>9, <4>1, <4>2, <4>3, <4>4
    <3>2. StatementsAgree(proofs[0])
      BY <1>2, <3>1 DEF BaseSenderAccepts, EncVerifies
    <3>3. Wrong(PointV(P(0))) = PointV(P(0))
      BY <2>3, <3>1, <3>2 DEF StatementsAgree, PointV
    <3>4. PointV(P(0)) \in Scalar
      BY <2>2, <2>3, <3>1, ScalarFacts
    <3>5. Add(PointV(P(0)), 1) # PointV(P(0))
      BY <3>4, AddFacts, ScalarFacts, GroupAssumption DEF Scalar
    <3> QED BY <3>3, <3>5 DEF Wrong
  <2>10. CASE proofs \in {EncProofList(KAPPA - 1), EncProofList(KAPPA + 1)}
    <3>1. PICK n : proofs = EncProofList(n)
      BY <2>10
    <3>2. proofs[i] = P(i)
      BY <2>1, <2>a, <3>1
    <3> QED BY <2>3, <2>5, <3>2
  <2> QED BY <2>6, <2>7, <2>8, <2>9, <2>10 DEF EncProofChanges
<1> QED BY <1>1, <1>2

MaskSeed(n) == Drawn(tape, 10, n)
\* ss and rr are the two ends after every number of refreshes up to m.
Masked(ss, rr, m) ==
  /\ \A n \in 0..m : Correlated(ss[n], rr[n]) /\ WholeSeeds(rr[n])
  /\ \A n \in 0..(m - 1) :
       /\ ss[n + 1] = MaskedSender(ss[n], MaskSeed(n + 1), SENDER, RECEIVER)
       /\ rr[n + 1] = MaskedReceiver(rr[n], MaskSeed(n + 1), RECEIVER, SENDER)
SenderIs(ote, n) == \E g : sender = [public_gadget |-> g, masks |-> n, ote_sender |-> ote]
\* The receiver may have been given fewer seeds, or more.
ReceiverIs(ote, n) ==
  \E g, o : Agrees(o, ote) /\ receiver = [public_gadget |-> g, masks |-> n, ote_receiver |-> o]

\* Both ends go through the same states, each at its own pace.
PaceOf(m, ss, rr) ==
  /\ Masked(ss, rr, m) /\ ss[0] = FirstSender /\ rr[0] = FirstReceiver
  /\ sender \in {None, Aborted} \/ \E i \in 0..m : SenderIs(ss[i], i)
  /\ receiver \in {None, Aborted} \/ \E i \in 0..m : ReceiverIs(rr[i], i)
InStep == \E m \in Nat : \E ss, rr : PaceOf(m, ss, rr)
\* Nobody counts the proofs that arrive, but whoever has sent something had all seeds, and
\* who was refused that had not been sent what the other drew.
Counted ==
  /\ receiver \notin {None, Aborted} /\ altered = {} => WholeSeeds(receiver.ote_receiver)
  /\ toSender # None =>
       kept # None /\ receiver \notin {None, Aborted} /\ WholeSeeds(receiver.ote_receiver)
  /\ kept # None /\ toSender = None => altered # {}
Pace == InStep /\ Counted

\* Masks keep what agrees, and how many seeds there are.
LEMMA MaskedAgrees ==
  ASSUME NEW o, NEW r, NEW mask, NEW me, NEW them, Agrees(o, r), Row \subseteq DOMAIN o.seeds0,
         WholeSeeds(r)
  PROVE  /\ Agrees(MaskedReceiver(o, mask, me, them), MaskedReceiver(r, mask, me, them))
         /\ WholeSeeds(o) => WholeSeeds(MaskedReceiver(o, mask, me, them))
<1> DEFINE mo == MaskedReceiver(o, mask, me, them)
           mr == MaskedReceiver(r, mask, me, them)
<1>1. DOMAIN mo.seeds0 = DOMAIN o.seeds0 /\ DOMAIN mo.seeds1 = DOMAIN o.seeds1
  BY MaskedDomains
<1>2. ASSUME NEW i \in Row PROVE mo.seeds0[i] = mr.seeds0[i] /\ mo.seeds1[i] = mr.seeds1[i]
  <2>1. /\ i \in DOMAIN o.seeds0 /\ i \in DOMAIN o.seeds1
        /\ i \in DOMAIN r.seeds0 /\ i \in DOMAIN r.seeds1
        /\ o.seeds0[i] = r.seeds0[i] /\ o.seeds1[i] = r.seeds1[i]
    BY DEF Agrees, WholeSeeds
  <2>2. mo.seeds0[i] = mr.seeds0[i]
    BY <2>1 DEF MaskedReceiver, WithRows
  <2>3. mo.seeds1[i] = mr.seeds1[i]
    BY <2>1 DEF MaskedReceiver, WithRows
  <2> HIDE DEF mo, mr
  <2> QED BY <2>2, <2>3
<1> HIDE DEF mo, mr
<1> QED BY <1>1, <1>2 DEF Agrees, WholeSeeds, mo, mr

LEMMA MaskedGrows ==
  ASSUME NEW m \in Nat, NEW ss, NEW rr, Masked(ss, rr, m)
  PROVE  \E ss2, rr2 : /\ Masked(ss2, rr2, m + 1)
                       /\ \A n \in 0..m : ss2[n] = ss[n] /\ rr2[n] = rr[n]
<1> DEFINE s == MaskedSender(ss[m], MaskSeed(m + 1), SENDER, RECEIVER)
           r == MaskedReceiver(rr[m], MaskSeed(m + 1), RECEIVER, SENDER)
           ss2 == [n \in 0..(m + 1) |-> IF n = m + 1 THEN s ELSE ss[n]]
           rr2 == [n \in 0..(m + 1) |-> IF n = m + 1 THEN r ELSE rr[n]]
<1>1. Correlated(s, r) /\ WholeSeeds(r)
  <2>1. Correlated(ss[m], rr[m]) /\ WholeSeeds(rr[m])
    BY DEF Masked
  <2>2. Correlated(s, r)
    BY <2>1, MasksKeepTheCorrelation DEF WholeSeeds
  <2>3. DOMAIN r.seeds0 = DOMAIN rr[m].seeds0 /\ DOMAIN r.seeds1 = DOMAIN rr[m].seeds1
    BY MaskedDomains
  <2> QED BY <2>1, <2>2, <2>3 DEF WholeSeeds
<1>2. s = MaskedSender(ss[m], MaskSeed(m + 1), SENDER, RECEIVER)
      /\ r = MaskedReceiver(rr[m], MaskSeed(m + 1), RECEIVER, SENDER)
  OBVIOUS
<1> HIDE DEF s, r
<1>3. /\ \A n \in 0..m : ss2[n] = ss[n] /\ rr2[n] = rr[n]
      /\ ss2[m + 1] = s /\ rr2[m + 1] = r
  OBVIOUS
<1> HIDE DEF ss2, rr2
<1>4. \A n \in 0..(m + 1) : n \in 0..m \/ n = m + 1
  OBVIOUS
<1>5. \A n \in 0..((m + 1) - 1) : n \in 0..m /\ (n = m \/ (n \in 0..(m - 1) /\ n + 1 \in 0..m))
  OBVIOUS
<1>6. \A n \in 0..(m + 1) : Correlated(ss2[n], rr2[n]) /\ WholeSeeds(rr2[n])
  BY <1>1, <1>3, <1>4 DEF Masked
<1>7. \A n \in 0..((m + 1) - 1) :
        /\ ss2[n + 1] = MaskedSender(ss2[n], MaskSeed(n + 1), SENDER, RECEIVER)
        /\ rr2[n + 1] = MaskedReceiver(rr2[n], MaskSeed(n + 1), RECEIVER, SENDER)
  BY <1>2, <1>3, <1>5 DEF Masked
<1> QED BY <1>3, <1>6, <1>7 DEF Masked

LEMMA PaceInit == ASSUME HashesAreNumbers PROVE Init => Pace
<1> SUFFICES ASSUME Init PROVE Pace
  OBVIOUS
<1> DEFINE ss == [n \in {0} |-> FirstSender]
           rr == [n \in {0} |-> FirstReceiver]
<1>1. ss[0] = FirstSender /\ rr[0] = FirstReceiver
  OBVIOUS
<1> HIDE DEF ss, rr
<1>2. Masked(ss, rr, 0)
  <2>1. WholeSeeds(FirstReceiver)
    BY DEF FirstReceiver, WholeSeeds
  <2> QED BY <1>1, <2>1, BaseOTCorrelates DEF Masked
<1>3. /\ sender \in {None, Aborted} /\ receiver \in {None, Aborted} /\ 0 \in Nat
      /\ kept = None /\ toSender = None
  BY DEF Init
<1> QED BY <1>1, <1>2, <1>3 DEF Pace, InStep, PaceOf, Counted

\* What the two drew does not change, nor what it makes.
LEMMA DrawsKept ==
  ASSUME tape' = tape
  PROVE  /\ FirstSender' = FirstSender /\ FirstReceiver' = FirstReceiver
         /\ \A ss, rr, m : Masked(ss, rr, m)' <=> Masked(ss, rr, m)
         /\ LuckyDraws' <=> LuckyDraws
BY DEF FirstSender, FirstReceiver, Correlation, VecR, SecretS, BaseBits, OTSeed, Masked, MaskSeed,
       LuckyDraws, DLog

LEMMA TapeKept == [Next]_vars => tape' = tape
BY DEF Next, vars, InitSender, InitReceiver, MaskSender, MaskReceiver, RunPhase1, RefuseRun, Run,
       RunPhase2

\* What a completed refresh makes of the receiver.
LEMMA MaskReceiverGives ==
  ASSUME NEW g, NEW n, NEW o, MaskReceiver,
         receiver = [public_gadget |-> g, masks |-> n, ote_receiver |-> o]
  PROVE  receiver' =
           IF Row \subseteq DOMAIN o.seeds0
           THEN [public_gadget |-> g, masks |-> n + 1,
                 ote_receiver |-> MaskedReceiver(o, Drawn(tape, 10, n + 1), RECEIVER, SENDER)]
           ELSE Aborted
<1> DEFINE masked(k) == MaskedReceiver(receiver.ote_receiver, Drawn(tape, 10, k), RECEIVER, SENDER)
           whole == Row \subseteq DOMAIN receiver.ote_receiver.seeds0
<1>1. receiver' = IF whole
                  THEN [receiver EXCEPT !.masks = receiver.masks + 1,
                                        !.ote_receiver = masked(receiver.masks + 1)]
                  ELSE Aborted
  BY DEF MaskReceiver
<1>2. /\ receiver.ote_receiver = o /\ receiver.masks = n
      /\ whole <=> Row \subseteq DOMAIN o.seeds0
  OBVIOUS
<1> HIDE DEF masked, whole
<1>3. CASE whole
  <2>1. receiver' = [receiver EXCEPT !.masks = n + 1, !.ote_receiver = masked(n + 1)]
    BY <1>1, <1>2, <1>3
  <2>2. receiver' = [public_gadget |-> g, masks |-> n + 1, ote_receiver |-> masked(n + 1)]
    BY <2>1
  <2>3. masked(n + 1) = MaskedReceiver(o, Drawn(tape, 10, n + 1), RECEIVER, SENDER)
    BY <1>2 DEF masked
  <2> QED BY <1>2, <1>3, <2>2, <2>3
<1>4. CASE ~whole
  BY <1>1, <1>2, <1>4
<1> QED BY <1>3, <1>4

LEMMA InStepKept ==
  ASSUME HashesAreNumbers, LuckyDraws, InStep, [Next]_vars
  PROVE  InStep'
<1>1. tape' = tape
  BY TapeKept
<1>0. PICK m \in Nat : \E ss, rr : PaceOf(m, ss, rr)
  BY DEF InStep
<1>2. PICK ss, rr :
        /\ Masked(ss, rr, m) /\ ss[0] = FirstSender /\ rr[0] = FirstReceiver
        /\ sender \in {None, Aborted} \/ \E i \in 0..m : SenderIs(ss[i], i)
        /\ receiver \in {None, Aborted} \/ \E i \in 0..m : ReceiverIs(rr[i], i)
  BY <1>0 DEF PaceOf
<1>3. Masked(ss, rr, m)' /\ ss[0] = FirstSender' /\ rr[0] = FirstReceiver'
  BY <1>1, <1>2, DrawsKept
<1>4. 0 \in 0..m
  OBVIOUS
<1>5. CASE UNCHANGED <<sender, receiver>>
  BY <1>2, <1>3, <1>5 DEF InStep, PaceOf, SenderIs, ReceiverIs
<1>6. ASSUME NEW proof \in {DLog} \cup DLogChanges, NEW nonce, InitSender(proof, nonce)
      PROVE  InStep'
  <2>1. receiver' = receiver /\ (sender' = Aborted \/ SenderIs(ss[0], 0)')
    BY <1>2, <1>6, SetUpGivesFirst DEF InitSender, SenderIs
  <2> QED BY <1>2, <1>3, <1>4, <2>1 DEF InStep, PaceOf, ReceiverIs
<1>7. ASSUME NEW seed \in {OTSeed, Wrong(OTSeed)}, NEW proofs \in {EncProofs} \cup EncProofChanges,
             InitReceiver(seed, proofs)
      PROVE  InStep'
  <2> DEFINE o == OTEReceiverInit(InitSid, SecretS, proofs)
  <2>1. /\ sender' = sender
        /\ receiver' = IF \A i \in DOMAIN proofs : BaseSenderAccepts(InitSid, i, seed, proofs[i])
                       THEN [public_gadget |-> PublicGadget(Nonce), masks |-> 0, ote_receiver |-> o]
                       ELSE Aborted
    BY <1>7 DEF InitReceiver
  <2>2. (\A i \in DOMAIN proofs : BaseSenderAccepts(InitSid, i, seed, proofs[i]))
          => Agrees(o, FirstReceiver)
    BY SetUpGivesFirst
  <2> HIDE DEF o
  <2>3. receiver' = Aborted \/ ReceiverIs(rr[0], 0)'
    BY <1>2, <2>1, <2>2 DEF ReceiverIs
  <2> QED BY <1>2, <1>3, <1>4, <2>1, <2>3 DEF InStep, PaceOf, SenderIs
<1>8. CASE MaskSender \/ MaskReceiver
  <2>1. PICK i \in 0..m, j \in 0..m : SenderIs(ss[i], i) /\ ReceiverIs(rr[j], j)
    BY <1>2, <1>8 DEF MaskSender, MaskReceiver, SetUp
  <2>2. PICK ss2, rr2 : /\ Masked(ss2, rr2, m + 1)
                        /\ \A n \in 0..m : ss2[n] = ss[n] /\ rr2[n] = rr[n]
    BY <1>2, MaskedGrows
  <2>3. /\ i + 1 \in 0..(m + 1) /\ j + 1 \in 0..(m + 1) /\ i \in 0..(m + 1) /\ j \in 0..(m + 1)
        /\ i \in 0..((m + 1) - 1) /\ j \in 0..((m + 1) - 1) /\ m + 1 \in Nat
    OBVIOUS
  <2>4. /\ ss2[i + 1] = MaskedSender(ss2[i], MaskSeed(i + 1), SENDER, RECEIVER)
        /\ rr2[j + 1] = MaskedReceiver(rr2[j], MaskSeed(j + 1), RECEIVER, SENDER)
        /\ WholeSeeds(rr2[j])
    BY <2>2, <2>3 DEF Masked
  <2>5. Masked(ss2, rr2, m + 1)' /\ ss2[0] = FirstSender' /\ rr2[0] = FirstReceiver'
    BY <1>1, <1>3, <1>4, <2>2, DrawsKept
  <2>6. SenderIs(ss2[i], i) /\ ReceiverIs(rr2[j], j)
    BY <2>1, <2>2
  <2>7. CASE MaskSender
    <3>1. PICK g : sender = [public_gadget |-> g, masks |-> i, ote_sender |-> ss2[i]]
      BY <2>6 DEF SenderIs
    <3>2. sender' = [public_gadget |-> g, masks |-> i + 1, ote_sender |-> ss2[i + 1]]
      BY <2>4, <2>7, <3>1 DEF MaskSender, MaskSeed
    <3>3. SenderIs(ss2[i + 1], i + 1)' /\ ReceiverIs(rr2[j], j)'
      BY <2>6, <2>7, <3>2 DEF SenderIs, ReceiverIs, MaskSender
    <3> QED BY <2>3, <2>5, <3>3 DEF InStep, PaceOf
  <2>8. CASE MaskReceiver
    <3>1. PICK g, o : /\ Agrees(o, rr2[j])
                      /\ receiver = [public_gadget |-> g, masks |-> j, ote_receiver |-> o]
      BY <2>6 DEF ReceiverIs
    <3> DEFINE masked == MaskedReceiver(o, MaskSeed(j + 1), RECEIVER, SENDER)
    <3>2. receiver' = IF Row \subseteq DOMAIN o.seeds0
                      THEN [public_gadget |-> g, masks |-> j + 1, ote_receiver |-> masked]
                      ELSE Aborted
      BY <2>8, <3>1, MaskReceiverGives DEF MaskSeed
    <3>3. Row \subseteq DOMAIN o.seeds0 => Agrees(masked, rr2[j + 1])
      BY <2>4, <3>1, MaskedAgrees
    <3> HIDE DEF masked
    <3>4. SenderIs(ss2[i], i)' /\ (receiver' = Aborted \/ ReceiverIs(rr2[j + 1], j + 1)')
      BY <2>6, <2>8, <3>2, <3>3 DEF SenderIs, ReceiverIs, MaskReceiver
    <3> QED BY <2>3, <2>5, <3>4 DEF InStep, PaceOf
  <2> QED BY <1>8, <2>7, <2>8
<1>9. (\E row_bits : RunPhase1(row_bits)) \/ RefuseRun \/ (\E sid, data : Run(sid, data))
        \/ (\E data : RunPhase2(data)) \/ UNCHANGED vars
      => UNCHANGED <<sender, receiver>>
  BY DEF RunPhase1, RefuseRun, Run, RunPhase2, vars
<1> QED BY <1>5, <1>6, <1>7, <1>8, <1>9 DEF Next

LEMMA CountedKept ==
  ASSUME MarkersAreNoData, InStep, Counted, [Next]_vars
  PROVE  Counted'
<1>1. ASSUME UNCHANGED <<receiver, kept, toSender>>, altered \subseteq altered' PROVE Counted'
  BY <1>1 DEF Counted
<1>2. ASSUME NEW proof, NEW nonce, InitSender(proof, nonce) PROVE Counted'
  BY <1>1, <1>2 DEF InitSender, Arrives
<1>3. ASSUME NEW seed, NEW proofs, InitReceiver(seed, proofs) PROVE Counted'
  <2>1. /\ receiver = None /\ UNCHANGED <<kept, toSender>> /\ altered \subseteq altered'
        /\ altered' = {} => proofs = EncProofs
        /\ receiver' = Aborted \/ receiver' = [public_gadget |-> PublicGadget(Nonce), masks |-> 0,
                                    ote_receiver |-> OTEReceiverInit(InitSid, SecretS, proofs)]
    BY <1>3 DEF InitReceiver, Arrives
  <2>2. toSender = None
    BY <2>1 DEF Counted
  <2>3. WholeSeeds(OTEReceiverInit(InitSid, SecretS, EncProofs))
    BY DEF OTEReceiverInit, EncProofs, EncProofList, WholeSeeds, Row
  <2> QED BY <2>1, <2>2, <2>3 DEF Counted
<1>4. CASE MaskSender
  BY <1>1, <1>4 DEF MaskSender
<1>5. CASE MaskReceiver
  <2>1. receiver \notin {None, Aborted} /\ kept = None /\ UNCHANGED <<kept, toSender, altered>>
    BY <1>5 DEF MaskReceiver, SetUp
  <2>2. toSender = None
    BY <2>1 DEF Counted
  <2>3. PICK g, n, o, r : /\ Agrees(o, r) /\ WholeSeeds(r)
                          /\ receiver = [public_gadget |-> g, masks |-> n, ote_receiver |-> o]
    BY <2>1 DEF InStep, PaceOf, ReceiverIs, Masked
  <2> DEFINE masked == MaskedReceiver(o, Drawn(tape, 10, n + 1), RECEIVER, SENDER)
  <2>4. receiver' = IF Row \subseteq DOMAIN o.seeds0
                    THEN [public_gadget |-> g, masks |-> n + 1, ote_receiver |-> masked]
                    ELSE Aborted
    BY <1>5, <2>3, MaskReceiverGives
  <2>5. WholeSeeds(o) => Row \subseteq DOMAIN o.seeds0 /\ WholeSeeds(masked)
    BY <2>3, MaskedAgrees DEF WholeSeeds
  <2> HIDE DEF masked
  <2> QED BY <2>1, <2>2, <2>3, <2>4, <2>5 DEF Counted
<1>6. ASSUME NEW row_bits, RunPhase1(row_bits) PROVE Counted'
  <2>1. /\ SetUp /\ receiver' = receiver /\ WholeSeeds(receiver.ote_receiver)
        /\ kept' # None /\ toSender' # None
    BY <1>6 DEF RunPhase1, OTEMessage, MarkersAreNoData
  <2> QED BY <2>1 DEF Counted, SetUp
<1>7. CASE RefuseRun
  <2>1. /\ receiver \notin {None, Aborted} /\ ~WholeSeeds(receiver.ote_receiver) /\ kept = None
        /\ UNCHANGED <<receiver, toSender, altered>>
    BY <1>7 DEF RefuseRun, SetUp
  <2> QED BY <2>1 DEF Counted
<1>8. ASSUME NEW sid, NEW data, Run(sid, data) PROVE Counted'
  BY <1>1, <1>8 DEF Run, Arrives
<1>9. ASSUME NEW data, RunPhase2(data) PROVE Counted'
  BY <1>1, <1>9 DEF RunPhase2, Arrives
<1>10. CASE UNCHANGED vars
  BY <1>1, <1>10 DEF vars
<1> QED BY <1>2, <1>3, <1>4, <1>5, <1>6, <1>7, <1>8, <1>9, <1>10 DEF Next

LEMMA PaceKept ==
  ASSUME HashesAreNumbers, MarkersAreNoData, LuckyDraws, Pace, [Next]_vars
  PROVE  Pace'
BY InStepKept, CountedKept DEF Pace

LEMMA PaceCorrelates == Pace => CorrelationHolds
<1> SUFFICES ASSUME Pace, SetUp, sender.masks = receiver.masks,
                    NEW rows, rows = DOMAIN receiver.ote_receiver.seeds0
             PROVE  /\ \A k \in Row \cap rows :
                         CorrelatedAt(sender.ote_sender, receiver.ote_receiver, k)
                    /\ toSender # None => rows = Row
  BY DEF CorrelationHolds
<1>0. PICK m \in Nat : \E ss, rr : PaceOf(m, ss, rr)
  BY DEF Pace, InStep
<1>1. PICK ss, rr :
        /\ Masked(ss, rr, m) /\ ss[0] = FirstSender /\ rr[0] = FirstReceiver
        /\ sender \in {None, Aborted} \/ \E i \in 0..m : SenderIs(ss[i], i)
        /\ receiver \in {None, Aborted} \/ \E i \in 0..m : ReceiverIs(rr[i], i)
  BY <1>0 DEF PaceOf
<1>2. PICK i \in 0..m, j \in 0..m : SenderIs(ss[i], i) /\ ReceiverIs(rr[j], j)
  BY <1>1 DEF SetUp
<1>3. /\ sender.ote_sender = ss[i] /\ sender.masks = i
      /\ Agrees(receiver.ote_receiver, rr[j]) /\ receiver.masks = j
  BY <1>2 DEF SenderIs, ReceiverIs
<1>4. Correlated(sender.ote_sender, rr[i]) /\ Agrees(receiver.ote_receiver, rr[i])
  BY <1>1, <1>3 DEF Masked
<1>5. ASSUME NEW k \in Row \cap rows
      PROVE  CorrelatedAt(sender.ote_sender, receiver.ote_receiver, k)
  BY <1>4 DEF Agrees, Correlated, CorrelatedAt
<1>6. toSender # None => rows = Row
  BY DEF Pace, Counted, WholeSeeds
<1> QED BY <1>5, <1>6

\* Who has sent something has seeds in every row.
LEMMA SentCorrelated ==
  ASSUME Pace, SetUp, sender.masks = receiver.masks, toSender # None
  PROVE  Correlated(sender.ote_sender, receiver.ote_receiver)
BY PaceCorrelates DEF CorrelationHolds, Correlated


\* Two ends that completed the same refreshes hold a correlated pair in every row the
\* receiver got, whatever arrived altered in the key generation, its number of proofs
\* included, and however far one end is ahead of the other meanwhile (base.rs, extension.rs
\* init_phase2, refresh.rs 1071-1156), and a run begins with all rows only: for every hash,
\* group and number of rows, unless draws were unlucky.
THEOREM CorrelationAlwaysHolds ==
  ASSUME HashesAreNumbers, MarkersAreNoData
  PROVE  Spec /\ LuckyDraws => []CorrelationHolds
<1>1. Pace => CorrelationHolds
  BY PaceCorrelates
<1>2. Init /\ LuckyDraws => Pace /\ LuckyDraws
  BY PaceInit
<1>3. Pace /\ LuckyDraws /\ [Next]_vars => (Pace /\ LuckyDraws)'
  BY TapeKept, PaceKept, DrawsKept
<1> QED BY <1>1, <1>2, <1>3, PTL DEF Spec

-----------------------------------------------------------------------------
(* What nobody altered is accepted.                                        *)

\* The proofs of the set-up are in general position: the commitments of the DLogProof
\* differ, and no point of an EncProof is the identity.
LuckyProofs ==
  /\ \A i, j \in 1..(2 * Pairs) : i # j => DrawnPoint(tape, 9, i) # DrawnPoint(tape, 9, j)
  /\ \A i \in Row : LET p == EncProofs[i]
                    IN  Identity \notin {p.proof0.point_u, p.proof0.point_v,
                                         p.proof1.point_u, p.proof1.point_v}

\* A proof that prove returns verifies (DLogProof, proofs.rs).
LEMMA DLogAccepted ==
  ASSUME HashesAreNumbers, LuckyDraws, LuckyProofs
  PROVE  DLogVerifies(DLog, InitSid)
<1> DEFINE n == 2 * Pairs
           rands == [i \in 1..n |-> DrawnPoint(tape, 9, i)]
           s == SecretS
           schnorr(i, c) == Schnorr(s, rands[i], c)
<1>0. s \in Scalar \ {0} /\ Pairs \in Nat /\ n \in Nat
  BY TapeTypes, GroupAssumption
<1>1. PICK cs \in [1..n -> Challenge] :
        /\ \A i \in 1..Pairs : FischlinHash(InitSid, rands, i, schnorr(i, cs[i]))
                    = FischlinHash(InitSid, rands, i + Pairs, schnorr(i + Pairs, cs[i + Pairs]))
        /\ DLog = [point |-> s, rand_commitments |-> rands,
                   proofs |-> [i \in 1..n |-> schnorr(i, cs[i])]]
  BY DEF LuckyDraws, DLogProofs
<1>2. \A i \in 1..n : rands[i] = DrawnPoint(tape, 9, i) /\ rands[i] \in Scalar \ {0}
  BY DrawnType
<1>3. Len(rands) = n /\ DOMAIN rands = 1..n
  BY <1>0
<1> DEFINE proofs == [i \in 1..n |-> schnorr(i, cs[i])]
<1>4. Len(proofs) = n /\ \A i \in 1..n : proofs[i] = schnorr(i, cs[i])
  BY <1>0
<1>5. \A i \in 1..Pairs : i \in 1..n /\ i + Pairs \in 1..n
  BY <1>0
<1>6. DLog.point = s /\ DLog.rand_commitments = rands /\ DLog.proofs = proofs
  BY <1>1
<1> HIDE DEF rands, s, proofs
<1>7. \A i \in 1..Pairs : FischlinHash(InitSid, rands, i, proofs[i])
                            = FischlinHash(InitSid, rands, i + Pairs, proofs[i + Pairs])
  BY <1>1, <1>4, <1>5
<1>8. ASSUME NEW i \in 1..n PROVE SchnorrVerifies(proofs[i], s, rands[i])
  <2> DEFINE c == cs[i] % Q
  <2>1. proofs[i] = [challenge |-> cs[i], response |-> Sub(rands[i], Mul(c, s))]
    BY <1>4 DEF Schnorr
  <2>2. cs[i] \in Challenge /\ cs[i] \in Nat
    BY <1>1, GroupAssumption
  <2>3. c \in Scalar
    BY <2>2, SameModulo
  <2> HIDE DEF c
  <2>4. Mul(c, s) = Mul(s, c) /\ Mul(c, s) \in Scalar
    BY <1>0, <2>3, MulCommutes, ScalarFacts
  <2>5. Add(Sub(rands[i], Mul(c, s)), Mul(s, c)) = rands[i]
    BY <1>2, <2>4, AddFacts
  <2> QED BY <2>1, <2>2, <2>5 DEF SchnorrVerifies, c
<1>9. \A i \in 1..n : rands[i] # Identity /\ \A j \in 1..(i - 1) : rands[j] # rands[i]
  <2> SUFFICES ASSUME NEW i \in 1..n, NEW j \in 1..(i - 1) PROVE rands[j] # rands[i]
    BY <1>2 DEF Identity
  <2>1. j \in 1..n /\ j # i
    BY <1>0
  <2> QED BY <1>2, <2>1 DEF LuckyProofs
<1> QED BY <1>0, <1>3, <1>4, <1>6, <1>7, <1>8, <1>9 DEF DLogVerifies, Identity

\* A commitment is what a response to any challenge explains.
LEMMA ResponseExplains ==
  ASSUME NEW g \in Scalar, NEW r \in Scalar, NEW rand \in Scalar, NEW c \in Scalar
  PROVE  Add(Mul(g, Sub(rand, Mul(c, r))), Mul(Mul(g, r), c)) = Mul(g, rand)
<1> DEFINE m == Mul(c, r)
           z == Sub(rand, m)
<1>1. m \in Scalar /\ z \in Scalar /\ Add(z, m) = rand
  BY AddFacts, ScalarFacts
<1>2. m = Mul(r, c)
  BY MulCommutes
<1>3. Mul(Mul(g, r), c) = Mul(g, m)
  BY <1>2, MulFacts
<1> HIDE DEF m, z
<1>4. Add(Mul(g, z), Mul(g, m)) = Mul(g, Add(z, m))
  BY <1>1, MulFacts
<1> QED BY <1>1, <1>3, <1>4 DEF m, z

\* An honest EncProof without the identity in it verifies (proofs.rs 765-975).
LEMMA EncAccepted ==
  ASSUME HashesAreNumbers, NEW sid, NEW h \in Scalar \ {0}, NEW r \in Scalar, NEW bit \in BOOLEAN,
         NEW coins, coins.rand \in Scalar, coins.challenge \in Scalar, coins.response \in Scalar,
         LET p == EncProof(sid, h, r, bit, coins)
         IN  Identity \notin {p.proof0.point_u, p.proof0.point_v, p.proof1.point_u, p.proof1.point_v}
  PROVE  EncVerifies(EncProof(sid, h, r, bit, coins), sid)
<1> DEFINE proof == EncProof(sid, h, r, bit, coins)
           u == Mul(h, r)
           v == IF bit THEN Add(r, h) ELSE r
           fake_v == IF bit THEN v ELSE Sub(r, h)
           rc == RandomCommitments(Generator, h, coins.rand)
           fake == Simulated(Generator, h, fake_v, u, coins.response)
           fc == Explained(fake, coins.challenge)
           c0 == IF bit THEN fc ELSE rc
           c1 == IF bit THEN rc ELSE fc
           hash == FiatShamir(sid, h, u, v, c0, c1)
           challenge == Sub(hash, coins.challenge)
           real == CPProof(Generator, h, r, coins.rand, challenge)
<1>1. proof = [proof0 |-> IF bit THEN fake ELSE real, proof1 |-> IF bit THEN real ELSE fake,
               commitments0 |-> c0, commitments1 |-> c1,
               challenge0 |-> IF bit THEN coins.challenge ELSE challenge,
               challenge1 |-> IF bit THEN challenge ELSE coins.challenge]
  BY DEF EncProof
<1>2. hash \in Scalar
  BY GroupAssumption DEF HashesAreNumbers, FiatShamir, HashAsScalar, Scalar
<1>3. /\ real = [base_g |-> Generator, base_h |-> h, point_u |-> Mul(Generator, r), point_v |-> u,
                 challenge_response |-> Sub(coins.rand, Mul(challenge, r))]
      /\ fake = [base_g |-> Generator, base_h |-> h, point_u |-> fake_v, point_v |-> u,
                 challenge_response |-> coins.response]
      /\ rc = [g |-> Mul(Generator, coins.rand), h |-> Mul(h, coins.rand)]
  BY DEF CPProof, Simulated, RandomCommitments
<1>4. Generator \in Scalar /\ \A x \in Scalar : Mul(Generator, x) = x
  BY ScalarFacts, MulFacts DEF Generator
<1> HIDE DEF u, rc, fake, fc, hash
<1>5. challenge \in Scalar /\ Add(challenge, coins.challenge) = hash
                           /\ Add(coins.challenge, challenge) = hash
  <2>1. ASSUME NEW a \in Scalar, NEW b \in Scalar
        PROVE  Sub(a, b) \in Scalar /\ Add(Sub(a, b), b) = a /\ Add(b, Sub(a, b)) = a
    <3>1. Sub(a, b) \in Scalar /\ Add(Sub(a, b), b) = a
      BY AddFacts, ScalarFacts
    <3> QED BY <3>1, AddFacts
  <2>2. coins.challenge \in Scalar
    OBVIOUS
  <2> QED BY <1>2, <2>1, <2>2
<1> HIDE DEF challenge
<1>6. Explained(real, challenge) = rc
  <2>1. /\ Add(Mul(Generator, Sub(coins.rand, Mul(challenge, r))), Mul(Mul(Generator, r), challenge))
             = Mul(Generator, coins.rand)
        /\ Add(Mul(h, Sub(coins.rand, Mul(challenge, r))), Mul(Mul(h, r), challenge))
             = Mul(h, coins.rand)
    BY <1>4, <1>5, ResponseExplains
  <2>2. Explained(real, challenge) =
          [g |-> Add(Mul(Generator, Sub(coins.rand, Mul(challenge, r))), Mul(Mul(Generator, r), challenge)),
           h |-> Add(Mul(h, Sub(coins.rand, Mul(challenge, r))), Mul(u, challenge))]
    BY <1>3 DEF Explained
  <2> QED BY <1>3, <2>1, <2>2 DEF u
<1>7. Explained(fake, coins.challenge) = fc
  BY DEF fc
<1>8. real.point_u = r /\ real.point_v = u /\ real.base_g = Generator /\ real.base_h = h
      /\ fake.point_u = fake_v /\ fake.point_v = u /\ fake.base_g = Generator /\ fake.base_h = h
  BY <1>3, <1>4
<1> HIDE DEF real
<1> DEFINE p0 == IF bit THEN fake ELSE real
           p1 == IF bit THEN real ELSE fake
           ch0 == IF bit THEN coins.challenge ELSE challenge
           ch1 == IF bit THEN challenge ELSE coins.challenge
<1>9. /\ p0.base_g = Generator /\ p1.base_g = Generator /\ p0.base_h = h /\ p1.base_h = h
      /\ p0.point_v = u /\ p1.point_v = u /\ p0.point_u = v
      /\ p1.point_u = IF bit THEN r ELSE Sub(r, h)
  BY <1>8
<1>10. v = Add(IF bit THEN r ELSE Sub(r, h), h)
  BY AddFacts
<1>11. Add(ch0, ch1) = hash
  BY <1>5
<1>12. Explained(p0, ch0) = c0 /\ Explained(p1, ch1) = c1
  BY <1>6, <1>7
<1>13. hash = FiatShamir(sid, h, u, v, c0, c1)
  BY DEF hash
<1> HIDE DEF v, c0, c1, ch0, ch1, p0, p1
<1>14. /\ proof.proof0 = p0 /\ proof.proof1 = p1 /\ proof.commitments0 = c0 /\ proof.commitments1 = c1
       /\ proof.challenge0 = ch0 /\ proof.challenge1 = ch1
  BY <1>1 DEF ch0, ch1, p0, p1
<1> HIDE DEF proof
<1>15. StatementsAgree(proof)
  BY <1>9, <1>10, <1>14 DEF StatementsAgree
<1>16. PointU(proof) = u /\ PointV(proof) = v
  BY <1>9, <1>14 DEF PointU, PointV
<1>17. Identity \notin {p0.point_u, p0.point_v, p1.point_u, p1.point_v, h}
  <2>1. Identity \notin {proof.proof0.point_u, proof.proof0.point_v,
                         proof.proof1.point_u, proof.proof1.point_v}
    BY DEF proof
  <2> QED BY <1>14, <2>1 DEF Identity
<1>18. BothVerify(proof)
  BY <1>9, <1>12, <1>14, <1>17 DEF BothVerify, CPVerifies
<1>19. EncVerifies(proof, sid)
  BY <1>9, <1>11, <1>13, <1>14, <1>15, <1>16, <1>18 DEF EncVerifies
<1> QED BY <1>19 DEF proof

\* The base OT's sender accepts every row of an honest receiver.
LEMMA EncProofsAccepted ==
  ASSUME HashesAreNumbers, LuckyProofs, NEW i \in Row
  PROVE  BaseSenderAccepts(InitSid, i, OTSeed, EncProofs[i])
<1> DEFINE h == BaseH(InitSid, i, OTSeed)
           r == VecR[i]
           bit == i \in Correlation
           coins == [rand |-> DrawnPoint(tape, 4, i), challenge |-> Drawn(tape, 5, i),
                     response |-> Drawn(tape, 6, i)]
           sid == RowSid(InitSid, i)
<1>1. h \in Scalar \ {0} /\ r \in Scalar /\ bit \in BOOLEAN
  BY BaseHType, TapeTypes
<1>2. coins.rand \in Scalar /\ coins.challenge \in Scalar /\ coins.response \in Scalar
  BY DrawnType
<1>3. EncProofs[i] = EncProof(sid, h, r, bit, coins)
  BY DEF EncProofs, EncProofList, BaseReceiverPhase1, VecR, Row
<1> DEFINE p == EncProof(sid, h, r, bit, coins)
<1>4. Identity \notin {p.proof0.point_u, p.proof0.point_v, p.proof1.point_u, p.proof1.point_v}
  BY <1>3 DEF LuckyProofs
<1> HIDE DEF h, r, bit, coins, sid
<1>5. EncVerifies(p, sid)
  BY <1>1, <1>2, <1>4, EncAccepted
<1>6. p.proof0.base_h = h
  BY <1>1, HonestEncProof
<1> QED BY <1>3, <1>5, <1>6 DEF BaseSenderAccepts, h, sid

\* What run_phase1 sends and keeps.
Sent(ote) == OTEMessage(ote, 1, Extended(ChoiceBits, Noise), ExtendedBits)
Keeps(ote, gadget, data) ==
  [b |-> SumOf([j \in ChoiceBits |-> gadget[j]]),
   choice_bits |-> ChoiceBits, extended_seeds |-> ReceiverRows(ote, 1),
   chi_tilde |-> [i \in 0..(L - 1) |-> ChiTilde(1, i, data)],
   chi_hat |-> [i \in 0..(L - 1) |-> ChiHat(1, i, data)]]
\* What the two ends make of the outputs of the OT, from what run_phase1 sent and kept.
RowsOf == SenderRows(sender.ote_sender, 1, toSender.u)
ReceiverZ(data) ==
  [i \in 0..(OT_WIDTH - 1) |-> [j \in Column |->
     ReceiverPad(kept.extended_seeds, 1, j, i, kept.choice_bits, data.vector_of_tau[i][j])]]

LEMMA BitTypes ==
  /\ ChoiceBits \in SUBSET Column /\ Noise \in SUBSET Nat
  /\ Extended(ChoiceBits, Noise) \in SUBSET Nat
  /\ ExtendedBits \in [Row -> SUBSET Nat]
  /\ \A i \in Row : ExtendedBits[i] = Extended(ChoiceBits, Noise)
  /\ IsFiniteSet(Column) /\ Correlation \subseteq Row
<1>1. ChoiceBits \in SUBSET Column /\ Noise \in SUBSET Nat /\ Correlation \subseteq Row
  BY DEF ChoiceBits, Noise, Correlation, DrawnBits, Column, Row
<1>2. Column \subseteq Nat /\ IsFiniteSet(Column)
  <2>1. BATCH_SIZE \in Nat
    BY FieldAssumption DEF BATCH_SIZE
  <2>2. IsFiniteSet(0..(BATCH_SIZE - 1))
    BY <2>1, FS_Interval
  <2> QED BY <2>2 DEF Column
<1>3. Extended(ChoiceBits, Noise) \in SUBSET Nat
  <2>1. BATCH_SIZE \in Nat
    BY FieldAssumption DEF BATCH_SIZE
  <2>2. \A n \in Noise : n + BATCH_SIZE \in Nat
    BY <1>1, <2>1
  <2> QED BY <1>1, <1>2, <2>2 DEF Extended, Shift
<1> QED BY <1>1, <1>2, <1>3 DEF ExtendedBits

\* An honest receiver passes the check of the extension (extension.rs 349-375).
LEMMA ExtensionAccepted ==
  ASSUME NEW s, NEW r, Correlated(s, r), s.correlation \subseteq Row
  PROVE  LET data == Sent(r)
         IN  /\ OTEDimensions(data)
             /\ OTEConsistent(s, SenderRows(s, 1, data.u), data.verify_x, data.verify_t,
                              Challenges(1, data.u))
<1> DEFINE x == Extended(ChoiceBits, Noise)
           data == OTEMessage(r, 1, x, ExtendedBits)
           chi == Challenges(1, data.u)
<1>1. x \in SUBSET Nat /\ ExtendedBits \in [Row -> SUBSET Nat] /\ \A i \in Row : ExtendedBits[i] = x
  BY BitTypes
<1>2. Sent(r) = data
  BY DEF Sent
<1>3. DOMAIN data.u = Row /\ DOMAIN data.verify_t = Row
  BY DEF OTEMessage
<1>4. chi[1] \in FieldElement /\ chi[2] \in FieldElement
  BY ChallengeTypes
<1>5. OTEConsistent(s, SenderRows(s, 1, data.u), data.verify_x, data.verify_t, chi) <=>
        \A i \in s.correlation : WeightedSum(SymDiff(ExtendedBits[i], x), chi) = {}
  <2> HIDE DEF x
  <2> QED BY <1>1, CheckSeesWeightedDifferences
<1> HIDE DEF x, chi
<1>6. WeightedSum({}, chi) = {}
  <2>1. ASSUME NEW none \in SUBSET Nat
        PROVE  WeightedSum(SymDiff(none, none), chi) =
                 SymDiff(WeightedSum(none, chi), WeightedSum(none, chi))
    BY <1>4, WeightedSumLinear
  <2> QED BY <2>1, XorLaws
<1>7. \A i \in s.correlation : SymDiff(ExtendedBits[i], x) = {}
  BY <1>1, XorLaws
<1> QED BY <1>2, <1>3, <1>5, <1>6, <1>7 DEF OTEDimensions, chi

\* The rows the sender computed are those the receiver keeps, and with the bits of
\* verify_x added where the sender's correlation has a one.
RowsMatch ==
  \A k \in Row : RowsOf[k] =
    IF k \in sender.ote_sender.correlation
    THEN SymDiff(ReceiverRows(receiver.ote_receiver, 1)[k], Extended(ChoiceBits, Noise))
    ELSE ReceiverRows(receiver.ote_receiver, 1)[k]

\* Two ends of a run that agree on the rows and the gadget.
Honest ==
  /\ RowsMatch
  /\ sender.ote_sender.correlation \subseteq Row
  /\ sender.public_gadget = PublicGadget(Nonce) /\ receiver.public_gadget = PublicGadget(Nonce)
  /\ kept = Keeps(receiver.ote_receiver, PublicGadget(Nonce), toSender)
  /\ ran = Products(1, toSender, RowsOf)

\* They do when nothing arrived altered between two correlated states.
LEMMA SentRowsMatch ==
  ASSUME Correlated(sender.ote_sender, receiver.ote_receiver), toSender = Sent(receiver.ote_receiver)
  PROVE  RowsMatch
<1> DEFINE s == sender.ote_sender
           r == receiver.ote_receiver
           x == Extended(ChoiceBits, Noise)
<1> SUFFICES ASSUME NEW k \in Row
             PROVE  RowsOf[k] = IF k \in s.correlation THEN SymDiff(ReceiverRows(r, 1)[k], x)
                                ELSE ReceiverRows(r, 1)[k]
  BY DEF RowsMatch
<1>1. RowsOf = SenderRows(s, 1, OTEMessage(r, 1, x, ExtendedBits).u)
  BY DEF RowsOf, Sent
<1>2. ExtendedBits[k] = x
  BY BitTypes
<1> HIDE DEF x, s, r
<1> QED BY <1>1, <1>2, RowsDifferByChoice DEF s, r

\* The outputs of the OT are shares.
LEMMA OutputsShare ==
  ASSUME HashesAreNumbers, Honest, NEW i \in 0..(OT_WIDTH - 1), NEW j \in Column
  PROVE  /\ SenderPad(RowsOf, 1, j, i) \in Scalar /\ ReceiverZ(ran)[i][j] \in Scalar
         /\ Add(SenderPad(RowsOf, 1, j, i), ReceiverZ(ran)[i][j]) =
              IF j \in ChoiceBits THEN Pad(i) ELSE 0
<1> DEFINE s == sender.ote_sender
           r == receiver.ote_receiver
           x == Extended(ChoiceBits, Noise)
           t == ReceiverRows(r, 1)
           q == RowsOf
           tau == Tau(s, q, 1, j, i, Pad(i))
<1>1. s.correlation \subseteq Row
  BY DEF Honest
<1>2. Pad(i) \in Scalar
  BY DrawnType DEF Pad
<1>3. \A k \in Row : q[k] = IF k \in s.correlation THEN SymDiff(t[k], x) ELSE t[k]
  BY DEF Honest, RowsMatch
<1>4. Add(SenderPad(q, 1, j, i), ReceiverPad(t, 1, j, i, ChoiceBits, tau))
        = IF j \in ChoiceBits THEN Pad(i) ELSE 0
  <2>1. ChoiceBits \in SUBSET Column /\ Noise \in SUBSET Nat
    BY BitTypes
  <2>2. \A k \in Row : q[k] = IF k \in s.correlation
                              THEN SymDiff(t[k], Extended(ChoiceBits, Noise)) ELSE t[k]
    BY <1>3
  <2> DEFINE p == Pad(i)
  <2>3. p \in Scalar
    BY <1>2
  <2> HIDE DEF q, t, s, x, p
  <2>4. Add(SenderPad(q, 1, j, i), ReceiverPad(t, 1, j, i, ChoiceBits, Tau(s, q, 1, j, i, p)))
          = IF j \in ChoiceBits THEN p ELSE 0
    BY <1>1, <2>1, <2>2, <2>3, PadsShareTheProduct
  <2> QED BY <2>4 DEF p
<1>5. ran.vector_of_tau[i][j] = Tau(s, RowsOf, 1, j, i, Pad(i))
  <2>1. ran = Products(1, toSender, RowsOf)
    BY DEF Honest
  <2> HIDE DEF s
  <2> QED BY <2>1 DEF Products, s
<1>6. kept.extended_seeds = t /\ kept.choice_bits = ChoiceBits
  BY DEF Honest, Keeps
<1>7. ReceiverZ(ran)[i][j] = ReceiverPad(t, 1, j, i, ChoiceBits, tau)
  BY <1>5, <1>6 DEF ReceiverZ
<1> HIDE DEF t, q, tau
<1>8. \A sid, k, it, column : Randomize(sid, k, it, column) \in Scalar
  BY GroupAssumption DEF HashesAreNumbers, Randomize, HashAsScalar, Scalar
<1>9. SenderPad(q, 1, j, i) \in Scalar
  BY <1>8 DEF SenderPad
<1>10. tau \in Scalar
  BY <1>2, <1>8, <1>9, ScalarFacts DEF Tau, tau
<1>11. ReceiverPad(t, 1, j, i, ChoiceBits, tau) \in Scalar
  BY <1>8, <1>10, ScalarFacts DEF ReceiverPad
<1> QED BY <1>4, <1>7, <1>9, <1>11 DEF q

\* What run returns, row by row.
LEMMA RanFields ==
  ASSUME Honest, NEW i \in 0..(L - 1)
  PROVE  /\ i \in 0..(OT_WIDTH - 1) /\ L + i \in 0..(OT_WIDTH - 1)
         /\ ran.output[i] =
              SumOf([j \in Column |-> Mul(PublicGadget(Nonce)[j], SenderPad(RowsOf, 1, j, i))])
         /\ \A j \in Column : ran.verify_r[i][j] =
              Add(Mul(ChiTilde(1, i, toSender), SenderPad(RowsOf, 1, j, i)),
                  Mul(ChiHat(1, i, toSender), SenderPad(RowsOf, 1, j, L + i)))
         /\ ran.verify_u[i] = Add(Mul(ChiTilde(1, i, toSender), Pad(i)),
                                  Mul(ChiHat(1, i, toSender), Pad(L + i)))
         /\ ran.gamma_sender[i] = Sub(Input(i), Pad(i))
         /\ kept.chi_tilde[i] = ChiTilde(1, i, toSender) /\ kept.chi_hat[i] = ChiHat(1, i, toSender)
<1> DEFINE g == PublicGadget(Nonce)
           z == [k \in 0..(OT_WIDTH - 1) |-> [j \in Column |-> SenderPad(RowsOf, 1, j, k)]]
           ct == [k \in 0..(L - 1) |-> ChiTilde(1, k, toSender)]
           ch == [k \in 0..(L - 1) |-> ChiHat(1, k, toSender)]
<1>1. i \in 0..(OT_WIDTH - 1) /\ L + i \in 0..(OT_WIDTH - 1)
  BY RunAssumption DEF OT_WIDTH
<1>2. /\ \A j \in Column : z[i][j] = SenderPad(RowsOf, 1, j, i)
      /\ \A j \in Column : z[L + i][j] = SenderPad(RowsOf, 1, j, L + i)
      /\ ct[i] = ChiTilde(1, i, toSender) /\ ch[i] = ChiHat(1, i, toSender)
  BY <1>1
<1>3. /\ ran.output = [k \in 0..(L - 1) |->
           SumOf([j \in Column |-> Mul(sender.public_gadget[j], z[k][j])])]
      /\ ran.verify_r = [k \in 0..(L - 1) |-> [j \in Column |-> Combined(ct, ch, z, k, j)]]
      /\ ran.verify_u = [k \in 0..(L - 1) |->
           Add(Mul(ct[k], Pad(k)), Mul(ch[k], Pad(L + k)))]
      /\ ran.gamma_sender = [k \in 0..(L - 1) |-> Sub(Input(k), Pad(k))]
  BY DEF Honest, Products
<1>4. sender.public_gadget = g /\ kept.chi_tilde = ct /\ kept.chi_hat = ch
  BY DEF Honest, Keeps
<1> HIDE DEF g, z, ct, ch
<1>5. \A j \in Column : Combined(ct, ch, z, i, j) = Add(Mul(ct[i], z[i][j]), Mul(ch[i], z[L + i][j]))
  BY DEF Combined
<1>6. ran.output[i] = SumOf([j \in Column |-> Mul(g[j], z[i][j])])
  BY <1>3, <1>4
<1>7. [j \in Column |-> Mul(g[j], z[i][j])] = [j \in Column |-> Mul(g[j], SenderPad(RowsOf, 1, j, i))]
  BY <1>2
<1>8. /\ \A j \in Column : ran.verify_r[i][j] = Combined(ct, ch, z, i, j)
      /\ ran.verify_u[i] = Add(Mul(ct[i], Pad(i)), Mul(ch[i], Pad(L + i)))
      /\ ran.gamma_sender[i] = Sub(Input(i), Pad(i))
  BY <1>3
<1> QED BY <1>1, <1>2, <1>4, <1>5, <1>6, <1>7, <1>8 DEF g

\* The two ends agree on every entry of verify_r (multiplication.rs 683-687).
LEMMA EntriesAccepted ==
  ASSUME HashesAreNumbers, Honest
  PROVE  SenderIsConsistent(ran, ReceiverZ(ran)) /\ Dimensions(ran)
<1> DEFINE z == ReceiverZ(ran)
<1>1. ASSUME NEW i \in 0..(L - 1), NEW j \in Column
      PROVE  ran.verify_r[i][j] = ReceiverEntry(ran, z, i, j)
  <2> DEFINE c == ChiTilde(1, i, toSender)
             d == ChiHat(1, i, toSender)
             a == SenderPad(RowsOf, 1, j, i)
             b == SenderPad(RowsOf, 1, j, L + i)
             a2 == z[i][j]
             b2 == z[L + i][j]
             p == Pad(i)
             p2 == Pad(L + i)
  <2>1. i \in 0..(OT_WIDTH - 1) /\ L + i \in 0..(OT_WIDTH - 1)
    BY RanFields
  <2>2. /\ a \in Scalar /\ a2 \in Scalar /\ Add(a, a2) = IF j \in ChoiceBits THEN p ELSE 0
        /\ b \in Scalar /\ b2 \in Scalar /\ Add(b, b2) = IF j \in ChoiceBits THEN p2 ELSE 0
    BY <2>1, OutputsShare
  <2>3. c \in Scalar /\ d \in Scalar
    BY GroupAssumption DEF HashesAreNumbers, ChiTilde, ChiHat, TranscriptHash, HashAsScalar, Scalar
  <2>4. /\ ran.verify_r[i][j] = Add(Mul(c, a), Mul(d, b))
        /\ ran.verify_u[i] = Add(Mul(c, p), Mul(d, p2))
        /\ kept.chi_tilde[i] = c /\ kept.chi_hat[i] = d /\ kept.choice_bits = ChoiceBits
    <3>1. kept.choice_bits = ChoiceBits
      BY DEF Honest, Keeps
    <3> QED BY <3>1, RanFields
  <2>5. ReceiverEntry(ran, z, i, j) =
          Add(IF j \in ChoiceBits THEN ran.verify_u[i] ELSE 0, Sub(0, Add(Mul(c, a2), Mul(d, b2))))
    <3> HIDE DEF c, d, a2, b2, z
    <3> QED BY <2>4 DEF ReceiverEntry, Combined, a2, b2
  <2> HIDE DEF a, b, a2, b2, c, d, p, p2, z
  <2>6. Add(Mul(c, a), Mul(d, b)) =
          Add(Add(Mul(c, Add(a, a2)), Mul(d, Add(b, b2))), Sub(0, Add(Mul(c, a2), Mul(d, b2))))
    BY <2>2, <2>3, EntriesAgree
  <2>7. Add(Mul(c, 0), Mul(d, 0)) = 0
    BY <2>3, MulFacts, ScalarFacts, AddAssociates
  <2> QED BY <2>2, <2>4, <2>5, <2>6, <2>7
<1>2. Dimensions(ran)
  <2>1. L \in Nat /\ OT_WIDTH \in Nat
    BY RunAssumption DEF OT_WIDTH
  <2>2. Cardinality(0..(L - 1)) = L /\ Cardinality(0..(OT_WIDTH - 1)) = OT_WIDTH
    BY <2>1, FS_Interval
  <2>3. /\ DOMAIN ran.verify_u = 0..(L - 1) /\ DOMAIN ran.gamma_sender = 0..(L - 1)
        /\ DOMAIN ran.vector_of_tau = 0..(OT_WIDTH - 1)
    BY DEF Honest, Products
  <2> QED BY <2>2, <2>3 DEF Dimensions
<1> QED BY <1>1, <1>2 DEF SenderIsConsistent

\* What run_phase2 then returns, and run returned, add up to the product.
LEMMA OutputsMultiply ==
  ASSUME HashesAreNumbers, Honest, NEW i \in 0..(L - 1)
  PROVE  Add(ran.output[i],
             Add(Mul(kept.b, ran.gamma_sender[i]),
                 SumOf([j \in Column |-> Mul(receiver.public_gadget[j], ReceiverZ(ran)[i][j])])))
           = Mul(Input(i), kept.b)
<1> DEFINE g == PublicGadget(Nonce)
           z == ReceiverZ(ran)
           p == Pad(i)
           f1 == [j \in Column |-> Mul(g[j], SenderPad(RowsOf, 1, j, i))]
           f2 == [j \in Column |-> Mul(g[j], z[i][j])]
           h == [j \in Column |-> Mul(g[j], IF j \in ChoiceBits THEN p ELSE 0)]
           gc == [j \in ChoiceBits |-> g[j]]
           b == SumOver(g, ChoiceBits)
           in == Input(i)
<1>1. \A j \in Column : g[j] \in Scalar
  BY GroupAssumption DEF HashesAreNumbers, PublicGadget, HashAsScalar, Scalar
<1>2. p \in Scalar /\ in \in Scalar
  BY DrawnType DEF Pad, Input
<1>3. i \in 0..(OT_WIDTH - 1)
  BY RanFields
<1>4. ASSUME NEW j \in Column
      PROVE  f1[j] \in Scalar /\ f2[j] \in Scalar /\ h[j] = Add(f1[j], f2[j])
  <2> DEFINE a == SenderPad(RowsOf, 1, j, i)
             a2 == z[i][j]
             e == IF j \in ChoiceBits THEN p ELSE 0
  <2>1. a \in Scalar /\ a2 \in Scalar /\ Add(a, a2) = e
    BY <1>3, OutputsShare
  <2>2. f1[j] = Mul(g[j], a) /\ f2[j] = Mul(g[j], a2) /\ h[j] = Mul(g[j], e)
    OBVIOUS
  <2> HIDE DEF a, a2, e, f1, f2, h, g
  <2>3. Mul(g[j], Add(a, a2)) = Add(Mul(g[j], a), Mul(g[j], a2))
    BY <1>1, <2>1, MulFacts
  <2>4. Mul(g[j], a) \in Scalar /\ Mul(g[j], a2) \in Scalar
    BY <1>1, <2>1, ScalarFacts
  <2> QED BY <2>1, <2>2, <2>3, <2>4
<1>5. /\ IsFiniteSet(Column) /\ ChoiceBits \in SUBSET Column /\ IsFiniteSet(ChoiceBits)
  BY BitTypes, FS_Subset
<1>6. \A j \in Column : h[j] = Mul(g[j], IF j \in ChoiceBits THEN p ELSE 0)
  OBVIOUS
<1>7. \A j \in ChoiceBits : gc[j] = g[j]
  OBVIOUS
<1>8. SumOf(f1) = SumOver(f1, Column) /\ SumOf(f2) = SumOver(f2, Column) /\ SumOf(gc) = SumOver(gc, ChoiceBits)
  BY SumMonoid
<1>9. /\ kept.b = SumOf(gc) /\ ran.output[i] = SumOf(f1) /\ ran.gamma_sender[i] = Sub(in, p)
      /\ receiver.public_gadget = g
  <2>1. kept.b = SumOf(gc) /\ receiver.public_gadget = g
    BY DEF Honest, Keeps
  <2>2. ran.output[i] = SumOf(f1) /\ ran.gamma_sender[i] = Sub(in, p)
    BY RanFields
  <2> QED BY <2>1, <2>2
<1> HIDE DEF f1, f2, h, g, p, gc, in
<1>10. SumOver(h, Column) = Add(SumOver(f1, Column), SumOver(f2, Column))
  BY <1>4, <1>5, SumMerge
<1>11. SumOver(h, Column) = Mul(b, p) /\ b \in Scalar
  BY <1>1, <1>2, <1>5, <1>6, SumOfChosen
<1>12. kept.b = b
  BY <1>5, <1>7, <1>8, <1>9, SumSame
<1>13. SumOver(f1, Column) \in Scalar /\ SumOver(f2, Column) \in Scalar
  BY <1>4, <1>5, SumElement
<1> HIDE DEF b
<1> DEFINE s1 == SumOver(f1, Column)
           s2 == SumOver(f2, Column)
           d == Sub(in, p)
           m == Mul(b, d)
<1>14. d \in Scalar /\ Add(d, p) = in /\ Add(p, d) = in
  <2>1. d \in Scalar /\ Add(d, p) = in
    BY <1>2, AddFacts, ScalarFacts
  <2> HIDE DEF d
  <2> QED BY <1>2, <2>1, AddFacts
<1>15. m \in Scalar /\ Mul(b, p) \in Scalar
  BY <1>2, <1>11, <1>14, ScalarFacts
<1> HIDE DEF s1, s2, d
<1>16. Add(m, Mul(b, p)) = Mul(in, b)
  <2>1. Mul(b, Add(d, p)) = Add(Mul(b, d), Mul(b, p))
    BY <1>2, <1>11, <1>14, MulFacts
  <2> QED BY <1>2, <1>11, <1>14, <2>1, MulCommutes
<1> HIDE DEF m
<1>17. Add(s1, Add(m, s2)) = Add(m, Add(s1, s2))
  BY <1>13, <1>15, AddAssociates DEF s1, s2
<1>18. Add(s1, Add(m, s2)) = Mul(in, b)
  BY <1>10, <1>11, <1>16, <1>17 DEF s1, s2
<1> QED BY <1>8, <1>9, <1>12, <1>18 DEF s1, s2, m, d, in, f2, z

\* The order of a run, and that a correlation has bits of its rows only.
Ordered ==
  /\ sender \notin {None, Aborted} => sender.ote_sender.correlation \subseteq Row
  /\ toSender # None => SetUp /\ kept # None
  /\ ran # None => toSender # None
  /\ finished # None => ran # None

SameMasks == SetUp /\ sender.masks = receiver.masks
\* What the two hold as long as nothing arrived altered.  While only one of them has
\* completed a refresh it says nothing of the answers.
Untouched ==
  /\ sender # Aborted /\ receiver # Aborted
  /\ sender # None => sender.public_gadget = PublicGadget(Nonce)
  /\ receiver # None => receiver.public_gadget = PublicGadget(Nonce)
  /\ toSender # None => /\ toSender = Sent(receiver.ote_receiver)
                        /\ kept = Keeps(receiver.ote_receiver, PublicGadget(Nonce), toSender)
  /\ SameMasks /\ ran # None => ran = Products(1, toSender, RowsOf)
  /\ SameMasks /\ finished # None => /\ finished.kind = "Ok"
                                     /\ \A i \in 0..(L - 1) : SumIsProduct(i)

Faithful == Ordered /\ (altered = {} => Untouched)

\* What a step leaves alone.
LEMMA UntouchedKept ==
  ASSUME tape' = tape
  PROVE  /\ PublicGadget(Nonce)' = PublicGadget(Nonce)
         /\ receiver' = receiver =>
              /\ Sent(receiver.ote_receiver)' = Sent(receiver.ote_receiver)
              /\ toSender' = toSender =>
                   Keeps(receiver.ote_receiver, PublicGadget(Nonce), toSender)' =
                     Keeps(receiver.ote_receiver, PublicGadget(Nonce), toSender)
         /\ sender' = sender /\ toSender' = toSender =>
              Products(1, toSender, RowsOf)' = Products(1, toSender, RowsOf)
         /\ ran' = ran /\ finished' = finished /\ kept' = kept =>
              \A i \in 0..(L - 1) : SumIsProduct(i)' <=> SumIsProduct(i)
<1>1. PublicGadget(Nonce)' = PublicGadget(Nonce)
  BY DEF Nonce
<1>2. receiver' = receiver =>
        /\ Sent(receiver.ote_receiver)' = Sent(receiver.ote_receiver)
        /\ toSender' = toSender =>
             Keeps(receiver.ote_receiver, PublicGadget(Nonce), toSender)' =
               Keeps(receiver.ote_receiver, PublicGadget(Nonce), toSender)
  BY <1>1 DEF Sent, Keeps, ExtendedBits, ChoiceBits, Noise, Nonce
<1>3. sender' = sender /\ toSender' = toSender =>
        Products(1, toSender, RowsOf)' = Products(1, toSender, RowsOf)
  BY DEF Products, RowsOf, Pad, Input
<1>4. ran' = ran /\ finished' = finished /\ kept' = kept =>
        \A i \in 0..(L - 1) : SumIsProduct(i)' <=> SumIsProduct(i)
  BY DEF SumIsProduct, Input
<1> QED BY <1>1, <1>2, <1>3, <1>4

LEMMA NothingAltered ==
  ASSUME NEW what, NEW changed \in BOOLEAN, Arrives(what, changed), altered' = {}
  PROVE  ~changed /\ altered = {}
BY DEF Arrives

\* A step that changes nothing but what arrived altered.
LEMMA UntouchedStays ==
  ASSUME Untouched, UNCHANGED <<tape, sender, receiver, kept, toSender, ran, finished>>
  PROVE  Untouched'
<1>1. SameMasks' <=> SameMasks
  BY DEF SameMasks, SetUp
<1> QED BY <1>1, UntouchedKept DEF Untouched

LEMMA FaithfulInit == ASSUME MarkersAreNoData PROVE Init => Faithful
BY DEF Init, Faithful, Ordered, Untouched, MarkersAreNoData

LEMMA SetUpFaithful ==
  ASSUME HashesAreNumbers, MarkersAreNoData, LuckyDraws, LuckyProofs, Faithful
  PROVE  /\ \A dlog_proof, nonce : InitSender(dlog_proof, nonce) => Faithful'
         /\ \A seed, enc_proofs : InitReceiver(seed, enc_proofs) => Faithful'
<1>0. sender = None \/ receiver = None => ~SetUp /\ toSender = None /\ ran = None /\ finished = None
  BY DEF Faithful, Ordered, SetUp
<1>1. ASSUME NEW dlog_proof, NEW nonce, InitSender(dlog_proof, nonce) PROVE Faithful'
  <2> DEFINE made == [public_gadget |-> PublicGadget(nonce), masks |-> 0,
                      ote_sender |-> OTESenderInit(InitSid, Correlation, VecR, dlog_proof)]
  <2>1. /\ sender = None /\ sender' = IF DLogVerifies(dlog_proof, InitSid) THEN made ELSE Aborted
        /\ Arrives("set-up", <<dlog_proof, nonce>> # <<DLog, Nonce>>)
        /\ UNCHANGED <<tape, receiver, kept, toSender, ran, finished>>
    BY <1>1 DEF InitSender
  <2>2. made.ote_sender.correlation \subseteq Row
    BY BitTypes DEF OTESenderInit
  <2>3. made \notin {None, Aborted} /\ made.public_gadget = PublicGadget(nonce)
    BY DEF MarkersAreNoData
  <2>4. ASSUME altered' = {} PROVE Untouched'
    <3>1. altered = {} /\ dlog_proof = DLog /\ nonce = Nonce
      BY <2>1, <2>4, NothingAltered
    <3>2. sender' = made
      BY <2>1, <3>1, DLogAccepted
    <3>3. Untouched
      BY <3>1 DEF Faithful
    <3> HIDE DEF made
    <3> QED BY <1>0, <2>1, <2>3, <3>1, <3>2, <3>3, UntouchedKept DEF Untouched
  <2> HIDE DEF made
  <2>5. Ordered'
    BY <1>0, <2>1, <2>2 DEF Ordered
  <2> QED BY <2>4, <2>5 DEF Faithful
<1>2. ASSUME NEW seed, NEW enc_proofs, InitReceiver(seed, enc_proofs) PROVE Faithful'
  <2> DEFINE made == [public_gadget |-> PublicGadget(Nonce), masks |-> 0,
                      ote_receiver |-> OTEReceiverInit(InitSid, SecretS, enc_proofs)]
  <2>1. /\ receiver = None
        /\ receiver' = IF \A i \in DOMAIN enc_proofs :
                            BaseSenderAccepts(InitSid, i, seed, enc_proofs[i])
                       THEN made ELSE Aborted
        /\ Arrives("set-up", <<seed, enc_proofs>> # <<OTSeed, EncProofs>>)
        /\ UNCHANGED <<tape, sender, kept, toSender, ran, finished>>
    BY <1>2 DEF InitReceiver
  <2>3. made \notin {None, Aborted} /\ made.public_gadget = PublicGadget(Nonce)
    BY DEF MarkersAreNoData
  <2>4. ASSUME altered' = {} PROVE Untouched'
    <3>1. altered = {} /\ seed = OTSeed /\ enc_proofs = EncProofs
      BY <2>1, <2>4, NothingAltered
    <3>2. receiver' = made
      <4>1. DOMAIN EncProofs = Row
        BY DEF EncProofs, EncProofList, Row
      <4> QED BY <2>1, <3>1, <4>1, EncProofsAccepted
    <3>3. Untouched
      BY <3>1 DEF Faithful
    <3> HIDE DEF made
    <3> QED BY <1>0, <2>1, <2>3, <3>2, <3>3, UntouchedKept DEF Untouched
  <2> HIDE DEF made
  <2>5. Ordered'
    BY <1>0, <2>1 DEF Faithful, Ordered
  <2> QED BY <2>4, <2>5 DEF Faithful
<1> QED BY <1>1, <1>2

LEMMA PaceShapes ==
  ASSUME Pace, SetUp
  PROVE  /\ \E g, m, o : sender = [public_gadget |-> g, masks |-> m, ote_sender |-> o]
         /\ \E g, m, o : receiver = [public_gadget |-> g, masks |-> m, ote_receiver |-> o]
BY DEF Pace, InStep, PaceOf, SetUp, SenderIs, ReceiverIs

LEMMA MaskFaithful ==
  ASSUME MarkersAreNoData, Pace, Faithful
  PROVE  MaskSender \/ MaskReceiver => Faithful'
<1>1. CASE MaskSender
  <2>1. PICK g, m, o : sender = [public_gadget |-> g, masks |-> m, ote_sender |-> o]
    BY <1>1, PaceShapes DEF MaskSender
  <2> DEFINE masked == MaskedSender(o, Drawn(tape, 10, m + 1), SENDER, RECEIVER)
  <2>2. sender' = [public_gadget |-> g, masks |-> m + 1, ote_sender |-> masked]
    BY <1>1, <2>1 DEF MaskSender
  <2>3. /\ SetUp /\ ran = None
        /\ UNCHANGED <<tape, receiver, kept, toSender, ran, finished, altered>>
    BY <1>1 DEF MaskSender
  <2>4. sender' \notin {None, Aborted} /\ sender'.public_gadget = sender.public_gadget
    BY <2>1, <2>2 DEF MarkersAreNoData
  <2>5. masked.correlation \subseteq Row
    <3>1. o.correlation \subseteq Row
      BY <2>1, <2>3 DEF Faithful, Ordered, SetUp
    <3>2. masked.correlation = SymDiff(o.correlation, {i \in Row : BPrime(Drawn(tape, 10, m + 1), i, SENDER, RECEIVER)})
      BY DEF MaskedSender
    <3> QED BY <3>1, <3>2 DEF SymDiff
  <2> HIDE DEF masked
  <2>6. SetUp'
    BY <2>3, <2>4 DEF SetUp
  <2>7. Ordered'
    BY <2>2, <2>3, <2>5, <2>6 DEF Faithful, Ordered
  <2>8. ASSUME altered' = {} PROVE Untouched'
    <3>1. Untouched /\ finished = None
      BY <2>3, <2>8 DEF Faithful, Ordered
    <3> QED BY <2>3, <2>4, <3>1, UntouchedKept DEF Untouched, SetUp
  <2> QED BY <2>7, <2>8 DEF Faithful
<1>2. CASE MaskReceiver
  <2>1. PICK g, m, o : receiver = [public_gadget |-> g, masks |-> m, ote_receiver |-> o]
    BY <1>2, PaceShapes DEF MaskReceiver
  <2> DEFINE masked == MaskedReceiver(o, Drawn(tape, 10, m + 1), RECEIVER, SENDER)
  <2>2. receiver' = IF Row \subseteq DOMAIN o.seeds0
                    THEN [public_gadget |-> g, masks |-> m + 1, ote_receiver |-> masked]
                    ELSE Aborted
    BY <1>2, <2>1, MaskReceiverGives
  <2>3. /\ SetUp /\ kept = None
        /\ UNCHANGED <<tape, sender, kept, toSender, ran, finished, altered>>
    BY <1>2 DEF MaskReceiver
  <2>4. altered = {} => /\ receiver' \notin {None, Aborted}
                        /\ receiver'.public_gadget = receiver.public_gadget
    <3>1. altered = {} => WholeSeeds(o)
      BY <2>1, <2>3 DEF Pace, Counted, SetUp
    <3> QED BY <2>1, <2>2, <3>1 DEF MarkersAreNoData, WholeSeeds
  <2>5. toSender = None /\ ran = None /\ finished = None
    BY <2>3 DEF Faithful, Ordered
  <2>6. Ordered'
    BY <2>3, <2>5 DEF Faithful, Ordered
  <2>7. ASSUME altered' = {} PROVE Untouched'
    <3>1. Untouched
      BY <2>3, <2>7 DEF Faithful
    <3>2. receiver' \notin {None, Aborted} /\ receiver'.public_gadget = receiver.public_gadget
      BY <2>3, <2>4, <2>7
    <3> HIDE DEF masked
    <3> QED BY <2>3, <2>5, <3>1, <3>2, UntouchedKept DEF Untouched, SetUp, SameMasks
  <2> QED BY <2>6, <2>7 DEF Faithful
<1> QED BY <1>1, <1>2

LEMMA RunPhase1Faithful ==
  ASSUME MarkersAreNoData, Faithful, NEW row_bits, RunPhase1(row_bits)
  PROVE  Faithful'
<1> DEFINE ote == receiver.ote_receiver
           data == OTEMessage(ote, 1, Extended(ChoiceBits, Noise), row_bits)
<1>1. /\ SetUp /\ kept = None /\ toSender' = data
      /\ kept' = Keeps(ote, receiver.public_gadget, data)
      /\ Arrives("choice bits", row_bits # ExtendedBits)
      /\ UNCHANGED <<tape, sender, receiver, ran, finished>>
  BY DEF RunPhase1, Keeps
<1>2. toSender = None /\ ran = None /\ finished = None
  BY <1>1 DEF Faithful, Ordered
<1>3. kept' # None
  BY <1>1 DEF Keeps, MarkersAreNoData
<1> HIDE DEF data
<1>4. Ordered'
  BY <1>1, <1>2, <1>3 DEF Faithful, Ordered, SetUp
<1>5. ASSUME altered' = {} PROVE Untouched'
  <2>1. altered = {} /\ row_bits = ExtendedBits
    BY <1>1, <1>5, NothingAltered
  <2>2. data = Sent(ote)
    BY <2>1 DEF data, Sent
  <2>3. Untouched
    BY <2>1 DEF Faithful
  <2>4. receiver.public_gadget = PublicGadget(Nonce)
    BY <1>1, <2>3 DEF Untouched, SetUp
  <2>5. Sent(ote)' = Sent(ote) /\ PublicGadget(Nonce)' = PublicGadget(Nonce)
    BY <1>1, UntouchedKept
  <2>6. Keeps(ote, PublicGadget(Nonce), toSender)' = Keeps(ote, PublicGadget(Nonce), data)
    BY <1>1 DEF Keeps, ChoiceBits, Nonce
  <2>7. toSender' = Sent(ote)' /\ kept' = Keeps(ote, PublicGadget(Nonce), toSender)'
    BY <1>1, <2>2, <2>4, <2>5, <2>6
  <2> QED BY <1>1, <1>2, <2>3, <2>5, <2>7 DEF Untouched
<1> QED BY <1>4, <1>5 DEF Faithful

LEMMA RefuseRunFaithful ==
  ASSUME MarkersAreNoData, Faithful, RefuseRun
  PROVE  Faithful'
<1>1. /\ SetUp /\ kept = None
      /\ UNCHANGED <<tape, sender, receiver, toSender, ran, finished, altered>>
  BY DEF RefuseRun
<1>2. toSender = None /\ ran = None /\ finished = None
  BY <1>1 DEF Faithful, Ordered
<1>3. Ordered'
  BY <1>1, <1>2 DEF Faithful, Ordered, SetUp
<1> QED BY <1>1, <1>2, <1>3, UntouchedKept DEF Faithful, Untouched

\* Whom nothing was altered for is honest.
LEMMA UntouchedIsHonest ==
  ASSUME Pace, Faithful, altered = {}, SameMasks, ran # None
  PROVE  Honest
<1>2. Untouched /\ Ordered /\ toSender # None /\ SetUp
  BY DEF Faithful, Ordered
<1>1. Correlated(sender.ote_sender, receiver.ote_receiver)
  BY <1>2, SentCorrelated DEF SameMasks
<1>3. RowsMatch
  BY <1>1, <1>2, SentRowsMatch DEF Untouched
<1> QED BY <1>2, <1>3 DEF Untouched, Ordered, Honest, SetUp

LEMMA RunFaithful ==
  ASSUME Pace, Faithful, NEW sid, NEW data, Run(sid, data)
  PROVE  Faithful'
<1> DEFINE s == sender.ote_sender
<1>1. /\ toSender # None /\ ran = None
      /\ Arrives("to sender", <<sid, data>> # <<1, toSender>>)
      /\ UNCHANGED <<tape, sender, receiver, kept, toSender, finished>>
  BY DEF Run
<1>2. finished = None /\ SetUp
  BY <1>1 DEF Faithful, Ordered
<1>3. Ordered'
  BY <1>1, <1>2 DEF Faithful, Ordered, SetUp
<1>4. ASSUME altered' = {} PROVE Untouched'
  <2>1. altered = {} /\ sid = 1 /\ data = toSender
    BY <1>1, <1>4, NothingAltered
  <2>2. Untouched
    BY <2>1 DEF Faithful
  <2>3. ASSUME SameMasks PROVE ran' = Products(1, toSender, RowsOf)
    <3>1. Correlated(s, receiver.ote_receiver) /\ s.correlation \subseteq Row
      <4>1. Correlated(s, receiver.ote_receiver)
        BY <1>1, <2>3, SentCorrelated DEF SameMasks
      <4> QED BY <1>2, <4>1 DEF Faithful, Ordered, SetUp
    <3>2. toSender = Sent(receiver.ote_receiver)
      BY <1>1, <2>2 DEF Untouched
    <3>3. /\ OTEDimensions(toSender)
          /\ OTEConsistent(s, RowsOf, toSender.verify_x, toSender.verify_t, Challenges(1, toSender.u))
      <4>1. RowsOf = SenderRows(s, 1, toSender.u)
        BY DEF RowsOf
      <4> HIDE DEF s
      <4> QED BY <3>1, <3>2, <4>1, ExtensionAccepted
    <3>4. ran' = IF ~OTEDimensions(toSender) THEN Failed("MalformedMessage")
                 ELSE IF ~OTEConsistent(s, RowsOf, toSender.verify_x, toSender.verify_t, Challenges(1, toSender.u))
                 THEN Failed("ConsistencyFailure") ELSE Products(1, toSender, RowsOf)
      BY <2>1 DEF Run, RowsOf
    <3> QED BY <3>3, <3>4
  <2>4. SameMasks' <=> SameMasks
    BY <1>1 DEF SameMasks, SetUp
  <2> HIDE DEF s
  <2> QED BY <1>1, <1>2, <2>2, <2>3, <2>4, UntouchedKept DEF Untouched
<1> QED BY <1>3, <1>4 DEF Faithful

LEMMA RunPhase2Faithful ==
  ASSUME HashesAreNumbers, Pace, Faithful, NEW data, RunPhase2(data)
  PROVE  Faithful'
<1> DEFINE output(d) == [i \in 0..(L - 1) |-> Add(Mul(kept.b, d.gamma_sender[i]),
                           SumOf([j \in Column |-> Mul(receiver.public_gadget[j], ReceiverZ(d)[i][j])]))]
<1>1. /\ ran # None
      /\ \E what : Arrives(what, data # ran)
      /\ UNCHANGED <<tape, sender, receiver, kept, toSender, ran>>
      /\ finished' = IF ~Dimensions(data) THEN Failed("MalformedMessage")
                     ELSE IF ~SenderIsConsistent(data, ReceiverZ(data)) THEN Failed("ConsistencyFailure")
                     ELSE [kind |-> "Ok", output |-> output(data)]
  BY DEF RunPhase2, ReceiverZ
<1>2. Ordered'
  BY <1>1 DEF Faithful, Ordered, SetUp
<1>3. ASSUME altered' = {} PROVE Untouched'
  <2>1. altered = {} /\ data = ran
    BY <1>1, <1>3, NothingAltered
  <2>2. Untouched
    BY <2>1 DEF Faithful
  <2>3. ASSUME SameMasks PROVE finished'.kind = "Ok" /\ \A i \in 0..(L - 1) : SumIsProduct(i)'
    <3>1. Honest
      BY <1>1, <2>1, <2>3, UntouchedIsHonest
    <3>2. finished' = [kind |-> "Ok", output |-> output(ran)]
      BY <1>1, <2>1, <3>1, EntriesAccepted
    <3>3. ASSUME NEW i \in 0..(L - 1) PROVE SumIsProduct(i)'
      <4>1. finished'.output[i] = Add(Mul(kept.b, ran.gamma_sender[i]),
              SumOf([j \in Column |-> Mul(receiver.public_gadget[j], ReceiverZ(ran)[i][j])]))
        BY <3>2
      <4>2. Add(ran.output[i], finished'.output[i]) = Mul(Input(i), kept.b)
        BY <3>1, <4>1, OutputsMultiply
      <4> QED BY <1>1, <4>2 DEF SumIsProduct, Input
    <3> QED BY <3>2, <3>3
  <2>4. SameMasks' <=> SameMasks
    BY <1>1 DEF SameMasks, SetUp
  <2> HIDE DEF output
  <2> QED BY <1>1, <2>2, <2>3, <2>4, UntouchedKept DEF Untouched
<1> QED BY <1>2, <1>3 DEF Faithful

LEMMA FaithfulKept ==
  ASSUME HashesAreNumbers, MarkersAreNoData, LuckyDraws, LuckyProofs, Pace, Faithful, [Next]_vars
  PROVE  Faithful'
<1>1. CASE UNCHANGED vars
  <2>1. UNCHANGED <<tape, sender, receiver, kept, toSender, ran, finished, altered>>
    BY <1>1 DEF vars
  <2> QED BY <2>1, UntouchedStays DEF Faithful, Ordered, SetUp
<1>2. CASE Next
  BY <1>2, SetUpFaithful, MaskFaithful, RunPhase1Faithful, RefuseRunFaithful, RunFaithful,
     RunPhase2Faithful DEF Next
<1> QED BY <1>1, <1>2

\* What the two drew was lucky, in every state of a run.
Lucky == LuckyDraws /\ LuckyProofs

LEMMA FaithfulAlways ==
  ASSUME HashesAreNumbers, MarkersAreNoData
  PROVE  Spec /\ Lucky => [](Pace /\ Faithful)
<1>1. Init /\ Lucky => Pace /\ Faithful /\ Lucky
  BY PaceInit, FaithfulInit
<1>2. Pace /\ Faithful /\ Lucky /\ [Next]_vars => (Pace /\ Faithful /\ Lucky)'
  <2>1. tape' = tape => (LuckyProofs' <=> LuckyProofs)
    BY DEF LuckyProofs, EncProofs, EncProofList, OTSeed, Correlation
  <2> QED BY <2>1, TapeKept, PaceKept, FaithfulKept, DrawsKept DEF Lucky
<1> QED BY <1>1, <1>2, PTL DEF Spec

\* Nobody aborts, refuses to run or blames the other unless something arrived altered, the session ids of
\* the run differ, or only one of the two has completed a refresh (extension.rs
\* 349-375 and 554-558, multiplication.rs 683-687): for every hash, group, gadget and number
\* of products, where the draws are lucky.
THEOREM NoBlameWithoutACause ==
  ASSUME HashesAreNumbers, MarkersAreNoData
  PROVE  Spec /\ Lucky => []BlameNeedsACause
<1>1. Pace /\ Faithful => BlameNeedsACause
  <2> SUFFICES ASSUME Pace, Faithful, altered = {}, ~(SetUp /\ sender.masks # receiver.masks)
               PROVE  /\ Aborted \notin {sender, receiver}
                      /\ ~(kept # None /\ toSender = None)
                      /\ ran # None => ran.kind = "Ok"
                      /\ finished # None => finished.kind = "Ok"
    BY DEF BlameNeedsACause
  <2>1. Untouched /\ Ordered
    BY DEF Faithful
  <2>2. ran # None \/ finished # None => SameMasks /\ ran # None
    BY <2>1 DEF Ordered, SameMasks
  <2>3. \A sid, data, q : Products(sid, data, q).kind = "Ok"
    BY DEF Products
  <2>4. ~(kept # None /\ toSender = None)
    BY DEF Pace, Counted
  <2> QED BY <2>1, <2>2, <2>3, <2>4 DEF Untouched
<1> QED BY <1>1, FaithfulAlways, PTL

\* Where nothing arrives altered and the two have completed the same refreshes, run_phase2
\* succeeds and the two outputs are shares of the products of the sender's inputs and the
\* receiver's b (multiplication.rs run, run_phase2): for every gadget, number of products
\* and of rows, and every hash, where the draws are lucky.
THEOREM UnalteredRunsMultiply ==
  ASSUME HashesAreNumbers, MarkersAreNoData
  PROVE  Spec /\ Lucky => [](altered = {} /\ SameMasks /\ finished # None =>
                               /\ finished.kind = "Ok"
                               /\ \A i \in 0..(L - 1) : SumIsProduct(i))
<1>1. Pace /\ Faithful => (altered = {} /\ SameMasks /\ finished # None =>
                             /\ finished.kind = "Ok"
                             /\ \A i \in 0..(L - 1) : SumIsProduct(i))
  BY DEF Faithful, Untouched
<1> QED BY <1>1, FaithfulAlways, PTL
-----------------------------------------------------------------------------
(* What altered messages come to.                                          *)

\* The first bit of the second block weighs as much as the second challenge.
LEMMA BitWeighs ==
  ASSUME NEW chi, chi[1] \in FieldElement, chi[2] \in FieldElement
  PROVE  WeightedSum({OT_SECURITY}, chi) = chi[2]
<1> DEFINE d == OT_SECURITY
           bit == {d}
<1>1. d \in Nat /\ d >= 2 /\ bit \in SUBSET Nat /\ 0 \in 0..(d - 1)
  BY Degree
<1>2. /\ Block(bit, 0) = {x \in 0..(d - 1) : x + 0 * d \in bit}
      /\ Block(bit, 1) = {x \in 0..(d - 1) : x + 1 * d \in bit}
      /\ Block(bit, 2) = {x \in 0..(d - 1) : x + 2 * d \in bit}
  BY <1>1, BlockIs
<1>3. Block(bit, 0) = {} /\ Block(bit, 1) = {0} /\ Block(bit, 2) = {}
  <2>1. \A x \in 0..(d - 1) : x + 0 * d # d /\ (x + 1 * d = d <=> x = 0) /\ x + 2 * d # d
    BY <1>1
  <2> HIDE DEF d
  <2> QED BY <1>1, <1>2, <2>1
<1>4. /\ WeightedSum(bit, chi) =
           SymDiff(SymDiff(FieldMul(Block(bit, 0), chi[1]), FieldMul(Block(bit, 1), chi[2])),
                   Block(bit, 2))
  BY DEF WeightedSum
<1>5. {} \in FieldElement /\ {0} \in FieldElement /\ {} \in Bits /\ 0 \in Nat
      /\ chi[1] \in Bits /\ chi[2] \in Bits
  BY <1>1, Degree, BitsAdd DEF FieldElement
<1>6. FieldMul({}, chi[1]) = {}
  <2>1. FieldMul({}, chi[1]) = Product({}, chi[1])
    BY <1>5, FieldMulComputesTheProduct
  <2>2. Product({}, chi[1]) = {}
    BY <1>5, ProductAdds
  <2> QED BY <2>1, <2>2
<1>7. FieldMul({0}, chi[2]) = chi[2]
  <2>1. FieldMul({0}, chi[2]) = Product({0}, chi[2])
    BY <1>5, FieldMulComputesTheProduct
  <2>2. /\ Product({}, chi[2]) = {}
        /\ Product({} \cup {0}, chi[2]) = SymDiff(Red(Shift(chi[2], 0)), Product({}, chi[2]))
    BY <1>5, ProductAdds
  <2>3. Shift(chi[2], 0) = chi[2]
    <3>1. \A x \in chi[2] : x + 0 = x
      BY <1>5 DEF Bits
    <3> QED BY <3>1 DEF Shift
  <2>4. Red(chi[2]) = chi[2]
    BY RedFacts
  <2>5. {} \cup {0} = {0}
    OBVIOUS
  <2> QED BY <2>1, <2>2, <2>3, <2>4, <2>5, XorLaws
<1> HIDE DEF bit, d
<1>8. WeightedSum(bit, chi) = chi[2]
  <2>1. WeightedSum(bit, chi) = SymDiff(SymDiff({}, chi[2]), {})
    BY <1>3, <1>4, <1>6, <1>7
  <2>2. \A c : SymDiff(SymDiff({}, c), {}) = c
    BY XorLaws
  <2> QED BY <2>1, <2>2
<1> QED BY <1>8 DEF bit, d

\* What run_phase1 sends of some rows, and what run_phase2 returns of what it accepts.
SentBits(row_bits) == OTEMessage(receiver.ote_receiver, 1, Extended(ChoiceBits, Noise), row_bits)
Accepted(data) ==
  [kind |-> "Ok", output |-> [i \in 0..(L - 1) |->
     Add(Mul(kept.b, data.gamma_sender[i]),
         SumOf([j \in Column |-> Mul(receiver.public_gadget[j], ReceiverZ(data)[i][j])]))]]

\* What the receiver holds and the sender returned come from what arrived.
Told ==
  /\ receiver \notin {None, Aborted} => receiver.public_gadget = PublicGadget(Nonce)
  /\ toSender # None =>
       /\ kept = Keeps(receiver.ote_receiver, receiver.public_gadget, toSender)
       /\ \E row_bits \in {ExtendedBits} \cup BitsChanges : toSender = SentBits(row_bits)
  /\ ran # None /\ ran.kind = "Ok" /\ "to sender" \notin altered =>
       /\ ran = Products(1, toSender, RowsOf)
       /\ OTEConsistent(sender.ote_sender, RowsOf, toSender.verify_x, toSender.verify_t,
                        Challenges(1, toSender.u))
  /\ finished = None => "gamma_sender" \notin altered
  /\ finished # None /\ finished.kind = "Ok" =>
       /\ ran.kind = "Ok"
       /\ \E data \in {ran} \cup ToReceiverChanges :
            /\ Dimensions(data) /\ SenderIsConsistent(data, ReceiverZ(data))
            /\ finished = Accepted(data)
            /\ "gamma_sender" \in altered <=> data.gamma_sender # ran.gamma_sender

\* It says so from the beginning and at every step.
LEMMA ToldInit == ASSUME MarkersAreNoData PROVE Init => Told
BY DEF Init, Told

\* What a step leaves alone.
LEMMA ToldKept ==
  ASSUME tape' = tape
  PROVE  /\ PublicGadget(Nonce)' = PublicGadget(Nonce)
         /\ ExtendedBits' = ExtendedBits /\ BitsChanges' = BitsChanges
         /\ receiver' = receiver =>
              /\ \A row_bits : SentBits(row_bits)' = SentBits(row_bits)
              /\ \A data : Keeps(receiver.ote_receiver, receiver.public_gadget, data)' =
                             Keeps(receiver.ote_receiver, receiver.public_gadget, data)
         /\ sender' = sender /\ toSender' = toSender =>
              /\ RowsOf' = RowsOf
              /\ Products(1, toSender, RowsOf)' = Products(1, toSender, RowsOf)
         /\ receiver' = receiver /\ kept' = kept => \A data :
              /\ ReceiverZ(data)' = ReceiverZ(data) /\ Accepted(data)' = Accepted(data)
              /\ \A z : SenderIsConsistent(data, z)' <=> SenderIsConsistent(data, z)
         /\ ran' = ran => ToReceiverChanges' = ToReceiverChanges
<1>1. PublicGadget(Nonce)' = PublicGadget(Nonce) /\ ExtendedBits' = ExtendedBits /\ BitsChanges' = BitsChanges
  BY DEF Nonce, ExtendedBits, BitsChanges, ChoiceBits, Noise
<1>2. ASSUME receiver' = receiver
      PROVE  /\ \A row_bits : SentBits(row_bits)' = SentBits(row_bits)
             /\ \A data : Keeps(receiver.ote_receiver, receiver.public_gadget, data)' =
                            Keeps(receiver.ote_receiver, receiver.public_gadget, data)
  BY <1>2 DEF SentBits, Keeps, ChoiceBits, Noise
<1>3. ASSUME sender' = sender, toSender' = toSender
      PROVE  /\ RowsOf' = RowsOf
             /\ Products(1, toSender, RowsOf)' = Products(1, toSender, RowsOf)
  BY <1>3 DEF Products, RowsOf, Pad, Input
<1>4. ASSUME receiver' = receiver, kept' = kept, NEW data
      PROVE  /\ ReceiverZ(data)' = ReceiverZ(data) /\ Accepted(data)' = Accepted(data)
             /\ \A z : SenderIsConsistent(data, z)' <=> SenderIsConsistent(data, z)
  BY <1>4 DEF ReceiverZ, Accepted, SenderIsConsistent, ReceiverEntry
<1>5. ran' = ran => ToReceiverChanges' = ToReceiverChanges
  BY DEF ToReceiverChanges
<1> QED BY <1>1, <1>2, <1>3, <1>4, <1>5
LEMMA ToldStays ==
  ASSUME Told, UNCHANGED <<tape, sender, receiver, kept, toSender, ran, finished>>,
         altered \subseteq altered', "gamma_sender" \in altered' <=> "gamma_sender" \in altered
  PROVE  Told'
<1>1. Told => Told'
  <2> HIDE DEF ToReceiverChanges
  <2> QED BY ToldKept DEF Told, OTEConsistent
<1> QED BY <1>1

\* Before the receiver has sent anything there is not much to tell.
LEMMA ToldEarly ==
  ASSUME Faithful, toSender = None, Told, UNCHANGED <<toSender, ran, finished>>, tape' = tape,
         receiver' \notin {None, Aborted} => receiver'.public_gadget = PublicGadget(Nonce),
         "gamma_sender" \in altered' => "gamma_sender" \in altered
  PROVE  Told'
<1>1. ran = None /\ finished = None
  BY DEF Faithful, Ordered
<1> QED BY <1>1, ToldKept DEF Told

LEMMA ToldSetUp ==
  ASSUME MarkersAreNoData, Pace, Faithful, Told
  PROVE  /\ \A dlog_proof, nonce : InitSender(dlog_proof, nonce) => Told'
         /\ \A seed, enc_proofs : InitReceiver(seed, enc_proofs) => Told'
         /\ MaskReceiver \/ RefuseRun => Told'
<1>0. sender = None \/ receiver = None \/ kept = None => toSender = None
  BY DEF Faithful, Ordered, SetUp
<1>1. ASSUME NEW dlog_proof, NEW nonce, InitSender(dlog_proof, nonce) PROVE Told'
  <2>1. /\ sender = None /\ UNCHANGED <<tape, receiver, kept, toSender, ran, finished>>
        /\ altered' \subseteq altered \cup {"set-up"}
    BY <1>1 DEF InitSender, Arrives
  <2> QED BY <1>0, <2>1, ToldEarly DEF Told
<1>2. ASSUME NEW seed, NEW enc_proofs, InitReceiver(seed, enc_proofs) PROVE Told'
  <2>1. /\ receiver = None /\ UNCHANGED <<tape, sender, kept, toSender, ran, finished>>
        /\ altered' \subseteq altered \cup {"set-up"}
        /\ receiver' = Aborted \/ receiver'.public_gadget = PublicGadget(Nonce)
    BY <1>2 DEF InitReceiver, Arrives
  <2> QED BY <1>0, <2>1, ToldEarly
<1>3. CASE MaskReceiver
  <2>1. PICK g, m, o : receiver = [public_gadget |-> g, masks |-> m, ote_receiver |-> o]
    BY <1>3, PaceShapes DEF MaskReceiver
  <2>2. /\ kept = None /\ UNCHANGED <<tape, sender, kept, toSender, ran, finished, altered>>
        /\ receiver' = Aborted \/ receiver'.public_gadget = g
    BY <1>3, <2>1 DEF MaskReceiver
  <2>3. g = PublicGadget(Nonce)
    BY <2>1, MarkersAreNoData DEF Told, MarkersAreNoData
  <2> QED BY <1>0, <2>2, <2>3, ToldEarly
<1>4. CASE RefuseRun
  <2>1. kept = None /\ UNCHANGED <<tape, sender, receiver, toSender, ran, finished, altered>>
    BY <1>4 DEF RefuseRun
  <2>2. receiver \notin {None, Aborted} => receiver.public_gadget = PublicGadget(Nonce)
    BY DEF Told
  <2> QED BY <1>0, <2>1, <2>2, ToldEarly
<1> QED BY <1>1, <1>2, <1>3, <1>4

LEMMA ToldMaskSender ==
  ASSUME Faithful, Told, MaskSender
  PROVE  Told'
<1>1. ran = None /\ UNCHANGED <<tape, receiver, kept, toSender, ran, finished, altered>>
  BY DEF MaskSender
<1>2. finished = None
  BY <1>1 DEF Faithful, Ordered
<1> QED BY <1>1, <1>2, ToldKept DEF Told

LEMMA ToldPhase1 ==
  ASSUME MarkersAreNoData, Faithful, Told,
         NEW row_bits \in {ExtendedBits} \cup BitsChanges, RunPhase1(row_bits)
  PROVE  Told'
<1> DEFINE data == SentBits(row_bits)
<1>1. /\ kept = None /\ toSender' = data
      /\ kept' = Keeps(receiver.ote_receiver, receiver.public_gadget, data)
      /\ UNCHANGED <<tape, sender, receiver, ran, finished>>
      /\ altered' \subseteq altered \cup {"choice bits"}
  BY DEF RunPhase1, Keeps, SentBits, Arrives
<1>2. ran = None /\ finished = None
  BY <1>1 DEF Faithful, Ordered
<1> HIDE DEF data
<1>3. /\ kept' = Keeps(receiver.ote_receiver, receiver.public_gadget, toSender)'
      /\ (\E bits \in {ExtendedBits} \cup BitsChanges : toSender = SentBits(bits))'
  <2>1. data = SentBits(row_bits)'
    BY <1>1, ToldKept DEF data
  <2>2. Keeps(receiver.ote_receiver, receiver.public_gadget, toSender)' =
          Keeps(receiver.ote_receiver, receiver.public_gadget, data)
    BY <1>1 DEF Keeps, ChoiceBits
  <2> QED BY <1>1, <2>1, <2>2, ToldKept
<1> QED BY <1>1, <1>2, <1>3, ToldKept DEF Told

LEMMA ToldRun ==
  ASSUME Faithful, Told, NEW sid, NEW data, Run(sid, data)
  PROVE  Told'
<1>1. /\ ran = None /\ UNCHANGED <<tape, sender, receiver, kept, toSender, finished>>
      /\ altered' = altered \cup (IF <<sid, data>> # <<1, toSender>> THEN {"to sender"} ELSE {})
  BY DEF Run, Arrives
<1>2. finished = None
  BY <1>1 DEF Faithful, Ordered
<1>3. ASSUME ran'.kind = "Ok", "to sender" \notin altered'
      PROVE  /\ ran' = Products(1, toSender, RowsOf)
             /\ OTEConsistent(sender.ote_sender, RowsOf, toSender.verify_x, toSender.verify_t,
                              Challenges(1, toSender.u))
  <2>1. sid = 1 /\ data = toSender
    BY <1>1, <1>3
  <2>2. ran' = IF ~OTEDimensions(toSender) THEN Failed("MalformedMessage")
               ELSE IF ~OTEConsistent(sender.ote_sender, RowsOf, toSender.verify_x, toSender.verify_t,
                                      Challenges(1, toSender.u))
               THEN Failed("ConsistencyFailure") ELSE Products(1, toSender, RowsOf)
    BY <2>1 DEF Run, RowsOf
  <2> QED BY <1>3, <2>2 DEF Failed
<1>4. OTEConsistent(sender.ote_sender, RowsOf, toSender.verify_x, toSender.verify_t,
                    Challenges(1, toSender.u))' <=>
      OTEConsistent(sender.ote_sender, RowsOf, toSender.verify_x, toSender.verify_t,
                    Challenges(1, toSender.u))
  BY <1>1, ToldKept DEF OTEConsistent
<1> QED BY <1>1, <1>2, <1>3, <1>4, ToldKept DEF Told

LEMMA ToldPhase2 ==
  ASSUME MarkersAreNoData, Faithful, Told, NEW data \in {ran} \cup ToReceiverChanges, RunPhase2(data)
  PROVE  Told'
<1>1. /\ ran.kind = "Ok" /\ finished = None
      /\ UNCHANGED <<tape, sender, receiver, kept, toSender, ran>>
      /\ finished' = IF ~Dimensions(data) THEN Failed("MalformedMessage")
                     ELSE IF ~SenderIsConsistent(data, ReceiverZ(data)) THEN Failed("ConsistencyFailure")
                     ELSE Accepted(data)
  BY DEF RunPhase2, ReceiverZ, Accepted
<1>2. altered' = altered \cup
        (IF data # ran THEN {IF data.gamma_sender = ran.gamma_sender THEN "to receiver" ELSE "gamma_sender"}
         ELSE {})
  BY DEF RunPhase2, Arrives
<1>3. "gamma_sender" \in altered' <=> data.gamma_sender # ran.gamma_sender
  BY <1>1, <1>2 DEF Told
<1>4. finished' # None
  BY <1>1 DEF Failed, Accepted, MarkersAreNoData
<1>5. ASSUME finished'.kind = "Ok"
      PROVE  Dimensions(data) /\ SenderIsConsistent(data, ReceiverZ(data)) /\ finished' = Accepted(data)
  BY <1>1, <1>5 DEF Failed
<1> QED BY <1>1, <1>2, <1>3, <1>4, <1>5, ToldKept DEF Told, OTEConsistent

LEMMA ToldAlways ==
  ASSUME HashesAreNumbers, MarkersAreNoData
  PROVE  Spec /\ Lucky => [](Pace /\ Faithful /\ Told)
<1>1. Init => Told
  BY ToldInit
<1>2. Pace /\ Faithful /\ Told /\ [Next]_vars => Told'
  <2>1. CASE UNCHANGED vars
    BY <2>1, ToldStays DEF vars
  <2>2. CASE Next
    BY <2>2, ToldSetUp, ToldMaskSender, ToldPhase1, ToldRun, ToldPhase2 DEF Next
  <2> QED BY <2>1, <2>2
<1> QED BY <1>1, <1>2, FaithfulAlways, PTL DEF Spec

\* What the sender makes of the rows that run_phase1 sent.
LEMMA RowsOfBits ==
  ASSUME NEW row_bits, Correlated(sender.ote_sender, receiver.ote_receiver),
         toSender = SentBits(row_bits)
  PROVE  \A i \in Row : RowsOf[i] =
           IF i \in sender.ote_sender.correlation
           THEN SymDiff(ReceiverRows(receiver.ote_receiver, 1)[i], row_bits[i])
           ELSE ReceiverRows(receiver.ote_receiver, 1)[i]
<1> DEFINE s == sender.ote_sender
           r == receiver.ote_receiver
           x == Extended(ChoiceBits, Noise)
<1>1. RowsOf = SenderRows(s, 1, OTEMessage(r, 1, x, row_bits).u)
  BY DEF RowsOf, SentBits
<1> HIDE DEF x, s, r
<1> QED BY <1>1, RowsDifferByChoice DEF s, r

LEMMA FirstRow == 0 \in Row
BY RunAssumption DEF Row

\* Whose rows passed the check has the same bits in every row that the check sees.
LEMMA AcceptedIsHonest ==
  ASSUME Pace, Faithful, Told, SameMasks, "to sender" \notin altered,
         ran # None, ran.kind = "Ok", Challenges(1, toSender.u)[2] # {}
  PROVE  /\ RowsMatch /\ kept.extended_seeds = ReceiverRows(receiver.ote_receiver, 1)
         /\ SameGadget => Honest
<1> DEFINE s == sender.ote_sender
           r == receiver.ote_receiver
           x == Extended(ChoiceBits, Noise)
           chi == Challenges(1, toSender.u)
<1>1. Correlated(s, r) /\ s.correlation \subseteq Row /\ toSender # None /\ SetUp
  <2>1. s.correlation \subseteq Row /\ toSender # None /\ SetUp
    BY DEF Faithful, Ordered, SetUp
  <2> QED BY <2>1, SentCorrelated DEF SameMasks
<1>2. /\ kept = Keeps(r, receiver.public_gadget, toSender)
      /\ receiver.public_gadget = PublicGadget(Nonce)
      /\ ran = Products(1, toSender, RowsOf)
      /\ OTEConsistent(s, RowsOf, toSender.verify_x, toSender.verify_t, chi)
  BY <1>1 DEF Told, SetUp
<1>3. PICK row_bits \in {ExtendedBits} \cup BitsChanges : toSender = SentBits(row_bits)
  BY <1>1 DEF Told
<1>4. x \in SUBSET Nat /\ ExtendedBits \in [Row -> SUBSET Nat] /\ \A i \in Row : ExtendedBits[i] = x
  BY BitTypes
<1>5. /\ row_bits \in [Row -> SUBSET Nat]
      /\ \A i \in Row : row_bits[i] = x \/ row_bits[i] = SymDiff(x, {OT_SECURITY})
  <2>1. OT_SECURITY \in Nat /\ SymDiff(x, {OT_SECURITY}) \in SUBSET Nat
    BY <1>4, Degree DEF SymDiff
  <2>2. CASE row_bits = ExtendedBits
    BY <1>4, <2>2
  <2>3. CASE row_bits = [ExtendedBits EXCEPT ![0] = SymDiff(@, {OT_SECURITY})]
    <3> HIDE DEF x
    <3> QED BY <1>4, <2>1, <2>3, FirstRow
  <2> QED BY <1>3, <2>2, <2>3 DEF BitsChanges
<1>6. chi[1] \in FieldElement /\ chi[2] \in FieldElement
  BY ChallengeTypes
<1>7. ASSUME NEW i \in s.correlation PROVE row_bits[i] = x
  <2>1. toSender = OTEMessage(r, 1, x, row_bits) /\ RowsOf = SenderRows(s, 1, toSender.u)
    BY <1>3 DEF SentBits, RowsOf
  <2>2. WeightedSum(SymDiff(row_bits[i], x), chi) = {}
    <3> HIDE DEF s, r, x
    <3>1. LET data == OTEMessage(r, 1, x, row_bits)
              c == Challenges(1, data.u)
          IN  OTEConsistent(s, SenderRows(s, 1, data.u), data.verify_x, data.verify_t, c) <=>
                \A k \in s.correlation : WeightedSum(SymDiff(row_bits[k], x), c) = {}
      BY <1>1, <1>4, <1>5, CheckSeesWeightedDifferences
    <3> QED BY <1>2, <1>7, <2>1, <3>1
  <2>3. \A a, b : SymDiff(SymDiff(a, b), a) = b
    BY DEF SymDiff
  <2>4. row_bits[i] = SymDiff(x, {OT_SECURITY}) => WeightedSum({OT_SECURITY}, chi) = {}
    BY <2>2, <2>3
  <2>5. WeightedSum({OT_SECURITY}, chi) = chi[2] /\ chi[2] # {}
    <3> HIDE DEF chi
    <3>1. WeightedSum({OT_SECURITY}, chi) = chi[2]
      BY <1>6, BitWeighs
    <3> QED BY <3>1 DEF chi
  <2> QED BY <1>1, <1>5, <2>4, <2>5
<1>8. RowsMatch
  <2>1. \A k \in Row : RowsOf[k] = IF k \in s.correlation THEN SymDiff(ReceiverRows(r, 1)[k], row_bits[k])
                                   ELSE ReceiverRows(r, 1)[k]
    BY <1>1, <1>3, RowsOfBits
  <2> QED BY <1>7, <2>1 DEF RowsMatch
<1>9. kept.extended_seeds = ReceiverRows(r, 1)
  BY <1>2 DEF Keeps
<1> QED BY <1>1, <1>2, <1>8, <1>9 DEF Honest, SameGadget

\* What the hashes return for the message under way has no bit the checks need missing.
ChallengesTell ==
  toSender # None => /\ Challenges(1, toSender.u)[2] # {}
                     /\ kept.b # 0 /\ kept.chi_tilde[L - 1] # 0

\* The rows of a message that passes the sender's check are those the receiver keeps, or
\* these with its choice bits added where the sender's correlation has a one (extension.rs
\* 288-375), also where the receiver's bits were not the same in every row.
THEOREM AcceptedRowsMatch ==
  ASSUME HashesAreNumbers, MarkersAreNoData
  PROVE  Spec /\ Lucky => [](SameMasks /\ ChallengesTell /\ "to sender" \notin altered =>
                               AcceptedRowsAreCorrelated)
<1>1. Pace /\ Faithful /\ Told =>
        (SameMasks /\ ChallengesTell /\ "to sender" \notin altered => AcceptedRowsAreCorrelated)
  <2> SUFFICES ASSUME Pace, Faithful, Told, SameMasks, ChallengesTell, "to sender" \notin altered,
                      ran # None, ran.kind = "Ok", NEW i \in Row
               PROVE  SenderRows(sender.ote_sender, 1, toSender.u)[i] =
                        SymDiff(kept.extended_seeds[i],
                                IF i \in sender.ote_sender.correlation
                                THEN Extended(ChoiceBits, Noise) ELSE {})
    BY DEF AcceptedRowsAreCorrelated
  <2>1. RowsMatch /\ kept.extended_seeds = ReceiverRows(receiver.ote_receiver, 1)
    <3>1. toSender # None
      BY DEF Faithful, Ordered
    <3> QED BY <3>1, AcceptedIsHonest DEF ChallengesTell
  <2>2. RowsOf[i] = IF i \in sender.ote_sender.correlation
                    THEN SymDiff(kept.extended_seeds[i], Extended(ChoiceBits, Noise))
                    ELSE kept.extended_seeds[i]
    BY <2>1 DEF RowsMatch
  <2>3. SymDiff(kept.extended_seeds[i], {}) = kept.extended_seeds[i]
    BY XorLaws
  <2> QED BY <2>2, <2>3 DEF RowsOf
<1> QED BY <1>1, ToldAlways, PTL

LEMMA WrongIsWrong ==
  ASSUME NEW x \in Scalar, NEW y \in Scalar, NEW c \in Scalar, c # 0
  PROVE  /\ Wrong(x) \in Scalar /\ Wrong(x) # x
         /\ Add(x, c) # x
         /\ Add(x, y) = Add(y, x)
<1>1. \A a, b \in Scalar : Add(a, b) = (IF a + b < Q THEN a + b ELSE a + b - Q) /\ Add(a, b) \in Scalar
  BY AddFacts, ScalarFacts
<1>2. 1 \in Scalar
  BY ScalarFacts
<1>3. ASSUME NEW a \in Scalar, NEW b \in Scalar, b # 0 PROVE Add(a, b) # a
  <2>1. Add(a, b) = IF a + b < Q THEN a + b ELSE a + b - Q
    BY <1>1
  <2>2. a \in Nat /\ b \in Nat /\ b < Q /\ Q \in Nat
    BY GroupAssumption DEF Scalar
  <2> QED BY <1>3, <2>1, <2>2
<1> QED BY <1>1, <1>2, <1>3, AddFacts DEF Wrong

\* The fields of what run returned.
LEMMA RanTypes ==
  ASSUME HashesAreNumbers, Honest
  PROVE  /\ ran = [kind |-> "Ok", output |-> ran.output, vector_of_tau |-> ran.vector_of_tau,
                   verify_r |-> ran.verify_r, verify_u |-> ran.verify_u,
                   gamma_sender |-> ran.gamma_sender]
         /\ ran.vector_of_tau \in [0..(OT_WIDTH - 1) -> [Column -> Scalar]]
         /\ ran.verify_r \in [0..(L - 1) -> [Column -> Scalar]]
         /\ ran.verify_u \in [0..(L - 1) -> Scalar]
         /\ ran.gamma_sender \in [0..(L - 1) -> Scalar]
         /\ 0 \in 0..(L - 1) /\ L - 1 \in 0..(L - 1) /\ L - 1 \in 0..(OT_WIDTH - 1)
         /\ 0 \in 0..(OT_WIDTH - 1) /\ 0 \in Column
<1>1. /\ 0 \in 0..(L - 1) /\ L - 1 \in 0..(L - 1) /\ L - 1 \in 0..(OT_WIDTH - 1)
      /\ 0 \in 0..(OT_WIDTH - 1) /\ 0 \in Column
  BY RunAssumption, Degree DEF OT_WIDTH, Column, BATCH_SIZE
<1>2. ran = Products(1, toSender, RowsOf)
  BY DEF Honest
<1>3. \A sid, k, it, column : Randomize(sid, k, it, column) \in Scalar
  BY GroupAssumption DEF HashesAreNumbers, Randomize, HashAsScalar, Scalar
<1>4. \A i : Pad(i) \in Scalar /\ Input(i) \in Scalar
  BY DrawnType DEF Pad, Input
<1>5. \A j, i : /\ SenderPad(RowsOf, 1, j, i) \in Scalar
                /\ Tau(sender.ote_sender, RowsOf, 1, j, i, Pad(i)) \in Scalar
  BY <1>3, <1>4, ScalarFacts DEF SenderPad, Tau
<1>6. \A i : ChiTilde(1, i, toSender) \in Scalar /\ ChiHat(1, i, toSender) \in Scalar
  BY GroupAssumption DEF HashesAreNumbers, ChiTilde, ChiHat, TranscriptHash, HashAsScalar, Scalar
<1>7. ran.vector_of_tau \in [0..(OT_WIDTH - 1) -> [Column -> Scalar]]
  BY <1>2, <1>5 DEF Products
<1>8. ran.gamma_sender \in [0..(L - 1) -> Scalar]
  BY <1>2, <1>4, ScalarFacts DEF Products
<1>9. ran.verify_u \in [0..(L - 1) -> Scalar]
  <2>1. ASSUME NEW i \in 0..(L - 1) PROVE ran.verify_u[i] \in Scalar
    <3> DEFINE a == ChiTilde(1, i, toSender)
               b == ChiHat(1, i, toSender)
               p == Pad(i)
               q == Pad(L + i)
    <3>1. ran.verify_u[i] = Add(Mul(a, p), Mul(b, q))
      BY RanFields
    <3>2. a \in Scalar /\ b \in Scalar /\ p \in Scalar /\ q \in Scalar
      BY <1>4, <1>6
    <3> HIDE DEF a, b, p, q
    <3>3. Add(Mul(a, p), Mul(b, q)) \in Scalar
      BY <3>2, ScalarFacts
    <3> QED BY <3>1, <3>3
  <2>2. DOMAIN ran.verify_u = 0..(L - 1) /\ ran.verify_u = [i \in 0..(L - 1) |-> ran.verify_u[i]]
    BY <1>2 DEF Products
  <2> QED BY <2>1, <2>2
<1>10. ran.verify_r \in [0..(L - 1) -> [Column -> Scalar]]
  <2>1. ASSUME NEW i \in 0..(L - 1), NEW j \in Column PROVE ran.verify_r[i][j] \in Scalar
    <3> DEFINE a == ChiTilde(1, i, toSender)
               b == ChiHat(1, i, toSender)
               p == SenderPad(RowsOf, 1, j, i)
               q == SenderPad(RowsOf, 1, j, L + i)
    <3>1. ran.verify_r[i][j] = Add(Mul(a, p), Mul(b, q))
      <4>1. \A k \in Column : ran.verify_r[i][k] =
              Add(Mul(ChiTilde(1, i, toSender), SenderPad(RowsOf, 1, k, i)),
                  Mul(ChiHat(1, i, toSender), SenderPad(RowsOf, 1, k, L + i)))
        BY RanFields
      <4> QED BY <4>1
    <3>2. a \in Scalar /\ b \in Scalar /\ p \in Scalar /\ q \in Scalar
      BY <1>5, <1>6
    <3> HIDE DEF a, b, p, q
    <3>3. Add(Mul(a, p), Mul(b, q)) \in Scalar
      BY <3>2, ScalarFacts
    <3> QED BY <3>1, <3>3
  <2>2. /\ ran.verify_r = [i \in 0..(L - 1) |-> ran.verify_r[i]]
        /\ \A i \in 0..(L - 1) : ran.verify_r[i] = [j \in Column |-> ran.verify_r[i][j]]
    BY <1>2 DEF Products
  <2> QED BY <2>1, <2>2
<1>11. ran = [kind |-> "Ok", output |-> ran.output, vector_of_tau |-> ran.vector_of_tau,
              verify_r |-> ran.verify_r, verify_u |-> ran.verify_u, gamma_sender |-> ran.gamma_sender]
  BY <1>2 DEF Products
<1> QED BY <1>1, <1>7, <1>8, <1>9, <1>10, <1>11

\* A vector that is one element short.
LEMMA ShorterIsShort ==
  ASSUME NEW n \in Nat, NEW f, DOMAIN f = 0..(n - 1), 0 \in DOMAIN f
  PROVE  Cardinality(DOMAIN Shorter(f)) # n
<1>1. IsFiniteSet(0..(n - 1)) /\ Cardinality(0..(n - 1)) = n
  BY FS_Interval
<1> DEFINE S == 0..(n - 1)
<1>2. Cardinality(S \ {0}) = n - 1
  <2>1. 0 \in S /\ IsFiniteSet(S) /\ Cardinality(S) = n
    BY <1>1
  <2> HIDE DEF S
  <2> QED BY <2>1, FS_RemoveElement
<1> QED BY <1>2 DEF Shorter

\* Who chose nothing has a b of zero.
LEMMA SomethingChosen ==
  ASSUME kept = Keeps(receiver.ote_receiver, PublicGadget(Nonce), toSender), kept.b # 0
  PROVE  \E j \in Column : j \in ChoiceBits
<1>1. ASSUME ChoiceBits = {} PROVE FALSE
  <2> DEFINE f == [j \in ChoiceBits |-> PublicGadget(Nonce)[j]]
  <2>1. kept.b = SumOf(f) /\ DOMAIN f = {}
    BY <1>1 DEF Keeps
  <2> HIDE DEF f
  <2>2. SumOf(f) = SumOver(f, {})
    BY <2>1, SumMonoid
  <2>3. SumOver(f, {}) = 0
    BY FS_EmptySet, SumElement
  <2> QED BY <2>1, <2>2, <2>3
<1> QED BY <1>1, BitTypes

\* An entry of verify_r that a changed verify_u, or a changed row of tau, makes differ.
LEMMA WrongSumDiffers ==
  ASSUME NEW u \in Scalar, NEW n \in Scalar
  PROVE  Add(Wrong(u), n) # Add(u, n)
<1>1. \A x, y, z \in Scalar : Add(x, z) = Add(y, z) => x = y
  BY AddFacts
<1>2. Wrong(u) \in Scalar /\ Wrong(u) # u
  BY ScalarFacts, WrongIsWrong
<1> QED BY <1>1, <1>2

LEMMA EntryDiffers ==
  ASSUME NEW u \in Scalar, NEW c \in Scalar, NEW d \in Scalar,
         NEW t \in Scalar, NEW v \in Scalar, NEW t2 \in Scalar, c # 0
  PROVE  Add(u, Sub(0, Add(Mul(c, Add(Wrong(t), v)), Mul(d, t2)))) #
           Add(u, Sub(0, Add(Mul(c, Add(t, v)), Mul(d, t2))))
<1>1. \A x, y, z \in Scalar : Add(x, z) = Add(y, z) => x = y
  BY AddFacts
<1> DEFINE s == Add(t, v)
           m == Mul(c, s)
           k == Mul(d, t2)
           e == Add(m, k)
           e2 == Add(Add(m, c), k)
<1>2. s \in Scalar /\ m \in Scalar /\ k \in Scalar /\ 0 \in Scalar /\ 1 \in Scalar
  BY ScalarFacts
<1>3. Add(Wrong(t), v) = Add(s, 1)
  <2>1. Add(Add(t, 1), v) = Add(t, Add(1, v)) /\ Add(1, v) = Add(v, 1) /\ Add(t, Add(v, 1)) = Add(Add(t, v), 1)
    BY <1>2, AddAssociates, AddFacts
  <2> QED BY <2>1 DEF Wrong
<1>4. Mul(c, Add(s, 1)) = Add(m, c)
  <2> HIDE DEF s
  <2>1. Mul(Add(s, 1), c) = Add(Mul(c, s), c) /\ Add(s, 1) \in Scalar
    BY <1>2, ProductWithNext, ScalarFacts
  <2> QED BY <1>2, <2>1, MulCommutes
<1> HIDE DEF s, m, k
<1>5. e \in Scalar /\ e2 \in Scalar /\ Add(m, c) \in Scalar
  BY <1>2, ScalarFacts
<1>6. e # e2
  <2>1. Add(m, c) # m
    BY <1>2, WrongIsWrong
  <2> QED BY <1>1, <1>2, <1>5, <2>1
<1> HIDE DEF e, e2
<1>7. Sub(0, e) # Sub(0, e2)
  <2>1. Sub(0, e) = IF 0 < e THEN 0 + Q - e ELSE 0 - e
    BY <1>2, <1>5, AddFacts
  <2>2. Sub(0, e2) = IF 0 < e2 THEN 0 + Q - e2 ELSE 0 - e2
    BY <1>2, <1>5, AddFacts
  <2> QED BY <1>5, <1>6, <2>1, <2>2, GroupAssumption DEF Scalar
<1>8. Sub(0, e) \in Scalar /\ Sub(0, e2) \in Scalar
  BY <1>2, <1>5, ScalarFacts
<1>9. Add(u, Sub(0, e2)) # Add(u, Sub(0, e))
  <2>1. /\ Add(u, Sub(0, e2)) = Add(Sub(0, e2), u) /\ Add(u, Sub(0, e)) = Add(Sub(0, e), u)
    BY <1>8, AddFacts
  <2> QED BY <1>1, <1>7, <1>8, <2>1
<1> QED BY <1>3, <1>4, <1>9 DEF e, e2, m, k, s

\* Who has another gamma_sender has another sum.
LEMMA SumDiffers ==
  ASSUME NEW o \in Scalar, NEW b \in Scalar, NEW g \in Scalar, NEW s \in Scalar, b # 0
  PROVE  Add(o, Add(Mul(b, Wrong(g)), s)) # Add(o, Add(Mul(b, g), s))
<1>1. \A x, y, z \in Scalar : Add(x, z) = Add(y, z) => x = y
  BY AddFacts
<1> DEFINE m == Mul(b, g)
           x == Add(m, s)
           y == Add(Add(m, b), s)
<1>2. m \in Scalar /\ x \in Scalar /\ y \in Scalar /\ Add(m, b) \in Scalar
  BY ScalarFacts
<1>3. Mul(b, Wrong(g)) = Add(m, b)
  <2>1. Mul(Add(g, 1), b) = Add(Mul(b, g), b) /\ Add(g, 1) \in Scalar
    BY ProductWithNext, ScalarFacts
  <2> QED BY <2>1, MulCommutes DEF Wrong
<1> HIDE DEF m
<1>4. x # y
  <2>1. Add(m, b) # m
    BY <1>2, WrongIsWrong
  <2> QED BY <1>1, <1>2, <2>1
<1> HIDE DEF x, y
<1>5. Add(o, y) # Add(o, x)
  <2>1. Add(o, y) = Add(y, o) /\ Add(o, x) = Add(x, o)
    BY <1>2, AddFacts
  <2> QED BY <1>1, <1>2, <1>4, <2>1
<1> QED BY <1>3, <1>5 DEF x, y, m

\* What the receiver makes of column j in output i, and of an entry of verify_r.
Padded(i, j, tau) == ReceiverPad(kept.extended_seeds, 1, j, i, kept.choice_bits, tau)
LEMMA EntryOf ==
  ASSUME Honest, NEW data, NEW i \in 0..(L - 1), NEW j \in Column
  PROVE  ReceiverEntry(data, ReceiverZ(data), i, j) =
           Add(IF j \in ChoiceBits THEN data.verify_u[i] ELSE 0,
               Sub(0, Add(Mul(kept.chi_tilde[i], Padded(i, j, data.vector_of_tau[i][j])),
                          Mul(kept.chi_hat[i], Padded(L + i, j, data.vector_of_tau[L + i][j])))))
<1>1. i \in 0..(OT_WIDTH - 1) /\ L + i \in 0..(OT_WIDTH - 1)
  BY RanFields
<1>2. kept.choice_bits = ChoiceBits
  BY DEF Honest, Keeps
<1>3. /\ ReceiverZ(data)[i][j] = Padded(i, j, data.vector_of_tau[i][j])
      /\ ReceiverZ(data)[L + i][j] = Padded(L + i, j, data.vector_of_tau[L + i][j])
  BY <1>1 DEF ReceiverZ, Padded
<1>4. ReceiverEntry(data, ReceiverZ(data), i, j) =
        Add(IF j \in kept.choice_bits THEN data.verify_u[i] ELSE 0,
            Sub(0, Combined(kept.chi_tilde, kept.chi_hat, ReceiverZ(data), i, j)))
  BY DEF ReceiverEntry
<1> QED BY <1>2, <1>3, <1>4 DEF Combined

\* Of the changes to the sender's answer, run_phase2 accepts those of gamma_sender only.
LEMMA AcceptedChanges ==
  ASSUME HashesAreNumbers, Honest, kept.b # 0, kept.chi_tilde[L - 1] # 0,
         NEW data \in ToReceiverChanges, Dimensions(data), SenderIsConsistent(data, ReceiverZ(data))
  PROVE  data = [ran EXCEPT !.gamma_sender[0] = Wrong(@)]
<1> DEFINE last == L - 1
           tau == ran.vector_of_tau
           r == ran.verify_r
           u == ran.verify_u
           g == ran.gamma_sender
           entry(d, i, j) == ReceiverEntry(d, ReceiverZ(d), i, j)
<1>1. /\ ran = [kind |-> "Ok", output |-> ran.output, vector_of_tau |-> tau,
                verify_r |-> r, verify_u |-> u, gamma_sender |-> g]
      /\ tau \in [0..(OT_WIDTH - 1) -> [Column -> Scalar]]
      /\ r \in [0..(L - 1) -> [Column -> Scalar]]
      /\ u \in [0..(L - 1) -> Scalar] /\ g \in [0..(L - 1) -> Scalar]
      /\ 0 \in 0..(L - 1) /\ last \in 0..(L - 1) /\ last \in 0..(OT_WIDTH - 1)
      /\ 0 \in 0..(OT_WIDTH - 1) /\ 0 \in Column
  BY RanTypes
<1>2. L \in Nat /\ OT_WIDTH \in Nat /\ L + last # last /\ L + last \in 0..(OT_WIDTH - 1)
  BY RunAssumption DEF OT_WIDTH
<1>3. \A i \in 0..(L - 1), j \in Column : r[i][j] = entry(ran, i, j) /\ data.verify_r[i][j] = entry(data, i, j)
  BY EntriesAccepted DEF SenderIsConsistent
<1>4. PICK c \in Column : c \in ChoiceBits
  BY SomethingChosen DEF Honest
<1> DEFINE pad(d, k) == Padded(k, c, d.vector_of_tau[k][c])
           ct == kept.chi_tilde[last]
           ch == kept.chi_hat[last]
           n(d) == Sub(0, Add(Mul(ct, pad(d, last)), Mul(ch, pad(d, L + last))))
<1>5. /\ entry(ran, last, c) = Add(u[last], n(ran))
      /\ entry(data, last, c) = Add(data.verify_u[last], n(data))
  BY <1>1, <1>4, EntryOf
<1>6. /\ ct \in Scalar /\ ch \in Scalar
  <2>1. ct = ChiTilde(1, last, toSender) /\ ch = ChiHat(1, last, toSender)
    BY <1>1, RanFields
  <2>2. \A i : ChiTilde(1, i, toSender) \in Scalar /\ ChiHat(1, i, toSender) \in Scalar
    BY GroupAssumption DEF HashesAreNumbers, ChiTilde, ChiHat, TranscriptHash, HashAsScalar, Scalar
  <2> QED BY <2>1, <2>2
<1>7. \E v : \A k \in 0..(OT_WIDTH - 1) : v[k] \in Scalar /\ \A t : Padded(k, c, t) = Add(t, v[k])
  <2> DEFINE v == [k \in 0..(OT_WIDTH - 1) |->
                     Sub(0, Randomize(1, c, k, TransposedColumn(kept.extended_seeds, c)))]
  <2>1. kept.choice_bits = ChoiceBits
    BY DEF Honest, Keeps
  <2>2. \A sid, k, it, column : Randomize(sid, k, it, column) \in Scalar
    BY GroupAssumption DEF HashesAreNumbers, Randomize, HashAsScalar, Scalar
  <2>3. \A k \in 0..(OT_WIDTH - 1) : v[k] \in Scalar
    BY <2>2, ScalarFacts
  <2>4. \A k \in 0..(OT_WIDTH - 1) : \A t : Padded(k, c, t) = Add(t, v[k])
    BY <1>4, <2>1 DEF Padded, ReceiverPad
  <2> HIDE DEF v
  <2> QED BY <2>3, <2>4
<1>8. PICK v : \A k \in 0..(OT_WIDTH - 1) : v[k] \in Scalar /\ \A t : Padded(k, c, t) = Add(t, v[k])
  BY <1>7
<1>9. pad(ran, last) \in Scalar /\ pad(ran, L + last) \in Scalar /\ n(ran) \in Scalar
  <2>1. pad(ran, last) \in Scalar /\ pad(ran, L + last) \in Scalar
    <3>1. /\ pad(ran, last) = Add(tau[last][c], v[last])
          /\ pad(ran, L + last) = Add(tau[L + last][c], v[L + last])
      BY <1>1, <1>2, <1>8
    <3>2. /\ tau[last][c] \in Scalar /\ tau[L + last][c] \in Scalar
          /\ v[last] \in Scalar /\ v[L + last] \in Scalar
      BY <1>1, <1>2, <1>8
    <3> HIDE DEF pad, tau, last
    <3> QED BY <3>1, <3>2, ScalarFacts
  <2> HIDE DEF pad, ct, ch
  <2>2. Mul(ct, pad(ran, last)) \in Scalar /\ Mul(ch, pad(ran, L + last)) \in Scalar
    BY <1>6, <2>1, ScalarFacts
  <2> QED BY <2>1, <2>2, ScalarFacts
<1> HIDE DEF entry, ct, ch
<1>a. CASE data = [ran EXCEPT !.vector_of_tau[L - 1] = [j \in Column |-> Wrong(@[j])]]
  <2>1. data.verify_r = r /\ data.verify_u = u
    BY <1>1, <1>a
  <2>2. data.vector_of_tau[last][c] = Wrong(tau[last][c]) /\ data.vector_of_tau[L + last] = tau[L + last]
    BY <1>1, <1>2, <1>a
  <2>3. /\ pad(data, L + last) = pad(ran, L + last)
        /\ pad(ran, last) = Add(tau[last][c], v[last])
        /\ pad(data, last) = Add(Wrong(tau[last][c]), v[last])
    BY <1>1, <1>8, <2>2
  <2>4. tau[last][c] \in Scalar /\ v[last] \in Scalar /\ u[last] \in Scalar /\ ct # 0
    BY <1>1, <1>8 DEF ct
  <2>5. Add(u[last], n(data)) = Add(u[last], n(ran))
    BY <1>1, <1>3, <1>5, <2>1
  <2> DEFINE t == tau[last][c]
             t2 == pad(ran, L + last)
             w == v[last]
             y == u[last]
  <2>6. Add(y, Sub(0, Add(Mul(ct, Add(Wrong(t), w)), Mul(ch, t2)))) =
          Add(y, Sub(0, Add(Mul(ct, Add(t, w)), Mul(ch, t2))))
    BY <2>3, <2>5
  <2>7. t \in Scalar /\ t2 \in Scalar /\ w \in Scalar /\ y \in Scalar
    BY <1>9, <2>4
  <2> HIDE DEF t, t2, w, y, last, pad, tau, u
  <2>8. Add(y, Sub(0, Add(Mul(ct, Add(Wrong(t), w)), Mul(ch, t2)))) #
          Add(y, Sub(0, Add(Mul(ct, Add(t, w)), Mul(ch, t2))))
    BY <1>6, <2>4, <2>7, EntryDiffers
  <2> QED BY <2>6, <2>8
<1>b. CASE data = [ran EXCEPT !.vector_of_tau = Shorter(@)]
  <2>1. data.vector_of_tau = Shorter(tau) /\ DOMAIN tau = 0..(OT_WIDTH - 1)
    BY <1>1, <1>b
  <2>2. Cardinality(DOMAIN Shorter(tau)) # OT_WIDTH
    BY <1>1, <1>2, <2>1, ShorterIsShort
  <2> QED BY <2>1, <2>2 DEF Dimensions
<1>c. CASE data = [ran EXCEPT !.verify_r[0][0] = Wrong(@)]
  <2>1. data.vector_of_tau = tau /\ data.verify_u = u /\ data.verify_r[0][0] = Wrong(r[0][0])
    BY <1>1, <1>c
  <2>2. entry(data, 0, 0) = entry(ran, 0, 0)
    BY <2>1 DEF entry, ReceiverEntry, ReceiverZ
  <2>3. r[0][0] \in Scalar /\ Wrong(r[0][0]) = r[0][0]
    BY <1>1, <1>3, <2>1, <2>2
  <2>4. 1 \in Scalar /\ 1 # 0
    BY ScalarFacts
  <2> HIDE DEF r
  <2> QED BY <2>3, <2>4, WrongIsWrong
<1>d. CASE data = [ran EXCEPT !.verify_u[L - 1] = Wrong(@)]
  <2>1. data.verify_r = r /\ data.vector_of_tau = tau /\ data.verify_u[last] = Wrong(u[last])
    BY <1>1, <1>d
  <2>2. n(data) = n(ran)
    BY <2>1
  <2>3. Add(Wrong(u[last]), n(ran)) = Add(u[last], n(ran)) /\ u[last] \in Scalar
    BY <1>1, <1>3, <1>5, <2>1, <2>2
  <2> HIDE DEF n, u, last
  <2> QED BY <1>9, <2>3, WrongSumDiffers
<1>e. CASE data = [ran EXCEPT !.gamma_sender = Shorter(@)]
  <2>1. data.gamma_sender = Shorter(g) /\ DOMAIN g = 0..(L - 1)
    BY <1>1, <1>e
  <2>2. Cardinality(DOMAIN Shorter(g)) # L
    BY <1>1, <1>2, <2>1, ShorterIsShort
  <2> QED BY <2>1, <2>2 DEF Dimensions
<1> QED BY <1>a, <1>b, <1>c, <1>d, <1>e DEF ToReceiverChanges

\* With a wrong gamma_sender the first of the sums is no product.
LEMMA WrongGammaFails ==
  ASSUME HashesAreNumbers, Honest, kept.b # 0,
         finished = Accepted([ran EXCEPT !.gamma_sender[0] = Wrong(@)])
  PROVE  ~SumIsProduct(0)
<1> DEFINE data == [ran EXCEPT !.gamma_sender[0] = Wrong(@)]
           o == ran.output[0]
           b == kept.b
           g == ran.gamma_sender[0]
           share == [j \in Column |-> Mul(receiver.public_gadget[j], ReceiverZ(ran)[0][j])]
           s == SumOf(share)
<1>1. /\ ran = [kind |-> "Ok", output |-> ran.output, vector_of_tau |-> ran.vector_of_tau,
                verify_r |-> ran.verify_r, verify_u |-> ran.verify_u,
                gamma_sender |-> ran.gamma_sender]
      /\ ran.gamma_sender \in [0..(L - 1) -> Scalar] /\ 0 \in 0..(L - 1) /\ 0 \in 0..(OT_WIDTH - 1)
  BY RanTypes
<1>2. data.vector_of_tau = ran.vector_of_tau /\ data.gamma_sender[0] = Wrong(g)
  BY <1>1
<1>3. finished.output[0] = Add(Mul(b, Wrong(g)), s)
  <2>1. ReceiverZ(data) = ReceiverZ(ran)
    BY <1>2 DEF ReceiverZ
  <2> QED BY <1>1, <1>2, <2>1 DEF Accepted
<1>4. Add(o, Add(Mul(b, g), s)) = Mul(Input(0), b)
  BY <1>1, OutputsMultiply
<1>5. g \in Scalar
  BY <1>1
<1>6. \A j \in Column : PublicGadget(Nonce)[j] \in Scalar
  BY GroupAssumption DEF HashesAreNumbers, PublicGadget, HashAsScalar, Scalar
<1>7. s \in Scalar
  <2>1. receiver.public_gadget = PublicGadget(Nonce)
    BY DEF Honest
  <2>2. \A j \in Column : share[j] \in Scalar
    BY <1>1, <1>6, <2>1, OutputsShare, ScalarFacts
  <2>3. DOMAIN share = Column
    OBVIOUS
  <2> HIDE DEF share
  <2> QED BY <2>2, <2>3, SumMonoid, SumElement, BitTypes
<1>8. o \in Scalar
  <2> DEFINE f == [j \in Column |-> Mul(PublicGadget(Nonce)[j], SenderPad(RowsOf, 1, j, 0))]
  <2>1. o = SumOf(f)
    BY <1>1, RanFields
  <2>2. \A j \in Column : f[j] \in Scalar
    BY <1>1, <1>6, OutputsShare, ScalarFacts
  <2>3. DOMAIN f = Column
    OBVIOUS
  <2> HIDE DEF f
  <2> QED BY <2>1, <2>2, <2>3, SumMonoid, SumElement, BitTypes
<1>9. b \in Scalar
  <2> DEFINE f == [j \in ChoiceBits |-> PublicGadget(Nonce)[j]]
  <2>1. b = SumOf(f)
    BY DEF Honest, Keeps
  <2>2. \A j \in ChoiceBits : f[j] \in Scalar
    BY <1>6, BitTypes
  <2>3. DOMAIN f = ChoiceBits /\ IsFiniteSet(ChoiceBits)
    BY BitTypes, FS_Subset
  <2> HIDE DEF f
  <2> QED BY <2>1, <2>2, <2>3, SumMonoid, SumElement
<1> HIDE DEF s, data
<1>10. Add(o, Add(Mul(b, Wrong(g)), s)) # Add(o, Add(Mul(b, g), s))
  <2> HIDE DEF o, b, g
  <2> QED BY <1>5, <1>7, <1>8, <1>9, SumDiffers DEF b
<1> QED BY <1>3, <1>4, <1>10 DEF SumIsProduct

\* What run_phase2 accepts are shares of the products of the inputs and b, unless
\* gamma_sender arrived altered, and then they are not, whichever part of the answer, of the
\* set-up or of the choice bits was altered (multiplication.rs 665-713): for every gadget,
\* number of products and of rows.
THEOREM AcceptedRunsMultiply ==
  ASSUME HashesAreNumbers, MarkersAreNoData
  PROVE  Spec /\ Lucky => [](SameMasks /\ SameGadget /\ ChallengesTell /\ "to sender" \notin altered =>
                               AcceptedMeansProduct)
<1>1. Pace /\ Faithful /\ Told =>
        (SameMasks /\ SameGadget /\ ChallengesTell /\ "to sender" \notin altered => AcceptedMeansProduct)
  <2> SUFFICES ASSUME Pace, Faithful, Told, SameMasks, SameGadget, ChallengesTell,
                      "to sender" \notin altered, finished # None, finished.kind = "Ok"
               PROVE  (\A i \in 0..(L - 1) : SumIsProduct(i)) <=> "gamma_sender" \notin altered
    BY DEF AcceptedMeansProduct
  <2>1. ran # None /\ toSender # None /\ ran.kind = "Ok"
    BY DEF Faithful, Ordered, Told
  <2>2. Honest /\ kept.b # 0 /\ kept.chi_tilde[L - 1] # 0
    BY <2>1, AcceptedIsHonest DEF ChallengesTell
  <2>3. PICK data \in {ran} \cup ToReceiverChanges :
          /\ Dimensions(data) /\ SenderIsConsistent(data, ReceiverZ(data))
          /\ finished = Accepted(data)
          /\ "gamma_sender" \in altered <=> data.gamma_sender # ran.gamma_sender
    BY DEF Told
  <2>4. CASE data = ran
    <3>1. ASSUME NEW i \in 0..(L - 1) PROVE SumIsProduct(i)
      <4>1. finished.output[i] = Add(Mul(kept.b, ran.gamma_sender[i]),
              SumOf([j \in Column |-> Mul(receiver.public_gadget[j], ReceiverZ(ran)[i][j])]))
        BY <2>3, <2>4 DEF Accepted
      <4> QED BY <2>2, <4>1, OutputsMultiply DEF SumIsProduct
    <3> QED BY <2>3, <2>4, <3>1
  <2>5. CASE data # ran
    <3>1. data = [ran EXCEPT !.gamma_sender[0] = Wrong(@)]
      BY <2>2, <2>3, <2>5, AcceptedChanges
    <3>2. ~SumIsProduct(0)
      BY <2>2, <2>3, <3>1, WrongGammaFails
    <3>3. data.gamma_sender # ran.gamma_sender
      <4>1. data.gamma_sender = ran.gamma_sender => data = ran
        <5>1. ran = [kind |-> "Ok", output |-> ran.output, vector_of_tau |-> ran.vector_of_tau,
                     verify_r |-> ran.verify_r, verify_u |-> ran.verify_u,
                     gamma_sender |-> ran.gamma_sender]
          BY <2>2, RanTypes
        <5> QED BY <3>1, <5>1
      <4> QED BY <2>5, <4>1
    <3>4. 0 \in 0..(L - 1)
      BY <2>2, RanTypes
    <3> QED BY <2>3, <3>2, <3>3, <3>4
  <2> QED BY <2>4, <2>5
<1> QED BY <1>1, ToldAlways, PTL

\* Where the correlation has a one verify_t is changed as verify_x is, elsewhere not at all.
ChangedWithCorrelation(data) ==
  \A i \in Row : SymDiff(data.verify_t[i], toSender.verify_t[i]) =
    IF i \in sender.ote_sender.correlation THEN SymDiff(data.verify_x, toSender.verify_x) ELSE {}
\* The check of the extension.
SenderAccepts(data) ==
  OTEConsistent(sender.ote_sender, SenderRows(sender.ote_sender, 1, data.u),
                data.verify_x, data.verify_t, Challenges(1, data.u))

\* Sums that are not the ones an honest receiver sent are accepted exactly if the change of
\* verify_x is also that of verify_t in the rows where the sender's correlation has a one,
\* and verify_t is unchanged in the others (extension.rs 349-375): whatever the hashes
\* return, a change the check misses is one that fits the sender's correlation.
THEOREM ChangedSumsNameTheCorrelation ==
  ASSUME HashesAreNumbers, MarkersAreNoData
  PROVE  Spec /\ Lucky => [](altered = {} /\ SameMasks /\ toSender # None =>
           \A data : data.u = toSender.u => (SenderAccepts(data) <=> ChangedWithCorrelation(data)))
<1>1. ASSUME Pace, Faithful, altered = {}, SameMasks, toSender # None, NEW data, data.u = toSender.u
      PROVE  SenderAccepts(data) <=> ChangedWithCorrelation(data)
  <2> DEFINE s == sender.ote_sender
             chi == Challenges(1, toSender.u)
             sum(i) == WeightedSum(RowsOf[i], chi)
             x == toSender.verify_x
             x2 == data.verify_x
  <2>1. Correlated(s, receiver.ote_receiver) /\ s.correlation \subseteq Row
    <3>1. Correlated(s, receiver.ote_receiver)
      BY <1>1, SentCorrelated DEF SameMasks
    <3> QED BY <1>1, <3>1 DEF Faithful, Ordered, SameMasks, SetUp
  <2>2. toSender = Sent(receiver.ote_receiver)
    BY <1>1 DEF Faithful, Untouched
  <2>3. OTEConsistent(s, RowsOf, x, toSender.verify_t, chi)
    <3>1. RowsOf = SenderRows(s, 1, toSender.u)
      BY DEF RowsOf
    <3> HIDE DEF s
    <3> QED BY <2>1, <2>2, <3>1, ExtensionAccepted
  <2>4. SenderAccepts(data) <=> OTEConsistent(s, RowsOf, x2, data.verify_t, chi)
    BY <1>1 DEF SenderAccepts, RowsOf
  <2>5. \A i \in Row : sum(i) = SymDiff(toSender.verify_t[i], IF i \in s.correlation THEN x ELSE {})
    BY <2>3 DEF OTEConsistent
  <2>6. OTEConsistent(s, RowsOf, x2, data.verify_t, chi) <=>
          \A i \in Row : sum(i) = SymDiff(data.verify_t[i], IF i \in s.correlation THEN x2 ELSE {})
    BY DEF OTEConsistent
  <2>7. \A a, b, c, d : /\ SymDiff(a, b) = SymDiff(c, d) <=> SymDiff(c, a) = SymDiff(d, b)
                        /\ SymDiff(a, {}) = a /\ (a = c <=> SymDiff(c, a) = {})
    BY DEF SymDiff
  <2> HIDE DEF sum, x, x2, s
  <2>8. ASSUME NEW i \in Row
        PROVE  (sum(i) = SymDiff(data.verify_t[i], IF i \in s.correlation THEN x2 ELSE {})) <=>
               (SymDiff(data.verify_t[i], toSender.verify_t[i]) =
                  IF i \in s.correlation THEN SymDiff(x2, x) ELSE {})
    <3>1. CASE i \in s.correlation
      BY <2>5, <2>7, <3>1
    <3>2. CASE i \notin s.correlation
      BY <2>5, <2>7, <3>2
    <3> QED BY <3>1, <3>2
  <2> QED BY <2>4, <2>6, <2>8 DEF ChangedWithCorrelation, s, x, x2
<1>2. Pace /\ Faithful => (altered = {} /\ SameMasks /\ toSender # None =>
        \A data : data.u = toSender.u => (SenderAccepts(data) <=> ChangedWithCorrelation(data)))
  BY <1>1
<1> QED BY <1>2, FaithfulAlways, PTL
-----------------------------------------------------------------------------
\* Whatever is drawn and whatever arrives altered, the blocks of a run are multiplied by
\* its challenges modulo f (extension.rs 905-991).
THEOREM BlocksAreMultipliedModuloF == Spec => []FieldMulIsProduct
<1>1. ASSUME NEW sid, NEW u, NEW k \in {1, 2} PROVE Challenges(sid, u)[k] \in FieldElement
  <2>1. Challenges(sid, u)[k] = Chi(sid, k, u)
    BY DEF Challenges
  <2>2. Chi(sid, k, u) \subseteq 0..(OT_SECURITY - 1)
    BY DEF Chi
  <2> QED BY <2>1, <2>2 DEF FieldElement
<1>2. FieldMulIsProduct
  <2> SUFFICES ASSUME NEW k \in {1, 2}, NEW a \in FieldElement
               PROVE  LET chi == Challenges(1, toSender.u)[k]
                      IN  FieldMul(a, chi) = Product(a, chi)
    BY DEF FieldMulIsProduct
  <2>1. \A b \in FieldElement : FieldMul(a, b) = Product(a, b)
    BY FieldMulComputesTheProduct
  <2> QED BY <1>1, <2>1
<1> QED BY <1>2, PTL
-----------------------------------------------------------------------------
(* The proofs of the base OT, over any group of prime order.               *)

Euclid == INSTANCE Shamir_proofs WITH
  Prime <- SmallOrder, ShareCount <- 1, Threshold <- 1, IndexWidth <- 1

\* What Shamir assumes of its constants.
LEMMA EuclidAssumption ==
  /\ 1 \in Nat /\ 1 \in 1..1
  /\ 1 \in Nat /\ 2 ^ 1 \in Nat /\ 1 < 2 ^ 1
  /\ SmallOrder \in Nat /\ 1 < SmallOrder
  /\ \A d \in 2..(SmallOrder - 1) : SmallOrder % d # 0
BY RunAssumption

\* A sum of scalars is that of the numbers that stand for them.
LEMMA SumReduced ==
  ASSUME NEW a \in Int, NEW b \in Int
  PROVE  ((a % SmallOrder) + (b % SmallOrder)) % SmallOrder = (a + b) % SmallOrder
<1> DEFINE r == a % SmallOrder
           s == b % SmallOrder
<1>1. r \in Int /\ s \in Int /\ Euclid!Zero(r - a) /\ Euclid!Zero(s - b)
  BY EuclidAssumption, Euclid!Reduced
<1> HIDE DEF r, s
<1>2. Euclid!Zero((r - a) + (s - b))
  BY <1>1, EuclidAssumption, Euclid!ZeroSum
<1>3. (r - a) + (s - b) = (r + s) - (a + b)
  BY <1>1
<1>4. r + s \in Int /\ a + b \in Int /\ Euclid!Zero((r + s) - (a + b))
  BY <1>1, <1>2, <1>3
<1>5. (r + s) % SmallOrder = (a + b) % SmallOrder
  BY <1>4, EuclidAssumption, Euclid!SameReduced
<1> QED BY <1>5 DEF r, s

LEMMA TwoTerms ==
  ASSUME NEW k \in Int, NEW m \in Int, NEW l \in Int, NEW n \in Int
  PROVE  Group!Add(Group!Mul(k, m), Group!Mul(l, n)) = (k * m + l * n) % SmallOrder
<1>1. k * m \in Int /\ l * n \in Int
  OBVIOUS
<1> QED BY <1>1, SumReduced DEF Group!Add, Group!Mul

\* Unless u is p times h, one commitment can be explained for one challenge only.
LEMMA OneExplained ==
  ASSUME NEW h \in Group!Scalar, NEW p \in Group!Scalar, NEW u \in Group!Scalar,
         u # Group!Mul(p, h)
  PROVE  OneChallenge(h, p, u)
<1> SUFFICES ASSUME NEW c \in Group!Scalar, NEW d \in Group!Scalar,
                    NEW y \in Group!Scalar, NEW z \in Group!Scalar,
                    Group!Explained(Half(h, p, u, y), c)
                      = Group!Explained(Half(h, p, u, z), d)
             PROVE  c = d
  BY DEF OneChallenge
<1>0. PICK g \in Group!Scalar : g = Group!Generator
  BY RunAssumption DEF Group!Generator, Group!Scalar
<1>1. /\ h \in Int /\ p \in Int /\ u \in Int /\ g \in Int
      /\ c \in Int /\ d \in Int /\ y \in Int /\ z \in Int
      /\ SmallOrder \in Nat /\ SmallOrder > 2
  BY RunAssumption DEF Group!Scalar
<1> DEFINE gc == g * y + p * c
           gd == g * z + p * d
           hc == h * y + u * c
           hd == h * z + u * d
<1>2. gc % SmallOrder = gd % SmallOrder /\ hc % SmallOrder = hd % SmallOrder
  <2>1. /\ Group!Add(Group!Mul(g, y), Group!Mul(p, c))
             = Group!Add(Group!Mul(g, z), Group!Mul(p, d))
        /\ Group!Add(Group!Mul(h, y), Group!Mul(u, c))
             = Group!Add(Group!Mul(h, z), Group!Mul(u, d))
    BY <1>0 DEF Half, Group!Explained, Group!Simulated
  <2>2. Group!Add(Group!Mul(g, y), Group!Mul(p, c)) = gc % SmallOrder
    BY <1>1, TwoTerms
  <2>3. Group!Add(Group!Mul(g, z), Group!Mul(p, d)) = gd % SmallOrder
    BY <1>1, TwoTerms
  <2>4. Group!Add(Group!Mul(h, y), Group!Mul(u, c)) = hc % SmallOrder
    BY <1>1, TwoTerms
  <2>5. Group!Add(Group!Mul(h, z), Group!Mul(u, d)) = hd % SmallOrder
    BY <1>1, TwoTerms
  <2> HIDE DEF gc, gd, hc, hd
  <2> QED BY <2>1, <2>2, <2>3, <2>4, <2>5
<1>3. gc \in Int /\ gd \in Int /\ hc \in Int /\ hd \in Int
  BY <1>1
<1>4. Euclid!Zero(gc - gd) /\ Euclid!Zero(hc - hd)
  <2> HIDE DEF gc, gd, hc, hd
  <2> QED BY <1>2, <1>3, EuclidAssumption, Euclid!SameReduced
<1>5. h * (gc - gd) - (hc - hd) = (h * p - u) * (c - d)
  BY <1>1, <1>0 DEF Group!Generator
<1>6. Euclid!Zero(h * (gc - gd) - (hc - hd))
  <2> HIDE DEF gc, gd, hc, hd
  <2>1. gc - gd \in Int /\ hc - hd \in Int /\ h * (gc - gd) \in Int
    BY <1>1, <1>3
  <2>2. Euclid!Zero(h * (gc - gd))
    BY <1>1, <1>4, <2>1, EuclidAssumption, Euclid!ZeroTimes
  <2> QED BY <1>4, <2>1, <2>2, EuclidAssumption, Euclid!ZeroSum
<1>7. ~Euclid!Zero(h * p - u)
  <2>1. u % SmallOrder = u
    BY <1>1 DEF Group!Scalar
  <2>2. (h * p) % SmallOrder = Group!Mul(p, h)
    BY <1>1 DEF Group!Mul
  <2>3. h * p \in Int
    BY <1>1
  <2> QED BY <1>1, <2>1, <2>2, <2>3, EuclidAssumption, Euclid!SameReduced
<1>8. Euclid!Zero(c - d)
  <2>1. h * p - u \in Int /\ c - d \in Int
    BY <1>1
  <2> HIDE DEF gc, gd, hc, hd
  <2> QED BY <1>5, <1>6, <1>7, <2>1, EuclidAssumption, Euclid!NoDivisors
<1>9. c \in Euclid!Scalar /\ d \in Euclid!Scalar
  BY DEF Euclid!Scalar, Group!Scalar
<1> QED BY <1>8, <1>9, EuclidAssumption, Euclid!SameScalar

\* Over every group of prime order, an EncProof of no bit can be completed for one sum of
\* challenges per pair of commitments and no more (proofs.rs 904-975).
THEOREM EncProofsAreSound == Spec => []EncProofSound
<1>1. tape \in Nat => EncProofSound
  <2> SUFFICES ASSUME tape \in Nat,
                      NEW h \in Group!Scalar \ {0}, NEW v \in Group!Scalar \ {0},
                      NEW w \in Group!Scalar \ {0}, NEW u, u = 1 + (tape % (SmallOrder - 1)),
                      Group!StatementsAgree([proof0 |-> Half(h, v, u, 0), proof1 |-> Half(h, w, u, 0)]),
                      ~Encrypts(h, u, v)
               PROVE  OneChallenge(h, v, u) /\ OneChallenge(h, w, u)
    BY DEF EncProofSound
  <2>1. u \in Group!Scalar
    BY RunAssumption DEF Group!Scalar
  <2>2. v = Group!Add(w, h)
    BY DEF Group!StatementsAgree, Half, Group!Simulated
  <2>3. u # Group!Mul(v, h) /\ u # Group!Mul(w, h)
    BY <2>2 DEF Encrypts
  <2> QED BY <2>1, <2>3, OneExplained
<1>2. Init => tape \in Nat
  BY RunAssumption DEF Init
<1>3. tape \in Nat /\ [Next]_vars => (tape \in Nat)'
  BY TapeKept
<1> QED BY <1>1, <1>2, <1>3, PTL DEF Spec
=============================================================================
