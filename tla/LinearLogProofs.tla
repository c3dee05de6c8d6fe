--------------------------- MODULE LinearLogProofs ---------------------------
(***************************************************************************)
(* Address arithmetic of the linear logs: which bucket an offset lies in,  *)
(* and why runs of different threads share no cell.                        *)
(***************************************************************************)
EXTENDS LinearLog, TLAPS

\* Bucket and cell of an offset.
LEMMA DivMod ==
  ASSUME NEW B \in Nat \ {0}, NEW a \in Nat
  PROVE  /\ a \div B \in Nat
         /\ a % B \in 0..(B - 1)
         /\ a = B * (a \div B) + (a % B)
  OBVIOUS

\* An offset that is not smaller lies in no earlier bucket.
LEMMA DivMonotone ==
  ASSUME NEW B \in Nat \ {0}, NEW a \in Nat, NEW b \in Nat, a <= b
  PROVE  a \div B <= b \div B
<1> DEFINE p == a \div B
           q == b \div B
           r == a % B
           s == b % B
<1>1. /\ p \in Nat /\ q \in Nat /\ r \in 0..(B - 1) /\ s \in 0..(B - 1)
      /\ a = B * p + r /\ b = B * q + s
  BY DivMod
<1> HIDE DEF p, q, r, s
<1>2. SUFFICES ASSUME p >= q + 1
               PROVE  FALSE
  BY <1>1 DEF p, q
<1>3. B * p >= B * (q + 1)
  BY <1>1, <1>2
<1>4. QED
  BY <1>1, <1>3

\* The cells a memcpy touches are addresses in the bucket of its first cell.
LEMMA RunCells ==
  ASSUME NEW B \in Nat \ {0}, NEW o \in Nat, NEW len \in Nat
  PROVE  /\ BucketIdx(o, B) \in Nat
         /\ BucketOff(o, B) \in Nat
         /\ Run(o, len, B) \subseteq {BucketIdx(o, B)} \X Nat
<1>1. o \div B \in Nat /\ o % B \in Nat
  BY DivMod
<1>2. QED
  BY <1>1 DEF Run, Addr, BucketIdx, BucketOff

\* Runs over disjoint intervals of offsets share no cell, although each of them
\* stays in the bucket it starts in.
LEMMA RunsApart ==
  ASSUME NEW B \in Nat \ {0},
         NEW a \in Nat, NEW la \in Nat, NEW b \in Nat, NEW lb \in Nat, a + la <= b
  PROVE  Run(a, la, B) \cap Run(b, lb, B) = {}
<1>1. SUFFICES ASSUME NEW i \in 0..(la - 1), NEW j \in 0..(lb - 1),
                      Addr(a, i, B) = Addr(b, j, B)
               PROVE  FALSE
  BY DEF Run
<1> DEFINE p == a \div B
           q == b \div B
           r == a % B
           s == b % B
<1>2. p = q /\ r + i = s + j
  BY <1>1 DEF Addr, BucketIdx, BucketOff
<1>3. /\ p \in Nat /\ q \in Nat /\ r \in Nat /\ s \in Nat
      /\ a = B * p + r /\ b = B * q + s
  BY DivMod
<1> HIDE DEF p, q, r, s
<1>4. B * p \in Nat /\ B * p = B * q
  BY <1>2, <1>3
<1>5. QED
  BY <1>2, <1>3, <1>4

=============================================================================
